# Verification of the interview preparation service

The service helps a candidate prepare for interviews: files are uploaded and indexed, a
language model answers questions, analyses job descriptions and conducts interviews in
several turns, and the results become training tasks and résumé texts. The backend is a
FastAPI application over PostgreSQL with worker processes (`src/backend/app`, about 20 000
lines), the frontend a React application (`src/frontend/src`). Nearly all coordination goes
through the database: there is no queue server, no cache and no shared memory between
processes.

This directory holds TLA+ models of the parts whose correctness depends on what several requests,
workers, threads and crashes do to the same rows, TLC configurations that check them on small
instances, and TLAPS proofs for every value of the constants. The algorithms that choose evidence,
questions and contexts are there too, as operators that the machines around them use. File names
below are relative to `src/backend/app`.

## 1. Inventory

| Component | State | Operations | Interacts with | Hard | Correct means |
|---|---|---|---|---|---|
| Job queue (`services/background_job_service.py`) | `background_jobs`, events, artifacts | create, cancel, claim, progress, renew, complete, fail, recover, clean up, release orphans | quota (reserve, commit, release), worker, task API | every handler but the claim and the heartbeat reads a row and updates it later by primary key; three commits to finish a job | life cycle as documented; paid iff succeeded; at most one charge; jobs end |
| Worker (`worker.py`) | heartbeats, thread pool, advisory lock | claim loop, run a job, heartbeat thread, maintenance pass | queue, executor | death at any step, lease against a stalled thread, exceptions in handlers of exceptions | one execution at a time while leases hold |
| Executor, task API (`services/background_job_executor.py`, `api/tasks.py`) | none of its own | checkpoints, dispatch by type, resume of `interview_start` | queue, all long services | repeated execution after a crash | work that took effect is not repeated |
| Daily quota (`services/usage_service.py`) | `usage_events`, `daily_usage_counters` | reserve, commit, release, time out | every metered service, the queue | row locks in two tables, 30-minute time-out, midnight | exact counters, limit kept, charges final |
| Interview flow (`services/interview_flow_service.py`, `interview_session_service.py`, `evaluation_service.py`, `agents/`) | `interview_sessions`, `interview_turns`, evaluations, agent runs | create, start, answer, evaluate, decide, cancel, complete, delete | quota, model, queue, improvements | many commits per answer, concurrent answers, cancellation | turns in order, two follow-ups at most, one evaluation per turn, a session can always go on or end |
| Improvements (`services/improvement_generation_service.py`, `improvement_task_service.py`) | `improvement_status`, tasks | claim, generate, fail, update | interview flow, model | crash while `generating` | tasks created once; generation can be retried |
| Résumé texts (`services/resume_generation_service.py`) | descriptions, versions | generate, edit, delete | quota, queue, evidence | charged before stored; repeated execution | one version per charge |
| Sign-in sessions (`services/auth_session_service.py`, `core/security.py`) | `auth_sessions` | create, rotate, revoke, verify CSRF | all API handlers | concurrent refresh, revocation, limit | one refresh per token wins; a revoked session stays revoked |
| Password reset (`services/password_reset_service.py`) | reset requests | create, approve, reject | sessions, administration | two approvals | decided once; approval revokes sessions |
| Rate limit (`services/rate_limit_service.py`) | buckets | count, clean up | API handlers | window edges, concurrent upserts | never more than the limit per window |
| Uploads (`services/upload_security.py`, `api/files.py`) | files, storage reservations | reserve, move, commit, delete | vector store | expiry against a slow upload, crash between file and row | quota of bytes kept; no orphan file or row |
| Vector store (`services/vector_store.py`) | index directories | rebuild, add, delete, search | uploads, queue | rebuild against uploads | the index reflects the files |
| Retrieval (`services/retrieval_*.py`, `evidence_set_selector.py`, ...) | none | analyse, rank, grade, select | vector store, agents | arithmetic of scores, diversity | selection bounds and order |
| Agents (`agents/`) | agent runs | build context, call, validate | interview flow | budgets, retries | context within budget; structured output or an error |
| Chat, agent, job analysis, web search | records | one request each | quota, model | failure between reserve and settle | settled exactly once |
| Administration (`services/admin_service.py`), registration, target jobs, profile | users, settings, audit | change role, state, limits | sessions | last administrator, single active target | always an administrator |
| Account deletion, retention | everything of a user | delete, expire | files, vector store, database | partial failure | nothing left, nothing of others gone |
| Configuration, readiness, HTTP security | none | validate | all | | |
| Frontend (`hooks/useBackgroundJob.js`, `api/client.js`, `auth/AuthProvider.jsx`) | polled job, sign-in state | poll, cancel, refresh | API | late answers after a switch | one refresh in flight; no stale result shown |

`PROJECT.json` lists the components with their status and the hazards at their lines.

## 2. Modules

```
JobLifecycle            what a job's status may do (abstract)
  ^ implemented by
BackgroundJobs          queue, worker, executor, the requests on jobs     <- MCBackgroundJobs
  BackgroundJobsProofs  theorems

UsageLedger             what the daily quota promises (abstract)
  ^ implemented by
UsageQuota              reserve, commit, release, time out, with row locks <- MCUsageQuota
  UsageQuotaProofs      theorems

InterviewScript         what one interview promises (abstract)
  ^ implemented by
InterviewFlow           the requests and jobs on one interview session     <- MCInterviewFlow
  InterviewFlowProofs   theorems

FileStorage             a user's files in database, disk and index         <- MCFileStorage
  FileStorageProofs     theorems

AuthSessions            sign-in sessions, resets, accounts, the browser     <- MCAuthSessions
  AuthSessionsProofs    theorems

OrderedLists            sorting, least elements, filters, totals (operators)
  ^ extended by QueryAnalysis and InterviewContext
QueryAnalysis           a question's facets and variants (operators)
  ^ extended by
RetrievalRanking        fusion, ranking, judgement, selection (operators)
  ^ extended by
EvidenceRetrieval       one retrieval beside uploads and deletions          <- MCRetrieval
QuestionPlanning        which question comes next             }             <- MCInterviewAgents
InterviewContext        an agent's context and its answer     }
  InterviewAgentsProofs  theorems about the last two and EvidenceRetrieval
RateLimit               the counters of fixed windows
MaintenanceLock         the maintenance passes of several workers
JobPolling              a page that follows its background job
  JobPollingProofs      theorem
ResumeGeneration        the attempts of one project description
TargetJobs              the one active target job
AnswerGeneration        the attempts of one answer
  ^ the nine machines above, composed                                       <- MCCompanions
  CompanionsProofs      theorems about five of them
```

### BackgroundJobs

| Model | Code |
|---|---|
| `row[j]` | a row of `background_jobs`: status, `worker_id`, `lease_expires_at` (none, live, expired), `attempt_count`, `quota_event_id`, the request it was created for, whether its artifact holds a result |
| `evt[q]`, `used[q]` | the usage event of an idempotency key and the units its charge added to the day's counter |
| `proc[p]` | a process: where it is, the job it has in hand, the copy of the row its session loaded (`mem`) and the status it decided on (`goal`) |
| `todo`, `orphans` | the two snapshots of a maintenance pass |
| `worked` | jobs whose work took effect outside the queue |
| `up`, `crashes` | live worker processes; deaths so far |

The code updates rows through an object-relational mapper: it loads a row, decides, and
flushes an UPDATE by primary key of the columns that changed in its copy. This is modelled
literally. `CancelLoad`, `Handle`, `Timeout`, `Complete`, `Recheck`, `Snapshot` and
`RecoverNext` load and decide; `Settle` and `Finish` flush (`Merge`), with `Permitted` tested
on the copy, as `transition_job` does. `Settle` stands for flushes outside `run_job`'s `try`
block and `Finish` for those inside, since a refused transition goes different ways there.
`AtomicHandlers = TRUE` keeps handlers of one row from overlapping, to tell what follows from
interleaved handlers from what follows from interleaved commits.

A successful attempt is `Claim`, `Start`, `Check` and `Ping` at 5, 20 and 90 percent with
`Resume` and `Work` between them, `Complete`, `Store` (the artifact), `Reload`, `Charge`
(`commit_usage`), `Recheck`, `Finish`. Every exception path of `run_job` is there:
`onCancelled`, `onRetryable` and `onPermanent` stand for its three handlers, which call
`fail_job` (`Handle`), and an exception in a handler leaves the thread (`SettleRefused`).

`Charge` and `ReserveQuota` take `usage_service` as atomic. `UsageQuota` checks that it may be
taken so: its operations implement atomic ones of `UsageLedger`. The exceptions are the releases
of an orphan sweep, which both modules model as they are. Each tests a copy of the event loaded
before the lock is granted: the first the one of the sweep's query (`OrphanSnapshot`), the next one
an unlocked reload, since a commit expires the copies and the loop reads `event.id` again
(`OrphanReload`, `background_job_service.py:692`); `OrphanRelease` then releases the event, whatever
its row says by now (`usage_service.py:411-417`).

### UsageQuota

| Model | Code |
|---|---|
| `evt[k]` | the row of `usage_events` with key `k`: status (`failed`, `released` and `expired` are one, `returned`: no code tells them apart), `usage_date`, older than 30 minutes or not |
| `counter[d]` | the row of `daily_usage_counters` of day `d` |
| `proc[p]` | a database session in an operation; its row locks follow from where it is (`EventLocksOf`, `CounterLocksOf`) |
| `today` | the natural day in the application's time zone |

`reserve_usage` is `Begin`, `Scan` and `ReturnStale` (`_release_stale_reservations`), `LookUp`,
`CountReservation` (the conditional UPDATE) and `Store` (insert or update of the event, and the
commit, or the rollback when the key was inserted meanwhile); `commit_usage` is `LockEvent`,
`LockCounter`, `CommitApply`; `release_usage` the same with `ReleaseApply`. `WorkDone` is the
caller, a synchronous handler; `SettleJob` is the queue, which settles events by their
identifiers from any process.

A statement that locks several rows locks them one by one, in the order in which its plan visits
them (`Place`): `VisitStale` is one row of the time-out scan, tested again once it is locked. A row
that is not stale any more is left out of the result but keeps its lock until the transaction ends
(`kept`). The orphan sweep is `Sweep` (the events its queries loaded), then for each of them
`LockSwept`, `LockCounter` and `ReleaseApply`, and `Reload` for the next. A copy that says the event
is settled is returned with the row locked and without a commit (`usage_service.py:417-418`), so
that the loop goes on to the next event and its counter with that lock (`kept` again). The sweep takes any reserved
events of jobs: which jobs have ended or are gone is the queue's affair and is in `BackgroundJobs`.

So the scan and the sweep may each hold the event that the other needs next. This circle is possible
in the code, and PostgreSQL resolves it: `Victim` is its deadlock detector, which aborts one
transaction of a circle. Nothing in the code depends on which, but the request ends with an error or
the sweep is left to the next pass. `DeadlockOnlyByKept` says that this is the only kind of circle:
without a lock kept on a settled event, requests, settlements and time-outs wait for each other in
no circle. Any other settlement that finds nothing to do drops its lock in the model at once, since
its caller waits for no other row before its next commit.

### InterviewFlow

| Model | Code |
|---|---|
| `session` | the row of `interview_sessions`: `status`, with `deleted` for no row, and `improvement_status` |
| `turns` | the rows of `interview_turns` in the order of `sequence_number`: main question and follow-up number, the answer, and the answer that has been evaluated |
| `usage[i]` | the usage event `interview-turn:<id>` of turn `i` |
| `proc[p]` | a request or a job thread: the commit it is before, and what it remembers of what it read (`turn_id`, the answer, `evaluation_reservation`, `follow_up_count`, the decision, the numbers of the next turn) |

Starting is `StartLoad` and `StartCommit`. `answer_interview_turn` is `AnswerLoad`; `Record` (the
conditional UPDATE) with `ReloadWon` or `ReloadLost`; `Reserve`; `Count`; in the graph
`Evaluate` (`persist_turn_evaluation`) and `Decide` (the supervisor's `Clamp` of the model's
choice); `Charge`; `Advance` (the status is read again); and then `Complete` with `Claim` and
`Generate`, or `Place` and `Insert` (`create_interview_turn`: what it reads, and its INSERT under
two unique constraints). A model's failure, and a refused evaluation, is `GraphFailed` with
`SettleFailed`. `GenerateAgain` is the retry of the improvements, `CancelLoad` with `Cancel` the
cancellation, `Delete` the deletion, and `Gone` stands for the exception of a process whose
session was deleted in the meantime. `Age` is the time-out of a reservation.

Each commit and each read that a later commit uses is a step. Reads that no commit separates and
no decision tells apart are one step. `current_main_question` is left out: it is displayed and
decides nothing. Model answers, questions and scores are choices or left out. An answer is a member
of `AnswersTo[i]`, since only its identity matters: a second request with the same answer is a
retry, and one with another is refused.

### FileStorage

| Model | Code |
|---|---|
| `account`, `rows`, `status` | the row of `users`, the rows of `files` and their status |
| `held` | the uploads whose row of `upload_reservations` has not expired |
| `parts`, `disk` | the files in the user's directory, as `.part` and under their final names |
| `vectors` | the files with vectors in Chroma |
| `req[r]` | an upload: the step it is before, what it sent, `used_bytes`, whether its commit raised `IntegrityError`, and the records it is answered with |
| `op[w]` | a deletion, a clean-up or a rebuild: its step, the files to go, in hand, done and failed, and the statuses its session loaded |
| `doomed`, `lost`, `unsettled` | histories: deletion announced; on disk for ever; last rebuild without a commit |

An upload is `Stage` (`stage_upload`), `LookUp` by its idempotency key, `LockUser`, `CountUsed` and
`Reserve` (`reserve_user_storage`: two queries, each with a view of its own, under the lock on the
user's row), `Move`, `Commit`. Every exception ends in `Clean` (`_cleanup_staged_files`), `Release`
(both ignore errors) and, after an `IntegrityError` with a key, `Reread`. A deletion takes
`DropVectors`, `Unlink` and `RemoveRows` for one file (`delete_file`) or several
(`cleanup_expired_data`, whose rows go in one commit). A clean-up is `WipeVectors`, `EraseFiles` and
`Purge`, and goes on to `CloseAccount` when the account is deleted; an administrator's has no
`Purge`. A rebuild deletes the vectors, lists the files, reads and adds one after the other, and
stores the statuses.

The INSERT of a file waits for a reservation in progress, since its foreign key takes a share lock
on the user's row, which `reserve_user_storage` holds FOR UPDATE (`MayInsert`): without that the two
queries could miss a batch that moves from reservation to row between them. An expired reservation is
the same as none: all queries filter by `expires_at`. `EraseFiles` and `Clean` take a set of files in
one step, with any of them kept: a death in the middle leaves what a failure leaves.

### AuthSessions

| Model | Code |
|---|---|
| `sessions[s]` | a row of `auth_sessions`: its user, `revoked_at`, the refresh token it takes next (`gen` stands for the hash), and the generations exchanged so far, a history |
| `users[u]`, `resets[i]` | active or not, whether a temporary password must be changed or has expired; a row of `password_reset_requests`. `epoch` counts the commits after which older sessions must be over, a history that a session copies when it is opened |
| `jar[b]`, `signedIn[t]` | the cookies of a browser, shared by its tabs; whom a tab of `AuthProvider.jsx` shows |
| `h[p]` | a handler of `api/auth.py` or `api/admin.py`: the step it is before, what it has read, its answer |

A tab has one ordinary call and one refresh under way (`apiRequest` shares the promise). `Call` and
`Load` send what the jar holds at that moment; a handler is split into what it checks (`Begin`,
`LookUp`, `Lock`), the sessions it lists (`ListExcess` for the limit at login, `ListAll` for
`revoke_all_user_sessions`) and its commit (`OpenSession`, `Rotate`, `Logout`, `Commit`, `Decide`).
`Rotate` is the UPDATE whose WHERE clause holds the old hash. `Receive` sets the cookies and
`Lose` drops a response. The sessions a change of password revokes are those it listed: a login
between the list and the commit survives, which is why `OldSessionsEnd` speaks of sessions that are
older. The CSRF token is a request that may be refused.

### QueryAnalysis, RetrievalRanking, EvidenceRetrieval

`QueryAnalysis` has `retrieval_query_analysis.py` (facets, variants, intent), `RetrievalRanking`
reciprocal rank fusion (`Fused`), the combined score and the greedy ranking with its penalty for
near duplicates (`RankedOf`), the acceptance of single candidates (`Accepted`) and the choice of a
set (`EvidenceSet`, `Complete`, `Decision`). The weights are the code's, scaled to integers. What
the patterns of the code find in a text is given for each text.

What the code does with `sorted`, `min`, slices, comprehensions and sums is in `OrderedLists`: the
elements of a set sorted by a key that each has (`Sorted`), the first of them (`Least`), the elements
of a list that are in a set (`Within`), a sum (`Total`). Keys are functions and filters are sets, not
operators, so that lemmas about them can be stated and cited.

`EvidenceRetrieval` runs them in the order of the callers. The agents (`search_trusted_evidence`) and
the description (`retrieve_resume_evidence`) read the user's rows before they search, the interview
(`retrieve_interview_evidence`) after; each query of the index is a step (`SearchRoute` for the
variants, `SearchOnce` and `Expand` for the adaptive second query), `Recall` adds the chunks that
earlier turns kept, and `Change` is what another request does to files, rows and vectors in between.

### QuestionPlanning and InterviewContext

`QuestionPlanning` plans one interview, question by question: the target intent (`Target`, the first
uncovered one in the order of main questions or of follow-ups), the model's question, taken when it
is focused, new and about the target alone (`Usable`), and the pool of ready questions (`Fallback`).
`DecideNext` is the supervisor's decision with its two limits.

The code compares the model's question with those asked, and not with the ready ones still to come
(`question_rejection_reason`, `question_progression.py:235-263`). An accepted question may therefore
resemble several ready ones, each of which it makes a duplicate (lines 218-221): then the pool can be
used up before the interview ends, and line 298 raises. It may also resemble a ready question of an
intent it does not mention, and leave that intent uncovered and without the question made for it.
`FallbackRemains` and `IntentsAdvance` hold unless such a question of the model's has been asked
(`UsesSeveral`, `Strays`), and name these as their only exceptions. The models' texts contain one of
each kind (`bothB`, `strayR`), so that the run reaches both: a plan whose pool is exhausted while a
question is due, and one that is off its course.

`InterviewContext` puts one context together: the evidence without blanks and duplicates (`IsKept`),
sections in the order of the code, each cut to what its budget leaves (`Fitting`), and the model's
two attempts at an answer whose references can be resolved (`Answer`, `Unusable`). `Length` is what
the code measures (`_serialized_length`, `interview_context.py:54-62`): the final values of `truncated`
and `omitted_items` and the key `mandatory_over_budget` are written afterwards (lines 98-107) and
counted by no check, so that the text sent may exceed the budget by a few dozen characters.

### RateLimit, MaintenanceLock, TargetJobs

`RateLimit`: a request reads the clock (`Arrive`) and later, in one transaction, deletes expired
buckets and inserts or increments its own (`Enforce`). `admitted` counts, by window, the requests let
through before the window ended.

`MaintenanceLock`: `held[c]` is how often connection `c` holds `pg_try_advisory_lock`, which is
re-entrant. A pass locks on one connection, commits, and unlocks on whichever connection the pool
gives it then (`Unlock`), so that the lock may stay behind. Pooled connections live as long as their
process here. A pool that overflows closes the connections beyond its size when they are given back,
and PostgreSQL then drops their locks in the middle of a pass: `PassesExclusive` is about worker
processes whose threads stay within the pool.

`TargetJobs`: the rows of `target_jobs` of one user. An activation reads its job
(`BeginActivation`), deactivates what is active by one UPDATE (`Select`, `Deactivate`: PostgreSQL
selects, waits for row locks and reads again) and commits what differs from its copy (`Activate`,
or `Rollback` when the partial unique index refuses it).

### ResumeGeneration, AnswerGeneration, JobPolling

`ResumeGeneration` is the attempts of one job that writes a description: `Begin` (reserve),
`Generate`, `Settle` (charge), `Store` and `Report`, each in a transaction of its own. A lease may
lapse under a slow attempt, so the next one runs beside it (`Start`).

`AnswerGeneration` has the nodes of the agent's graph; chat and job analysis take a fixed route
through them. A call is a request that pays for itself or a job whose attempts find the record of
an earlier one (`LookUpRecord`, and the unique constraint in `KeepAnswer`).

`JobPolling` is `useBackgroundJob.js`: the task in localStorage, the timers, `timerRef`, requests that
are answered after their mount is gone, and `onFinished`. `mount` numbers the reloads.

These machines and those of the previous section share no state with each other. `MCCompanions` runs
them side by side: the part that moves is chosen in the first state and the others rest.

## 3. What the runs show

The MC modules only give the constants values. Each run is one
configuration.

| Run | Shows |
|---|---|
| `JobsAnyInterleaving` | one job, two worker processes, a client, maintenance, one crash, leases that lapse under live workers, handlers that overlap: a unit is charged once (`ChargedOnce`), and only for a stored result (`ChargedForResult`) |
| `JobsSharedKey` | three requests, two of which share a usage event because their types meter one usage, reservations that time out under their holders, history cleanup, an orphan sweep with two events on its list: no success is unpaid (`SuccessIsPaid`) |
| `JobsSerialised` | handlers that do not overlap, leases that hold, two clients, history cleanup, one crash, fairness: `ExclusiveExecution`, `FundedWhileActive`, `ImplementsLifecycle`, `JobsEnd`, `ReservationsReturned` |
| `QuotaMidnight` | three sessions, two keys for the only unit of a day, two days, ageing, a crash: counters are exact (`Balanced`), the limit holds (`WithinLimit`), charges are final (`ChargeIsFinal`), the protocol implements the ledger (`ImplementsLedger`) |
| `QuotaTransactions` | a request, a worker and the orphan sweep on three events of jobs, ageing: row locks are waited for in a circle only if a lock was kept on a settled event (`DeadlockOnlyByKept`); the circle of scan and sweep is reached |
| `InterviewOverlapping` | two requests on one session of two main questions, two answers to the first turn, cancellation, deletion, retries, ageing reservations, one crash: `QuestionsNumbered`, `ChargedForEvaluation`, `ImplementsScript` |
| `StorageRaces` | three uploads, two with one idempotency key and equal or different contents, a space of two files, one worker that deletes, cleans up, closes the account or rebuilds, failures and deaths everywhere: `WithinStorage`, `NoOrphan`, `RowKeepsFile`, `RetrySameFile`, `IndexedIsSearchable` |
| `AccountRaces` | three requests of a user with one tab and an administrator with two, in any interleaving of their checks and commits, one response lost: a refresh token is exchanged once (`RefreshedOnce`), a browser with one tab keeps in step with its session (`JarInStep`), logins that overlap exceed the limit of sessions by no more than their number less one (`SessionsBounded`), new credentials end older sessions (`OldSessionsEnd`), an administrator remains (`AdminRemains`), a revoked session stays revoked (`RevokedIsFinal`) |
| `Companions` | retrieval: evidence comes from rows that were the user's and readable when read (`EvidenceIsTrusted`), a sufficient answer covers every required facet (`SufficientIsComplete`), and none is lost that ranking had kept (`NoFacetLost`); questions: the pool runs dry (`FallbackRemains`) and an intent is passed over (`IntentsAdvance`) only after a question of the model's that resembles ready ones it should not; context: nothing is dropped unreported (`ContextAccounts`), a cited source was shown (`ConfirmedIsShown`); `WithinRate`; `PassesExclusive`; the end of a task is handled once, and a task that runs is polled (`TasksFollowed`); a stored description is paid (`StoredIsCharged`); an active target job stays (`ActiveKept`); a tracked answer is one answer (`AnsweredOnce`) |

Three runs are expected to find a violation. Each states what a document, a test or a message of
the repository says and the code does not do:

| Run | The code |
|---|---|
| `JobsTerminalRewritten` | a cancellation decided on a stale copy rewrites a terminal status |
| `QuotaSweptCharge` | a release of an orphan sweep can reopen a charged event |
| `InterviewGenerationStuck` | a generation whose process dies leaves `generating`, which refuses every later attempt with "please try again later" |

`ChargedOnce` is stated for keys in use by one job each. `reserve_usage` keeps the
`related_resource_id` of an event it takes up again (`usage_service.py:339-347`), so that after a
history cleanup and a repeated POST, or with a shared key, the orphan sweep can release what a live
job holds, and the key is charged again; `QuotaSweptCharge` shows one way a charge is taken back.

`ReservationsReturned` and `ImplementsLifecycle` are checked with `AtomicHandlers`: with
overlapping handlers a second stale cancellation rewrites a terminal row before its reservation
is released, which is the disagreement of `JobsTerminalRewritten` over again. `JobsEnd` is, too: a
cancellation decided on a running row and flushed after `fail_job` has put it into `retry_wait`
leaves `cancel_requested` without a lease, a row that recovery does not select.

### Observations

The models contain the following behaviours; the properties are stated so that they hold beside them.

- A job cancelled between its charge and its final status has been charged
  (`background_job_service.py:507`), although `docs/BACKGROUND_JOBS.md:21` says that a cancelled job
  is released.
- A clean-up deletes the row of a file uploaded after it listed the files
  (`account_data_service.py:180`); the file stays on disk.
- After overlapping retries an interview may end in a turn that asks for a main question that
  exists, which is refused although the message says that the same answer may be sent again
  (`interview_flow_service.py:416-418`).
- A request that counts itself only after its window has ended may find the window's row removed and
  is admitted then: the limit holds for those admitted within their window, which is what
  `WithinRate` says.
- The advisory lock may stay with a pooled connection after its pass. Maintenance then pauses until
  that connection is used for a pass again or its process ends.
- The time-out scan of a request and the orphan sweep may lock two events in opposite orders; the
  database aborts one of them (`usage_service.py:136-149`, `background_job_service.py:692`).
- A written question that resembles several ready ones can let the pool run out, and the interview's
  next question raises `ValueError` (`question_progression.py:298`).
- Concurrent logins may exceed the limit of sessions, and two tabs that refresh with one token can
  clear the cookies the winner set. `SessionsBounded` and `JarInStep` say under what conditions not.
- Two administrators who disable each other at once see each other as the remaining one:
  `AdminRemains` is stated for disablings that do not overlap (`DisablesOverlap = FALSE`).
- A page that creates a task while it still asks about one it found in localStorage has two polls
  and one `timerRef`, and a cancellation that is answered late clears localStorage, whichever task it
  holds by then. `TasksFollowed` excludes the first case (`crowded`).
- A description may be charged and then not stored; a second attempt meets its own reservation and
  is answered 409 until it expires.
- An activation that read its target as active while another one deactivates it writes no mark:
  no job is active then.
- The replay of an answer whose route was `web` reports `hybrid`; the deprecated `POST /agent/ask`
  is not metered.
- A question has up to three required facets and a set up to `topK` chunks: `NoFacetLost` is stated
  for no more facets than that (`docs/RETRIEVAL_EVIDENCE_SETS.md:15`).
- The mandatory sections and placeholders of a context may exceed its budget; it is then reported
  as truncated.

### Bounds

`MaxCrashes` bounds deaths of processes, `MaxAttempts` is the code's own limit (3 by default, 2
or 3 here), `LastDay` the natural days. Two threads in two processes are the least with which a
lapsed lease leads to two executions, two clients the least with which requests race, one crash
in any step the least that separates any two commits; a job with two attempts meets every retry
decision (first, last). The violations found need no more, and the invariants proved hold
without bounds. One job suffices for what concerns one row, since jobs meet only in usage events
and in the snapshots of the maintenance; the runs with two jobs are those about a shared
event and about ageing, where the second request releases the first one's reservation.

`JobsSharedKey` has a third request with a key of its own, since a sweep reloads an event only if it
has two on its list. With a death as well it has 12.6 million states, so that no process dies there;
`SuccessPaid` proves its property with any number of deaths.

The runs of `UsageQuota` use as many sessions as are needed for one to hold the event, one the
counter and one to wait. `QuotaMidnight` has two days for a request that crosses midnight, and two
keys for a limit of one unit, so that the limit binds; no session runs the orphan sweep (`Sweepers`),
which `QuotaSweptCharge` shows to reopen a charged event, and all may do the rest (`Servers`,
`Workers`). In
`QuotaTransactions` each session has one part, since a deadlock is a matter of what different parts
lock, and units are released only (`Outcomes`), since a charge locks the same rows as a release.
Three events are needed: one that a scan or a sweep has kept, one it waits for, and one between them.
`Place` is any one order: two scans visit rows in the same order, and the sweep in any.
Symmetry is used only in runs without a liveness property.

`InterviewFlow` is checked with one follow-up per main question (the code has two; the proofs
cover one and two) and two main questions, the least with which a decision has all three outcomes
and a second question depends on the first. Two requests are enough for each pair of commits to
meet, two answers to the first turn for a retry and a conflicting answer; the other turns get one.
Its runs do not check deadlock: a deleted session has nothing left to do.

`StorageRaces` has three uploads: two that race for a key, and one that fits only if one of them
fails or its reservation is gone. Files have size 1, so that the sum of sizes is a number of files,
and each upload sends one; the proofs cover any batch. One worker does one thing after the other,
as often as it likes, beside the uploads. `IndexedIsSearchable` needs that: the vectors and statuses
of two rebuilds, or of a rebuild and a deletion, that overlap may mix, and nothing in the code keeps
them apart. The other invariants are proved for any number of workers. `WithinStorage` is stated for
reservations that are not outlived (`ReservationsHold`): the code has no other safeguard than the 15
minutes. The runs do not check deadlock: there are finitely many uploads.

`AccountRaces` has a limit of one session, so that every second login has to revoke; three requests,
since a race with a password change needs one to log in, one to read and one to commit; one reset
and one lost response, each enough to put a browser out of step. The two tabs of the administrator
are symmetric. It does not check deadlock: requests are finite.

`Companions` has, for retrieval, sets of one and two, candidates that may and may not all be kept,
and one change of the files at any point of the retrieval. The pool has two questions for each of
three intents and a session two main questions with two follow-ups each, the most that the pool must
bear. The context's budget is such that the texts fit, fit partly, or leave no room. Four requests
meet a limit of two in two windows; two workers have two connections each, the least with which a
lock can stay behind; two tasks, two mounts and two polls are the least with which an answer is
late; three attempts of a description, two of an answer; three target jobs and two activations. The
properties of all of these machines are proved without bounds. The run does not check deadlock,
since each machine ends.

### Fairness

`BackgroundJobs!Fairness`: a request or a thread that has begun goes on unless its process dies
(the code has no waits other than row locks, which commits release); a worker polls for jobs;
maintenance runs once a minute in some worker; time passes, so that a lease that nobody renews
lapses. Nothing is assumed of clients (`SubmitLookup`, `CancelLoad`), of crashes, of the renewal
or of the order of claims. That maintenance recurs is what the advisory lock may prevent (see the
observation above). `InterviewFlow!Fairness`: a request
that has begun goes on unless its process dies; no request has to come. It is used by
`InterviewGenerationStuck` alone, so that the counterexample is a process that died and not one
that stands still. The other modules state safety only, and no fairness: a browser need not ask, a
page need not stay.

## 4. What is proved

Theorems are for any number of jobs, requests, workers, threads, clients, keys, days and sessions.
The assumptions are the named `ASSUME`s of the modules (`ConstantsAssumption`, `QuotaAssumption`,
`InterviewAssumption`, `StorageAssumption`, `AuthAssumption` and, in the small machines,
`RateAssumption`, `LockAssumption`, `GenerationAssumption`, `TargetAssumption`,
`AnswerAssumption`, `PollingAssumption`, `RetrievalAssumption`, `ContextAssumption` and those of
`QuestionPlanning`), which TLC evaluates in every run. What a theorem assumes beyond them stands in
its statement (`ASSUME ... PROVE`) and is what the configuration of the run fixes for its property. The inductive invariants were model-checked before they were proved; since they imply
the properties of the runs, they are not properties of runs themselves.

`BackgroundJobsProofs`. `SuccessIsPaid` is not inductive: between the load and the flush the
copy says less and less about the row. `IInv` adds what survives of it. `LocalInv` is what a
process knows of its job although others write the row (a thread past `Store` has a job with a
result; one past `Charge` has one that is paid); `RowInv` is what holds of a row whoever writes
it (the event bound is the request's own, and is bound before the first attempt). The argument is
that rows only grow: no step unsets a result, unbinds an event, lowers `used` or replaces the
request (`Grows`), so that what another process knows stays so (`LocalInvStable`), and each step
has to be examined for its own process and row only (`StepPreserves`, `RowStepPreserves`). The
theorems `Invariance`, `TypeCorrect`, `SuccessPaid`, `Bound` and `ChargedForStoredResult` assume
nothing of leases, handlers or crashes.

`OneCharge` does not either; it assumes that no two requests share a usage event (`KeysApart`) and
that no history is cleaned up, the two ways in which a key comes to be charged again. Its invariant
`Billing` says that an event that is not settled has not been charged, that it belongs to the one
job of its key, and that only the request which created that job is about to reserve it; with
`ListedReserved` the orphan sweep has nothing else on its list. Handlers may overlap, leases lapse
under live workers and reservations age.

Four theorems are about handlers that do not overlap (`AtomicHandlers`), as the properties they state.
`CopiesAreFresh` is their common invariant: a copy that a handler decides on is the row as it is
(`Serialised`). `LifecycleImplemented` maps every step to one of `JobLifecycle` or a stutter
(`StepsOfLife`), and `TerminalKept` says that no status is rewritten that ended a job: what
`JobsTerminalRewritten` refutes for handlers that overlap. `OneExecutor` (with `LeasesHold`) needs
to know whose a job is between its lease and its recovery: `HandedOver` says that a thread at work has
the only claim and a live lease, and that what maintenance has set out to recover has an expired one.
`ReservationsHeld` (with `~ReservationsAge`) rests on `Funded`: the event reserved for a job that may
still run is bound to no other job, on nobody's list of orphans and about to be bound by nobody else.

`UsageQuotaProofs`. `Balanced` and `WithinLimit` are not inductive without the locks: a
transaction must still find what it read. `IInv` adds that no two transactions hold a lock
(`Exclusive`) and what each has read under its own (`LocalInv`). `MovePreserves` disposes of the
steps that only move a session, `CommitPreserves` of the commits, given the cardinalities of the
events of a day before and after (`OnUpdate`). The theorems are `Invariance`, `CountersExact`,
`LimitKept`, `ChargesAreFinal` and `LedgerImplemented` (initial states map to initial states,
every step to a step of the ledger or a stutter). Their hypothesis `Sweepers = {}` excludes the
orphan sweep that `QuotaSweptCharge` shows to break them.

`NoOtherDeadlock` needs no such hypothesis. Take a circle in which nobody has kept the lock of a
settled event. A session that has locked a counter waits for nothing, so everybody in the circle who
is waited for is waited for because of an event, and one that has locked an event to work on it and
waits for another event is a scan (`WhoWaits`). Of the scans in the circle, take the one that waits
for the event with the greatest place: another scan has locked that event and waits for one with a
greater place still (`ScansInOrder`), a contradiction.

`InterviewFlowProofs`, for any number of requests, main questions and answers, with one or two
follow-ups. What a request read may be out of date when it writes, so `QuestionsNumbered` and
`ChargedForEvaluation` say too little to be inductive. `IInv` adds what stays true of it:
`LocalInv` (a request that decided has an evaluated turn, and its main question is that turn's;
one about to insert a follow-up has found the one before it), `RowInv` (a completed session has
its last main question evaluated, a turn that does not exist has no usage event) and
`OneGenerator`. Until they are deleted together, turns only grow: answers and evaluations are set
once and turns appended (`Grows`), hence `LocalInvStable`. Positions cannot exceed the planned
number since keys are distinct (`TurnsBounded`, by the pigeonhole principle); the number of the
next follow-up is its predecessor's and one (`NextFollowUp`). There is one lemma for each action
or kind of action. The theorems are `Invariance`, `Typing`, `QuestionOrder`, `ChargeSafety` and
`Implementation`: `StartCommit` and `Insert` ask, `Record` answers, `Evaluate`, `Complete`,
`Cancel`, claims, `Generate` and `Delete` are the script's, and every other step stutters.

`FileStorageProofs`, for any number of uploads with any batches, of workers, files and keys.
`WithinStorage` counts rows and reservations and is not inductive without what the sums were when
they were read: `UploadInv` says that the rows are still at most `used_bytes` when the reservation is
made, since no row is inserted meanwhile, and that an upload about to move or to commit still holds
its reservation, so that the commit only moves its size (`Reserving`, `Committing`). It also says
where the files of an upload are, which `NoOrphan` and `RowKeepsFile` need. `ReplyInv` says that the
record an upload with a key is answered with belongs to an upload with the same key and content whose
row is stored or doomed, and `RowInv` that a key has one row: hence `RetrySameFile`. A step of a
worker only removes rows, reservations and announced files (`Shrinks`), one of an upload only changes
files of its own (`OwnStep`); `ShrinksPreserves` and `OwnStepPreserves` dispose of what such a step
cannot disturb, and one lemma for each action shows the rest. The theorems are `Invariance`,
`TypeCorrect`, `StorageKept` (under `ReservationsHold`), `NoOrphans`, `RowsKeepFiles` and
`SameRecord`. `IndexedHasVectors` is for one worker (`OneWorker`), beside any number of uploads: `SInv`
adds what a worker may rely on when nobody else deletes or rebuilds. A rebuild has in hand every row
that says indexed, with the status it loaded, and the vectors of all it has done; a clean-up has
announced every such row before it wipes the index (`Indexing`).

`AuthSessionsProofs`, for any number of users, browsers and tabs. A handler commits what it listed
earlier, so `OldSessionsEnd` needs `EndingListed`: a handler about to end a user's sessions has all of
them on its list but those opened after it read. `RefreshedOnce` needs nothing but the WHERE clause of
the rotation, since the generation a row takes next exceeds all it has taken (`Consumed`).
`AdminRemains` needs `OneDisabling`: at most one handler is about to disable an account
(`DisablesOverlap = FALSE`), and if that is an administrator's, another one is active
(`AnotherRemains`). `MoveKeeps` disposes of the steps that leave users and sessions alone,
`WriteKeeps` of those that write; `RevokedRows` and `RotatedRows` say what the two kinds of UPDATE do to
the rows. The theorems are `Invariance`, `TokensAreConsumed`, `OldSessionsAreOver`, `AnAdminRemains`
and, for every step, `RevocationIsFinal`.

`SingleTabStaysInStep` follows a token on its way: no two browsers hold tokens of the same session,
in cookies, requests or responses (`Apart`), and where the cookies of a browser with one tab are
behind, the response that brings the current token is in flight (`InStep`). It is for finitely many
tabs. `SessionsAreBounded` counts ahead: for any set of logins that have listed what they will
revoke, the sessions none of them will revoke and the logins themselves stay within the bound
(`Fits`), so that a commit moves one from the second number to the first. It assumes that every
browser has a tab (`EachHasTabs`), since the bound is in terms of tabs.

`CompanionsProofs`, for any number of requests, windows, processes with any pools, attempts, target
jobs and activations. `RateInv` relates a window's bucket to those admitted: as long as the window
lasts the bucket counts them all, since nothing deletes it (`RateKept`). The lock's invariant says
that a process within a pass has a connection that holds the lock, and that connections of two
processes never hold it at once (`PassesAlone`). `GenerationInv` says that an attempt past `Settle` has
a charged event, which no step reopens (`StoredIsPaid`). The target jobs' invariant says that a
row an activation has deactivated stays locked, and active as committed, until the request ends
(`ActiveStays`). The answer's says that what a try has in hand past `LookUpRecord` agrees with the
record, if there is one (`OneAnswer`).

`InterviewAgentsProofs`, on the questions, for any pool that fulfils `PoolAssumption` (as many ready
questions as the longest interview asks, each unlike the others) and whatever the model writes.
`PoolLasts` is a pigeonhole argument: unless one of the model's resembles several, each question
asked makes at most one ready question a duplicate (`AskedUsesOne`), and the supervisor's limits keep
the number of questions below the size of the pool (`PlanningTypeOK`). `IntentsInTurn` rests on
`FirstIsFresh`: unless a question of the model's has strayed, the first ready question of an open
intent cannot be a duplicate, since what resembles it would have covered the intent, so the fallback
takes it (`FallbackChosen`).

On retrieval, for any finite set of sources with any texts and distances, any questions, sizes and
changes in between. `RetrievalInv` says of each phase what has been read and searched (`Searching`),
that a description has read only rows of its own projects and of resumes (`CopyRead`), and, once it is
decided, that the answer is what the selection makes of candidates that passed (`AnswerHolds`);
`RetrievalInvariance` states it. `RetrievalTrusted` and `RetrievalComplete` follow from what an
acceptable candidate is (`DecisionIs`).
`RetrievalKeepsFacets` is about the greedy choice: as long as a required facet that some candidate
supports is missing, each choice gains one at least (`ChoiceGains`) and none is lost (`ChoiceKeeps`),
so that the facets missing and the choices made are together no more than the facets (`NoneIsLost`).
Underneath are lemmas about the operators: fusing routes gives each source once, as one of its hits
(`FusedIs`), ranking takes only candidates that are near enough (`RankedIs`), and a question has one
to `MaxFacets` facets (`FacetsAre`).

On contexts, for any evidence, any sizes and any budget. `ContextInv` says that what has been put
together keeps within the budget but for what is mandatory or forced (`Assembled`), and of each
section of evidence which items it holds and that it holds them all as long as none has been omitted
(`FirstShown`, `SecondShown`, `ThirdShown`). `FittingIs` says what cutting a section to the budget
leaves. The theorems are `ContextInvariance`, `ContextAccounted` and `ContextConfirmed`; the second
needs that of two items with the same words one is kept (`Represented`).

The recursive functions of these models (sums, cut sections, greedy choices) are shown to exist and
to satisfy their equations by `Recursion`, for the first `n` numbers, and what holds of each of their
values by `Counting`: induction over a set of numbers, which needs no operator as a parameter. Sorting
is not recursive: `SortedIs` shows that the numbers of smaller elements number the elements.

`JobPollingProofs`, for any number of tasks, polls and reloads. A task is handled once because it is
forgotten with its last poll: no task has a timer and a poll at once, and one that was handled has
neither and is not stored (`HandledOnce`). A task that is shown is followed because a mount that is
not `crowded` watches one task only and knows its timer (`OneWatched`); what is shown must include the
tasks that it is about to cancel, whose answers show them again (`Following`). The theorem is
`TasksAreFollowed`.

Every safety property of a passing run is the statement of a theorem. Model-checked only are the
liveness properties `JobsEnd` and `ReservationsReturned` (and the counterexample to
`GenerationEnds`): they follow from fairness, which is stated with ENABLED, and that is out of the
prover's reach. So is what a definition over data computes for every input, where it takes an
induction over that data that cannot be put as one over a set of numbers.

## 5. Not modelled, and the plan

Not modelled, because nothing in them races or spans steps: the registration setting, the profile,
legacy interviews, records and history (single inserts, updates and reads), the comparison of
interviews and their retry (one insert copied from a finished session), configuration, readiness and
HTTP security (stateless checks), deployment files, evaluation scripts and tests (offline).

Modelled in part: registration of workers and their shutdown; the creation of a session with its plan
and the rows of agent runs; the texts of improvement tasks; listings and the audit log of the
administration; the rows of interviews, jobs and histories that an account's deletion removes with the
rest; rendering in the frontend; a second tab of a polling page.

What could be added, in this order: the composition of the interview with the queue (an evaluation
job that is executed again after a crash); the refinement of a composed specification of queue and
quota ledger; and what holds of files with several workers, where rows and index may disagree.

`FileStorage` leaves out other users (every row, directory and vector carries the user's identifier),
a commit whose outcome the client does not learn, and the row counts of the database driver, on which
it depends whether a rebuild that updates a deleted row fails: both outcomes are there
(`SaveStatuses`, `RebuildFails`).

Left out for good: contents of prompts and model answers, the text splitter and the embedding model,
formatting, migrations, styling, and the reference documents of the retrieval evaluation.
