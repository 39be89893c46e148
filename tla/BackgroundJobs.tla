--------------------------- MODULE BackgroundJobs ---------------------------
(***************************************************************************)
(* The database-driven task queue: services/background_job_service.py and  *)
(* worker.py, on PostgreSQL at READ COMMITTED.                             *)
(*                                                                         *)
(* A row of background_jobs is written by four kinds of process that share *)
(* nothing but the database: API requests (create, cancel), the threads of *)
(* the worker processes (claim, progress, complete, fail), the heartbeat   *)
(* thread of a running job and the maintenance pass.  Except for the claim *)
(* (FOR UPDATE SKIP LOCKED) and the heartbeat (one conditional UPDATE) a   *)
(* handler loads the row with a plain SELECT, decides on its copy, and     *)
(* flushes an UPDATE ... WHERE id = ? of the columns that differ from the  *)
(* copy.  The load and the flush are separate steps here: proc[p].mem is   *)
(* the copy, Merge is the flush.                                           *)
(*                                                                         *)
(* Left out: progress, phase, message code, error text, event log, input   *)
(* artifacts; the retry back-off (a job in retry_wait may be claimed at    *)
(* any time); the order of claims (created_at, which SKIP LOCKED relaxes   *)
(* anyway).  One user: no query of the service crosses users except the    *)
(* claim and the maintenance.                                              *)
(***************************************************************************)
EXTENDS Integers, FiniteSets

CONSTANTS
    Jobs,             \* job identifiers (uuid4: never drawn twice)
    Requests,         \* (task type, idempotency key) pairs a client may POST
    Quotas,           \* idempotency keys of usage_events of one usage type
    QuotaOf,          \* the usage event of a request, None for unmetered types
    Resumable,        \* requests whose finished work is found again (interview_start)
    Workers,          \* worker process incarnations: worker_id is drawn per start
    Threads,          \* pool slots of all worker processes
    WorkerOf,         \* the process a slot belongs to
    Clients,          \* concurrent API requests
    Maintenance,      \* the one maintenance pass the advisory lock admits
    None,
    MaxAttempts,      \* max_attempts of every job
    MaxCrashes,       \* bound: process deaths considered
    AtomicHandlers,   \* TRUE: no handler reads a row while another is between
                      \* its own read and its write of that row
    LeasesHold,       \* TRUE: heartbeats reach the database before a lease ends
    ReservationsAge,  \* TRUE: a reservation may outlive its 30 minutes
    HistoryCleanup    \* TRUE: terminal jobs may outlive the history period

Procs == Threads \union Clients \union {Maintenance}

ASSUME ConstantsAssumption ==
    /\ QuotaOf \in [Requests -> Quotas \union {None}]
    /\ Resumable \subseteq Requests
    /\ WorkerOf \in [Threads -> Workers]
    /\ MaxAttempts \in Nat \ {0}
    /\ MaxCrashes \in Nat
    /\ {AtomicHandlers, LeasesHold, ReservationsAge, HistoryCleanup} \subseteq BOOLEAN
    /\ None \notin Jobs \union Requests \union Quotas \union Workers
    /\ Threads \intersect Clients = {}
    /\ Maintenance \notin Threads \union Clients

VARIABLES
    row,      \* background_jobs
    evt,      \* usage_events of the requests' keys
    used,     \* units of each key added to daily_usage_counters.used
    proc,     \* what each process is doing and the copies it holds
    todo,     \* maintenance: jobs of its snapshot still to recover
    orphans,  \* maintenance: reservations of its snapshot still to release
    up,       \* worker processes that run
    worked,   \* jobs whose work took effect outside the queue's tables
    crashes

vars == <<row, evt, used, proc, todo, orphans, up, worked, crashes>>

Lifecycle == INSTANCE JobLifecycle WITH status <- [j \in Jobs |-> row[j].status]

Terminal == Lifecycle!Terminal
Statuses == Lifecycle!Statuses
Legal == Lifecycle!Legal
Claimable == {"queued", "retry_wait"}
Present(r) == r.status \notin {"absent", "deleted"}
Exists(j) == Present(row[j])

Row == [status : Statuses, worker : Workers \union {None},
        lease : {"none", "live", "expired"}, attempts : 0..MaxAttempts,
        quota : Quotas \union {None}, req : Requests \union {None},
        result : BOOLEAN]

NoRow == [status |-> "absent", worker |-> None, lease |-> "none", attempts |-> 0,
          quota |-> None, req |-> None, result |-> FALSE]

QueuedRow(r) == [NoRow EXCEPT !.status = "queued", !.req = r]

Event == [status : {"absent", "reserved", "succeeded", "released"},
          job : Jobs \union {None}]

-----------------------------------------------------------------------------
(* Process-local state.                                                    *)

ClientSteps == {"insert", "reserve", "reserveFresh", "bind", "rejected"}
HeartbeatSteps == {"check5", "ping5", "resume", "check20", "ping20", "work",
                   "check90", "ping90"}
ThreadSteps == HeartbeatSteps \union
    {"start", "complete", "timeout", "store", "reload", "charge", "recheck",
     "finish", "onCancelled", "onRetryable", "onPermanent"}
MaintenanceSteps == {"recover", "history", "orphans",
                     "releaseFirst", "reloadNext", "releaseNext"}

Steps == {"idle", "settle", "release"}
         \union ClientSteps \union ThreadSteps \union MaintenanceSteps

LocalState == [pc : Steps, at : Jobs \union {None}, mem : Row, goal : Statuses]

Idle == [pc |-> "idle", at |-> None, mem |-> NoRow, goal |-> "absent"]
At(s, j) == [Idle EXCEPT !.pc = s, !.at = j]

\* p has loaded row m of job j and is about to flush a transition to g.
Window(s, j, m, g) == [pc |-> s, at |-> j, mem |-> m, goal |-> g]

\* The steps between a load of a row and the flush decided on it.
WindowSteps == {"settle", "finish", "charge", "ping5", "ping20", "ping90"}
Quiet(j) == AtomicHandlers =>
                \A p \in Procs : ~(proc[p].at = j /\ proc[p].pc \in WindowSteps)

Become(p, local) == proc' = [proc EXCEPT ![p] = local]
Held(t) == row[proc[t].at].worker = WorkerOf[t]

-----------------------------------------------------------------------------
(* transition_job: the copy after the assignments, and the flush.          *)

ReleasingOnRetry ==                                 \* mutant of Releasing
    {"cancelled", "failed", "timed_out", "retry_wait"}
Releasing == {"cancelled", "failed", "timed_out"}

\* fail_job and recover_expired_jobs clear worker and lease before the call
\* for retry_wait, transition_job itself for a terminal status.
Transitioned(m, g) ==
    LET lets_go == g \in Terminal \union {"retry_wait"}
    IN  [m EXCEPT !.status = g,
                  !.worker = IF lets_go THEN None ELSE @,
                  !.lease = IF lets_go THEN "none" ELSE @]

\* UPDATE of the columns in which the copy differs from what was loaded.
Merge(current, loaded, copy) ==
    [current EXCEPT
        !.status = IF copy.status # loaded.status THEN copy.status ELSE @,
        !.worker = IF copy.worker # loaded.worker THEN copy.worker ELSE @,
        !.lease = IF copy.lease # loaded.lease THEN copy.lease ELSE @]

AlwaysPermitted(p) == TRUE                          \* mutant of Permitted
Permitted(p) == \/ proc[p].goal = proc[p].mem.status
                \/ proc[p].goal \in Legal[proc[p].mem.status]

\* The commit of p's transition; to the status already held it is a no-op.
Flush(p) ==
    LET l == proc[p]
    IN  row' = IF l.goal = l.mem.status THEN row
               ELSE [row EXCEPT ![l.at] = Merge(@, l.mem, Transitioned(l.mem, l.goal))]

Resting(p) == IF p = Maintenance THEN At("recover", None) ELSE Idle

\* A transition flushed outside run_job's try block: by a request, by the
\* maintenance, or by fail_job in an exception handler.
Settle(p) ==
    /\ proc[p].pc = "settle"
    /\ Permitted(p)
    /\ Flush(p)
    /\ Become(p, IF proc[p].goal \in Releasing THEN At("release", proc[p].at)
                 ELSE Resting(p))
    /\ UNCHANGED <<evt, used, todo, orphans, up, worked, crashes>>

\* An illegal transition raises: the request answers 409, the exception
\* leaves run_job unseen, the maintenance pass is abandoned.
SettleRefused(p) ==
    /\ proc[p].pc = "settle"
    /\ ~Permitted(p)
    /\ Become(p, Idle)
    /\ todo' = IF p = Maintenance THEN {} ELSE todo
    /\ UNCHANGED <<row, evt, used, orphans, up, worked, crashes>>

Released(e) == [e EXCEPT !.status = IF @ = "reserved" THEN "released" ELSE @]

\* _release_job_quota after the commit of a terminal transition: its own
\* transaction, a no-op unless an event is bound and still reserved.
ReleaseQuota(p) ==
    LET q == row[proc[p].at].quota
    IN  /\ proc[p].pc = "release"
        /\ evt' = IF q = None THEN evt ELSE [evt EXCEPT ![q] = Released(@)]
        /\ Become(p, Resting(p))
        /\ UNCHANGED <<row, used, todo, orphans, up, worked, crashes>>

-----------------------------------------------------------------------------
(* API requests: create_background_job and cancel_background_job.          *)

\* The lookup finds no job for (user, type, key); finding one returns it.
SubmitLookup(c, r) ==
    /\ proc[c].pc = "idle"
    /\ \A j \in Jobs : Exists(j) => row[j].req # r
    /\ Become(c, [At("insert", None) EXCEPT !.mem = QueuedRow(r)])
    /\ UNCHANGED <<row, evt, used, todo, orphans, up, worked, crashes>>

SubmitInsert(c) ==
    LET r == proc[c].mem.req
    IN  /\ proc[c].pc = "insert"
        /\ \A j \in Jobs : Exists(j) => row[j].req # r
        /\ \E j \in Jobs :
              /\ row[j].status = "absent"
              /\ row' = [row EXCEPT ![j] = proc[c].mem]
              /\ Become(c, IF QuotaOf[r] = None THEN Idle ELSE At("reserve", j))
        /\ UNCHANGED <<evt, used, todo, orphans, up, worked, crashes>>

\* The unique constraint refuses the INSERT.  It is emitted by db.flush(),
\* before the try block whose handler returns the existing job.
SubmitRefused(c) ==
    /\ proc[c].pc = "insert"
    /\ \E j \in Jobs : Exists(j) /\ row[j].req = proc[c].mem.req
    /\ Become(c, At("rejected", None))
    /\ UNCHANGED <<row, evt, used, todo, orphans, up, worked, crashes>>

Reply(c) ==
    /\ proc[c].pc = "rejected"
    /\ Become(c, Idle)
    /\ UNCHANGED <<row, evt, used, todo, orphans, up, worked, crashes>>

\* reserve_usage first releases the reservations that have outlived
\* RESERVATION_TIMEOUT_MINUTES, whoever holds them, and commits.
ReleaseStale(c, S) ==
    /\ ReservationsAge
    /\ proc[c].pc = "reserve"
    /\ S # {} /\ \A q \in S : evt[q].status = "reserved"
    /\ evt' = [q \in Quotas |-> IF q \in S THEN Released(evt[q]) ELSE evt[q]]
    /\ Become(c, At("reserveFresh", proc[c].at))
    /\ UNCHANGED <<row, used, todo, orphans, up, worked, crashes>>

\* A new event, or one released before, is reserved (the latter keeps its
\* related_resource_id); one that has succeeded is bound without a charge.
ReserveQuota(c) ==
    LET j == proc[c].at
        q == QuotaOf[row[j].req]
    IN  /\ proc[c].pc \in {"reserve", "reserveFresh"}
        /\ evt[q].status # "reserved"
        /\ evt' = CASE evt[q].status = "absent" ->
                         [evt EXCEPT ![q] = [status |-> "reserved", job |-> j]]
                    [] evt[q].status = "released" ->
                         [evt EXCEPT ![q].status = "reserved"]
                    [] OTHER -> evt
        /\ Become(c, At("bind", j))
        /\ UNCHANGED <<row, used, todo, orphans, up, worked, crashes>>

\* UsageReservationConflict: the job is answered as it is, unbound.
ReserveConflict(c) ==
    /\ proc[c].pc \in {"reserve", "reserveFresh"}
    /\ evt[QuotaOf[row[proc[c].at].req]].status = "reserved"
    /\ Become(c, Idle)
    /\ UNCHANGED <<row, evt, used, todo, orphans, up, worked, crashes>>

\* UsageLimitExceeded: the job is to fail; transition_job loads it afresh.
RejectQuota(c) ==
    LET j == proc[c].at
    IN  /\ proc[c].pc \in {"reserve", "reserveFresh"}
        /\ evt[QuotaOf[row[j].req]].status \in {"absent", "released"}
        /\ Quiet(j)
        /\ Become(c, Window("settle", j, row[j], "failed"))
        /\ UNCHANGED <<row, evt, used, todo, orphans, up, worked, crashes>>

BindQuota(c) ==
    LET j == proc[c].at
    IN  /\ proc[c].pc = "bind"
        /\ row' = [row EXCEPT ![j].quota = QuotaOf[row[j].req]]
        /\ Become(c, Idle)
        /\ UNCHANGED <<evt, used, todo, orphans, up, worked, crashes>>

\* cancel_background_job up to its decision; in any other status it returns.
CancelLoad(c, j) ==
    /\ proc[c].pc = "idle"
    /\ Quiet(j)
    /\ \/ /\ row[j].status \in Claimable
          /\ Become(c, Window("settle", j, row[j], "cancelled"))
       \/ /\ row[j].status = "running"
          /\ Become(c, Window("settle", j, row[j], "cancel_requested"))
    /\ UNCHANGED <<row, evt, used, todo, orphans, up, worked, crashes>>

-----------------------------------------------------------------------------
(* Worker threads: claim_next_job and run_job.                             *)

Ready(j) == /\ row[j].status \in Claimable
            /\ QuotaOf[row[j].req] # None => row[j].quota # None

Exhausted(j) == row[j].attempts >= MaxAttempts

\* SELECT ... FOR UPDATE SKIP LOCKED, update and commit: one step.
Claim(t, j) ==
    /\ proc[t].pc = "idle"
    /\ WorkerOf[t] \in up
    /\ Ready(j)
    /\ Quiet(j)
    /\ ~Exhausted(j)
    /\ row' = [row EXCEPT ![j].status = "running", ![j].worker = WorkerOf[t],
                          ![j].lease = "live", ![j].attempts = @ + 1]
    /\ Become(t, At("start", j))
    /\ UNCHANGED <<evt, used, todo, orphans, up, worked, crashes>>

ClaimExhausted(t, j) ==
    /\ proc[t].pc = "idle"
    /\ WorkerOf[t] \in up
    /\ Ready(j)
    /\ Quiet(j)
    /\ Exhausted(j)
    /\ row' = [row EXCEPT ![j] = Transitioned(@, "failed")]
    /\ Become(t, At("release", j))
    /\ UNCHANGED <<evt, used, todo, orphans, up, worked, crashes>>

Start(t) ==
    LET j == proc[t].at
    IN  /\ proc[t].pc = "start"
        /\ Become(t, IF Held(t) /\ row[j].status = "running"
                     THEN At("check5", j) ELSE Idle)
        /\ UNCHANGED <<row, evt, used, todo, orphans, up, worked, crashes>>

PingOf == [check5 |-> "ping5", check20 |-> "ping20", check90 |-> "ping90"]
AfterPing == [ping5 |-> {"resume"}, ping20 |-> {"work"},
              ping90 |-> {"complete", "timeout"}]

\* _checkpoint: should_cancel loads the row; update_job_progress then tests
\* that same copy, so a terminal row still held raises a retryable error.
Check(t) ==
    LET j == proc[t].at
    IN  /\ proc[t].pc \in DOMAIN PingOf
        /\ Quiet(j)
        /\ Become(t, IF ~Held(t) \/ row[j].status = "cancel_requested"
                       THEN At("onCancelled", j)
                     ELSE IF row[j].status # "running" THEN At("onRetryable", j)
                     ELSE Window(PingOf[proc[t].pc], j, row[j], "running"))
        /\ UNCHANGED <<row, evt, used, todo, orphans, up, worked, crashes>>

\* update_job_progress flushes progress, heartbeat and a new lease.  After
\* the last checkpoint the elapsed time decides how the attempt ends.
Ping(t) ==
    LET j == proc[t].at
    IN  /\ proc[t].pc \in DOMAIN AfterPing
        /\ row' = [row EXCEPT ![j].lease = "live"]
        /\ \E s \in AfterPing[proc[t].pc] : Become(t, At(s, j))
        /\ UNCHANGED <<evt, used, todo, orphans, up, worked, crashes>>

\* interview_start answers from the session an earlier attempt started.
Resume(t) ==
    LET j == proc[t].at
    IN  /\ proc[t].pc = "resume"
        /\ IF row[j].req \in Resumable /\ j \in worked
           THEN \E s \in {"complete", "timeout"} : Become(t, At(s, j))
           ELSE Become(t, At("check20", j))
        /\ UNCHANGED <<row, evt, used, todo, orphans, up, worked, crashes>>

Work(t) ==
    LET j == proc[t].at
    IN  /\ proc[t].pc = "work"
        /\ \/ Become(t, At("check90", j)) /\ worked' = worked \union {j}
           \/ Become(t, At("onRetryable", j)) /\ UNCHANGED worked
           \/ Become(t, At("onPermanent", j)) /\ UNCHANGED worked
        /\ UNCHANGED <<row, evt, used, todo, orphans, up, crashes>>

\* fail_job(timed_out=True), inside run_job's try block.
Timeout(t) ==
    LET j == proc[t].at
    IN  /\ proc[t].pc = "timeout"
        /\ Quiet(j)
        /\ Become(t, IF ~Held(t) THEN Idle
                     ELSE Window("finish", j, row[j],
                                 IF row[j].status = "cancel_requested"
                                 THEN "cancelled" ELSE "timed_out"))
        /\ UNCHANGED <<row, evt, used, todo, orphans, up, worked, crashes>>

-----------------------------------------------------------------------------
(* complete_job: the result, the charge and the status are three commits.  *)

Complete(t) ==
    LET j == proc[t].at
    IN  /\ proc[t].pc = "complete"
        /\ Quiet(j)
        /\ Become(t, IF ~Held(t) THEN At("onRetryable", j)
                     ELSE IF row[j].status = "cancel_requested"
                       THEN Window("finish", j, row[j], "cancelled")
                     ELSE At("store", j))
        /\ UNCHANGED <<row, evt, used, todo, orphans, up, worked, crashes>>

ResultLost(old) == old                              \* mutant of Result
Result(old) == TRUE

Store(t) ==
    LET j == proc[t].at
    IN  /\ proc[t].pc = "store"
        /\ row' = [row EXCEPT ![j].result = Result(@)]
        /\ Become(t, At("reload", j))
        /\ UNCHANGED <<evt, used, todo, orphans, up, worked, crashes>>

NoPayment(m) == "finish"                            \* mutant of Payment
Payment(m) == IF m.quota = None THEN "finish" ELSE "charge"

\* The first attribute read after the commit loads the row again.
Reload(t) ==
    LET j == proc[t].at
    IN  /\ proc[t].pc = "reload"
        /\ Quiet(j)
        /\ Become(t, Window(Payment(row[j]), j, row[j], "succeeded"))
        /\ UNCHANGED <<row, evt, used, todo, orphans, up, worked, crashes>>

ChargeableTwice == {"reserved", "succeeded"}        \* mutant of Chargeable
Chargeable == {"reserved"}

\* commit_usage.  Its commit expires the copy; an event that has succeeded
\* before returns without one; any other status raises.
Charge(t) ==
    LET j == proc[t].at
        q == proc[t].mem.quota
    IN  /\ proc[t].pc = "charge"
        /\ \/ /\ evt[q].status \in Chargeable
              /\ evt' = [evt EXCEPT ![q].status = "succeeded"]
              /\ used' = [used EXCEPT ![q] = @ + 1]
              /\ Become(t, At("recheck", j))
           \/ /\ evt[q].status = "succeeded"
              /\ Become(t, [proc[t] EXCEPT !.pc = "finish"])
              /\ UNCHANGED <<evt, used>>
           \/ /\ evt[q].status \in {"absent", "released"}
              /\ Become(t, At("onRetryable", j))
              /\ UNCHANGED <<evt, used>>
        /\ UNCHANGED <<row, todo, orphans, up, worked, crashes>>

\* transition_job reads job.status of the row as it is after the charge.
Recheck(t) ==
    LET j == proc[t].at
    IN  /\ proc[t].pc = "recheck"
        /\ Quiet(j)
        /\ Become(t, Window("finish", j, row[j], "succeeded"))
        /\ UNCHANGED <<row, evt, used, todo, orphans, up, worked, crashes>>

\* A transition flushed inside the try block; a refused one is handled as a
\* retryable error.
Finish(t) ==
    /\ proc[t].pc = "finish"
    /\ Permitted(t)
    /\ Flush(t)
    /\ Become(t, IF proc[t].goal \in Releasing THEN At("release", proc[t].at) ELSE Idle)
    /\ UNCHANGED <<evt, used, todo, orphans, up, worked, crashes>>

FinishRefused(t) ==
    /\ proc[t].pc = "finish"
    /\ ~Permitted(t)
    /\ Become(t, At("onRetryable", proc[t].at))
    /\ UNCHANGED <<row, evt, used, todo, orphans, up, worked, crashes>>

\* fail_job from an exception handler, up to its decision.
Handle(t) ==
    LET j == proc[t].at
        retry == proc[t].pc = "onRetryable" /\ row[j].attempts < MaxAttempts
    IN  /\ proc[t].pc \in {"onCancelled", "onRetryable", "onPermanent"}
        /\ Quiet(j)
        /\ Become(t, IF ~Held(t) THEN Idle
                     ELSE Window("settle", j, row[j],
                            IF row[j].status = "cancel_requested" THEN "cancelled"
                            ELSE IF retry THEN "retry_wait" ELSE "failed"))
        /\ UNCHANGED <<row, evt, used, todo, orphans, up, worked, crashes>>

-----------------------------------------------------------------------------
(* run_maintenance: recover_expired_jobs, cleanup_job_history and          *)
(* release_orphaned_job_reservations, once a minute.                       *)

LapsedOrLive == {j \in Jobs : row[j].status = "running"} \* mutant of Lapsed
LapsedRunning ==                                    \* mutant of Lapsed
    {j \in Jobs : row[j].status = "running" /\ row[j].lease = "expired"}
Lapsed == {j \in Jobs : /\ row[j].status \in {"running", "cancel_requested"}
                        /\ row[j].lease = "expired"}

RecoveryGoal(m) == IF m.status = "cancel_requested" THEN "cancelled"
                   ELSE IF m.attempts < MaxAttempts THEN "retry_wait" ELSE "failed"

\* The snapshot is loaded by one query: the first job is recovered from it.
Snapshot ==
    /\ proc[Maintenance].pc = "idle"
    /\ \/ /\ Lapsed = {}
          /\ Become(Maintenance, At("history", None))
          /\ UNCHANGED todo
       \/ \E j \in Lapsed :
             /\ Quiet(j)
             /\ todo' = Lapsed \ {j}
             /\ Become(Maintenance, Window("settle", j, row[j], RecoveryGoal(row[j])))
    /\ UNCHANGED <<row, evt, used, orphans, up, worked, crashes>>

\* Each commit expires the rest of the snapshot: the next job is loaded
\* again, and its lease is not looked at again.
RecoverNext ==
    /\ proc[Maintenance].pc = "recover"
    /\ \/ /\ todo = {}
          /\ Become(Maintenance, At("history", None))
          /\ UNCHANGED todo
       \/ \E j \in todo :
             /\ Quiet(j)
             /\ todo' = todo \ {j}
             /\ Become(Maintenance, Window("settle", j, row[j], RecoveryGoal(row[j])))
    /\ UNCHANGED <<row, evt, used, orphans, up, worked, crashes>>

\* job_history_days have passed: no process has the job in hand any more.
Forgotten(j) == /\ row[j].status \in Terminal
                /\ \A p \in Procs : proc[p].at # j
                /\ j \notin todo

PurgeHistory(S) ==
    /\ proc[Maintenance].pc = "history"
    /\ S # {} => HistoryCleanup
    /\ \A j \in S : Forgotten(j)
    /\ row' = [j \in Jobs |-> IF j \in S THEN [NoRow EXCEPT !.status = "deleted"]
                              ELSE row[j]]
    /\ Become(Maintenance, At("orphans", None))
    /\ UNCHANGED <<evt, used, todo, orphans, up, worked, crashes>>

OrphanedByDeletion ==                               \* mutant of Orphaned
    {q \in Quotas : evt[q].status = "reserved" /\ ~Exists(evt[q].job)}

\* Reserved events bound to a terminal job, or created for a job that is gone.
Orphaned == {q \in Quotas :
                /\ evt[q].status = "reserved"
                /\ \/ \E j \in Jobs : row[j].quota = q /\ row[j].status \in Terminal
                   \/ ~Exists(evt[q].job)}

OrphanSnapshot ==
    /\ proc[Maintenance].pc = "orphans"
    /\ orphans' = Orphaned
    /\ Become(Maintenance, IF Orphaned = {} THEN Idle ELSE At("releaseFirst", None))
    /\ UNCHANGED <<row, evt, used, todo, up, worked, crashes>>

\* The copy of event q, read as reserved, that the loop goes on with.
Holding(q) == [At("releaseNext", None) EXCEPT !.mem = [NoRow EXCEPT !.quota = q]]

\* q is dealt with.
OrphanLeft(q) ==
    /\ orphans' = orphans \ {q}
    /\ Become(Maintenance, IF orphans = {q} THEN Idle ELSE At("reloadNext", None))

\* The loaded objects are alive in the session: FOR UPDATE locks the row but
\* the status tested is the copy's "reserved", whatever the row says by now.
OrphanRelease(q) ==
    /\ q \in orphans
    /\ \/ proc[Maintenance].pc = "releaseFirst"
       \/ /\ proc[Maintenance].pc = "releaseNext"
          /\ q = proc[Maintenance].mem.quota
    /\ evt' = [evt EXCEPT ![q].status = "released"]
    /\ OrphanLeft(q)
    /\ UNCHANGED <<row, used, todo, up, worked, crashes>>

\* A commit expires the copies, and the loop reads the next one's id before
\* release_usage locks it: the copy tested is as old as that unlocked read.
OrphanReload(q) ==
    /\ proc[Maintenance].pc = "reloadNext"
    /\ q \in orphans
    /\ \/ /\ evt[q].status = "reserved"
          /\ Become(Maintenance, Holding(q))
          /\ UNCHANGED orphans
       \/ /\ evt[q].status # "reserved"
          /\ OrphanLeft(q)
    /\ UNCHANGED <<row, evt, used, todo, up, worked, crashes>>

-----------------------------------------------------------------------------
(* Time, heartbeats and crashes.                                           *)

\* job_lease_seconds pass.  The heartbeat renews while the status is running
\* and the thread executes; LeasesHold says it does so in time.
LeaseLapses(j) ==
    /\ row[j].status \in {"running", "cancel_requested"}
    /\ row[j].lease = "live"
    /\ LeasesHold /\ row[j].status = "running" =>
          \A t \in Threads : proc[t].at = j => WorkerOf[t] # row[j].worker
    /\ row' = [row EXCEPT ![j].lease = "expired"]
    /\ UNCHANGED <<evt, used, proc, todo, orphans, up, worked, crashes>>

\* renew_job_lease: a late beat revives a lease that has run out.
Renew(t) ==
    LET j == proc[t].at
    IN  /\ proc[t].pc \in HeartbeatSteps
        /\ row[j].status = "running" /\ Held(t)
        /\ row[j].lease = "expired"
        /\ row' = [row EXCEPT ![j].lease = "live"]
        /\ UNCHANGED <<evt, used, proc, todo, orphans, up, worked, crashes>>

\* A worker process dies with its threads; a restart draws a new worker_id.
WorkerCrash(w) ==
    /\ crashes < MaxCrashes
    /\ w \in up
    /\ up' = up \ {w}
    /\ proc' = [p \in Procs |-> IF p \in Threads /\ WorkerOf[p] = w THEN Idle ELSE proc[p]]
    /\ crashes' = crashes + 1
    /\ UNCHANGED <<row, evt, used, todo, orphans, worked>>

\* An API process dies in a request, or the process that runs maintenance.
Crash(p) ==
    /\ crashes < MaxCrashes
    /\ proc[p].pc # "idle"
    /\ Become(p, Idle)
    /\ todo' = IF p = Maintenance THEN {} ELSE todo
    /\ orphans' = IF p = Maintenance THEN {} ELSE orphans
    /\ crashes' = crashes + 1
    /\ UNCHANGED <<row, evt, used, up, worked>>

-----------------------------------------------------------------------------
Init ==
    /\ row = [j \in Jobs |-> NoRow]
    /\ evt = [q \in Quotas |-> [status |-> "absent", job |-> None]]
    /\ used = [q \in Quotas |-> 0]
    /\ proc = [p \in Procs |-> Idle]
    /\ todo = {}
    /\ orphans = {}
    /\ up = Workers
    /\ worked = {}
    /\ crashes = 0

\* What a request goes on to do once it has begun.
ClientStep(c) ==
    \/ SubmitInsert(c) \/ SubmitRefused(c) \/ Reply(c)
    \/ ReserveQuota(c) \/ ReserveConflict(c) \/ RejectQuota(c)
    \/ BindQuota(c)
    \/ Settle(c) \/ SettleRefused(c) \/ ReleaseQuota(c)

\* What a thread goes on to do with the job it holds.
ThreadStep(t) ==
    \/ Start(t) \/ Check(t) \/ Ping(t) \/ Resume(t) \/ Work(t) \/ Timeout(t)
    \/ Complete(t) \/ Store(t) \/ Reload(t) \/ Charge(t) \/ Recheck(t)
    \/ Finish(t) \/ FinishRefused(t) \/ Handle(t)
    \/ Settle(t) \/ SettleRefused(t) \/ ReleaseQuota(t)

ClaimStep(t) == \E j \in Jobs : Claim(t, j) \/ ClaimExhausted(t, j)

MaintenanceStep ==
    \/ Snapshot \/ RecoverNext
    \/ \E S \in SUBSET Jobs : PurgeHistory(S)
    \/ OrphanSnapshot
    \/ \E q \in Quotas : OrphanRelease(q) \/ OrphanReload(q)
    \/ Settle(Maintenance) \/ SettleRefused(Maintenance) \/ ReleaseQuota(Maintenance)

Next ==
    \/ \E c \in Clients :
          \/ \E r \in Requests : SubmitLookup(c, r)
          \/ \E j \in Jobs : CancelLoad(c, j)
          \/ \E S \in SUBSET Quotas : ReleaseStale(c, S)
          \/ ClientStep(c)
    \/ \E t \in Threads : ClaimStep(t) \/ ThreadStep(t) \/ Renew(t)
    \/ MaintenanceStep
    \/ \E j \in Jobs : LeaseLapses(j)
    \/ \E w \in Workers : WorkerCrash(w)
    \/ \E p \in Clients \union {Maintenance} : Crash(p)

Spec == Init /\ [][Next]_vars

-----------------------------------------------------------------------------
(* Properties.                                                             *)

TypeOK ==
    /\ row \in [Jobs -> Row]
    /\ evt \in [Quotas -> Event]
    /\ used \in [Quotas -> Nat]
    /\ proc \in [Procs -> LocalState]
    /\ todo \subseteq Jobs
    /\ orphans \subseteq Quotas
    /\ up \subseteq Workers
    /\ worked \subseteq Jobs
    /\ crashes \in 0..MaxCrashes

\* No interleaving of cancel, completion, recovery and crashes yields a job
\* that is succeeded before its unit was added to the day's counter or before
\* its result was stored (complete_job: result, charge, status).
SuccessIsPaid ==
    \A j \in Jobs : row[j].status = "succeeded" =>
        /\ row[j].result
        /\ row[j].quota # None => used[row[j].quota] > 0

\* A unit is charged only for a job of that key whose result is stored: the
\* user is never charged for an attempt that left nothing to fetch.
ChargedForResult ==
    [][\A q \in Quotas : used'[q] # used[q] =>
          \E j \in Jobs : row[j].quota = q /\ row[j].result]_vars

\* docs/BACKGROUND_JOBS.md: success commits once.  A job executed again after
\* a crash, a lost lease or a refused transition finds its event succeeded and
\* is not charged a second time (keys in use by one job each).
ChargedOnce == \A q \in Quotas : used[q] <= 1

\* A metered job that was ever attempted has its own key's event bound: the
\* claim filter holds whatever cancel, bind and recovery do in between, and a
\* flush of a stale copy never loses the binding.
BoundBeforeRun ==
    \A j \in Jobs : row[j].attempts > 0 => row[j].quota = QuotaOf[row[j].req]

\* While leases hold, two threads never execute the same job: recovery hands
\* a job over only when its worker is gone.
ExclusiveExecution ==
    \A t, u \in Threads :
        t # u /\ proc[t].pc \in ThreadSteps /\ proc[u].pc \in ThreadSteps
          => proc[t].at # proc[u].at

\* A job that may still run has the reservation made for it or has been
\* charged: nobody releases the reservation of a job that is queued, running or
\* waiting.  (An event taken up again by a later job keeps the first one's id,
\* and is released by the orphan sweep once that job is deleted.)
FundedWhileActive ==
    \A j \in Jobs :
        /\ row[j].status \in Claimable \union {"running"}
        /\ row[j].quota # None /\ evt[row[j].quota].job = j
        => evt[row[j].quota].status \in {"reserved", "succeeded"}

\* docs/BACKGROUND_JOBS.md: terminal states are not rewritten.
TerminalImmutable ==
    [][\A j \in Jobs : row[j].status \in Terminal =>
          row'[j].status \in {row[j].status, "deleted"}]_vars

\* The queue implements the life cycle its clients are promised: statuses
\* change only along LEGAL_TRANSITIONS, whoever reads and writes the row.
ImplementsLifecycle == Lifecycle!Spec

-----------------------------------------------------------------------------
(* The inductive invariant behind SuccessIsPaid, ChargedForResult and       *)
(* BoundBeforeRun.                                                          *)

\* Steps that work on a job, and those of a request about to pay for one.
JobSteps == ThreadSteps \union {"settle", "release", "reserve", "reserveFresh", "bind"}
PayingSteps == {"reserve", "reserveFresh", "bind"}

\* The charge for the job of row r is in the counters U, or it is unmetered.
Paid(U, r) == r.quota # None => U[r.quota] > 0

\* What process p knows of the job it has in hand while in local state l,
\* in terms of the table R and the counters U.
LocalInv(R, U, p, l) ==
    /\ l.pc \in JobSteps => l.at \in Jobs
    /\ l.at \in Jobs => Present(R[l.at])
    /\ l.pc = "insert" => l.mem.req \in Requests /\ l.mem = QueuedRow(l.mem.req)
    /\ l.pc \in PayingSteps => QuotaOf[R[l.at].req] # None
    /\ l.pc \in ThreadSteps => p \in Threads /\ R[l.at].attempts > 0
    /\ l.pc = "settle" =>
          l.goal \in {"cancelled", "failed", "cancel_requested", "retry_wait"}
    /\ l.pc = "finish" => l.goal \in {"cancelled", "timed_out", "succeeded"}
    /\ l.pc \in {"reload", "charge", "recheck"} => R[l.at].result
    /\ l.pc = "charge" => /\ l.goal = "succeeded"
                          /\ l.mem.quota # None
                          /\ l.mem.quota = R[l.at].quota
    /\ l.pc = "recheck" \/ (l.pc = "finish" /\ l.goal = "succeeded") =>
          R[l.at].result /\ Paid(U, R[l.at])

\* What holds of a row r whatever its holders do.
RowInv(U, r) ==
    /\ ~Present(r) => r.attempts = 0
    /\ Present(r) => r.req \in Requests /\ r.quota \in {None, QuotaOf[r.req]}
    /\ r.attempts > 0 => r.quota = QuotaOf[r.req]
    /\ r.status = "succeeded" => r.attempts > 0 /\ r.result /\ Paid(U, r)

\* Together they are inductive: no step of any process, interleaved with the
\* others between its read of a row and its write, breaks them.
IInv ==
    /\ TypeOK
    /\ \A p \in Procs : LocalInv(row, used, p, proc[p])
    /\ \A j \in Jobs : RowInv(used, row[j])
    /\ \A q \in Quotas : evt[q].status = "succeeded" => used[q] > 0
    /\ \A j \in todo : Exists(j)

-----------------------------------------------------------------------------
(* Progress.  Requests and threads that have begun go on unless they crash; *)
(* a worker polls while it is up; maintenance runs every minute in some     *)
(* live worker; time passes.                                                *)

Fairness ==
    /\ \A c \in Clients : WF_vars(ClientStep(c))
    /\ \A t \in Threads : WF_vars(ThreadStep(t)) /\ WF_vars(ClaimStep(t))
    /\ WF_vars(MaintenanceStep)
    /\ \A j \in Jobs : WF_vars(LeaseLapses(j))

FairSpec == Spec /\ Fairness

Ended(j) == row[j].status \in Terminal \union {"deleted"}

\* A job that can be claimed, is running or was asked to stop reaches a
\* terminal status, across failures, retries, crashes and recovery.
JobsEnd ==
    \A j \in Jobs :
        Ready(j) \/ row[j].status \in {"running", "cancel_requested"} ~> Ended(j)

\* The reservation of a terminal job does not stay reserved, also when the
\* process that should have released it died between its two commits.
ReservationsReturned ==
    \A j \in Jobs, q \in Quotas :
        row[j].quota = q /\ row[j].status \in Terminal /\ evt[q].status = "reserved"
            ~> evt[q].status # "reserved"

=============================================================================
