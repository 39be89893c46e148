----------------------------- MODULE JobPolling -----------------------------
(***************************************************************************)
(* The hook of a page that follows its background job: the task's id in    *)
(* localStorage, the poll of the tab's current mount and its timers, and   *)
(* the handler a page gives it for the end of a task.  A callback runs to  *)
(* its next await at once; answers of a page that was left arrive as well. *)
(* A reload is a new mount to which nothing of the old one answers.        *)
(*                                                                         *)
(* Left out: a second tab, which shares localStorage and handles the end   *)
(* of a task once more; a page re-created in the same mount.               *)
(***************************************************************************)
EXTENDS Integers, FiniteSets

CONSTANTS Tasks, NoTask,
          MaxPolls,    \* MAX_POLLS
          MaxMounts    \* bound

ASSUME PollingAssumption ==
    NoTask \notin Tasks /\ MaxPolls \in Nat /\ MaxMounts \in Nat \ {0}

VARIABLES
    server,    \* the task's status: "none", "running", "ended", "gone"
    stored,    \* localStorage: the task
    mount,     \* number of the current mount
    mounted,   \* mountedRef of it
    timers,    \* tasks a timer of it will poll
    timerRef,  \* the timer it remembers
    polls,     \* pollCountRef
    job,       \* the task shown, and whether it is shown as running
    requests,  \* in flight: [kind, task, by]
    handled,   \* how often the end of each task was handled, a history
    crowded    \* history: this mount created a task while it polled another

pollingVars == <<server, stored, mount, mounted, timers, timerRef, polls, job, requests,
                 handled, crowded>>

Request == [kind : {"poll", "create", "cancel"}, task : Tasks \union {NoTask}, by : 1..MaxMounts]
NoJob == [task |-> NoTask, running |-> FALSE]
Mine == {r \in requests : r.by = mount}
Polled == {r.task : r \in {q \in Mine : q.kind = "poll"}}

\* stopPolling, and a poll that begins; a page that was left only stops.
Unwatched(T) == T \ {timerRef}
StartPoll(t, T, n, R) ==
    /\ timers' = Unwatched(T)
    /\ timerRef' = NoTask
    /\ IF n < MaxPolls
       THEN polls' = n + 1
            /\ requests' = R \union {[kind |-> "poll", task |-> t, by |-> mount]}
       ELSE polls' = n /\ requests' = R

MountPage ==
    /\ ~mounted /\ mount < MaxMounts
    /\ mount' = mount + 1
    /\ mounted' = TRUE
    /\ timers' = {stored} \ {NoTask}
    /\ timerRef' = stored
    /\ polls' = 0
    /\ job' = NoJob
    /\ crowded' = FALSE
    /\ UNCHANGED <<server, stored, requests, handled>>

\* The page is left, or reloaded: then its requests go with it.
LeavePage ==
    /\ mounted
    /\ mounted' = FALSE
    /\ timers' = {} /\ timerRef' = NoTask
    /\ requests' \in {requests, requests \ Mine}
    /\ UNCHANGED <<server, stored, mount, polls, job, handled, crowded>>

TimerFires(t) ==
    /\ t \in timers
    /\ StartPoll(t, timers \ {t}, polls, requests)
    /\ UNCHANGED <<server, stored, mount, mounted, job, handled, crowded>>

Watch(t) == timers' = timers \union {t} /\ timerRef' = t

AnyMount(r) == mounted \/ ~mounted                          \* mutant of Here
Here(r) == mounted /\ r.by = mount

\* The answer to a poll: the status at some time since it was sent, an error,
\* or 404.  A terminal one is handled after the task is forgotten.
PollAnswered(r, status) ==
    /\ r \in requests /\ r.kind = "poll"
    /\ status \in {"running", "error", server[r.task]}
    /\ requests' = requests \ {r}
    /\ IF ~Here(r) THEN UNCHANGED <<stored, timers, timerRef, job, handled>>
       ELSE CASE status = "running" ->
                   /\ Watch(r.task)
                   /\ job' = [task |-> r.task, running |-> TRUE]
                   /\ UNCHANGED <<stored, handled>>
              [] status = "ended" ->
                   /\ stored' = NoTask
                   /\ job' = [task |-> r.task, running |-> FALSE]
                   /\ handled' = [handled EXCEPT ![r.task] = @ + 1]
                   /\ UNCHANGED <<timers, timerRef>>
              [] status = "gone" -> stored' = NoTask /\ UNCHANGED <<timers, timerRef, job, handled>>
              [] status = "error" -> Watch(r.task) /\ UNCHANGED <<stored, job, handled>>
    /\ UNCHANGED <<server, mount, mounted, polls, crowded>>

\* createJob: the page's buttons are disabled while it shows a running task.
SendCreate ==
    /\ mounted /\ ~job.running
    /\ \A r \in Mine : r.kind # "create"
    /\ requests' = requests \union {[kind |-> "create", task |-> NoTask, by |-> mount]}
    /\ UNCHANGED <<server, stored, mount, mounted, timers, timerRef, polls, job, handled, crowded>>

Created(r, t) ==
    /\ r \in requests /\ r.kind = "create" /\ server[t] = "none"
    /\ server' = [server EXCEPT ![t] = "running"]
    /\ stored' = t
    /\ IF Here(r)
       THEN /\ job' = [task |-> t, running |-> TRUE]
            /\ crowded' = (crowded \/ timers # {} \/ Polled # {})
            /\ StartPoll(t, timers, 0, requests \ {r})
       ELSE /\ requests' = requests \ {r}
            /\ UNCHANGED <<timers, timerRef, polls, job, crowded>>
    /\ UNCHANGED <<mount, mounted, handled>>

\* A creation or a cancellation fails, before or after the server obeyed.
Failed(r) ==
    /\ r \in requests /\ r.kind # "poll"
    /\ requests' = requests \ {r}
    /\ UNCHANGED <<server, stored, mount, mounted, timers, timerRef, polls, job, handled, crowded>>

SendCancel ==
    /\ mounted /\ job.running
    /\ requests' = requests \union {[kind |-> "cancel", task |-> job.task, by |-> mount]}
    /\ UNCHANGED <<server, stored, mount, mounted, timers, timerRef, polls, job, handled, crowded>>

\* A task that was queued is cancelled at once; the storage is cleared, whatever it holds.
Cancelled(r, ended) ==
    /\ r \in requests /\ r.kind = "cancel"
    /\ server[r.task] = "running" \/ (ended /\ server[r.task] = "ended")
    /\ server' = [server EXCEPT ![r.task] = IF ended /\ @ = "running" THEN "ended" ELSE @]
    /\ requests' = requests \ {r}
    /\ job' = IF Here(r) THEN [task |-> r.task, running |-> ~ended] ELSE job
    /\ stored' = IF ended THEN NoTask ELSE stored
    /\ IF ended /\ Here(r)
       THEN timers' = Unwatched(timers) /\ timerRef' = NoTask
       ELSE UNCHANGED <<timers, timerRef>>
    /\ UNCHANGED <<mount, mounted, polls, handled, crowded>>

\* Its history is cleaned up after it ended.
ServerMoves(t) ==
    /\ \E s \in {<<"running", "ended">>, <<"ended", "gone">>} :
          server[t] = s[1] /\ server' = [server EXCEPT ![t] = s[2]]
    /\ UNCHANGED <<stored, mount, mounted, timers, timerRef, polls, job, requests, handled, crowded>>

PollingInit ==
    /\ server = [t \in Tasks |-> "none"]
    /\ stored = NoTask
    /\ mount = 1 /\ mounted = TRUE
    /\ timers = {} /\ timerRef = NoTask /\ polls = 0
    /\ job = NoJob
    /\ requests = {}
    /\ handled = [t \in Tasks |-> 0]
    /\ crowded = FALSE

\* A status read before the task ended may arrive after.
PollingNext ==
    \/ MountPage \/ LeavePage \/ SendCreate \/ SendCancel
    \/ \E t \in Tasks : TimerFires(t) \/ ServerMoves(t)
    \/ \E r \in requests :
          \/ \E s \in {"running", "ended", "gone", "error"} : PollAnswered(r, s)
          \/ \E t \in Tasks : Created(r, t)
          \/ \E ended \in BOOLEAN : Cancelled(r, ended)
          \/ Failed(r)

PollingSpec == PollingInit /\ [][PollingNext]_pollingVars

-----------------------------------------------------------------------------
PollingTypeOK ==
    /\ server \in [Tasks -> {"none", "running", "ended", "gone"}]
    /\ stored \in Tasks \union {NoTask} /\ timerRef \in Tasks \union {NoTask}
    /\ mount \in 1..MaxMounts /\ mounted \in BOOLEAN /\ crowded \in BOOLEAN
    /\ timers \subseteq Tasks
    /\ polls \in 0..MaxPolls
    /\ job \in [task : Tasks \union {NoTask}, running : BOOLEAN]
    /\ requests \subseteq Request
    /\ handled \in [Tasks -> Nat]

\* The end of a task is handled at most once, whatever is reloaded, cancelled
\* and answered late, and a task that a mount has seen running is polled until
\* its end, its cancellation or the last poll, unless the mount created it, or
\* another, while it was still asking about one it had found in the storage.
TasksFollowed ==
    /\ \A t \in Tasks : handled[t] <= 1
    /\ mounted /\ ~crowded /\ stored # NoTask /\ polls < MaxPolls /\ job.task = stored =>
          stored \in timers \union Polled
=============================================================================
