-------------------------- MODULE JobPollingProofs --------------------------
(***************************************************************************)
(* Proof about JobPolling for any number of tasks, polls and reloads: the  *)
(* end of a task is handled once, and a task that runs is polled.          *)
(***************************************************************************)
EXTENDS JobPolling, TLAPS

Watched == timers \union Polled
RequestOf(k, t, m) == [kind |-> k, task |-> t, by |-> m]

\* Requests are of this mount or of an earlier one, and name tasks that exist.
RequestsKnown ==
    \A r \in requests :
        /\ r.by <= mount
        /\ r.kind # "create" => r.task \in Tasks
        /\ r.task # NoTask => server[r.task] # "none"

TasksKnown ==
    /\ \A t \in timers : server[t] # "none"
    /\ stored # NoTask => server[stored] # "none"
    /\ job.task # NoTask => server[job.task] # "none"
    /\ job.running => job.task # NoTask

\* Once handled, a task is forgotten and neither a timer nor a poll is left.
HandledOnce ==
    \A t \in Tasks : handled[t] = 0 \/
        (handled[t] = 1 /\ stored # t /\ t \notin Watched /\ server[t] # "none")

\* The mount follows one task, by a timer or by a poll, and knows the timer.
OneWatched ==
    mounted /\ ~crowded =>
        /\ \A a, b \in Watched : a = b
        /\ timers \subseteq {timerRef}

\* What the mount has shown as running, or tries to cancel, it follows.
Showing(t) ==
    job.task = t \/ RequestOf("cancel", t, mount) \in requests
Following ==
    mounted /\ ~crowded /\ stored # NoTask /\ polls < MaxPolls /\ Showing(stored) =>
        stored \in Watched

PollingInv ==
    /\ PollingTypeOK /\ RequestsKnown /\ TasksKnown
    /\ timers \intersect Polled = {}
    /\ HandledOnce /\ OneWatched /\ Following

-----------------------------------------------------------------------------
PolledIn(R, m) == {r.task : r \in {q \in R : q.kind = "poll" /\ q.by = m}}

\* A task is polled if the request for it is in flight.
LEMMA PolledByRequest ==
    ASSUME NEW R \in SUBSET Request, NEW m
    PROVE  \A t : t \in PolledIn(R, m) <=> RequestOf("poll", t, m) \in R
  BY DEF Request, PolledIn, RequestOf

LEMMA PolledIs ==
    /\ Polled = PolledIn(requests, mount)
    /\ Polled' = PolledIn(requests', mount')
  BY DEF Polled, Mine, PolledIn

(* The steps.                                                              *)

LEMMA MountPageKeeps ==
    ASSUME PollingInv, MountPage
    PROVE  PollingInv'
  <1>1. /\ mount + 1 \in 1..MaxMounts /\ mount' = mount + 1 /\ mounted' = TRUE
        /\ timers' = {stored} \ {NoTask} /\ timerRef' = stored /\ polls' = 0
        /\ job' = NoJob /\ crowded' = FALSE
        /\ UNCHANGED <<server, stored, requests, handled>>
    BY PollingAssumption DEF MountPage, PollingInv, PollingTypeOK
  <1>2. PollingTypeOK'
    <2>1. NoJob \in [task : Tasks \union {NoTask}, running : BOOLEAN]
      BY DEF NoJob
    <2>2. mounted' \in BOOLEAN /\ crowded' \in BOOLEAN
      BY <1>1
    <2>3. /\ mount' \in 1..MaxMounts /\ polls' \in 0..MaxPolls
          /\ timers' \subseteq Tasks /\ timerRef' \in Tasks \union {NoTask}
      BY <1>1, PollingAssumption DEF PollingInv, PollingTypeOK
    <2>. QED
      BY <1>1, <2>1, <2>2, <2>3 DEF PollingInv, PollingTypeOK
  <1>3. RequestsKnown'
    <2>1. \A r \in requests : r.by \in Nat /\ mount \in Nat
      BY DEF PollingInv, PollingTypeOK, Request
    <2>. QED
      BY <1>1, <2>1 DEF PollingInv, RequestsKnown
  <1>4. TasksKnown'
    BY PollingAssumption DEF PollingInv, MountPage, NoJob, TasksKnown
  <1>5. \A x : /\ RequestOf("poll", x, mount) \in requests <=> x \in Polled
               /\ RequestOf("poll", x, mount') \in requests' <=> x \in Polled'
    BY <1>2, PolledByRequest, PolledIs DEF PollingInv, PollingTypeOK
  <1>6. \A k, t : RequestOf(k, t, mount') \notin requests'
    BY <1>1 DEF PollingInv, PollingTypeOK, RequestsKnown, RequestOf
  <1>7. Polled' = {}
    BY <1>5, <1>6
  <1>8. (timers \intersect Polled = {})'
    BY <1>7
  <1>9. HandledOnce'
    BY <1>1, <1>7 DEF PollingInv, HandledOnce, Watched
  <1>10. OneWatched'
    BY <1>1, <1>7 DEF OneWatched, Watched
  <1>11. Following'
    BY <1>1, <1>6 DEF Following, Showing, NoJob
  <1>. QED
    BY <1>2, <1>3, <1>4, <1>8, <1>9, <1>10, <1>11 DEF PollingInv

LEMMA LeavePageKeeps ==
    ASSUME PollingInv, LeavePage
    PROVE  PollingInv'
  <1>1. PollingTypeOK'
    BY PollingAssumption DEF PollingInv, PollingTypeOK, LeavePage
  <1>2. RequestsKnown'
    BY PollingAssumption DEF PollingInv, LeavePage, RequestsKnown
  <1>3. TasksKnown'
    BY PollingAssumption DEF PollingInv, LeavePage, TasksKnown
  <1>4. \A x : /\ RequestOf("poll", x, mount) \in requests <=> x \in Polled
               /\ RequestOf("poll", x, mount') \in requests' <=> x \in Polled'
    BY <1>1, PolledByRequest, PolledIs DEF PollingInv, PollingTypeOK
  <1>5. (timers \intersect Polled = {})'
    BY <1>4 DEF LeavePage
  <1>6. HandledOnce'
    BY <1>4 DEF PollingInv, LeavePage, HandledOnce, Watched
  <1>7. OneWatched'
    BY <1>4 DEF LeavePage, OneWatched
  <1>8. Following'
    BY <1>4 DEF LeavePage, Following
  <1>. QED
    BY <1>1, <1>2, <1>3, <1>5, <1>6, <1>7, <1>8 DEF PollingInv

LEMMA TimerFiresKeeps ==
    ASSUME PollingInv, NEW t \in Tasks, TimerFires(t)
    PROVE  PollingInv'
  <1>1. PollingTypeOK'
    BY PollingAssumption DEF PollingInv, PollingTypeOK, TimerFires, Request, StartPoll, Unwatched
  <1>2. RequestsKnown'
    BY PollingAssumption DEF PollingInv, PollingTypeOK, TimerFires, StartPoll, RequestsKnown, TasksKnown
  <1>3. TasksKnown'
    BY PollingAssumption DEF PollingInv, TimerFires, StartPoll, Unwatched, TasksKnown
  <1>4. \A x : /\ RequestOf("poll", x, mount) \in requests <=> x \in Polled
               /\ RequestOf("poll", x, mount') \in requests' <=> x \in Polled'
    BY <1>1, PolledByRequest, PolledIs DEF PollingInv, PollingTypeOK
  <1>5. (timers \intersect Polled = {})'
    BY <1>4 DEF PollingInv, TimerFires, RequestOf, StartPoll, Unwatched
  <1>6. /\ timers' \subseteq timers \ {t} /\ t \in timers
        /\ requests' \in {requests, requests \union {RequestOf("poll", t, mount)}}
        /\ polls' < MaxPolls => RequestOf("poll", t, mount) \in requests'
        /\ timers' = (timers \ {t}) \ {timerRef} /\ timerRef' = NoTask
        /\ UNCHANGED <<server, stored, mount, mounted, job, handled, crowded>>
    BY PollingAssumption DEF PollingInv, PollingTypeOK, TimerFires, StartPoll, Unwatched, RequestOf
  <1>7. /\ Polled' \subseteq Polled \union {t} /\ Watched' \subseteq Watched
        /\ polls' < MaxPolls => t \in Polled'
    <2>1. \A x : RequestOf("poll", x, mount) = RequestOf("poll", t, mount) => x = t
      BY DEF RequestOf
    <2>. QED
      BY <1>6, <1>4, <2>1 DEF Watched
  <1>8. HandledOnce'
    BY <1>6, <1>7 DEF PollingInv, HandledOnce
  <1>9. OneWatched'
    <2>. SUFFICES ASSUME mounted', ~crowded'
                  PROVE  (\A a, b \in Watched' : a = b) /\ timers' = {}
      BY DEF OneWatched
    <2>1. (\A a, b \in Watched : a = b) /\ timers \subseteq Watched
      BY <1>6 DEF PollingInv, OneWatched, Watched
    <2>. QED
      BY <1>6, <1>7, <2>1
  <1>10. Following'
    <2>. SUFFICES ASSUME mounted, ~crowded, stored # NoTask, polls' < MaxPolls, Showing(stored)'
                  PROVE  stored \in Watched'
      BY <1>6 DEF Following
    <2>1. polls < MaxPolls
      BY PollingAssumption DEF PollingInv, PollingTypeOK, TimerFires, StartPoll
    <2>2. Showing(stored)
      BY <1>6 DEF Showing, RequestOf
    <2>3. stored \in Watched /\ t \in Watched /\ \A a, b \in Watched : a = b
      BY <1>6, <2>1, <2>2 DEF PollingInv, Following, OneWatched, Watched
    <2>. QED
      BY <1>7, <2>3 DEF Watched
  <1>. QED
    BY <1>1, <1>2, <1>3, <1>5, <1>8, <1>9, <1>10 DEF PollingInv

LEMMA PollAnsweredKeeps ==
    ASSUME PollingInv, NEW r \in requests, NEW status \in {"running", "ended", "gone", "error"},
           PollAnswered(r, status)
    PROVE  PollingInv'
  <1>1. /\ requests' = requests \ {r} /\ r \in Request /\ r.task \in Tasks
        /\ server[r.task] # "none"
        /\ UNCHANGED <<server, mount, mounted, polls, crowded>>
    BY PollingAssumption DEF PollAnswered, PollingInv, PollingTypeOK, RequestsKnown
  <1>2. r.kind = "poll" /\ status \in {"running", "error", server[r.task]}
    BY DEF PollAnswered
  <1>3. \/ /\ ~(mounted /\ r.by = mount) \/ (status = "gone" /\ stored' = NoTask)
           /\ stored' \in {stored, NoTask}
           /\ UNCHANGED <<timers, timerRef, job, handled>>
        \/ /\ mounted /\ r.by = mount /\ status \in {"running", "error"}
           /\ timers' = timers \union {r.task} /\ timerRef' = r.task
           /\ job' \in {job, [task |-> r.task, running |-> TRUE]}
           /\ UNCHANGED <<stored, handled>>
        \/ /\ mounted /\ r.by = mount /\ status = "ended"
           /\ stored' = NoTask
           /\ job' = [task |-> r.task, running |-> FALSE]
           /\ handled' = [handled EXCEPT ![r.task] = @ + 1]
           /\ UNCHANGED <<timers, timerRef>>
    BY DEF PollAnswered, Here, Watch
  <1>4. PollingTypeOK'
    <2>1. /\ [task |-> r.task, running |-> TRUE] \in [task : Tasks \union {NoTask}, running : BOOLEAN]
          /\ [task |-> r.task, running |-> FALSE] \in [task : Tasks \union {NoTask}, running : BOOLEAN]
      BY <1>1
    <2>2. job' \in [task : Tasks \union {NoTask}, running : BOOLEAN]
      BY <1>3, <2>1 DEF PollingInv, PollingTypeOK
    <2>3. handled' \in [Tasks -> Nat]
      BY <1>1, <1>3 DEF PollingInv, PollingTypeOK
    <2>4. /\ timers' \subseteq Tasks /\ timerRef' \in Tasks \union {NoTask}
          /\ stored' \in Tasks \union {NoTask} /\ requests' \subseteq Request
      BY <1>1, <1>3 DEF PollingInv, PollingTypeOK
    <2>. QED
      BY <1>1, <2>2, <2>3, <2>4 DEF PollingInv, PollingTypeOK
  <1>5. RequestsKnown'
    BY <1>1 DEF PollingInv, RequestsKnown
  <1>6. TasksKnown'
    <2>1. job'.task # NoTask => server[job'.task] # "none"
      BY <1>1, <1>3 DEF PollingInv, TasksKnown
    <2>2. job'.running => job'.task # NoTask
      BY <1>1, <1>3, PollingAssumption DEF PollingInv, TasksKnown
    <2>3. \A x \in timers' : server[x] # "none"
      BY <1>1, <1>3 DEF PollingInv, TasksKnown
    <2>4. stored' # NoTask => server[stored'] # "none"
      BY <1>3 DEF PollingInv, TasksKnown
    <2>. QED
      BY <1>1, <2>1, <2>2, <2>3, <2>4 DEF TasksKnown
  <1>7. \A x : /\ RequestOf("poll", x, mount) \in requests <=> x \in Polled
               /\ RequestOf("poll", x, mount) \in requests' <=> x \in Polled'
    BY <1>1, <1>4, PolledByRequest, PolledIs DEF PollingInv, PollingTypeOK
  <1>8. /\ Polled' \subseteq Polled
        /\ r.by # mount => Polled' = Polled
        /\ r.by = mount => r.task \in Polled /\ Polled' = Polled \ {r.task}
    <2>1. r = RequestOf("poll", r.task, r.by)
      BY <1>1, <1>2 DEF Request, RequestOf
    <2>2. \A x, m : RequestOf("poll", x, m) = r <=> x = r.task /\ m = r.by
      BY <2>1 DEF RequestOf
    <2>. QED
      BY <1>1, <1>7, <2>1, <2>2
  <1>9. (timers \intersect Polled = {})'
    BY <1>3, <1>8 DEF PollingInv
  <1>10. Watched' \subseteq Watched
    BY <1>3, <1>8 DEF Watched
  <1>11. HandledOnce'
    <2>. SUFFICES ASSUME NEW t \in Tasks
                  PROVE  \/ handled'[t] = 0
                         \/ /\ handled'[t] = 1 /\ stored' # t
                            /\ t \notin Watched' /\ server[t] # "none"
      BY <1>1 DEF HandledOnce
    <2>0. handled \in [Tasks -> Nat] /\ timers \intersect Polled = {} /\ NoTask \notin Tasks
      BY PollingAssumption DEF PollingInv, PollingTypeOK
    <2>1. CASE t = r.task /\ handled' # handled
      <3>1. /\ r.by = mount /\ stored' = NoTask /\ timers' = timers
            /\ handled'[t] = handled[t] + 1
        BY <1>1, <1>3, <2>0, <2>1
      <3>2. t \in Polled /\ handled[t] = 0
        BY <1>8, <2>1, <3>1 DEF PollingInv, HandledOnce, Watched
      <3>3. t \notin Watched'
        BY <1>8, <2>0, <2>1, <3>1, <3>2 DEF Watched
      <3>. QED
        BY <1>1, <2>0, <2>1, <3>1, <3>2, <3>3
    <2>2. CASE t # r.task \/ handled' = handled
      <3>1. handled'[t] = handled[t] /\ stored' \in {stored, NoTask}
        BY <1>3, <2>0, <2>2
      <3>. QED
        BY <1>10, <2>0, <3>1 DEF PollingInv, HandledOnce
    <2>. QED
      BY <2>1, <2>2
  <1>12. OneWatched'
    <2>. SUFFICES ASSUME mounted, ~crowded
                  PROVE  (\A a, b \in Watched' : a = b) /\ timers' \subseteq {timerRef'}
      BY <1>1 DEF OneWatched
    <2>1. (\A a, b \in Watched : a = b) /\ timers \subseteq {timerRef}
      BY DEF PollingInv, OneWatched
    <2>2. r.by = mount => \A x \in timers : x = r.task
      BY <1>8, <2>1 DEF Watched
    <2>. QED
      BY <1>3, <1>10, <2>1, <2>2
  <1>13. Following'
    <2>. SUFFICES ASSUME mounted, ~crowded, stored' # NoTask, polls < MaxPolls,
                         Showing(stored)'
                  PROVE  stored' \in Watched'
      BY <1>1 DEF Following
    <2>1. CASE stored' = r.task /\ r.task \in timers'
      BY <2>1 DEF Watched
    <2>2. CASE ~(stored' = r.task /\ r.task \in timers')
      <3>1. stored' = stored /\ UNCHANGED mount
        BY <1>1, <1>3
      <3>2. Showing(stored)
        <4>1. job'.task = stored => job.task = stored
          BY <1>3, <2>2, <3>1
        <4>. QED
          BY <1>1, <3>1, <4>1 DEF Showing
      <3>3. stored \in Watched
        BY <3>1, <3>2 DEF PollingInv, Following
      <3>4. Watched \subseteq Watched'
        BY <1>3, <1>8, <3>1 DEF Watched
      <3>. QED
        BY <3>1, <3>3, <3>4
    <2>. QED
      BY <2>1, <2>2
  <1>. QED
    BY <1>4, <1>5, <1>6, <1>9, <1>11, <1>12, <1>13 DEF PollingInv

LEMMA SendCreateKeeps ==
    ASSUME PollingInv, SendCreate
    PROVE  PollingInv'
  <1>1. PollingTypeOK'
    BY PollingAssumption DEF PollingInv, PollingTypeOK, SendCreate, Request
  <1>2. RequestsKnown'
    BY PollingAssumption DEF PollingInv, PollingTypeOK, SendCreate, RequestsKnown
  <1>3. TasksKnown'
    BY PollingAssumption DEF PollingInv, SendCreate, TasksKnown
  <1>4. \A x : /\ RequestOf("poll", x, mount) \in requests <=> x \in Polled
               /\ RequestOf("poll", x, mount') \in requests' <=> x \in Polled'
    BY <1>1, PolledByRequest, PolledIs DEF PollingInv, PollingTypeOK
  <1>5. (timers \intersect Polled = {})'
    BY <1>4 DEF PollingInv, SendCreate, RequestOf
  <1>6. HandledOnce'
    BY <1>4 DEF PollingInv, SendCreate, RequestOf, HandledOnce, Watched
  <1>7. OneWatched'
    BY <1>4 DEF PollingInv, SendCreate, RequestOf, OneWatched, Watched
  <1>8. Following'
    BY <1>4 DEF PollingInv, SendCreate, RequestOf, Watched, Following, Showing
  <1>. QED
    BY <1>1, <1>2, <1>3, <1>5, <1>6, <1>7, <1>8 DEF PollingInv

LEMMA CreatedKeeps ==
    ASSUME PollingInv, NEW r \in requests, NEW t \in Tasks, Created(r, t)
    PROVE  PollingInv'
  <1>1. /\ r \in Request /\ server[t] = "none"
        /\ server \in [Tasks -> {"none", "running", "ended", "gone"}]
        /\ server' = [server EXCEPT ![t] = "running"]
        /\ stored' = t /\ t # NoTask
        /\ requests' \in {requests \ {r}, (requests \ {r}) \union {RequestOf("poll", t, mount)}}
        /\ UNCHANGED <<mount, mounted, handled>>
    BY PollingAssumption DEF Created, PollingInv, PollingTypeOK, StartPoll, RequestOf
  <1>2. \/ /\ mounted /\ r.by = mount
           /\ job' = [task |-> t, running |-> TRUE]
           /\ crowded' = (crowded \/ Watched # {})
           /\ timers' = timers \ {timerRef} /\ timerRef' = NoTask
           /\ polls' \in 0..MaxPolls
           /\ polls' < MaxPolls => RequestOf("poll", t, mount) \in requests'
        \/ /\ ~(mounted /\ r.by = mount) /\ requests' = requests \ {r}
           /\ UNCHANGED <<timers, timerRef, polls, job, crowded>>
    BY PollingAssumption DEF Created, Here, StartPoll, Unwatched, RequestOf, Watched
  <1>3. r.kind = "create"
    BY DEF Created
  <1>4. PollingTypeOK'
    <2>1. [task |-> t, running |-> TRUE] \in [task : Tasks \union {NoTask}, running : BOOLEAN]
      OBVIOUS
    <2>2. RequestOf("poll", t, mount) \in Request
      BY DEF PollingInv, PollingTypeOK, RequestOf, Request
    <2>3. job' \in [task : Tasks \union {NoTask}, running : BOOLEAN]
      BY <1>2, <2>1 DEF PollingInv, PollingTypeOK
    <2>4. crowded' \in BOOLEAN
      BY <1>2 DEF PollingInv, PollingTypeOK
    <2>5. /\ timers' \subseteq Tasks /\ timerRef' \in Tasks \union {NoTask}
          /\ polls' \in 0..MaxPolls
      BY <1>2 DEF PollingInv, PollingTypeOK
    <2>6. requests' \subseteq Request
      BY <1>1, <2>2 DEF PollingInv, PollingTypeOK
    <2>7. server' \in [Tasks -> {"none", "running", "ended", "gone"}]
      BY <1>1
    <2>. QED
      BY <1>1, <2>3, <2>4, <2>5, <2>6, <2>7 DEF PollingInv, PollingTypeOK
  <1>5. \A x : x # NoTask /\ server[x] # "none" => server'[x] # "none"
    BY <1>1
  <1>6. server'[t] # "none"
    BY <1>1
  <1>7. RequestsKnown'
    <2>. SUFFICES ASSUME NEW q \in requests'
                  PROVE  /\ q.by <= mount
                         /\ q.kind # "create" => q.task \in Tasks
                         /\ q.task # NoTask => server'[q.task] # "none"
      BY <1>1 DEF RequestsKnown
    <2>1. CASE q \in requests
      BY <1>5, <2>1 DEF PollingInv, RequestsKnown
    <2>2. CASE q = RequestOf("poll", t, mount)
      BY <1>6, <2>2 DEF RequestOf, PollingInv, PollingTypeOK
    <2>. QED
      BY <1>1, <2>1, <2>2
  <1>8. TasksKnown'
    <2>1. (stored # NoTask => server[stored] # "none")'
      BY <1>1, <1>6
    <2>2. \A x \in timers' : server'[x] # "none"
      BY <1>2, <1>5, PollingAssumption DEF PollingInv, PollingTypeOK, TasksKnown
    <2>3. (job.task # NoTask => server[job.task] # "none")'
      BY <1>2, <1>5, <1>6 DEF PollingInv, TasksKnown
    <2>4. (job.running => job.task # NoTask)'
      BY <1>1, <1>2 DEF PollingInv, TasksKnown
    <2>. QED
      BY <2>1, <2>2, <2>3, <2>4 DEF TasksKnown
  <1>9. \A x : /\ RequestOf("poll", x, mount) \in requests <=> x \in Polled
               /\ RequestOf("poll", x, mount) \in requests' <=> x \in Polled'
    BY <1>1, <1>4, PolledByRequest, PolledIs DEF PollingInv, PollingTypeOK
  <1>10. /\ t \notin Watched /\ Watched' \subseteq Watched \union {t}
         /\ Polled' \subseteq Polled \union {t} /\ timers' \subseteq timers
    <2>1. t \notin timers
      BY <1>1 DEF PollingInv, TasksKnown
    <2>2. t \notin Polled
      <3>1. RequestOf("poll", t, mount).task = t
        BY DEF RequestOf
      <3>. QED
        BY <1>1, <1>9, <3>1 DEF PollingInv, RequestsKnown
    <2>3. timers' \subseteq timers
      BY <1>2
    <2>4. Polled' \subseteq Polled \union {t}
      <3>1. \A x : RequestOf("poll", x, mount) = RequestOf("poll", t, mount) => x = t
        BY DEF RequestOf
      <3>. QED
        BY <1>1, <1>9, <3>1
    <2>. QED
      BY <2>1, <2>2, <2>3, <2>4 DEF Watched
  <1>11. (timers \intersect Polled = {})'
    BY <1>10 DEF PollingInv, Watched
  <1>12. HandledOnce'
    BY <1>1, <1>5, <1>10, PollingAssumption DEF PollingInv, HandledOnce
  <1>13. OneWatched'
    <2>1. CASE crowded' = (crowded \/ Watched # {}) /\ timers' = timers \ {timerRef}
      <3>1. ~crowded' => Watched' \subseteq {t} /\ timers' = {}
        BY <1>10, <2>1 DEF Watched
      <3>. QED
        BY <3>1 DEF OneWatched
    <2>2. CASE requests' = requests \ {r} /\ UNCHANGED <<timers, timerRef, crowded>>
      <3>1. Watched' \subseteq Watched
        BY <1>9, <2>2 DEF Watched
      <3>. QED
        BY <1>1, <2>2, <3>1 DEF PollingInv, OneWatched
    <2>. QED
      BY <1>2, <2>1, <2>2
  <1>14. Following'
    <2>1. CASE polls' < MaxPolls => RequestOf("poll", t, mount) \in requests'
      <3>1. polls' < MaxPolls => t \in Watched'
        BY <1>9, <2>1 DEF Watched
      <3>. QED
        BY <1>1, <3>1 DEF Following
    <2>2. CASE requests' = requests \ {r} /\ UNCHANGED job
      <3>1. job'.task # t
        BY <1>1, <2>2 DEF PollingInv, TasksKnown
      <3>2. RequestOf("cancel", t, mount) \notin requests
        <4>1. RequestOf("cancel", t, mount).task = t
          BY DEF RequestOf
        <4>. QED
          BY <1>1, <4>1 DEF PollingInv, RequestsKnown
      <3>3. ~Showing(stored)'
        BY <1>1, <2>2, <3>1, <3>2 DEF Showing
      <3>. QED
        BY <3>3 DEF Following
    <2>. QED
      BY <1>2, <2>1, <2>2
  <1>. QED
    BY <1>4, <1>7, <1>8, <1>11, <1>12, <1>13, <1>14 DEF PollingInv

LEMMA FailedKeeps ==
    ASSUME PollingInv, NEW r \in requests, Failed(r)
    PROVE  PollingInv'
  <1>1. PollingTypeOK'
    BY PollingAssumption DEF PollingInv, PollingTypeOK, Failed
  <1>2. RequestsKnown'
    BY PollingAssumption DEF PollingInv, Failed, RequestsKnown
  <1>3. TasksKnown'
    BY PollingAssumption DEF PollingInv, Failed, TasksKnown
  <1>4. \A x : /\ RequestOf("poll", x, mount) \in requests <=> x \in Polled
               /\ RequestOf("poll", x, mount') \in requests' <=> x \in Polled'
    BY <1>1, PolledByRequest, PolledIs DEF PollingInv, PollingTypeOK
  <1>5. (timers \intersect Polled = {})'
    BY <1>4 DEF PollingInv, Failed
  <1>6. HandledOnce'
    BY <1>4 DEF PollingInv, Failed, HandledOnce, Watched
  <1>7. OneWatched'
    BY <1>4 DEF PollingInv, Failed, OneWatched, Watched
  <1>8. Following'
    <2>1. /\ requests' = requests \ {r} /\ r.kind # "poll"
          /\ UNCHANGED <<stored, mount, mounted, timers, polls, job, crowded>>
      BY DEF Failed
    <2>2. \A x : RequestOf("poll", x, mount).kind = "poll"
      BY DEF RequestOf
    <2>3. Watched' = Watched
      BY <1>4, <2>1, <2>2 DEF Watched
    <2>. QED
      BY <2>1, <2>3 DEF PollingInv, Following, Showing, RequestOf
  <1>. QED
    BY <1>1, <1>2, <1>3, <1>5, <1>6, <1>7, <1>8 DEF PollingInv

LEMMA SendCancelKeeps ==
    ASSUME PollingInv, SendCancel
    PROVE  PollingInv'
  <1>1. PollingTypeOK'
    BY PollingAssumption DEF PollingInv, PollingTypeOK, SendCancel, Request
  <1>2. RequestsKnown'
    BY PollingAssumption DEF PollingInv, PollingTypeOK, SendCancel, RequestsKnown, TasksKnown
  <1>3. TasksKnown'
    BY PollingAssumption DEF PollingInv, SendCancel, TasksKnown
  <1>4. \A x : /\ RequestOf("poll", x, mount) \in requests <=> x \in Polled
               /\ RequestOf("poll", x, mount') \in requests' <=> x \in Polled'
    BY <1>1, PolledByRequest, PolledIs DEF PollingInv, PollingTypeOK
  <1>5. (timers \intersect Polled = {})'
    BY <1>4 DEF PollingInv, SendCancel, RequestOf
  <1>6. HandledOnce'
    BY <1>4 DEF PollingInv, SendCancel, RequestOf, HandledOnce, Watched
  <1>7. OneWatched'
    BY <1>4 DEF PollingInv, SendCancel, RequestOf, OneWatched, Watched
  <1>8. Following'
    BY <1>4 DEF PollingInv, SendCancel, RequestOf, Watched, Following, Showing
  <1>. QED
    BY <1>1, <1>2, <1>3, <1>5, <1>6, <1>7, <1>8 DEF PollingInv

LEMMA CancelledKeeps ==
    ASSUME PollingInv, NEW r \in requests, NEW ended \in BOOLEAN, Cancelled(r, ended)
    PROVE  PollingInv'
  <1>1. PollingTypeOK'
    BY PollingAssumption DEF PollingInv, PollingTypeOK, Cancelled, Unwatched, RequestsKnown
  <1>2. RequestsKnown'
    BY PollingAssumption DEF PollingInv, Cancelled, RequestsKnown
  <1>3. TasksKnown'
    BY PollingAssumption DEF PollingInv, Cancelled, Unwatched, RequestsKnown, TasksKnown
  <1>4. \A x : /\ RequestOf("poll", x, mount) \in requests <=> x \in Polled
               /\ RequestOf("poll", x, mount') \in requests' <=> x \in Polled'
    BY <1>1, PolledByRequest, PolledIs DEF PollingInv, PollingTypeOK
  <1>5. (timers \intersect Polled = {})'
    BY <1>4 DEF PollingInv, Cancelled, Unwatched
  <1>6. HandledOnce'
    BY <1>4, PollingAssumption DEF PollingInv, PollingTypeOK, Cancelled, Unwatched, HandledOnce, Watched
  <1>7. OneWatched'
    BY <1>4 DEF PollingInv, Cancelled, Unwatched, OneWatched, Watched
  <1>8. Following'
    <2>1. /\ requests' = requests \ {r} /\ r.kind = "cancel" /\ r \in Request
          /\ UNCHANGED <<mount, mounted, polls, crowded>>
          /\ job' = IF mounted /\ r.by = mount THEN [task |-> r.task, running |-> ~ended] ELSE job
          /\ ended => stored' = NoTask
          /\ ~ended => UNCHANGED <<stored, timers>>
      BY DEF Cancelled, Here, PollingInv, PollingTypeOK
    <2>2. CASE ended
      BY <2>1, <2>2 DEF Following
    <2>3. CASE ~ended
      <3>1. \A x : RequestOf("poll", x, mount).kind = "poll"
        BY DEF RequestOf
      <3>2. Watched' = Watched
        BY <1>4, <2>1, <2>3, <3>1 DEF Watched
      <3>3. mounted /\ Showing(stored)' => Showing(stored)
        <4>1. r = RequestOf("cancel", r.task, r.by)
          BY <2>1 DEF Request, RequestOf
        <4>2. mounted /\ r.by = mount => RequestOf("cancel", job'.task, mount) \in requests
          BY <2>1, <4>1
        <4>3. job'.task = stored /\ mounted => Showing(stored)
          BY <2>1, <4>2 DEF Showing
        <4>. QED
          BY <2>1, <2>3, <4>3 DEF Showing
      <3>. QED
        BY <2>1, <2>3, <3>2, <3>3 DEF PollingInv, Following
    <2>. QED
      BY <2>2, <2>3
  <1>. QED
    BY <1>1, <1>2, <1>3, <1>5, <1>6, <1>7, <1>8 DEF PollingInv

LEMMA ServerMovesKeeps ==
    ASSUME PollingInv, NEW t \in Tasks, ServerMoves(t)
    PROVE  PollingInv'
  <1>1. PollingTypeOK'
    BY PollingAssumption DEF PollingInv, PollingTypeOK, ServerMoves
  <1>2. RequestsKnown'
    BY PollingAssumption DEF PollingInv, ServerMoves, RequestsKnown
  <1>3. TasksKnown'
    BY PollingAssumption DEF PollingInv, ServerMoves, TasksKnown
  <1>4. \A x : /\ RequestOf("poll", x, mount) \in requests <=> x \in Polled
               /\ RequestOf("poll", x, mount') \in requests' <=> x \in Polled'
    BY <1>1, PolledByRequest, PolledIs DEF PollingInv, PollingTypeOK
  <1>5. (timers \intersect Polled = {})'
    BY <1>4 DEF PollingInv, ServerMoves
  <1>6. HandledOnce'
    <2>1. /\ \A x \in Tasks : server[x] # "none" => server'[x] # "none"
          /\ UNCHANGED <<stored, mount, timers, requests, handled>>
      BY DEF ServerMoves, PollingInv, PollingTypeOK
    <2>2. Watched' = Watched
      BY <2>1 DEF Watched, Polled, Mine
    <2>. QED
      BY <2>1, <2>2 DEF PollingInv, HandledOnce
  <1>7. OneWatched'
    BY <1>4 DEF PollingInv, ServerMoves, OneWatched, Watched
  <1>8. Following'
    BY <1>4 DEF PollingInv, ServerMoves, Watched, Following, Showing
  <1>. QED
    BY <1>1, <1>2, <1>3, <1>5, <1>6, <1>7, <1>8 DEF PollingInv

LEMMA PollingInitInv == PollingInit => PollingInv
  <1>. SUFFICES ASSUME PollingInit PROVE PollingInv
    OBVIOUS
  <1>1. /\ timers = {} /\ requests = {} /\ stored = NoTask /\ job = NoJob
        /\ \A t \in Tasks : handled[t] = 0
    BY DEF PollingInit
  <1>2. PollingTypeOK
    <2>1. NoJob \in [task : Tasks \union {NoTask}, running : BOOLEAN]
      BY DEF NoJob
    <2>2. mount \in 1..MaxMounts /\ polls \in 0..MaxPolls
      BY PollingAssumption DEF PollingInit
    <2>3. mounted \in BOOLEAN /\ crowded \in BOOLEAN
      BY DEF PollingInit
    <2>. QED
      BY <2>1, <2>2, <2>3 DEF PollingInit, PollingTypeOK
  <1>3. RequestsKnown /\ TasksKnown
    BY <1>1 DEF RequestsKnown, TasksKnown, NoJob
  <1>4. Watched = {}
    BY <1>1 DEF Watched, Polled, Mine
  <1>. QED
    BY <1>1, <1>2, <1>3, <1>4 DEF PollingInv, HandledOnce, OneWatched, Following, Watched

LEMMA PollingNextKeeps == PollingInv /\ [PollingNext]_pollingVars => PollingInv'
  <1>. SUFFICES ASSUME PollingInv, [PollingNext]_pollingVars PROVE PollingInv'
    OBVIOUS
  <1>1. CASE UNCHANGED pollingVars
    BY <1>1 DEF pollingVars, PollingInv, PollingTypeOK, RequestsKnown, TasksKnown, HandledOnce,
                OneWatched, Following, Showing, Watched, Polled, Mine
  <1>2. CASE MountPage \/ LeavePage \/ SendCreate \/ SendCancel
    BY <1>2, MountPageKeeps, LeavePageKeeps, SendCreateKeeps, SendCancelKeeps
  <1>3. ASSUME NEW t \in Tasks, TimerFires(t) \/ ServerMoves(t) PROVE PollingInv'
    BY <1>3, TimerFiresKeeps, ServerMovesKeeps
  <1>4. ASSUME NEW r \in requests, NEW status \in {"running", "ended", "gone", "error"},
               PollAnswered(r, status)
        PROVE  PollingInv'
    BY <1>4, PollAnsweredKeeps
  <1>5. ASSUME NEW r \in requests, NEW t \in Tasks, Created(r, t) PROVE PollingInv'
    BY <1>5, CreatedKeeps
  <1>6. ASSUME NEW r \in requests, NEW ended \in BOOLEAN, Cancelled(r, ended) PROVE PollingInv'
    BY <1>6, CancelledKeeps
  <1>7. ASSUME NEW r \in requests, Failed(r) PROVE PollingInv'
    BY <1>7, FailedKeeps
  <1>. QED
    BY <1>1, <1>2, <1>3, <1>4, <1>5, <1>6, <1>7 DEF PollingNext

\* The invariant holds of every behaviour of the hook.
THEOREM PollingInvariance == PollingSpec => []PollingInv
  <1>. QED
    BY PollingInitInv, PollingNextKeeps, PTL DEF PollingSpec

\* useBackgroundJob.js handles the end of a task once and keeps polling the task
\* it shows, for any number of tasks, polls and reloads.
THEOREM TasksAreFollowed == PollingSpec => []TasksFollowed
  <1>1. PollingInv => TasksFollowed
    <2>. SUFFICES ASSUME PollingInv PROVE TasksFollowed
      OBVIOUS
    <2>1. \A t \in Tasks : handled[t] <= 1
      BY DEF PollingInv, HandledOnce
    <2>2. job.task = stored => Showing(stored)
      BY DEF Showing
    <2>. QED
      BY <2>1, <2>2 DEF PollingInv, Following, TasksFollowed, Watched
  <1>. QED
    BY <1>1, PollingInvariance, PTL
=============================================================================
