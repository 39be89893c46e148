----------------------------- MODULE UsageQuota -----------------------------
(***************************************************************************)
(* services/usage_service.py on PostgreSQL at READ COMMITTED: the events   *)
(* and the daily counters of one user and one usage type.                  *)
(*                                                                         *)
(* An event is locked with SELECT ... FOR UPDATE, then the counter of its  *)
(* day (FOR UPDATE, or the conditional UPDATE of a reservation), and both  *)
(* are written by one commit.  Each of the three is a step, and a process  *)
(* that needs a lock another transaction holds waits.  A transaction's     *)
(* locks follow from where it is (EventLocks, CounterLocks); a crash rolls *)
(* it back.  Every caller reserves an amount of 1.                         *)
(*                                                                         *)
(* Left out: other users and types (no row is shared), the display of the  *)
(* usage, error texts, related_resource_*.  A counter row that does not    *)
(* exist yet is one with both columns 0: _ensure_counter inserts it in the *)
(* transaction whose UPDATE locks it.  A settlement of one event that      *)
(* finds nothing to do keeps the lock until its caller's next commit; the  *)
(* caller waits for no row of these tables meanwhile, so the lock is       *)
(* dropped at once here.  The two loops that go on to other rows with such *)
(* a lock, the timeout scan and the orphan sweep, keep it (kept).          *)
(***************************************************************************)
EXTENDS Integers, FiniteSets

CONSTANTS
    Keys,         \* idempotency keys
    JobKeys,      \* those bound to background jobs: any worker may settle them
    Outcomes,     \* bound: what may become of a unit, "commit" and "release"
    Procs,        \* database sessions
    Servers,      \* those of requests that reserve a unit
    Workers,      \* those that settle the units of jobs
    Sweepers,     \* those of the maintenance's orphan sweep
    None,
    Limit,        \* units a day
    Exempt,       \* TRUE: is_quota_exempt, no limit
    LastDay,      \* bound: natural days considered
    Ageing,       \* TRUE: a reservation may get older than 30 minutes
    Place,        \* where an event is in the order in which a scan visits rows
    MaxCrashes    \* bound: processes that die in the middle

Days == 1..LastDay

ASSUME QuotaAssumption ==
    /\ IsFiniteSet(Keys)
    /\ JobKeys \subseteq Keys
    /\ Servers \union Workers \union Sweepers \subseteq Procs
    /\ None \notin Keys
    /\ Outcomes \subseteq {"commit", "release"}
    /\ Limit \in Nat
    /\ LastDay \in Nat \ {0}
    /\ MaxCrashes \in Nat
    /\ {Exempt, Ageing} \subseteq BOOLEAN

\* Two scans run the same query plan, and a row that is reserved and old has
\* not been rewritten, and so has not moved, for half an hour.
ASSUME PlaceAssumption ==
    /\ Place \in [Keys -> 1..Cardinality(Keys)]
    /\ \A j, k \in Keys : Place[j] = Place[k] => j = k

VARIABLES
    evt,      \* usage_events by key
    counter,  \* daily_usage_counters by day
    proc,     \* where each session is in its operation
    today,    \* the natural day in the application's time zone
    crashes

vars == <<evt, counter, proc, today, crashes>>

Event == [status : {"absent", "reserved", "succeeded", "returned"},
          day : Days,
          old : BOOLEAN]   \* a reservation made more than 30 minutes ago

Counter == [used : Nat, reserved : Nat]

ReserveSteps == {"scan", "lockStale", "staleCounter", "stale", "lookup", "count", "store"}
CommitSteps == {"commit", "commitCounter", "commitApply"}
ReleaseSteps == {"release", "releaseCounter", "releaseApply"}
SweepSteps == {"sweep", "sweepCounter", "sweepApply", "reload", "sweepSettled"}

Local == [pc : {"idle", "hold"} \union ReserveSteps \union CommitSteps
                  \union ReleaseSteps \union SweepSteps,
          key : Keys \union {None},
          day : Days,          \* the day of the counter the operation uses
          rows : SUBSET Keys,  \* the events a scan or a sweep has yet to visit
          stale : SUBSET Keys, \* the events the scan has found stale, and locked
          kept : SUBSET Keys,  \* those it found settled: locked all the same
          found : BOOLEAN]     \* the key's event exists, and is locked

Idle == [pc |-> "idle", key |-> None, day |-> 1, rows |-> {}, stale |-> {},
         kept |-> {}, found |-> FALSE]

Become(p, l) == proc' = [proc EXCEPT ![p] = l]
Goto(p, s) == Become(p, [proc[p] EXCEPT !.pc = s])

\* The events a transaction in local state l has locked to work on them, and
\* all its row locks.
WorkLocksOf(l) ==
    CASE l.pc \in {"lockStale", "staleCounter", "stale"} -> l.stale
      [] l.pc \in {"count", "store"} /\ l.found -> {l.key}
      [] l.pc \in {"commitCounter", "commitApply", "releaseCounter", "releaseApply",
                   "sweepCounter", "sweepApply"} -> {l.key}
      [] OTHER -> {}
EventLocksOf(l) == l.kept \union WorkLocksOf(l)
CounterBeforeEvent(l) == \* mutant of CounterLocksOf: the unit is counted before the lookup
    IF l.pc \in {"stale", "lookup", "count", "store", "commitApply", "releaseApply", "sweepApply"}
    THEN {l.day} ELSE {}
CounterLocksOf(l) ==
    IF l.pc \in {"stale", "store", "commitApply", "releaseApply", "sweepApply"}
    THEN {l.day} ELSE {}

EventLocks(p) == EventLocksOf(proc[p])
CounterLocks(p) == CounterLocksOf(proc[p])

\* The rows that the next step of p has to lock.
FirstOf(rows) == CHOOSE k \in rows : \A j \in rows : Place[k] <= Place[j]
WantedEvents(p) ==
    LET l == proc[p]
    IN  CASE l.pc = "lockStale" -> {FirstOf(l.rows)}
          [] l.pc = "lookup" -> {k \in {l.key} : evt[k].status # "absent"}
          [] l.pc \in {"commit", "release", "sweep", "sweepSettled"} -> {l.key}
          [] OTHER -> {}
WantedCounters(p) ==
    IF proc[p].pc \in {"staleCounter", "count", "commitCounter", "releaseCounter",
                       "sweepCounter"}
    THEN {proc[p].day} ELSE {}

\* Whom p waits for.
Blockers(p) == {q \in Procs \ {p} : \/ WantedEvents(p) \intersect EventLocks(q) # {}
                                     \/ WantedCounters(p) \intersect CounterLocks(q) # {}}
Circle(S) == S # {} /\ \A p \in S : Blockers(p) \intersect S # {}

\* Events of table E with status s on day d.
OnIn(E, d, s) == {k \in Keys : E[k].status = s /\ E[k].day = d}
On(d, s) == OnIn(evt, d, s)

-----------------------------------------------------------------------------
(* reserve_usage.                                                          *)

\* The day is taken once, at the start.
Begin(p, k) ==
    /\ p \in Servers
    /\ proc[p].pc = "idle"
    /\ Become(p, [Idle EXCEPT !.pc = "scan", !.key = k, !.day = today])
    /\ UNCHANGED <<evt, counter, today, crashes>>

\* Only events of that day are looked for.
Stale(d) == {k \in On(d, "reserved") : evt[k].old}

\* The statement's snapshot names the rows, which are locked one by one.
Scan(p) ==
    LET S == Stale(proc[p].day)
    IN  /\ proc[p].pc = "scan"
        /\ Become(p, [proc[p] EXCEPT !.rows = S,
                          !.pc = IF S = {} THEN "lookup" ELSE "lockStale"])
        /\ UNCHANGED <<evt, counter, today, crashes>>

\* A row that has changed since the snapshot is tested again once it is
\* locked.  One that is not stale any more is left out of the result, and
\* its lock is kept until the transaction ends; with no stale event at all
\* there is no commit before the lookup.
VisitStale(p) ==
    LET l == proc[p]
        k == FirstOf(l.rows)
        again == k \in Stale(l.day)
        n == [l EXCEPT !.rows = @ \ {k},
                       !.stale = IF again THEN @ \union {k} ELSE @,
                       !.kept = IF again THEN @ ELSE @ \union {k}]
    IN  /\ l.pc = "lockStale"
        /\ Blockers(p) = {}
        /\ Become(p, IF n.rows # {} THEN n
                     ELSE [n EXCEPT !.pc = IF n.stale = {} THEN "lookup" ELSE "staleCounter"])
        /\ UNCHANGED <<evt, counter, today, crashes>>

Floor(n) == IF n < 0 THEN 0 ELSE n

Settled(k, s) == [evt[k] EXCEPT !.status = s, !.old = FALSE]

ReturnStale(p) ==
    LET l == proc[p]
    IN  /\ l.pc = "stale"
        /\ counter' = [counter EXCEPT ![l.day].reserved = Floor(@ - Cardinality(l.stale))]
        /\ evt' = [k \in Keys |-> IF k \in l.stale
                                  THEN Settled(k, "returned") ELSE evt[k]]
        /\ Become(p, [l EXCEPT !.pc = "lookup", !.stale = {}, !.kept = {}])
        /\ UNCHANGED <<today, crashes>>

\* An event that has succeeded is answered without a reservation, a reserved
\* one with UsageReservationConflict; the lock is kept for a returned one.
ReservableTwice == {"absent", "returned", "reserved"} \* mutant of Reservable
Reservable == {"absent", "returned"}
LookUp(p) ==
    LET e == evt[proc[p].key]
    IN  /\ proc[p].pc = "lookup"
        /\ Blockers(p) = {}
        /\ Become(p, IF e.status \in Reservable
                     THEN [proc[p] EXCEPT !.pc = "count", !.found = e.status # "absent"]
                     ELSE Idle)
        /\ UNCHANGED <<evt, counter, today, crashes>>

\* The condition of UPDATE ... SET reserved = reserved + 1.
RoomForOneMore(c) == Exempt \/ c.used + c.reserved <= Limit \* mutant of Room
Room(c) == Exempt \/ c.used + c.reserved + 1 <= Limit

CountReservation(p) ==
    LET l == proc[p]
    IN  /\ l.pc = "count"
        /\ Blockers(p) = {}
        /\ IF Room(counter[l.day]) THEN Goto(p, "store") ELSE Become(p, Idle)
        /\ UNCHANGED <<evt, counter, today, crashes>>

\* The commit.  The INSERT fails if another session has inserted the key
\* since the lookup: the counter's increment is rolled back with it.  A job's
\* reservation is left to the queue.
Store(p) ==
    LET l == proc[p]
    IN  /\ l.pc = "store"
        /\ IF l.found \/ evt[l.key].status = "absent"
           THEN /\ evt' = [evt EXCEPT ![l.key] =
                              [status |-> "reserved", day |-> l.day, old |-> FALSE]]
                /\ counter' = [counter EXCEPT ![l.day].reserved = @ + 1]
                /\ Become(p, IF l.key \in JobKeys THEN Idle
                             ELSE [Idle EXCEPT !.pc = "hold", !.key = l.key])
           ELSE Become(p, Idle) /\ UNCHANGED <<evt, counter>>
        /\ UNCHANGED <<today, crashes>>

-----------------------------------------------------------------------------
(* commit_usage and release_usage.                                         *)

\* The work the unit is for has succeeded or failed.
WorkDone(p) ==
    /\ proc[p].pc = "hold"
    /\ \E s \in Outcomes : Goto(p, s)
    /\ UNCHANGED <<evt, counter, today, crashes>>

\* The queue settles a job's event by its id from whichever process ends the
\* job, or from the maintenance.
SettleJob(p, k) ==
    /\ p \in Workers
    /\ proc[p].pc = "idle"
    /\ k \in JobKeys
    /\ evt[k].status # "absent"
    /\ \E s \in Outcomes :
          Become(p, [Idle EXCEPT !.pc = s, !.key = k])
    /\ UNCHANGED <<evt, counter, today, crashes>>

\* An event that is not reserved any more is left alone: commit_usage returns
\* it if it has succeeded and raises 409 otherwise, release_usage returns it.
SettleableTwice == {"reserved", "succeeded"}        \* mutant of Settleable
Settleable == {"reserved"}
LockedStep == [commit |-> "commitCounter", release |-> "releaseCounter"]
LockEvent(p) ==
    LET e == evt[proc[p].key]
    IN  /\ proc[p].pc \in DOMAIN LockedStep
        /\ Blockers(p) = {}
        /\ Become(p, IF e.status \in Settleable
                     THEN [proc[p] EXCEPT !.pc = LockedStep[@], !.day = e.day]
                     ELSE Idle)
        /\ UNCHANGED <<evt, counter, today, crashes>>

CountedStep == [staleCounter |-> "stale", commitCounter |-> "commitApply",
                releaseCounter |-> "releaseApply", sweepCounter |-> "sweepApply"]
LockCounter(p) ==
    /\ proc[p].pc \in DOMAIN CountedStep
    /\ Blockers(p) = {}
    /\ Goto(p, CountedStep[proc[p].pc])
    /\ UNCHANGED <<evt, counter, today, crashes>>

SpendOnly(c) == [used |-> c.used + 1, reserved |-> c.reserved] \* mutant of Spend
Spend(c) == [used |-> c.used + 1, reserved |-> c.reserved - 1]

\* A counter that has nothing reserved raises 500.
CommitApply(p) ==
    LET l == proc[p]
    IN  /\ l.pc = "commitApply"
        /\ IF counter[l.day].reserved < 1 THEN UNCHANGED <<evt, counter>>
           ELSE /\ evt' = [evt EXCEPT ![l.key] = Settled(l.key, "succeeded")]
                /\ counter' = [counter EXCEPT ![l.day] = Spend(@)]
        /\ Become(p, Idle)
        /\ UNCHANGED <<today, crashes>>

\* The loop of the sweep goes on to the events it has left.
NextSwept(l) ==
    IF l.rows = {} THEN Idle
    ELSE [Idle EXCEPT !.pc = "reload", !.rows = l.rows, !.kept = l.kept]

ReleaseApply(p) ==
    LET l == proc[p]
    IN  /\ l.pc \in {"releaseApply", "sweepApply"}
        /\ evt' = [evt EXCEPT ![l.key] = Settled(l.key, "returned")]
        /\ counter' = [counter EXCEPT ![l.day].reserved = Floor(@ - 1)]
        /\ Become(p, IF l.pc = "sweepApply" THEN NextSwept([l EXCEPT !.kept = {}]) ELSE Idle)
        /\ UNCHANGED <<today, crashes>>

\* release_orphaned_job_reservations has loaded the reserved events S of jobs
\* that have ended or are gone (any of the jobs' events here).  The copies stay
\* in its session: release_usage's FOR UPDATE query locks the row but tests and
\* uses the status and the day of the copy.  The maintenance holds its advisory
\* lock meanwhile: no two sweeps overlap.
Sweep(p, S) ==
    /\ p \in Sweepers
    /\ proc[p].pc = "idle"
    /\ \A q \in Procs : proc[q].pc \notin SweepSteps
    /\ S \subseteq JobKeys
    /\ \A k \in S : evt[k].status = "reserved"
    /\ \E k \in S :
          Become(p, [Idle EXCEPT !.pc = "sweep", !.key = k, !.day = evt[k].day, !.rows = S \ {k}])
    /\ UNCHANGED <<evt, counter, today, crashes>>

\* A release's commit has expired the copies: the loop loads the next event
\* anew, without a lock, before it releases it.
Reload(p, k) ==
    /\ proc[p].pc = "reload"
    /\ k \in proc[p].rows
    /\ Become(p, [proc[p] EXCEPT
                     !.pc = IF evt[k].status = "reserved" THEN "sweep" ELSE "sweepSettled",
                     !.key = k, !.day = evt[k].day, !.rows = @ \ {k}])
    /\ UNCHANGED <<evt, counter, today, crashes>>

\* release_usage returns a settled copy with the row locked and no commit.
LockSwept(p) ==
    LET l == proc[p]
    IN  /\ Blockers(p) = {}
        /\ \/ l.pc = "sweep" /\ Goto(p, "sweepCounter")
           \/ l.pc = "sweepSettled" /\ Become(p, NextSwept([l EXCEPT !.kept = @ \union {l.key}]))
        /\ UNCHANGED <<evt, counter, today, crashes>>

-----------------------------------------------------------------------------
(* Time, crashes and the database's deadlock detector.                     *)

NextDay ==
    /\ today < LastDay
    /\ today' = today + 1
    /\ UNCHANGED <<evt, counter, proc, crashes>>

Age(k) ==
    /\ Ageing
    /\ evt[k].status = "reserved" /\ ~evt[k].old
    /\ evt' = [evt EXCEPT ![k].old = TRUE]
    /\ UNCHANGED <<counter, proc, today, crashes>>

Crash(p) ==
    /\ crashes < MaxCrashes
    /\ proc[p].pc # "idle"
    /\ Become(p, Idle)
    /\ crashes' = crashes + 1
    /\ UNCHANGED <<evt, counter, today>>

\* Of transactions that wait for each other, PostgreSQL aborts one.
Victim(p) ==
    /\ \E S \in SUBSET Procs : /\ p \in S /\ Circle(S)
                               /\ \A T \in SUBSET S : Circle(T) => T = S
    /\ Become(p, Idle)
    /\ UNCHANGED <<evt, counter, today, crashes>>

-----------------------------------------------------------------------------
Init ==
    /\ evt = [k \in Keys |-> [status |-> "absent", day |-> 1, old |-> FALSE]]
    /\ counter = [d \in Days |-> [used |-> 0, reserved |-> 0]]
    /\ proc = [p \in Procs |-> Idle]
    /\ today = 1
    /\ crashes = 0

\* Steps that wait for a lock, and steps that do not.
LockStep(p) ==
    VisitStale(p) \/ LookUp(p) \/ CountReservation(p) \/ LockEvent(p) \/ LockSwept(p)
    \/ LockCounter(p)
ApplyStep(p) == ReturnStale(p) \/ Store(p) \/ CommitApply(p) \/ ReleaseApply(p)

Next ==
    \/ \E p \in Procs :
          \/ \E k \in Keys : Begin(p, k) \/ SettleJob(p, k) \/ Reload(p, k)
          \/ \E S \in SUBSET JobKeys : Sweep(p, S)
          \/ Scan(p) \/ LockStep(p) \/ ApplyStep(p) \/ WorkDone(p) \/ Crash(p) \/ Victim(p)
    \/ NextDay
    \/ \E k \in Keys : Age(k)

Spec == Init /\ [][Next]_vars

-----------------------------------------------------------------------------
(* Properties.                                                             *)

TypeOK ==
    /\ evt \in [Keys -> Event]
    /\ counter \in [Days -> Counter]
    /\ proc \in [Procs -> Local]
    /\ today \in Days
    /\ crashes \in 0..MaxCrashes

\* The counters are exact: whatever reservations, settlements, timeouts and
\* crashes interleave, a day's counter is the number of its reserved and of
\* its succeeded events, so that no unit is lost or charged twice.
Balanced ==
    \A d \in Days : /\ counter[d].reserved = Cardinality(On(d, "reserved"))
                    /\ counter[d].used = Cardinality(On(d, "succeeded"))

\* No day ever holds more than the limit, also when requests race for the
\* last unit or cross midnight.
WithinLimit ==
    Exempt \/ \A d \in Days : counter[d].used + counter[d].reserved <= Limit

\* A charged event is never reopened or moved: neither a late release, a
\* timeout scan nor a repeated request touches it.
ChargeIsFinal ==
    [][\A k \in Keys : evt[k].status = "succeeded" =>
          evt'[k].status = "succeeded" /\ evt'[k].day = evt[k].day]_vars

\* Transactions wait for each other in a circle only if one of them has kept
\* the lock of an event it found settled, in a timeout scan or an orphan
\* sweep.  Otherwise there is no deadlock: scans lock events in one order,
\* everybody locks events before a counter, and whoever has a counter commits.
DeadlockOnlyByKept ==
    \A S \in SUBSET Procs : Circle(S) => \E p \in S : proc[p].kept # {}

-----------------------------------------------------------------------------
(* The inductive invariant behind Balanced and WithinLimit: what a session *)
(* has read under a lock stays so while it holds the lock.                 *)

LocalInv(E, C, l) ==
    /\ l.pc # "idle" => l.key \in Keys
    /\ l.pc = "scan" => l.stale = {}
    /\ l.pc = "lockStale" => l.rows # {}
    /\ l.pc \in {"lockStale", "staleCounter", "stale"} =>
          \A k \in l.stale : E[k].status = "reserved" /\ E[k].day = l.day
    /\ l.pc \in {"count", "store"} /\ l.found => E[l.key].status = "returned"
    /\ l.pc = "store" => Room(C[l.day])
    /\ l.pc \in {"commitCounter", "commitApply", "releaseCounter", "releaseApply"} =>
          E[l.key].status = "reserved" /\ E[l.key].day = l.day
    /\ l.pc \notin SweepSteps

Exclusive ==
    \A p, q \in Procs : p # q => /\ EventLocks(p) \intersect EventLocks(q) = {}
                                 /\ CounterLocks(p) \intersect CounterLocks(q) = {}

\* No two transactions hold a lock, each still finds what it read under its
\* own, and the counters are exact and within the limit.
IInv == /\ TypeOK
        /\ \A p \in Procs : LocalInv(evt, counter, proc[p])
        /\ Exclusive
        /\ Balanced
        /\ WithinLimit

\* What DeadlockOnlyByKept rests on, with sweeps or without: a scan has locked
\* the rows before those it has yet to visit.
OrderInv ==
    /\ TypeOK
    /\ \A p \in Procs :
          /\ proc[p].pc \notin {"idle", "reload"} => proc[p].key \in Keys
          /\ proc[p].pc = "scan" => proc[p].stale = {}
          /\ proc[p].pc = "lockStale" =>
                /\ proc[p].rows # {}
                /\ \A j \in proc[p].stale, k \in proc[p].rows : Place[j] < Place[k]

Ledger == INSTANCE UsageLedger WITH
             held <- [d \in Days |-> On(d, "reserved")],
             spent <- [d \in Days |-> On(d, "succeeded")]

\* The protocol implements the ledger it promises.
ImplementsLedger == Ledger!Spec

=============================================================================
