-------------------------- MODULE MaintenanceLock --------------------------
(***************************************************************************)
(* The maintenance passes of the worker processes under PostgreSQL's       *)
(* advisory lock.  The lock belongs to a connection and can be taken       *)
(* again by it; the session of a pass gives its connection back to the     *)
(* process's pool at every commit, so that lock and unlock may use two.    *)
(* Connections live as long as their process: one that overflows the pool, *)
(* which would be closed when it is given back, is left out.               *)
(***************************************************************************)
EXTENDS Integers, FiniteSets

CONSTANTS Processes,
          PoolOf,     \* the connections of each process
          MaxHeld,    \* bound: times a connection holds the lock
          MaxDays,    \* bound of the calendar
          MaxCrashes

Connections == UNION {PoolOf[p] : p \in Processes}

ASSUME LockAssumption ==
    /\ {MaxHeld, MaxCrashes} \subseteq Nat /\ MaxDays \in Nat \ {0}
    /\ \A p, q \in Processes : p # q => PoolOf[p] \intersect PoolOf[q] = {}

VARIABLES
    held,      \* how often each connection holds the lock
    pass,      \* of each process: "none", "jobs", "retention", "note", "unlock", "skipped"
    today,
    lastRun,   \* MaintenanceState: the day of the last retention clean-up
    cleanups,  \* the retention clean-ups noted on each day, a history
    crashes

lockVars == <<held, pass, today, lastRun, cleanups, crashes>>

Granted(c) == held[c] < MaxHeld                             \* mutant of Free
Free(c) == \A d \in Connections \ {c} : held[d] = 0

\* pg_try_advisory_lock, on any connection of the pool.
TryLock(p, c) ==
    /\ pass[p] = "none"
    /\ held[c] < MaxHeld
    /\ IF Free(c)
       THEN held' = [held EXCEPT ![c] = @ + 1] /\ pass' = [pass EXCEPT ![p] = "jobs"]
       ELSE pass' = [pass EXCEPT ![p] = "skipped"] /\ UNCHANGED held
    /\ UNCHANGED <<today, lastRun, cleanups, crashes>>

\* recover_expired_jobs, cleanup_job_history, release_orphaned_job_reservations.
MaintainJobs(p) ==
    /\ pass[p] = "jobs"
    /\ pass' = [pass EXCEPT ![p] = IF lastRun < today THEN "retention" ELSE "unlock"]
    /\ UNCHANGED <<held, today, lastRun, cleanups, crashes>>

\* cleanup_expired_data commits on its own; then the day is noted.
Retain(p) ==
    /\ pass[p] = "retention"
    /\ pass' = [pass EXCEPT ![p] = "note"]
    /\ UNCHANGED <<held, today, lastRun, cleanups, crashes>>

Note(p) ==
    /\ pass[p] = "note"
    /\ lastRun' = today
    /\ cleanups' = [cleanups EXCEPT ![today] = @ + 1]
    /\ pass' = [pass EXCEPT ![p] = "unlock"]
    /\ UNCHANGED <<held, today, crashes>>

\* The finally block: a pass that failed at any step unlocks too, one that was
\* skipped does not.
HasLocked(p) == pass[p] \in {"jobs", "retention", "note", "unlock"}

Unlock(p, c) ==
    /\ HasLocked(p)
    /\ held' = [held EXCEPT ![c] = IF @ > 0 THEN @ - 1 ELSE 0]
    /\ pass' = [pass EXCEPT ![p] = "none"]
    /\ UNCHANGED <<today, lastRun, cleanups, crashes>>

Skip(p) ==
    /\ pass[p] = "skipped"
    /\ pass' = [pass EXCEPT ![p] = "none"]
    /\ UNCHANGED <<held, today, lastRun, cleanups, crashes>>

\* The connections of a process that dies are closed.
Crash(p) ==
    /\ crashes < MaxCrashes
    /\ held' = [c \in Connections |-> IF c \in PoolOf[p] THEN 0 ELSE held[c]]
    /\ pass' = [pass EXCEPT ![p] = "none"]
    /\ crashes' = crashes + 1
    /\ UNCHANGED <<today, lastRun, cleanups>>

Midnight ==
    /\ today < MaxDays
    /\ today' = today + 1
    /\ UNCHANGED <<held, pass, lastRun, cleanups, crashes>>

LockInit ==
    /\ held = [c \in Connections |-> 0]
    /\ pass = [p \in Processes |-> "none"]
    /\ today = 1 /\ lastRun = 0
    /\ cleanups = [d \in 1..MaxDays |-> 0]
    /\ crashes = 0

LockNext ==
    \/ Midnight
    \/ \E p \in Processes :
          \/ MaintainJobs(p) \/ Retain(p) \/ Note(p) \/ Skip(p) \/ Crash(p)
          \/ \E c \in PoolOf[p] : TryLock(p, c) \/ Unlock(p, c)

LockSpec == LockInit /\ [][LockNext]_lockVars

-----------------------------------------------------------------------------
LockTypeOK ==
    /\ held \in [Connections -> 0..MaxHeld]
    /\ pass \in [Processes -> {"none", "jobs", "retention", "note", "unlock", "skipped"}]
    /\ today \in 1..MaxDays /\ lastRun \in 0..today
    /\ cleanups \in [1..MaxDays -> Nat]
    /\ crashes \in 0..MaxCrashes

\* Although a pass may unlock another connection than the one it locked, no
\* two processes maintain at once, and a retention clean-up is completed and
\* noted at most once a day: a lock is left held for too long, never given up early.
PassesExclusive ==
    /\ \A p, q \in Processes : HasLocked(p) /\ HasLocked(q) => p = q
    /\ \A d \in 1..MaxDays : cleanups[d] <= 1
=============================================================================
