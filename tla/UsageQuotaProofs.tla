-------------------------- MODULE UsageQuotaProofs --------------------------
(***************************************************************************)
(* Proofs about UsageQuota for every finite set of keys, every limit, any  *)
(* number of sessions and days, with ageing reservations, requests across  *)
(* midnight and crashes.  Those about units assume that every release      *)
(* tests the status it has locked, which those of the orphan sweep do not  *)
(* (Sweepers = {}): with it Balanced does not hold.  The one about waiting *)
(* (NoOtherDeadlock) includes the sweep.                                   *)
(***************************************************************************)
EXTENDS UsageQuota, FiniteSetTheorems, WellFoundedInduction, TLAPS

\* A set of numbers has a least one: the order of the numbers is well-founded.
Below == {pair \in Nat \X Nat : pair[1] < pair[2]}

LEMMA LeastNumber ==
    ASSUME NEW S \in SUBSET Nat, S # {}
    PROVE  \E m \in S : \A k \in S : m <= k
  <1>0. IsWellFoundedOn(Below, Nat)
    BY NatLessThanWellFounded DEF OpToRel, Below
  <1>1. PICK m \in S : \A k \in S : ~(<<k, m>> \in Below)
    BY <1>0, WFMin
  <1>2. ASSUME NEW k \in S, k < m
        PROVE  FALSE
    <2>1. <<k, m>> \in Below
      BY <1>2 DEF Below
    <2>. QED
      BY <1>1, <2>1
  <1>. QED
    BY <1>2

\* The first row of a scan is one of its rows, and before all of them.
LEMMA FirstRow ==
    ASSUME NEW R \in SUBSET Keys, R # {}
    PROVE  FirstOf(R) \in R /\ \A k \in R : Place[FirstOf(R)] <= Place[k]
  <1>. DEFINE S == {Place[k] : k \in R}
  <1>1. S \in SUBSET Nat /\ S # {}
    BY PlaceAssumption, QuotaAssumption, FS_CardinalityType
  <1>. HIDE DEF S
  <1>2. PICK m \in S : \A n \in S : m <= n
    BY <1>1, LeastNumber
  <1>. USE DEF S
  <1>3. \E k \in R : \A j \in R : Place[k] <= Place[j]
    BY <1>2
  <1>. QED
    BY <1>3 DEF FirstOf

\* A row or a counter that no other session has locked.
EventFree(p, k) == \A q \in Procs \ {p} : k \notin EventLocks(q)
CounterFree(p, d) == \A q \in Procs \ {p} : d \notin CounterLocks(q)

LEMMA Unblocked ==
    ASSUME NEW p \in Procs, Blockers(p) = {}
    PROVE  /\ \A k \in WantedEvents(p) : EventFree(p, k)
           /\ \A d \in WantedCounters(p) : CounterFree(p, d)
  BY DEF Blockers, EventFree, CounterFree

\* Events of one status and day: finitely many, so that they can be counted.
LEMMA OnFacts ==
    \A d, s : /\ On(d, s) \subseteq Keys
              /\ IsFiniteSet(On(d, s))
              /\ Cardinality(On(d, s)) \in Nat
  <1>. SUFFICES ASSUME NEW d, NEW s
                PROVE  /\ On(d, s) \subseteq Keys
                       /\ IsFiniteSet(On(d, s))
                       /\ Cardinality(On(d, s)) \in Nat
    OBVIOUS
  <1>1. On(d, s) \subseteq Keys
    BY DEF On, OnIn
  <1>2. IsFiniteSet(On(d, s))
    BY <1>1, FS_Subset, QuotaAssumption
  <1>. QED
    BY <1>1, <1>2, FS_CardinalityType

\* A step of p that only moves on, and takes no lock that is not free.
LEMMA MovePreserves ==
    ASSUME IInv, NEW p \in Procs, NEW l \in Local, Become(p, l),
           UNCHANGED <<evt, counter>>, today' \in Days, crashes' \in 0..MaxCrashes,
           LocalInv(evt, counter, l),
           \A k \in EventLocksOf(l) : k \in EventLocks(p) \/ EventFree(p, k),
           \A d \in CounterLocksOf(l) : d \in CounterLocks(p) \/ CounterFree(p, d)
    PROVE  IInv'
  <1>1. /\ proc' \in [Procs -> Local] /\ proc'[p] = l
        /\ \A o \in Procs : o # p => proc'[o] = proc[o]
    BY DEF IInv, TypeOK, Become
  <1>2. TypeOK'
    BY <1>1 DEF IInv, TypeOK
  <1>3. \A o \in Procs : LocalInv(evt', counter', proc'[o])
    BY <1>1 DEF IInv
  <1>4. Exclusive'
    <2>. SUFFICES ASSUME NEW o \in Procs, NEW q \in Procs, o # q
                  PROVE  /\ EventLocksOf(proc'[o]) \intersect EventLocksOf(proc'[q]) = {}
                         /\ CounterLocksOf(proc'[o]) \intersect CounterLocksOf(proc'[q]) = {}
      BY DEF Exclusive, EventLocks, CounterLocks
    <2>1. /\ EventLocksOf(proc[o]) \intersect EventLocksOf(proc[q]) = {}
          /\ CounterLocksOf(proc[o]) \intersect CounterLocksOf(proc[q]) = {}
      BY DEF IInv, Exclusive, EventLocks, CounterLocks
    <2>2. ASSUME NEW r \in Procs, r # p
          PROVE  /\ EventLocksOf(l) \intersect EventLocksOf(proc[r]) = {}
                 /\ CounterLocksOf(l) \intersect CounterLocksOf(proc[r]) = {}
      BY <2>2 DEF IInv, Exclusive, EventLocks, CounterLocks, EventFree, CounterFree
    <2>. QED
      BY <1>1, <2>1, <2>2
  <1>5. Balanced' /\ WithinLimit'
    BY ZenonT(30) DEF IInv, Balanced, WithinLimit, On, OnIn
  <1>. QED
    BY <1>2, <1>3, <1>4, <1>5 DEF IInv

\* A transaction's commit: it writes what it has locked, or inserts an event,
\* and keeps no lock.
LEMMA CommitPreserves ==
    ASSUME IInv, NEW p \in Procs, NEW l \in Local, Become(p, l),
           EventLocksOf(l) = {}, CounterLocksOf(l) = {},
           evt' \in [Keys -> Event], counter' \in [Days -> Counter],
           UNCHANGED <<today, crashes>>,
           \A k \in Keys : evt'[k] = evt[k] \/ k \in EventLocks(p) \/ evt[k].status = "absent",
           \A d \in Days : counter'[d] = counter[d] \/ d \in CounterLocks(p),
           LocalInv(evt', counter', l), Balanced', WithinLimit'
    PROVE  IInv'
  <1>1. /\ proc' \in [Procs -> Local] /\ proc'[p] = l
        /\ \A o \in Procs : o # p => proc'[o] = proc[o]
    BY DEF IInv, TypeOK, Become
  <1>2. TypeOK'
    BY <1>1 DEF IInv, TypeOK
  <1>3. \A o \in Procs : LocalInv(evt', counter', proc'[o])
    <2>. SUFFICES ASSUME NEW o \in Procs, o # p
                  PROVE  LocalInv(evt', counter', proc[o])
      BY <1>1
    <2>1. LocalInv(evt, counter, proc[o]) /\ proc[o] \in Local
      BY DEF IInv, TypeOK
    <2>2. \A k \in WorkLocksOf(proc[o]) : k \in Keys /\ evt[k].status # "absent"
      BY <2>1 DEF LocalInv, EventLocksOf, WorkLocksOf, SweepSteps, Local
    <2>3. \A k \in WorkLocksOf(proc[o]) : evt'[k] = evt[k]
      BY <2>2 DEF IInv, Exclusive, EventLocks, EventLocksOf
    <2>4. \A d \in CounterLocksOf(proc[o]) : d \in Days => counter'[d] = counter[d]
      BY DEF IInv, Exclusive, CounterLocks
    <2>. QED
      BY <2>1, <2>3, <2>4 DEF LocalInv, EventLocksOf, WorkLocksOf, CounterLocksOf, Local
  <1>4. Exclusive'
    <2>. SUFFICES ASSUME NEW o \in Procs, NEW q \in Procs, o # q
                  PROVE  /\ EventLocksOf(proc'[o]) \intersect EventLocksOf(proc'[q]) = {}
                         /\ CounterLocksOf(proc'[o]) \intersect CounterLocksOf(proc'[q]) = {}
      BY DEF Exclusive, EventLocks, CounterLocks
    <2>1. /\ EventLocksOf(proc[o]) \intersect EventLocksOf(proc[q]) = {}
          /\ CounterLocksOf(proc[o]) \intersect CounterLocksOf(proc[q]) = {}
      BY DEF IInv, Exclusive, EventLocks, CounterLocks
    <2>. QED
      BY <1>1, <2>1
  <1>. QED
    BY <1>2, <1>3, <1>4 DEF IInv

\* The initial state has no events and empty counters.
LEMMA InitIInv == Init => IInv
  <1>. SUFFICES ASSUME Init PROVE IInv
    OBVIOUS
  <1>1. 1 \in Days
    BY QuotaAssumption DEF Days
  <1>2. TypeOK
    BY <1>1, QuotaAssumption DEF Init, TypeOK, Event, Counter, Local, Idle
  <1>3. \A d, s : s # "absent" => On(d, s) = {}
    BY DEF Init, On, OnIn
  <1>4. Balanced
    BY <1>3, FS_EmptySet DEF Init, Balanced
  <1>5. WithinLimit
    BY QuotaAssumption DEF Init, WithinLimit
  <1>6. Exclusive
    BY DEF Init, Exclusive, EventLocks, CounterLocks, EventLocksOf, WorkLocksOf, CounterLocksOf, Idle
  <1>7. \A p \in Procs : LocalInv(evt, counter, proc[p])
    BY DEF Init, LocalInv, Idle, SweepSteps
  <1>. QED
    BY <1>2, <1>4, <1>5, <1>6, <1>7 DEF IInv

\* Steps that begin, move on or end without a commit.
LEMMA MovesPreserve ==
    ASSUME IInv, Sweepers = {}, NEW p \in Procs,
           \/ \E k \in Keys : Begin(p, k) \/ SettleJob(p, k) \/ Reload(p, k)
           \/ \E S \in SUBSET JobKeys : Sweep(p, S)
           \/ Scan(p) \/ LockStep(p) \/ WorkDone(p) \/ Crash(p) \/ Victim(p)
    PROVE  IInv'
  <1>. DEFINE l == proc[p]
  <1>1. l \in Local /\ LocalInv(evt, counter, l) /\ today \in Days /\ 1 \in Days
        /\ crashes \in 0..MaxCrashes
    BY QuotaAssumption DEF IInv, TypeOK, Days
  <1>2. Idle \in Local /\ LocalInv(evt, counter, Idle)
        /\ EventLocksOf(Idle) = {} /\ CounterLocksOf(Idle) = {}
    BY <1>1 DEF Idle, Local, LocalInv, SweepSteps, EventLocksOf, WorkLocksOf, CounterLocksOf
  <1>. DEFINE Moved(n) == /\ n \in Local /\ LocalInv(evt, counter, n)
                          /\ \A k \in EventLocksOf(n) : k \in EventLocks(p) \/ EventFree(p, k)
                          /\ \A d \in CounterLocksOf(n) : d \in CounterLocks(p) \/ CounterFree(p, d)
  <1>3. ASSUME NEW n, Moved(n), Become(p, n), UNCHANGED <<evt, counter>>,
               today' = today, crashes' \in 0..MaxCrashes
        PROVE  IInv'
    BY <1>1, <1>3, MovePreserves
  <1>4. Moved(Idle)
    BY <1>2
  <1>5. ASSUME NEW k \in Keys, Begin(p, k) PROVE IInv'
    <2>. DEFINE n == [Idle EXCEPT !.pc = "scan", !.key = k, !.day = today]
    <2>1. Moved(n)
      BY <1>1, <1>2 DEF Idle, Local, LocalInv, SweepSteps, EventLocksOf, WorkLocksOf, CounterLocksOf,
         ReserveSteps
    <2>. QED
      BY <1>1, <1>3, <1>5, <2>1 DEF Begin
  <1>6. ASSUME NEW k \in Keys, SettleJob(p, k) PROVE IInv'
    <2>1. PICK s \in {"commit", "release"} : Become(p, [Idle EXCEPT !.pc = s, !.key = k])
      BY <1>6, QuotaAssumption DEF SettleJob
    <2>. DEFINE n == [Idle EXCEPT !.pc = s, !.key = k]
    <2>2. Moved(n)
      BY <1>1, <1>2 DEF Idle, Local, LocalInv, SweepSteps, EventLocksOf, WorkLocksOf, CounterLocksOf,
         CommitSteps, ReleaseSteps
    <2>. QED
      BY <1>1, <1>3, <1>6, <2>1, <2>2 DEF SettleJob
  <1>7. CASE Scan(p)
    <2>. DEFINE S == Stale(l.day)
                n == [l EXCEPT !.rows = S, !.pc = IF S = {} THEN "lookup" ELSE "lockStale"]
    <2>1. S \subseteq Keys
      BY DEF Stale, On, OnIn
    <2>. HIDE DEF S
    <2>2. n \in Local
      BY <1>1, <2>1, ZenonT(30) DEF Local, ReserveSteps
    <2>3. /\ LocalInv(evt, counter, n)
          /\ EventLocksOf(n) \subseteq EventLocks(p) /\ CounterLocksOf(n) = {}
      BY <1>1, <1>7, <2>1 DEF Local, LocalInv, SweepSteps, Scan, EventLocks, EventLocksOf,
         WorkLocksOf, CounterLocksOf
    <2>4. Become(p, n) /\ UNCHANGED <<evt, counter, today, crashes>>
      BY <1>7 DEF Scan, S
    <2>. HIDE DEF n
    <2>. QED
      BY <1>1, <1>3, <2>2, <2>3, <2>4
  <1>15. CASE VisitStale(p)
    <2>. DEFINE k == FirstOf(l.rows)
                again == k \in Stale(l.day)
                m == [l EXCEPT !.rows = @ \ {k},
                               !.stale = IF again THEN @ \union {k} ELSE @,
                               !.kept = IF again THEN @ ELSE @ \union {k}]
                n == IF m.rows # {} THEN m
                     ELSE [m EXCEPT !.pc = IF m.stale = {} THEN "lookup" ELSE "staleCounter"]
    <2>1. l.pc = "lockStale" /\ l.rows \subseteq Keys /\ k \in l.rows /\ EventFree(p, k)
      BY <1>1, <1>15, FirstRow, Unblocked DEF VisitStale, LocalInv, Local, WantedEvents
    <2>2. again => evt[k].status = "reserved" /\ evt[k].day = l.day
      BY DEF Stale, On, OnIn
    <2>3. Become(p, n) /\ UNCHANGED <<evt, counter, today, crashes>>
      BY <1>15 DEF VisitStale
    <2>. HIDE DEF k, again
    <2>4. /\ m \in Local /\ m.pc = "lockStale" /\ m.key = l.key /\ m.day = l.day
          /\ m.stale = IF again THEN l.stale \union {k} ELSE l.stale
          /\ m.kept = IF again THEN l.kept ELSE l.kept \union {k}
      BY <1>1, <2>1, ZenonT(30) DEF Local
    <2>. HIDE DEF m
    <2>5. /\ n \in Local /\ n.key = l.key /\ n.day = l.day /\ n.stale = m.stale
          /\ n.kept = m.kept /\ n.rows = m.rows
          /\ n.pc = IF m.rows # {} THEN "lockStale"
                    ELSE IF m.stale = {} THEN "lookup" ELSE "staleCounter"
      BY <2>4, ZenonT(30) DEF Local, ReserveSteps
    <2>. HIDE DEF n
    <2>6. LocalInv(evt, counter, n)
      BY <1>1, <2>1, <2>2, <2>4, <2>5 DEF LocalInv, SweepSteps
    <2>7. /\ \A j \in EventLocksOf(n) : j = k \/ j \in EventLocks(p)
          /\ CounterLocksOf(n) = {}
      BY <2>1, <2>4, <2>5 DEF EventLocks, EventLocksOf, WorkLocksOf, CounterLocksOf
    <2>. QED
      BY <1>1, <1>3, <2>1, <2>3, <2>5, <2>6, <2>7
  <1>8. CASE LookUp(p)
    <2>. DEFINE e == evt[l.key]
                n == [l EXCEPT !.pc = "count", !.found = e.status # "absent"]
    <2>1. l.key \in Keys /\ l.pc = "lookup" /\ (e.status = "absent" \/ EventFree(p, l.key))
      BY <1>1, <1>8, Unblocked DEF LookUp, LocalInv, WantedEvents
    <2>2. CASE Become(p, Idle)
      BY <1>1, <1>3, <1>4, <1>8, <2>2 DEF LookUp
    <2>3. CASE e.status \in Reservable /\ Become(p, n)
      <3>1. n \in Local
        BY <1>1 DEF Local, ReserveSteps
      <3>2. LocalInv(evt, counter, n)
        BY <1>1, <2>1, <2>3 DEF Local, LocalInv, SweepSteps, Reservable
      <3>3. /\ \A k \in EventLocksOf(n) : k \in EventLocks(p) \/ EventFree(p, k)
            /\ CounterLocksOf(n) = {}
        BY <1>1, <2>1 DEF Local, EventLocks, EventLocksOf, WorkLocksOf, CounterLocksOf
      <3>. HIDE DEF n
      <3>. QED
        BY <1>1, <1>3, <1>8, <2>3, <3>1, <3>2, <3>3 DEF LookUp
    <2>. QED
      BY <1>8, <2>2, <2>3 DEF LookUp
  <1>9. CASE CountReservation(p)
    <2>. DEFINE n == [l EXCEPT !.pc = "store"]
    <2>1. CASE Become(p, Idle)
      BY <1>1, <1>3, <1>4, <1>9, <2>1 DEF CountReservation
    <2>2. CASE Room(counter[l.day]) /\ Become(p, n)
      <3>1. n \in Local
        BY <1>1 DEF Local, ReserveSteps
      <3>2. LocalInv(evt, counter, n)
        BY <1>1, <1>9, <2>2 DEF Local, LocalInv, SweepSteps, CountReservation
      <3>3. /\ \A k \in EventLocksOf(n) : k \in EventLocks(p)
            /\ \A d \in CounterLocksOf(n) : CounterFree(p, d)
        BY <1>1, <1>9, Unblocked DEF WantedCounters, Local, EventLocks, EventLocksOf, WorkLocksOf, CounterLocksOf, CountReservation
      <3>. HIDE DEF n
      <3>. QED
        BY <1>1, <1>3, <1>9, <2>2, <3>1, <3>2, <3>3 DEF CountReservation
    <2>. QED
      BY <1>9, <2>1, <2>2 DEF CountReservation, Goto
  <1>10. CASE LockEvent(p)
    <2>. DEFINE e == evt[l.key]
                n == [l EXCEPT !.pc = LockedStep[@], !.day = e.day]
    <2>1. /\ l.key \in Keys /\ e.day \in Days /\ EventFree(p, l.key)
          /\ LockedStep[l.pc] \in {"commitCounter", "releaseCounter"}
      BY <1>1, <1>10, Unblocked DEF LockEvent, LocalInv, LockedStep, IInv, TypeOK, Event,
         WantedEvents
    <2>2. CASE Become(p, Idle)
      BY <1>1, <1>3, <1>4, <1>10, <2>2 DEF LockEvent
    <2>3. CASE e.status = "reserved" /\ Become(p, n)
      <3>1. n \in Local /\ n.pc \in {"commitCounter", "releaseCounter"} /\ n.key = l.key
            /\ n.day = e.day /\ n.kept = l.kept
        BY <1>1, <2>1 DEF Local, CommitSteps, ReleaseSteps
      <3>. HIDE DEF n
      <3>2. LocalInv(evt, counter, n)
        BY <2>1, <2>3, <3>1 DEF LocalInv, SweepSteps
      <3>3. /\ \A k \in EventLocksOf(n) : k \in EventLocks(p) \/ EventFree(p, k)
            /\ CounterLocksOf(n) = {}
        BY <2>1, <3>1 DEF EventLocks, EventLocksOf, WorkLocksOf, CounterLocksOf
      <3>. QED
        BY <1>1, <1>3, <1>10, <2>3, <3>1, <3>2, <3>3 DEF LockEvent
    <2>. QED
      BY <1>10, <2>2, <2>3 DEF LockEvent, Settleable
  <1>11. CASE LockCounter(p)
    <2>. DEFINE n == [l EXCEPT !.pc = CountedStep[l.pc]]
    <2>1. /\ l.pc \in {"staleCounter", "commitCounter", "releaseCounter"}
          /\ CountedStep[l.pc] = CASE l.pc = "staleCounter" -> "stale"
                                   [] l.pc = "commitCounter" -> "commitApply"
                                   [] OTHER -> "releaseApply"
      BY <1>1, <1>11 DEF LockCounter, LocalInv, SweepSteps, CountedStep
    <2>2. n \in Local /\ n.pc = CountedStep[l.pc] /\ n.key = l.key /\ n.day = l.day
          /\ n.stale = l.stale /\ n.kept = l.kept
      BY <1>1, <2>1 DEF Local, ReserveSteps, CommitSteps, ReleaseSteps
    <2>3. Become(p, n) /\ CounterFree(p, l.day) /\ UNCHANGED <<evt, counter, today, crashes>>
      BY <1>11, <2>1, Unblocked DEF LockCounter, Goto, WantedCounters
    <2>. HIDE DEF n
    <2>4. LocalInv(evt, counter, n)
      BY <1>1, <2>1, <2>2 DEF LocalInv, SweepSteps
    <2>5. /\ EventLocksOf(n) = EventLocks(p)
          /\ \A d \in CounterLocksOf(n) : CounterFree(p, d)
      BY <2>1, <2>2, <2>3 DEF EventLocks, EventLocksOf, WorkLocksOf, CounterLocksOf
    <2>. QED
      BY <1>1, <1>3, <2>2, <2>3, <2>4, <2>5
  <1>12. CASE WorkDone(p)
    <2>1. PICK s \in {"commit", "release"} : Become(p, [l EXCEPT !.pc = s])
      BY <1>12, QuotaAssumption DEF WorkDone, Goto
    <2>. DEFINE n == [l EXCEPT !.pc = s]
    <2>2. Moved(n)
      BY <1>1, <1>12 DEF WorkDone, Local, LocalInv, SweepSteps, EventLocks, EventLocksOf,
         WorkLocksOf, CounterLocksOf, CommitSteps, ReleaseSteps
    <2>. QED
      BY <1>1, <1>3, <1>12, <2>1, <2>2 DEF WorkDone
  <1>13. CASE Crash(p)
    <2>1. crashes' \in 0..MaxCrashes
      BY <1>1, <1>13, QuotaAssumption DEF Crash
    <2>. QED
      BY <1>1, <1>3, <1>4, <1>13, <2>1 DEF Crash
  <1>14. /\ ~LockSwept(p) /\ \A k \in Keys : ~Reload(p, k)
         /\ \A S \in SUBSET JobKeys : ~Sweep(p, S)
    BY <1>1 DEF LockSwept, Reload, Sweep, LocalInv, SweepSteps
  <1>16. CASE Victim(p)
    BY <1>1, <1>3, <1>4, <1>16 DEF Victim
  <1>. QED
    BY <1>5, <1>6, <1>7, <1>8, <1>9, <1>10, <1>11, <1>12, <1>13, <1>14, <1>15, <1>16
       DEF LockStep

\* How the sets that are counted change when one event gets a new status.
LEMMA OnUpdate ==
    ASSUME NEW k \in Keys, \A j \in Keys \ {k} : evt'[j] = evt[j]
    PROVE  \A d, s : OnIn(evt', d, s) = IF evt'[k].status = s /\ evt'[k].day = d
                                        THEN On(d, s) \union {k} ELSE On(d, s) \ {k}
  BY DEF On, OnIn

\* The counters stay exact when one unit is reserved.
LEMMA StorePreserves ==
    ASSUME IInv, NEW p \in Procs, Store(p)
    PROVE  IInv'
  <1>. DEFINE l == proc[p]
              k == l.key
              d == l.day
  <1>1. l \in Local /\ LocalInv(evt, counter, l) /\ l.pc = "store" /\ k \in Keys /\ d \in Days
        /\ Room(counter[d]) /\ (l.found => evt[k].status = "returned")
    BY DEF Store, IInv, TypeOK, LocalInv, Local
  <1>2. Idle \in Local /\ \A E, C : LocalInv(E, C, Idle)
    BY QuotaAssumption DEF Idle, Local, LocalInv, SweepSteps, Days
  <1>3. EventLocksOf(Idle) = {} /\ CounterLocksOf(Idle) = {}
    BY DEF Idle, EventLocksOf, WorkLocksOf, CounterLocksOf
  <1>4. CASE ~(l.found \/ evt[k].status = "absent")
    <2>1. Become(p, Idle) /\ UNCHANGED <<evt, counter, today, crashes>>
      BY <1>4 DEF Store
    <2>. QED
      BY <1>2, <1>3, <2>1, MovePreserves DEF IInv, TypeOK
  <1>5. CASE l.found \/ evt[k].status = "absent"
    <2>. DEFINE e == [status |-> "reserved", day |-> d, old |-> FALSE]
                n == IF k \in JobKeys THEN Idle ELSE [Idle EXCEPT !.pc = "hold", !.key = k]
    <2>1. /\ evt' = [evt EXCEPT ![k] = e]
          /\ counter' = [counter EXCEPT ![d].reserved = @ + 1]
          /\ Become(p, n) /\ UNCHANGED <<today, crashes>>
      BY <1>5 DEF Store
    <2>2. evt[k].status \in {"absent", "returned"}
      BY <1>1, <1>5
    <2>3. /\ counter' \in [Days -> Counter]
          /\ counter'[d].reserved = counter[d].reserved + 1
          /\ counter'[d].used = counter[d].used
          /\ \A c \in Days \ {d} : counter'[c] = counter[c]
      BY <1>1, <2>1 DEF IInv, TypeOK, Counter
    <2>4. Balanced'
      <3>0. /\ evt'[k].status = "reserved" /\ evt'[k].day = d
            /\ \A j \in Keys \ {k} : evt'[j] = evt[j]
        BY <1>1, <2>1 DEF IInv, TypeOK
      <3>1. \A c \in Days : OnIn(evt', c, "succeeded") = On(c, "succeeded")
        <4>1. \A c \in Days : k \notin On(c, "succeeded")
          BY <2>2 DEF On, OnIn
        <4>2. \A c \in Days : OnIn(evt', c, "succeeded") = On(c, "succeeded") \ {k}
          BY <1>1, <3>0, OnUpdate
        <4>. QED
          BY <4>1, <4>2
      <3>2. \A c \in Days : OnIn(evt', c, "reserved") = IF c = d THEN On(c, "reserved") \union {k}
                                                ELSE On(c, "reserved")
        <4>1. \A c \in Days : k \notin On(c, "reserved")
          BY <2>2 DEF On, OnIn
        <4>2. \A c \in Days : OnIn(evt', c, "reserved") = IF c = d THEN On(c, "reserved") \union {k}
                                                  ELSE On(c, "reserved") \ {k}
          BY <1>1, <3>0, OnUpdate
        <4>. QED
          BY <4>1, <4>2
      <3>3. Cardinality(On(d, "reserved") \union {k}) = Cardinality(On(d, "reserved")) + 1
        <4>1. k \notin On(d, "reserved")
          BY <2>2 DEF On, OnIn
        <4>. QED
          BY <4>1, OnFacts, FS_AddElement
      <3>. QED
        BY <2>3, <3>1, <3>2, <3>3 DEF IInv, Balanced, On
    <2>5. WithinLimit'
      BY <1>1, <2>3, QuotaAssumption DEF IInv, TypeOK, Counter, WithinLimit, Room
    <2>6. evt' \in [Keys -> Event] /\ \A j \in Keys : evt'[j] = evt[j] \/ j = k
      BY <1>1, <2>1 DEF IInv, TypeOK, Event
    <2>7. l.found => k \in EventLocks(p)
      BY <1>1 DEF EventLocks, EventLocksOf, WorkLocksOf
    <2>8. d \in CounterLocks(p)
      BY <1>1 DEF CounterLocks, CounterLocksOf
    <2>9. /\ n \in Local /\ LocalInv(evt', counter', n)
          /\ EventLocksOf(n) = {} /\ CounterLocksOf(n) = {}
      BY <1>1, <1>2 DEF Idle, Local, LocalInv, SweepSteps, EventLocksOf, WorkLocksOf, CounterLocksOf
    <2>10. \A j \in Keys : evt'[j] = evt[j] \/ j \in EventLocks(p) \/ evt[j].status = "absent"
      BY <1>5, <2>6, <2>7
    <2>11. \A c \in Days : counter'[c] = counter[c] \/ c \in CounterLocks(p)
      BY <2>3, <2>8
    <2>. HIDE DEF n
    <2>. QED
      BY <2>1, <2>3, <2>4, <2>5, <2>6, <2>9, <2>10, <2>11, CommitPreserves
  <1>. QED
    BY <1>4, <1>5

\* A unit is spent or returned by the session that has locked both rows.
LEMMA SettlePreserves ==
    ASSUME IInv, NEW p \in Procs, CommitApply(p) \/ ReleaseApply(p)
    PROVE  IInv'
  <1>. DEFINE l == proc[p]
              k == l.key
              d == l.day
  <1>1. /\ l \in Local /\ LocalInv(evt, counter, l) /\ l.pc \in {"commitApply", "releaseApply"}
        /\ k \in Keys /\ d \in Days /\ evt[k].status = "reserved" /\ evt[k].day = d
    BY DEF CommitApply, ReleaseApply, IInv, TypeOK, LocalInv, Local, SweepSteps
  <1>2. Idle \in Local /\ \A E, C : LocalInv(E, C, Idle)
    BY QuotaAssumption DEF Idle, Local, LocalInv, SweepSteps, Days
  <1>3. EventLocksOf(Idle) = {} /\ CounterLocksOf(Idle) = {}
    BY DEF Idle, EventLocksOf, WorkLocksOf, CounterLocksOf
  <1>4. k \in EventLocks(p) /\ d \in CounterLocks(p)
    BY <1>1 DEF EventLocks, EventLocksOf, WorkLocksOf, CounterLocks, CounterLocksOf
  <1>5. k \in On(d, "reserved") /\ Cardinality(On(d, "reserved")) >= 1
    <2>1. k \in On(d, "reserved")
      BY <1>1 DEF On, OnIn
    <2>. QED
      BY <2>1, OnFacts, FS_EmptySet
  <1>6. /\ counter[d].reserved >= 1 /\ counter[d] \in Counter
        /\ counter[d].reserved = Cardinality(On(d, "reserved"))
    BY <1>1, <1>5 DEF IInv, TypeOK, Balanced
  <1>7. \E s \in {"succeeded", "returned"} :
           /\ evt' = [evt EXCEPT ![k] = Settled(k, s)]
           /\ counter' \in [Days -> Counter]
           /\ counter'[d].reserved = counter[d].reserved - 1
           /\ counter'[d].used = IF s = "succeeded" THEN counter[d].used + 1 ELSE counter[d].used
           /\ \A c \in Days \ {d} : counter'[c] = counter[c]
    <2>1. CASE CommitApply(p)
      <3>. DEFINE new == Spend(counter[d])
      <3>1. counter' = [counter EXCEPT ![d] = new] /\ evt' = [evt EXCEPT ![k] = Settled(k, "succeeded")]
        BY <1>1, <1>6, <2>1 DEF CommitApply, Counter, IInv, TypeOK
      <3>2. /\ new \in Counter /\ new.reserved = counter[d].reserved - 1
            /\ new.used = counter[d].used + 1
        <4>. DEFINE c == counter[d]
        <4>1. c \in Counter /\ c.reserved >= 1 /\ c.reserved \in Nat /\ c.used \in Nat
          BY <1>6 DEF Counter
        <4>2. new = [used |-> c.used + 1, reserved |-> c.reserved - 1]
          BY <4>1 DEF Spend, Counter
        <4>3. c.used + 1 \in Nat /\ c.reserved - 1 \in Nat
          BY <4>1
        <4>. HIDE DEF c
        <4>. QED
          BY <4>2, <4>3 DEF Counter, c
      <3>. HIDE DEF new
      <3>. QED
        BY <1>1, <3>1, <3>2 DEF IInv, TypeOK
    <2>2. CASE ReleaseApply(p)
      <3>. DEFINE new == [counter[d] EXCEPT !.reserved = counter[d].reserved - 1]
      <3>1. Floor(counter[d].reserved - 1) = counter[d].reserved - 1
        BY <1>6 DEF Floor, Counter
      <3>2. counter' = [counter EXCEPT ![d] = new] /\ evt' = [evt EXCEPT ![k] = Settled(k, "returned")]
        BY <1>1, <2>2, <3>1 DEF ReleaseApply, IInv, TypeOK
      <3>3. new \in Counter /\ new.reserved = counter[d].reserved - 1 /\ new.used = counter[d].used
        BY <1>6 DEF Counter
      <3>. HIDE DEF new
      <3>. QED
        BY <1>1, <3>2, <3>3 DEF IInv, TypeOK
    <2>. QED
      BY <2>1, <2>2
  <1>8. PICK s \in {"succeeded", "returned"} :
           /\ evt' = [evt EXCEPT ![k] = Settled(k, s)]
           /\ counter' \in [Days -> Counter]
           /\ counter'[d].reserved = counter[d].reserved - 1
           /\ counter'[d].used = IF s = "succeeded" THEN counter[d].used + 1 ELSE counter[d].used
           /\ \A c \in Days \ {d} : counter'[c] = counter[c]
    BY <1>7
  <1>9. /\ evt' \in [Keys -> Event] /\ evt'[k].status = s /\ evt'[k].day = d
        /\ \A j \in Keys \ {k} : evt'[j] = evt[j]
    BY <1>1, <1>8 DEF IInv, TypeOK, Event, Settled
  <1>10. Balanced'
    <2>1. \A c \in Days : OnIn(evt', c, "reserved") = IF c = d THEN On(c, "reserved") \ {k}
                                              ELSE On(c, "reserved")
      <3>1. \A c \in Days : OnIn(evt', c, "reserved") = On(c, "reserved") \ {k}
        BY <1>1, <1>9, OnUpdate
      <3>2. \A c \in Days : c # d => k \notin On(c, "reserved")
        BY <1>1 DEF On, OnIn
      <3>. QED
        BY <3>1, <3>2
    <2>2. \A c \in Days : OnIn(evt', c, "succeeded") =
             IF c = d /\ s = "succeeded" THEN On(c, "succeeded") \union {k} ELSE On(c, "succeeded")
      <3>1. \A c \in Days : k \notin On(c, "succeeded")
        BY <1>1 DEF On, OnIn
      <3>2. \A c \in Days : OnIn(evt', c, "succeeded") =
               IF c = d /\ s = "succeeded" THEN On(c, "succeeded") \union {k}
               ELSE On(c, "succeeded") \ {k}
        BY <1>1, <1>9, OnUpdate
      <3>. QED
        BY <3>1, <3>2
    <2>3. /\ Cardinality(On(d, "reserved") \ {k}) = Cardinality(On(d, "reserved")) - 1
          /\ Cardinality(On(d, "succeeded") \union {k}) = Cardinality(On(d, "succeeded")) + 1
      <3>1. k \in On(d, "reserved") /\ k \notin On(d, "succeeded")
        BY <1>1 DEF On, OnIn
      <3>. QED
        BY <3>1, OnFacts, FS_AddElement, FS_RemoveElement, ZenonT(30)
    <2>. QED
      BY <1>6, <1>8, <2>1, <2>2, <2>3 DEF IInv, Balanced, On
  <1>11. WithinLimit'
    BY <1>1, <1>6, <1>8, QuotaAssumption DEF IInv, TypeOK, Counter, WithinLimit
  <1>12. evt' \in [Keys -> Event] /\ \A j \in Keys : evt'[j] = evt[j] \/ j = k
    BY <1>1, <1>9
  <1>13. Become(p, Idle) /\ UNCHANGED <<today, crashes>>
    BY <1>1 DEF CommitApply, ReleaseApply
  <1>. QED
    BY <1>2, <1>3, <1>4, <1>8, <1>10, <1>11, <1>12, <1>13, CommitPreserves

\* The reservations a scan has locked are returned in one commit.
LEMMA ReturnStalePreserves ==
    ASSUME IInv, NEW p \in Procs, ReturnStale(p)
    PROVE  IInv'
  <1>. DEFINE l == proc[p]
              d == l.day
              S == l.stale
              n == [l EXCEPT !.pc = "lookup", !.stale = {}, !.kept = {}]
  <1>1. /\ l \in Local /\ LocalInv(evt, counter, l) /\ l.pc = "stale" /\ d \in Days
        /\ S \subseteq Keys
        /\ \A k \in S : evt[k].status = "reserved" /\ evt[k].day = d
    BY DEF ReturnStale, IInv, TypeOK, LocalInv, Local
  <1>2. /\ Become(p, n) /\ UNCHANGED <<today, crashes>>
        /\ evt' = [k \in Keys |-> IF k \in S THEN Settled(k, "returned")
                                  ELSE evt[k]]
        /\ counter' = [counter EXCEPT ![d].reserved = Floor(@ - Cardinality(S))]
    BY DEF ReturnStale
  <1>3. /\ n \in Local /\ LocalInv(evt', counter', n)
        /\ EventLocksOf(n) = {} /\ CounterLocksOf(n) = {}
    BY <1>1 DEF Local, LocalInv, ReserveSteps, SweepSteps, EventLocksOf, WorkLocksOf, CounterLocksOf
  <1>4. S \subseteq EventLocks(p) /\ d \in CounterLocks(p)
    BY <1>1 DEF EventLocks, CounterLocks, EventLocksOf, WorkLocksOf, CounterLocksOf
  <1>5. S \subseteq On(d, "reserved")
    BY <1>1 DEF On, OnIn
  <1>6. /\ Cardinality(On(d, "reserved") \ S) = Cardinality(On(d, "reserved")) - Cardinality(S)
        /\ Cardinality(S) \in Nat /\ Cardinality(S) <= Cardinality(On(d, "reserved"))
    <2>1. On(d, "reserved") \intersect S = S
      BY <1>5
    <2>2. IsFiniteSet(On(d, "reserved")) /\ Cardinality(On(d, "reserved")) \in Nat
      BY OnFacts
    <2>. HIDE DEF S, d
    <2>3. /\ IsFiniteSet(S) /\ Cardinality(S) \in Nat
          /\ Cardinality(S) <= Cardinality(On(d, "reserved"))
      BY <1>5, <2>2, FS_Subset, FS_CardinalityType
    <2>4. Cardinality(On(d, "reserved") \ S)
            = Cardinality(On(d, "reserved")) - Cardinality(On(d, "reserved") \intersect S)
      BY <2>2, FS_Difference
    <2>. QED
      BY <2>1, <2>3, <2>4
  <1>7. /\ counter[d] \in Counter
        /\ counter[d].reserved = Cardinality(On(d, "reserved"))
        /\ counter[d].reserved - Cardinality(S) \in Nat
    BY <1>1, <1>6, OnFacts DEF IInv, TypeOK, Balanced, Counter
  <1>8. Floor(counter[d].reserved - Cardinality(S)) = counter[d].reserved - Cardinality(S)
    BY <1>7 DEF Floor
  <1>. DEFINE new == [counter[d] EXCEPT !.reserved = counter[d].reserved - Cardinality(S)]
  <1>9. /\ new \in Counter /\ new.reserved = counter[d].reserved - Cardinality(S)
        /\ new.used = counter[d].used
    BY <1>7 DEF Counter
  <1>10. counter' = [counter EXCEPT ![d] = new]
    BY <1>1, <1>2, <1>8 DEF IInv, TypeOK
  <1>. HIDE DEF new, n
  <1>11. /\ counter' \in [Days -> Counter] /\ counter'[d] = new
         /\ \A c \in Days \ {d} : counter'[c] = counter[c]
    BY <1>1, <1>9, <1>10 DEF IInv, TypeOK
  <1>12. /\ evt' \in [Keys -> Event]
         /\ \A k \in Keys : evt'[k] = evt[k] \/ k \in S
         /\ \A k \in S : evt'[k].status = "returned"
    BY <1>1, <1>2 DEF IInv, TypeOK, Event, Settled
  <1>13. Balanced'
    <2>1. \A c \in Days : OnIn(evt', c, "reserved") = IF c = d THEN On(c, "reserved") \ S
                                                      ELSE On(c, "reserved")
      BY <1>1, <1>12 DEF On, OnIn
    <2>2. \A c \in Days : OnIn(evt', c, "succeeded") = On(c, "succeeded")
      BY <1>1, <1>12 DEF On, OnIn
    <2>. QED
      BY <1>6, <1>7, <1>9, <1>11, <2>1, <2>2 DEF IInv, Balanced, On
  <1>14. WithinLimit'
    BY <1>6, <1>7, <1>9, <1>11, QuotaAssumption DEF IInv, TypeOK, Counter, WithinLimit
  <1>. QED
    BY <1>2, <1>3, <1>4, <1>11, <1>12, <1>13, <1>14, CommitPreserves

\* A reservation that gets old keeps its status and its day.
LEMMA AgePreserves ==
    ASSUME IInv, NEW k \in Keys, Age(k)
    PROVE  IInv'
  <1>1. /\ evt' \in [Keys -> Event] /\ UNCHANGED <<counter, proc, today, crashes>>
        /\ \A j \in Keys : evt'[j].status = evt[j].status /\ evt'[j].day = evt[j].day
    BY DEF Age, IInv, TypeOK, Event
  <1>2. TypeOK'
    BY <1>1 DEF IInv, TypeOK
  <1>3. \A p \in Procs : LocalInv(evt', counter', proc'[p])
    BY <1>1 DEF IInv, TypeOK, LocalInv, Local
  <1>4. Exclusive'
    BY <1>1 DEF IInv, Exclusive, EventLocks, CounterLocks
  <1>5. \A d, s : OnIn(evt', d, s) = On(d, s)
    BY <1>1 DEF On, OnIn
  <1>6. Balanced' /\ WithinLimit'
    BY <1>1, <1>5 DEF IInv, Balanced, WithinLimit, On
  <1>. QED
    BY <1>2, <1>3, <1>4, <1>6 DEF IInv

\* IInv is inductive as long as every release tests what it has locked.
LEMMA NextPreserves == IInv /\ Sweepers = {} /\ [Next]_vars => IInv'
  <1>. SUFFICES ASSUME IInv, Sweepers = {}, [Next]_vars PROVE IInv'
    OBVIOUS
  <1>1. ASSUME NEW p \in Procs,
               \/ \E k \in Keys : Begin(p, k) \/ SettleJob(p, k) \/ Reload(p, k)
               \/ \E S \in SUBSET JobKeys : Sweep(p, S)
               \/ Scan(p) \/ LockStep(p) \/ ApplyStep(p) \/ WorkDone(p) \/ Crash(p) \/ Victim(p)
        PROVE  IInv'
    BY <1>1, MovesPreserve, StorePreserves, SettlePreserves, ReturnStalePreserves
       DEF ApplyStep
  <1>2. CASE NextDay
    <2>1. today' \in Days /\ UNCHANGED <<evt, counter, proc, crashes>>
      BY <1>2, QuotaAssumption DEF NextDay, IInv, TypeOK, Days
    <2>. QED
      BY <2>1 DEF IInv, TypeOK, Exclusive, EventLocks, CounterLocks, Balanced, On, WithinLimit
  <1>3. ASSUME NEW k \in Keys, Age(k) PROVE IInv'
    BY <1>3, AgePreserves
  <1>4. CASE UNCHANGED vars
    BY <1>4 DEF vars, IInv, TypeOK, Exclusive, EventLocks, CounterLocks, Balanced, On,
       WithinLimit
  <1>. QED
    BY <1>1, <1>2, <1>3, <1>4 DEF Next

\* The invariant holds in every reachable state.
THEOREM Invariance == ASSUME Sweepers = {} PROVE Spec => []IInv
  <1>1. IInv /\ [Next]_vars => IInv'
    BY NextPreserves
  <1>. QED
    BY InitIInv, <1>1, PTL DEF Spec

\* The counters are exact in every reachable state: interleaved requests,
\* timeouts, midnight and crashes neither lose a unit nor charge one twice.
THEOREM CountersExact == ASSUME Sweepers = {} PROVE Spec => []Balanced
  <1>1. IInv => Balanced
    BY DEF IInv
  <1>. QED
    BY <1>1, Invariance, PTL

\* No interleaving of requests for the last unit exceeds a day's limit.
THEOREM LimitKept == ASSUME Sweepers = {} PROVE Spec => []WithinLimit
  <1>1. IInv => WithinLimit
    BY DEF IInv
  <1>. QED
    BY <1>1, Invariance, PTL
-----------------------------------------------------------------------------
(* Waiting, with the orphan sweep.                                         *)

\* What one session has to be in.
Ordered(l) ==
    /\ l \in Local
    /\ l.pc \notin {"idle", "reload"} => l.key \in Keys
    /\ l.pc = "scan" => l.stale = {}
    /\ l.pc = "lockStale" => /\ l.rows # {}
                             /\ \A j \in l.stale, k \in l.rows : Place[j] < Place[k]

LEMMA OrderedSessions ==
    ASSUME OrderInv, NEW p \in Procs, NEW l, Ordered(l), Become(p, l),
           evt' \in [Keys -> Event], counter' \in [Days -> Counter],
           today' \in Days, crashes' \in 0..MaxCrashes
    PROVE  OrderInv'
  <1>1. /\ proc' \in [Procs -> Local] /\ proc'[p] = l
        /\ \A o \in Procs : o # p => proc'[o] = proc[o]
    BY DEF OrderInv, TypeOK, Become, Ordered
  <1>2. TypeOK'
    BY <1>1 DEF TypeOK
  <1>. QED
    BY <1>1, <1>2 DEF OrderInv, Ordered

\* The steps of a session that leave the tables alone.
LEMMA WaitingMoves ==
    ASSUME OrderInv, NEW p \in Procs,
           \/ \E k \in Keys : Begin(p, k) \/ SettleJob(p, k) \/ Reload(p, k)
           \/ \E S \in SUBSET JobKeys : Sweep(p, S)
           \/ Scan(p) \/ LockStep(p) \/ WorkDone(p) \/ Crash(p) \/ Victim(p)
    PROVE  OrderInv'
  <1>. DEFINE l == proc[p]
  <1>1. /\ Ordered(l) /\ l \in Local /\ today \in Days /\ 1 \in Days /\ crashes \in 0..MaxCrashes
        /\ evt \in [Keys -> Event] /\ counter \in [Days -> Counter]
    BY QuotaAssumption DEF OrderInv, Ordered, TypeOK, Days
  <1>2. Idle \in Local /\ Ordered(Idle)
    BY <1>1 DEF Idle, Local, Ordered
  <1>3. ASSUME NEW n, Ordered(n), Become(p, n), UNCHANGED <<evt, counter>>,
               today' = today, crashes' \in 0..MaxCrashes
        PROVE  OrderInv'
    BY <1>1, <1>3, OrderedSessions
  <1>4. ASSUME NEW k \in Keys, Begin(p, k) PROVE OrderInv'
    <2>. DEFINE n == [Idle EXCEPT !.pc = "scan", !.key = k, !.day = today]
    <2>1. Ordered(n)
      BY <1>1, <1>2 DEF Idle, Local, Ordered, ReserveSteps
    <2>. QED
      BY <1>1, <1>3, <1>4, <2>1 DEF Begin
  <1>5. ASSUME NEW k \in Keys, SettleJob(p, k) PROVE OrderInv'
    <2>1. PICK s \in {"commit", "release"} : Become(p, [Idle EXCEPT !.pc = s, !.key = k])
      BY <1>5, QuotaAssumption DEF SettleJob
    <2>. DEFINE n == [Idle EXCEPT !.pc = s, !.key = k]
    <2>2. Ordered(n)
      BY <1>1, <1>2 DEF Idle, Local, Ordered, CommitSteps, ReleaseSteps
    <2>. QED
      BY <1>1, <1>3, <1>5, <2>1, <2>2 DEF SettleJob
  <1>6. ASSUME NEW k \in Keys, Reload(p, k) PROVE OrderInv'
    <2>. DEFINE s == IF evt[k].status = "reserved" THEN "sweep" ELSE "sweepSettled"
                d == evt[k].day
                n == [l EXCEPT !.pc = s, !.key = k, !.day = d, !.rows = @ \ {k}]
    <2>1. d \in Days /\ s \in {"sweep", "sweepSettled"} /\ Become(p, n)
      BY <1>1, <1>6 DEF Reload, Event
    <2>. HIDE DEF s, d
    <2>2. n \in Local /\ n.pc = s /\ n.key = k
      BY <1>1, <2>1, ZenonT(30) DEF Local, SweepSteps
    <2>3. Ordered(n)
      BY <2>1, <2>2 DEF Ordered
    <2>. HIDE DEF n
    <2>. QED
      BY <1>1, <1>3, <1>6, <2>1, <2>3 DEF Reload
  <1>7. ASSUME NEW S \in SUBSET JobKeys, Sweep(p, S) PROVE OrderInv'
    <2>1. PICK k \in S : Become(p, [Idle EXCEPT !.pc = "sweep", !.key = k, !.day = evt[k].day,
                                               !.rows = S \ {k}])
      BY <1>7 DEF Sweep
    <2>. DEFINE d == evt[k].day
                R == S \ {k}
                n == [Idle EXCEPT !.pc = "sweep", !.key = k, !.day = d, !.rows = R]
    <2>2. d \in Days /\ k \in Keys /\ R \subseteq Keys
      BY <1>1, QuotaAssumption DEF Event
    <2>. HIDE DEF d, R
    <2>3. Ordered(n)
      BY <1>1, <1>2, <2>2 DEF Idle, Local, Ordered, SweepSteps
    <2>. QED
      BY <1>1, <1>3, <1>7, <2>1, <2>3 DEF Sweep, d, R
  <1>8. CASE Scan(p)
    <2>. DEFINE S == Stale(l.day)
                n == [l EXCEPT !.rows = S, !.pc = IF S = {} THEN "lookup" ELSE "lockStale"]
    <2>1. S \subseteq Keys /\ l.pc = "scan"
      BY <1>8 DEF Scan, Stale, On, OnIn
    <2>. HIDE DEF S
    <2>2. /\ n \in Local /\ n.key = l.key /\ n.rows = S /\ n.stale = l.stale
          /\ n.pc = IF S = {} THEN "lookup" ELSE "lockStale"
      BY <1>1, <2>1, ZenonT(30) DEF Local, ReserveSteps
    <2>3. Ordered(n)
      BY <1>1, <2>1, <2>2 DEF Ordered
    <2>4. Become(p, n) /\ UNCHANGED <<evt, counter, today, crashes>>
      BY <1>8 DEF Scan, S
    <2>. HIDE DEF n
    <2>. QED
      BY <1>1, <1>3, <2>3, <2>4
  <1>9. CASE VisitStale(p)
    <2>. DEFINE k == FirstOf(l.rows)
                again == k \in Stale(l.day)
                m == [l EXCEPT !.rows = @ \ {k},
                               !.stale = IF again THEN @ \union {k} ELSE @,
                               !.kept = IF again THEN @ ELSE @ \union {k}]
                n == IF m.rows # {} THEN m
                     ELSE [m EXCEPT !.pc = IF m.stale = {} THEN "lookup" ELSE "staleCounter"]
    <2>1. /\ l.pc = "lockStale" /\ l.rows \subseteq Keys /\ l.rows # {} /\ l.key \in Keys
          /\ \A i \in l.stale, j \in l.rows : Place[i] < Place[j]
      BY <1>1, <1>9 DEF VisitStale, Ordered, Local
    <2>2. k \in l.rows /\ \A j \in l.rows : Place[k] <= Place[j]
      BY <2>1, FirstRow
    <2>3. Become(p, n) /\ UNCHANGED <<evt, counter, today, crashes>>
      BY <1>9 DEF VisitStale
    <2>. HIDE DEF k, again
    <2>4. /\ m \in Local /\ m.pc = "lockStale" /\ m.key = l.key /\ m.rows = l.rows \ {k}
          /\ m.stale = IF again THEN l.stale \union {k} ELSE l.stale
      BY <1>1, <2>1, <2>2, ZenonT(30) DEF Local
    <2>. HIDE DEF m
    <2>5. /\ n \in Local /\ n.key = l.key /\ n.stale = m.stale /\ n.rows = m.rows
          /\ n.pc = IF m.rows # {} THEN "lockStale"
                    ELSE IF m.stale = {} THEN "lookup" ELSE "staleCounter"
      BY <2>4, ZenonT(30) DEF Local, ReserveSteps
    <2>. HIDE DEF n
    <2>6. \A j \in l.rows \ {k} : Place[k] < Place[j]
      <3>1. \A j \in Keys : Place[j] \in Int
        BY PlaceAssumption, QuotaAssumption, FS_CardinalityType
      <3>2. ASSUME NEW j \in l.rows \ {k} PROVE Place[k] # Place[j]
        BY <2>1, <2>2, PlaceAssumption
      <3>. QED
        BY <2>1, <2>2, <3>1, <3>2
    <2>7. \A i \in m.stale, j \in m.rows : Place[i] < Place[j]
      BY <2>1, <2>4, <2>6
    <2>8. Ordered(n)
      BY <2>1, <2>5, <2>7 DEF Ordered
    <2>. QED
      BY <1>1, <1>3, <2>3, <2>8
  <1>10. CASE LookUp(p)
    <2>. DEFINE n == [l EXCEPT !.pc = "count", !.found = evt[l.key].status # "absent"]
    <2>1. Become(p, Idle) \/ Become(p, n)
      BY <1>10 DEF LookUp
    <2>2. Ordered(n)
      BY <1>1, <1>10, ZenonT(30) DEF LookUp, Ordered, Local, ReserveSteps
    <2>. HIDE DEF n
    <2>. QED
      BY <1>1, <1>2, <1>3, <1>10, <2>1, <2>2 DEF LookUp
  <1>11. ASSUME NEW s \in {"commit", "release", "store", "stale", "commitApply", "releaseApply",
                           "sweepApply", "sweepCounter"},
                Goto(p, s), l.pc \notin {"idle", "reload"},
                UNCHANGED <<evt, counter, today, crashes>>
         PROVE  OrderInv'
    <2>. DEFINE n == [l EXCEPT !.pc = s]
    <2>1. n \in Local /\ n.pc = s /\ n.key = l.key
      BY <1>1, <1>11, ZenonT(30) DEF Local, ReserveSteps, CommitSteps, ReleaseSteps, SweepSteps
    <2>2. Ordered(n)
      BY <1>1, <1>11, <2>1 DEF Ordered
    <2>. HIDE DEF n
    <2>. QED
      BY <1>1, <1>3, <1>11, <2>2 DEF Goto, n
  <1>12. CASE CountReservation(p)
    BY <1>1, <1>2, <1>3, <1>11, <1>12 DEF CountReservation
  <1>13. CASE LockEvent(p)
    <2>. DEFINE d == evt[l.key].day
                n == [l EXCEPT !.pc = LockedStep[@], !.day = d]
    <2>1. Become(p, Idle) \/ Become(p, n)
      BY <1>13 DEF LockEvent
    <2>2. /\ l.key \in Keys /\ d \in Days
          /\ LockedStep[l.pc] \in {"commitCounter", "releaseCounter"}
      BY <1>1, <1>13 DEF LockEvent, Ordered, LockedStep, Event
    <2>. HIDE DEF d
    <2>3. n \in Local /\ n.pc \in {"commitCounter", "releaseCounter"} /\ n.key = l.key
      BY <1>1, <2>2 DEF Local, CommitSteps, ReleaseSteps
    <2>4. Ordered(n)
      BY <2>2, <2>3 DEF Ordered
    <2>. HIDE DEF n
    <2>. QED
      BY <1>1, <1>2, <1>3, <1>13, <2>1, <2>4 DEF LockEvent
  <1>14. CASE LockCounter(p)
    <2>1. /\ l.pc \notin {"idle", "reload"} /\ Goto(p, CountedStep[l.pc])
          /\ CountedStep[l.pc] \in {"stale", "commitApply", "releaseApply", "sweepApply"}
          /\ UNCHANGED <<evt, counter, today, crashes>>
      BY <1>14 DEF LockCounter, CountedStep
    <2>. QED
      BY <1>11, <2>1
  <1>15. CASE LockSwept(p)
    <2>1. CASE l.pc = "sweep" /\ Goto(p, "sweepCounter")
      BY <1>11, <1>15, <2>1 DEF LockSwept
    <2>2. CASE l.pc = "sweepSettled" /\ Become(p, NextSwept([l EXCEPT !.kept = @ \union {l.key}]))
      <3>. DEFINE m == [l EXCEPT !.kept = @ \union {l.key}]
      <3>1. m \in Local
        BY <1>1, <2>2, ZenonT(30) DEF Ordered, Local
      <3>. HIDE DEF m
      <3>2. Ordered(NextSwept(m))
        BY <1>1, <1>2, <3>1, ZenonT(30) DEF NextSwept, Ordered, Idle, Local, SweepSteps
      <3>. QED
        BY <1>1, <1>3, <1>15, <2>2, <3>2 DEF LockSwept, m
    <2>. QED
      BY <1>15, <2>1, <2>2 DEF LockSwept
  <1>16. CASE WorkDone(p)
    BY <1>11, <1>16, QuotaAssumption DEF WorkDone
  <1>17. CASE Crash(p)
    <2>1. crashes' \in 0..MaxCrashes
      BY <1>1, <1>17, QuotaAssumption DEF Crash
    <2>. QED
      BY <1>2, <1>3, <1>17, <2>1 DEF Crash
  <1>18. CASE Victim(p)
    BY <1>1, <1>2, <1>3, <1>18 DEF Victim
  <1>. QED
    BY <1>4, <1>5, <1>6, <1>7, <1>8, <1>9, <1>10, <1>12, <1>13, <1>14, <1>15, <1>16, <1>17, <1>18
       DEF LockStep

\* Commits write well-formed rows.
LEMMA WaitingCommits ==
    ASSUME OrderInv, NEW p \in Procs, ApplyStep(p)
    PROVE  OrderInv'
  <1>. DEFINE l == proc[p]
  <1>1. /\ Ordered(l) /\ l \in Local /\ l.day \in Days /\ today \in Days /\ 1 \in Days
        /\ crashes \in 0..MaxCrashes
        /\ evt \in [Keys -> Event] /\ counter \in [Days -> Counter]
    BY QuotaAssumption DEF OrderInv, Ordered, TypeOK, Days, Local
  <1>2. Idle \in Local /\ Ordered(Idle)
    BY <1>1 DEF Idle, Local, Ordered
  <1>3. \A k \in Keys : \A s \in {"succeeded", "returned"} : Settled(k, s) \in Event
    BY <1>1 DEF Settled, Event
  <1>4. \A n : Floor(n) = IF n < 0 THEN 0 ELSE n
    BY DEF Floor
  <1>5. CASE ReturnStale(p)
    <2>. DEFINE n == [l EXCEPT !.pc = "lookup", !.stale = {}, !.kept = {}]
                c == Cardinality(l.stale)
    <2>1. n \in Local /\ n.pc = "lookup" /\ n.key = l.key
      BY <1>1, ZenonT(30) DEF Local, ReserveSteps
    <2>2. Ordered(n)
      BY <1>1, <1>5, <2>1 DEF Ordered, ReturnStale
    <2>3. evt' \in [Keys -> Event]
      BY <1>1, <1>3, <1>5 DEF ReturnStale
    <2>4. c \in Nat
      BY <1>1, QuotaAssumption, FS_Subset, FS_CardinalityType DEF Local
    <2>5. counter' = [counter EXCEPT ![l.day].reserved = Floor(@ - c)]
      BY <1>5 DEF ReturnStale
    <2>. HIDE DEF n, c
    <2>6. counter' \in [Days -> Counter]
      BY <1>1, <1>4, <2>4, <2>5 DEF Counter
    <2>. QED
      BY <1>1, <1>5, <2>2, <2>3, <2>6, OrderedSessions DEF ReturnStale, n
  <1>6. CASE Store(p)
    <2>. DEFINE n == [Idle EXCEPT !.pc = "hold", !.key = l.key]
    <2>1. l.key \in Keys
      BY <1>1, <1>6 DEF Store, Ordered
    <2>2. Ordered(n)
      BY <1>1, <1>2, <2>1 DEF Idle, Local, Ordered
    <2>3. evt' \in [Keys -> Event] /\ counter' \in [Days -> Counter]
      <3>. DEFINE e == [status |-> "reserved", day |-> l.day, old |-> FALSE]
                  r == counter[l.day].reserved + 1
                  c == [counter[l.day] EXCEPT !.reserved = r]
      <3>1. e \in Event /\ c \in Counter
        BY <1>1 DEF Event, Counter
      <3>2. \/ UNCHANGED <<evt, counter>>
            \/ evt' = [evt EXCEPT ![l.key] = e] /\ counter' = [counter EXCEPT ![l.day] = c]
        BY <1>6 DEF Store
      <3>. HIDE DEF e, c
      <3>. QED
        BY <1>1, <2>1, <3>1, <3>2
    <2>4. Become(p, Idle) \/ Become(p, n)
      BY <1>6 DEF Store
    <2>. HIDE DEF n
    <2>. QED
      BY <1>1, <1>2, <1>6, <2>2, <2>3, <2>4, OrderedSessions DEF Store
  <1>7. CASE CommitApply(p)
    <2>1. ~(counter[l.day].reserved < 1) => Spend(counter[l.day]) \in Counter
      <3>. DEFINE c == counter[l.day]
      <3>1. c \in Counter /\ c.reserved \in Nat /\ c.used \in Nat
        BY <1>1 DEF Counter
      <3>. HIDE DEF c
      <3>2. ~(c.reserved < 1) => c.used + 1 \in Nat /\ c.reserved - 1 \in Nat
        BY <3>1
      <3>3. ~(c.reserved < 1) => Spend(c) \in Counter
        BY <3>1, <3>2 DEF Spend, Counter
      <3>. QED
        BY <3>3 DEF c
    <2>2. evt' \in [Keys -> Event] /\ counter' \in [Days -> Counter]
      BY <1>1, <1>3, <1>7, <2>1 DEF CommitApply
    <2>. QED
      BY <1>1, <1>2, <1>7, <2>2, OrderedSessions DEF CommitApply
  <1>8. CASE ReleaseApply(p)
    <2>. DEFINE n == [l EXCEPT !.kept = {}]
    <2>1. n \in Local
      BY <1>1, ZenonT(30) DEF Local
    <2>. HIDE DEF n
    <2>2. Ordered(NextSwept(n))
      BY <1>1, <1>2, <2>1, ZenonT(30) DEF NextSwept, Ordered, Idle, Local, SweepSteps
    <2>3. Become(p, NextSwept(n)) \/ Become(p, Idle)
      BY <1>8 DEF ReleaseApply, n
    <2>4. evt' \in [Keys -> Event] /\ counter' \in [Days -> Counter]
      <3>. DEFINE r == Floor(counter[l.day].reserved - 1)
                  c == [counter[l.day] EXCEPT !.reserved = r]
      <3>1. counter[l.day].reserved \in Nat /\ counter[l.day] \in Counter
        BY <1>1 DEF Counter
      <3>2. r \in Nat
        BY <1>4, <3>1
      <3>3. evt' = [evt EXCEPT ![l.key] = Settled(l.key, "returned")]
            /\ counter' = [counter EXCEPT ![l.day] = c]
        BY <1>8 DEF ReleaseApply
      <3>. HIDE DEF r
      <3>4. c \in Counter
        BY <3>1, <3>2 DEF Counter
      <3>5. l.key \in Keys
        BY <1>1, <1>8 DEF ReleaseApply, Ordered
      <3>. HIDE DEF c
      <3>. QED
        BY <1>1, <1>3, <3>3, <3>4, <3>5
    <2>. QED
      BY <1>1, <1>2, <1>8, <2>2, <2>3, <2>4, OrderedSessions DEF ReleaseApply
  <1>. QED
    BY <1>5, <1>6, <1>7, <1>8 DEF ApplyStep

\* A scan has locked the rows before those it has yet to visit, with the
\* orphan sweep and without.
THEOREM ScansInOrder == Spec => []OrderInv
  <1>1. Init => OrderInv
    <2>. SUFFICES ASSUME Init PROVE OrderInv
      OBVIOUS
    <2>1. TypeOK
      BY InitIInv DEF IInv
    <2>. QED
      BY <2>1 DEF Init, OrderInv, Idle
  <1>2. OrderInv /\ [Next]_vars => OrderInv'
    <2>. SUFFICES ASSUME OrderInv, [Next]_vars PROVE OrderInv'
      OBVIOUS
    <2>1. CASE NextDay
      <3>1. today' \in Days /\ UNCHANGED <<evt, counter, proc, crashes>>
        BY <2>1, QuotaAssumption DEF NextDay, OrderInv, TypeOK, Days
      <3>. QED
        BY <3>1 DEF OrderInv, TypeOK
    <2>2. ASSUME NEW k \in Keys, Age(k) PROVE OrderInv'
      <3>1. evt' \in [Keys -> Event] /\ UNCHANGED <<counter, proc, today, crashes>>
        BY <2>2 DEF Age, OrderInv, TypeOK, Event
      <3>. QED
        BY <3>1 DEF OrderInv, TypeOK
    <2>3. CASE UNCHANGED vars
      BY <2>3 DEF vars, OrderInv, TypeOK
    <2>. QED
      BY <2>1, <2>2, <2>3, WaitingMoves, WaitingCommits DEF Next
  <1>. QED
    BY <1>1, <1>2, PTL DEF Spec

\* A session that holds a counter waits for nothing, and one that waits for a
\* row with no settled event's lock kept, while another waits for a row of its
\* own, is in a scan.
LEMMA WhoWaits ==
    ASSUME NEW p \in Procs, proc[p].kept = {}
    PROVE  /\ CounterLocks(p) # {} => Blockers(p) = {}
           /\ EventLocks(p) # {} /\ WantedEvents(p) # {} =>
                /\ proc[p].pc = "lockStale" /\ EventLocks(p) = proc[p].stale
                /\ WantedEvents(p) = {FirstOf(proc[p].rows)} /\ WantedCounters(p) = {}
  <1>1. CounterLocks(p) # {} => WantedEvents(p) = {} /\ WantedCounters(p) = {}
    BY DEF CounterLocks, CounterLocksOf, WantedEvents, WantedCounters
  <1>2. EventLocks(p) # {} /\ WantedEvents(p) # {} => proc[p].pc = "lockStale"
    BY DEF EventLocks, EventLocksOf, WorkLocksOf, WantedEvents
  <1>3. proc[p].pc = "lockStale" => /\ EventLocks(p) = proc[p].stale
                                    /\ WantedEvents(p) = {FirstOf(proc[p].rows)}
                                    /\ WantedCounters(p) = {}
    BY DEF EventLocks, EventLocksOf, WorkLocksOf, WantedEvents, WantedCounters
  <1>. QED
    BY <1>1, <1>2, <1>3 DEF Blockers

\* Transactions wait for each other only with the help of a settled event's
\* lock: in a circle without one everybody is in a scan, and the rows they
\* wait for come later and later in the scans' order.
THEOREM NoOtherDeadlock == Spec => []DeadlockOnlyByKept
  <1>1. OrderInv => DeadlockOnlyByKept
    <2>. SUFFICES ASSUME OrderInv, NEW S \in SUBSET Procs, Circle(S),
                         \A p \in S : proc[p].kept = {}
                  PROVE  FALSE
      BY DEF DeadlockOnlyByKept
    <2>1. S # {} /\ \A p \in S : \E q \in S : q \in Blockers(p)
      BY DEF Circle
    <2>2. \A p \in S : \E q \in S : WantedEvents(p) \intersect EventLocks(q) # {}
      <3>. SUFFICES ASSUME NEW p \in S
                    PROVE  \E q \in S : WantedEvents(p) \intersect EventLocks(q) # {}
        OBVIOUS
      <3>1. PICK q \in S : q \in Blockers(p)
        BY <2>1
      <3>2. CounterLocks(q) = {}
        BY <2>1, WhoWaits
      <3>. QED
        BY <3>1, <3>2 DEF Blockers
    <2>. DEFINE T == {q \in S : \E p \in S : WantedEvents(p) \intersect EventLocks(q) # {}}
                Waited(q) == FirstOf(proc[q].rows)
    <2>3. T # {} /\ T \subseteq Procs
      BY <2>1, <2>2
    <2>4. \A q \in T : /\ proc[q].pc = "lockStale" /\ EventLocks(q) = proc[q].stale
                       /\ WantedEvents(q) = {Waited(q)}
      <3>. SUFFICES ASSUME NEW q \in T
                    PROVE  /\ proc[q].pc = "lockStale" /\ EventLocks(q) = proc[q].stale
                           /\ WantedEvents(q) = {Waited(q)}
        OBVIOUS
      <3>1. q \in S /\ EventLocks(q) # {} /\ WantedEvents(q) # {}
        BY <2>2
      <3>. QED
        BY <3>1, WhoWaits
    <2>5. \A q \in T : /\ Waited(q) \in proc[q].rows /\ Waited(q) \in Keys
                       /\ \A k \in proc[q].stale : Place[k] < Place[Waited(q)]
      <3>. SUFFICES ASSUME NEW q \in T
                    PROVE  /\ Waited(q) \in proc[q].rows /\ Waited(q) \in Keys
                           /\ \A k \in proc[q].stale : Place[k] < Place[Waited(q)]
        OBVIOUS
      <3>1. /\ proc[q].rows \subseteq Keys /\ proc[q].rows # {}
            /\ \A j \in proc[q].stale, k \in proc[q].rows : Place[j] < Place[k]
        BY <2>4 DEF OrderInv, TypeOK, Local
      <3>2. Waited(q) \in proc[q].rows
        BY <3>1, FirstRow
      <3>. QED
        BY <3>1, <3>2
    <2>6. \A q \in T : \E r \in T : Place[Waited(q)] < Place[Waited(r)]
      <3>. SUFFICES ASSUME NEW q \in T
                    PROVE  \E r \in T : Place[Waited(q)] < Place[Waited(r)]
        OBVIOUS
      <3>1. PICK r \in S : WantedEvents(q) \intersect EventLocks(r) # {}
        BY <2>2
      <3>2. r \in T
        BY <3>1
      <3>3. Waited(q) \in proc[r].stale
        BY <2>4, <3>1, <3>2
      <3>. QED
        BY <2>5, <3>2, <3>3
    <2>. DEFINE N == Cardinality(Keys)
                Left(q) == N - Place[Waited(q)]
                L == {Left(q) : q \in T}
    <2>7. N \in Nat /\ \A q \in T : Place[Waited(q)] \in 1..N
      BY <2>5, QuotaAssumption, PlaceAssumption, FS_CardinalityType
    <2>. HIDE DEF T, Waited, N
    <2>8. L \in SUBSET Nat /\ L # {}
      BY <2>3, <2>7
    <2>9. PICK m \in L : \A n \in L : m <= n
      <3>. HIDE DEF L
      <3>. QED
        BY <2>8, LeastNumber
    <2>10. PICK q \in T : m = Left(q)
      BY <2>9
    <2>11. PICK r \in T : Place[Waited(q)] < Place[Waited(r)]
      BY <2>6, <2>10
    <2>12. m <= Left(r)
      BY <2>9, <2>11
    <2>13. /\ Place[Waited(q)] \in 1..N /\ Place[Waited(r)] \in 1..N /\ N \in Nat
           /\ m = N - Place[Waited(q)] /\ m <= N - Place[Waited(r)]
      BY <2>7, <2>10, <2>11, <2>12
    <2>. HIDE DEF Left, L
    <2>. QED
      BY <2>11, <2>13
  <1>. QED
    BY <1>1, ScansInOrder, PTL

-----------------------------------------------------------------------------
(* The protocol implements the ledger.                                     *)

\* What a step does to the events, if it does anything: it reserves one that
\* is free, spends a reserved one, or returns reserved ones of one day.
Reserves(k, d) ==
    /\ evt[k].status \in {"absent", "returned"}
    /\ Room(counter[d])
    /\ evt'[k].status = "reserved" /\ evt'[k].day = d
    /\ \A j \in Keys \ {k} : evt'[j] = evt[j]
Spends(k) ==
    /\ evt[k].status = "reserved"
    /\ evt'[k].status = "succeeded" /\ evt'[k].day = evt[k].day
    /\ \A j \in Keys \ {k} : evt'[j] = evt[j]
Returns(S, d) ==
    /\ \A k \in S : /\ evt[k].status = "reserved" /\ evt[k].day = d
                    /\ evt'[k].status = "returned" /\ evt'[k].day = d
    /\ \A j \in Keys \ S : evt'[j] = evt[j]
Keeps == \A k \in Keys : evt'[k].status = evt[k].status /\ evt'[k].day = evt[k].day

LEMMA StepMovesEvents ==
    ASSUME IInv, Sweepers = {}, [Next]_vars
    PROVE  \/ Keeps
           \/ \E k \in Keys, d \in Days : Reserves(k, d)
           \/ \E k \in Keys : Spends(k)
           \/ \E S \in SUBSET Keys, d \in Days : Returns(S, d)
  <1>1. ASSUME NEW p \in Procs, Store(p)
        PROVE  Keeps \/ \E k \in Keys, d \in Days : Reserves(k, d)
    <2>. DEFINE l == proc[p]
    <2>1. /\ l.key \in Keys /\ l.day \in Days /\ Room(counter[l.day])
          /\ l.found => evt[l.key].status = "returned"
      BY <1>1 DEF Store, IInv, TypeOK, LocalInv, Local
    <2>2. CASE l.found \/ evt[l.key].status = "absent"
      <3>1. evt' = [evt EXCEPT ![l.key] = [status |-> "reserved", day |-> l.day, old |-> FALSE]]
        BY <1>1, <2>2 DEF Store
      <3>2. Reserves(l.key, l.day)
        BY <2>1, <2>2, <3>1 DEF Reserves, IInv, TypeOK
      <3>. QED
        BY <2>1, <3>2
    <2>3. CASE ~(l.found \/ evt[l.key].status = "absent")
      BY <1>1, <2>3 DEF Store, Keeps
    <2>. QED
      BY <2>2, <2>3
  <1>2. ASSUME NEW p \in Procs, CommitApply(p)
        PROVE  Keeps \/ \E k \in Keys : Spends(k)
    <2>. DEFINE l == proc[p]
    <2>1. l.key \in Keys /\ evt[l.key].status = "reserved"
      BY <1>2 DEF CommitApply, IInv, TypeOK, LocalInv, Local
    <2>2. CASE counter[l.day].reserved < 1
      BY <1>2, <2>2 DEF CommitApply, Keeps
    <2>3. CASE ~(counter[l.day].reserved < 1)
      <3>1. evt' = [evt EXCEPT ![l.key] = Settled(l.key, "succeeded")]
        BY <1>2, <2>3 DEF CommitApply
      <3>2. Spends(l.key)
        BY <2>1, <3>1 DEF Spends, IInv, TypeOK, Event, Settled
      <3>. QED
        BY <2>1, <3>2
    <2>. QED
      BY <2>2, <2>3
  <1>3. ASSUME NEW p \in Procs, ReleaseApply(p)
        PROVE  \E S \in SUBSET Keys, d \in Days : Returns(S, d)
    <2>. DEFINE l == proc[p]
    <2>1. /\ l.key \in Keys /\ evt[l.key].status = "reserved"
          /\ evt[l.key].day = l.day /\ l.day \in Days
      BY <1>3 DEF ReleaseApply, IInv, TypeOK, LocalInv, Local, SweepSteps
    <2>2. evt' = [evt EXCEPT ![l.key] = Settled(l.key, "returned")]
      BY <1>3 DEF ReleaseApply
    <2>3. Returns({l.key}, l.day)
      BY <2>1, <2>2 DEF Returns, IInv, TypeOK, Event, Settled
    <2>. QED
      BY <2>1, <2>3
  <1>4. ASSUME NEW p \in Procs, ReturnStale(p)
        PROVE  \E S \in SUBSET Keys, d \in Days : Returns(S, d)
    <2>. DEFINE l == proc[p]
    <2>1. /\ l.stale \in SUBSET Keys /\ l.day \in Days
          /\ \A k \in l.stale : evt[k].status = "reserved" /\ evt[k].day = l.day
      BY <1>4 DEF ReturnStale, IInv, TypeOK, LocalInv, Local
    <2>2. evt' = [k \in Keys |-> IF k \in l.stale
                                 THEN Settled(k, "returned") ELSE evt[k]]
      BY <1>4 DEF ReturnStale
    <2>3. Returns(l.stale, l.day)
      BY <2>1, <2>2 DEF Returns, IInv, TypeOK, Event, Settled
    <2>. QED
      BY <2>1, <2>3
  <1>5. ASSUME NEW k \in Keys, Age(k) PROVE Keeps
    BY <1>5 DEF Age, Keeps, IInv, TypeOK, Event
  <1>6. ASSUME evt' = evt PROVE Keeps
    BY <1>6 DEF Keeps
  <1>7. ASSUME NEW p \in Procs, Scan(p) \/ LockStep(p) PROVE evt' = evt
    BY <1>7 DEF LockStep, Scan, VisitStale, LookUp, CountReservation, LockEvent, LockSwept,
       LockCounter
  <1>8. ASSUME NEW p \in Procs,
               \/ \E k \in Keys : Begin(p, k) \/ SettleJob(p, k) \/ Reload(p, k)
               \/ \E S \in SUBSET JobKeys : Sweep(p, S)
        PROVE  evt' = evt
    BY <1>8 DEF Begin, SettleJob, Reload, Sweep
  <1>9. ASSUME NEW p \in Procs, WorkDone(p) \/ Crash(p) \/ Victim(p) PROVE evt' = evt
    BY <1>9 DEF WorkDone, Crash, Victim
  <1>10. ASSUME NextDay \/ UNCHANGED vars PROVE evt' = evt
    BY <1>10 DEF NextDay, vars
  <1>. QED
    BY <1>1, <1>2, <1>3, <1>4, <1>5, <1>6, <1>7, <1>8, <1>9, <1>10 DEF Next, ApplyStep

\* Once charged, an event keeps its status and its day for good.
THEOREM ChargesAreFinal == ASSUME Sweepers = {} PROVE Spec => ChargeIsFinal
  <1>. DEFINE Final == \A k \in Keys : evt[k].status = "succeeded" =>
                          evt'[k].status = "succeeded" /\ evt'[k].day = evt[k].day
  <1>1. IInv /\ [Next]_vars => [Final]_vars
    BY StepMovesEvents DEF Keeps, Reserves, Spends, Returns
  <1>2. IInv /\ [Next]_vars => IInv'
    BY NextPreserves
  <1>3. ChargeIsFinal <=> [][Final]_vars
    BY DEF ChargeIsFinal
  <1>. HIDE DEF Final
  <1>. QED
    BY InitIInv, <1>1, <1>2, <1>3, PTL DEF Spec
\* Held and spent units of day d in the tables E.
HeldIn(E) == [d \in Days |-> OnIn(E, d, "reserved")]
SpentIn(E) == [d \in Days |-> OnIn(E, d, "succeeded")]

\* A free unit of the ledger is reserved within the limit.
LEMMA ReserveImplements ==
    ASSUME IInv, NEW k \in Keys, NEW d \in Days, Reserves(k, d)
    PROVE  Ledger!Reserve(k, d)
  <1>1. \A c \in Days : /\ OnIn(evt', c, "reserved") = IF c = d THEN OnIn(evt, c, "reserved") \union {k}
                                                      ELSE OnIn(evt, c, "reserved")
                        /\ OnIn(evt', c, "succeeded") = OnIn(evt, c, "succeeded")
    BY DEF Reserves, OnIn
  <1>2. /\ HeldIn(evt') = [HeldIn(evt) EXCEPT ![d] = @ \union {k}]
        /\ SpentIn(evt') = SpentIn(evt)
    BY <1>1 DEF HeldIn, SpentIn
  <1>3. \A c \in Days : k \notin OnIn(evt, c, "reserved") \union OnIn(evt, c, "succeeded")
    BY DEF Reserves, OnIn
  <1>4. Exempt \/ Cardinality(OnIn(evt, d, "reserved") \union OnIn(evt, d, "succeeded")) < Limit
    <2>1. OnIn(evt, d, "reserved") \intersect OnIn(evt, d, "succeeded") = {}
      BY DEF OnIn
    <2>2. /\ IsFiniteSet(OnIn(evt, d, "reserved")) /\ IsFiniteSet(OnIn(evt, d, "succeeded"))
          /\ counter[d].reserved = Cardinality(OnIn(evt, d, "reserved"))
          /\ counter[d].used = Cardinality(OnIn(evt, d, "succeeded"))
          /\ counter[d].used \in Nat /\ counter[d].reserved \in Nat
      BY OnFacts DEF IInv, TypeOK, Counter, Balanced, On
    <2>3. Cardinality(OnIn(evt, d, "reserved") \union OnIn(evt, d, "succeeded"))
            = Cardinality(OnIn(evt, d, "reserved")) + Cardinality(OnIn(evt, d, "succeeded"))
      <3>1. /\ Cardinality(OnIn(evt, d, "reserved") \union OnIn(evt, d, "succeeded"))
                 = Cardinality(OnIn(evt, d, "reserved")) + Cardinality(OnIn(evt, d, "succeeded"))
                   - Cardinality(OnIn(evt, d, "reserved") \intersect OnIn(evt, d, "succeeded"))
        BY <2>2, FS_Union
      <3>2. Cardinality(OnIn(evt, d, "reserved") \intersect OnIn(evt, d, "succeeded")) = 0
        BY <2>1, FS_EmptySet
      <3>. QED
        BY <2>2, <3>1, <3>2
    <2>. QED
      BY <2>2, <2>3, QuotaAssumption DEF Reserves, Room
  <1>5. \A S : Ledger!Cardinality(S) = Cardinality(S)
    BY DEF Ledger!Cardinality, Cardinality
  <1>. QED
    BY <1>2, <1>3, <1>4, <1>5
       DEF Ledger!Reserve, Ledger!Free, Ledger!Active, HeldIn, SpentIn, On

\* A reserved unit is spent on the day it was reserved for.
LEMMA SpendImplements ==
    ASSUME IInv, NEW k \in Keys, Spends(k)
    PROVE  evt[k].day \in Days /\ Ledger!Spend(k, evt[k].day)
  <1>. DEFINE d == evt[k].day
  <1>1. d \in Days
    BY DEF IInv, TypeOK, Event
  <1>2. \A c \in Days : /\ OnIn(evt', c, "reserved") = IF c = d THEN OnIn(evt, c, "reserved") \ {k}
                                                      ELSE OnIn(evt, c, "reserved")
                        /\ OnIn(evt', c, "succeeded") = IF c = d THEN OnIn(evt, c, "succeeded") \union {k}
                                                       ELSE OnIn(evt, c, "succeeded")
    BY DEF Spends, OnIn
  <1>3. k \in OnIn(evt, d, "reserved")
    BY DEF Spends, OnIn
  <1>. HIDE DEF d
  <1>4. /\ HeldIn(evt') = [HeldIn(evt) EXCEPT ![d] = @ \ {k}]
        /\ SpentIn(evt') = [SpentIn(evt) EXCEPT ![d] = @ \union {k}]
    BY <1>1, <1>2 DEF HeldIn, SpentIn
  <1>5. Ledger!Spend(k, d)
    BY <1>1, <1>3, <1>4 DEF Ledger!Spend, HeldIn, SpentIn, On
  <1>. QED
    BY <1>1, <1>5 DEF d

\* Reserved units of one day are given back together.
LEMMA ReturnImplements ==
    ASSUME NEW S \in SUBSET Keys, NEW d \in Days, Returns(S, d)
    PROVE  Ledger!Return(S, d)
  <1>1. \A c \in Days : /\ OnIn(evt', c, "reserved") = IF c = d THEN OnIn(evt, c, "reserved") \ S
                                                      ELSE OnIn(evt, c, "reserved")
                        /\ OnIn(evt', c, "succeeded") = OnIn(evt, c, "succeeded")
    BY DEF Returns, OnIn
  <1>2. S \subseteq OnIn(evt, d, "reserved")
    BY DEF Returns, OnIn
  <1>3. /\ HeldIn(evt') = [HeldIn(evt) EXCEPT ![d] = @ \ S]
        /\ SpentIn(evt') = SpentIn(evt)
    BY <1>1 DEF HeldIn, SpentIn
  <1>. QED
    BY <1>2, <1>3 DEF Ledger!Return, HeldIn, SpentIn, On

\* The locking protocol implements the ledger: every step of it is a step of
\* the ledger or leaves the ledger alone.
THEOREM LedgerImplemented == ASSUME Sweepers = {} PROVE Spec => ImplementsLedger
  <1>1. Init => Ledger!Init
    BY DEF Init, Ledger!Init, On, OnIn
  <1>2. IInv /\ [Next]_vars => [Ledger!Next]_<<[d \in Days |-> On(d, "reserved")],
                                              [d \in Days |-> On(d, "succeeded")]>>
    <2>. SUFFICES ASSUME IInv, [Next]_vars
                  PROVE  \/ Ledger!Next
                         \/ UNCHANGED <<[d \in Days |-> On(d, "reserved")],
                                        [d \in Days |-> On(d, "succeeded")]>>
      OBVIOUS
    <2>1. ASSUME Keeps
          PROVE  UNCHANGED <<[d \in Days |-> On(d, "reserved")],
                             [d \in Days |-> On(d, "succeeded")]>>
      <3>1. \A s : \A d \in Days : OnIn(evt', d, s) = OnIn(evt, d, s)
        BY <2>1 DEF Keeps, OnIn
      <3>2. HeldIn(evt') = HeldIn(evt) /\ SpentIn(evt') = SpentIn(evt)
        BY <3>1 DEF HeldIn, SpentIn
      <3>. QED
        BY <3>2 DEF HeldIn, SpentIn, On
    <2>2. ASSUME NEW k \in Keys, NEW d \in Days, Reserves(k, d) PROVE Ledger!Next
      BY <2>2, ReserveImplements DEF Ledger!Next
    <2>3. ASSUME NEW k \in Keys, Spends(k) PROVE Ledger!Next
      BY <2>3, SpendImplements DEF Ledger!Next
    <2>4. ASSUME NEW S \in SUBSET Keys, NEW d \in Days, Returns(S, d) PROVE Ledger!Next
      BY <2>4, ReturnImplements DEF Ledger!Next
    <2>. QED
      BY <2>1, <2>2, <2>3, <2>4, StepMovesEvents
  <1>3. IInv /\ [Next]_vars => IInv'
    BY NextPreserves
  <1>. QED
    BY InitIInv, <1>1, <1>2, <1>3, PTL DEF Spec, ImplementsLedger, Ledger!Spec
=============================================================================
