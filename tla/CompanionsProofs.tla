--------------------------- MODULE CompanionsProofs ---------------------------
(***************************************************************************)
(* Proofs about the smaller machines: the rate limiter for any number of   *)
(* requests, any window and limit; the maintenance lock for any processes  *)
(* and pools; the attempts of a description and of an answer, any number   *)
(* of them; the target jobs for any activations.                           *)
(***************************************************************************)
EXTENDS RateLimit, MaintenanceLock, ResumeGeneration, TargetJobs, AnswerGeneration,
        FiniteSetTheorems, TLAPS

-----------------------------------------------------------------------------
(* RateLimit.                                                              *)

\* Nobody has read a time to come, and the row of a window that has not ended
\* counts all that were admitted in it.
RateInv ==
    /\ RateTypeOK
    /\ \A r \in Requests : seen[r] <= clock
    /\ \A w \in Starts : /\ admitted[w] <= Limit
                         /\ clock < w + Window => admitted[w] = buckets[w]

LEMMA RateStarts == \A w \in Starts : w \in Nat
  BY DEF Starts

LEMMA EnforceKeeps ==
    ASSUME RateInv, NEW r \in Requests, Enforce(r)
    PROVE  RateInv'
  <1>. DEFINE w == StartOf(seen[r])
              attempts == IF Expired(w, seen[r]) THEN 0 ELSE buckets[w]
              passes == attempts < Limit
  <1>1. /\ clock \in Nat /\ seen[r] \in Int /\ seen[r] <= clock /\ seen[r] >= 0
        /\ Window \in Nat \ {0} /\ Limit \in Nat \ {0}
        /\ buckets \in [Starts -> 0..Limit] /\ admitted \in [Starts -> Nat]
    BY RateAssumption DEF RateInv, RateTypeOK, Enforce
  <1>2. /\ buckets' = [v \in Starts |->
                          IF v = w THEN IF passes THEN attempts + 1 ELSE attempts
                          ELSE IF Expired(v, seen[r]) THEN 0 ELSE buckets[v]]
        /\ outcome' = [outcome EXCEPT ![r] = IF passes THEN "admitted" ELSE "refused"]
        /\ admitted' = IF passes /\ clock < w + Window
                       THEN [admitted EXCEPT ![w] = @ + 1] ELSE admitted
        /\ UNCHANGED <<clock, seen>>
    BY DEF Enforce
  <1>3. ASSUME NEW v \in Starts
        PROVE  /\ buckets'[v] \in 0..Limit
               /\ admitted'[v] \in Nat /\ admitted'[v] <= Limit
               /\ clock < v + Window => admitted'[v] = buckets'[v]
    <2>1. v \in Nat /\ buckets[v] \in 0..Limit /\ admitted[v] \in Nat /\ admitted[v] <= Limit
          /\ (clock < v + Window => admitted[v] = buckets[v])
      BY <1>1, RateStarts DEF RateInv
    <2>2. CASE v = w
      <3>1. attempts \in 0..Limit
        BY <1>1, <2>1, <2>2
      <3>2. buckets'[v] = IF passes THEN attempts + 1 ELSE attempts
        BY <1>2, <2>2
      <3>3. admitted'[v] = IF passes /\ clock < v + Window THEN admitted[v] + 1 ELSE admitted[v]
        BY <1>1, <1>2, <2>2
      <3>4. clock < v + Window => attempts = admitted[v]
        BY <1>1, <2>1, <2>2 DEF Expired
      <3>. HIDE DEF attempts
      <3>. QED
        BY <1>1, <2>1, <3>1, <3>2, <3>3, <3>4
    <2>3. CASE v # w
      <3>1. buckets'[v] = IF Expired(v, seen[r]) THEN 0 ELSE buckets[v]
        BY <1>2, <2>3
      <3>2. admitted'[v] = admitted[v]
        BY <1>1, <1>2, <2>3
      <3>. QED
        BY <1>1, <2>1, <3>1, <3>2 DEF Expired
    <2>. QED
      BY <2>2, <2>3
  <1>4. buckets' \in [Starts -> 0..Limit] /\ admitted' \in [Starts -> Nat]
    <2>1. DOMAIN admitted' = Starts /\ admitted' = [v \in Starts |-> admitted'[v]]
      BY <1>1, <1>2
    <2>2. buckets' = [v \in Starts |-> buckets'[v]]
      BY <1>2
    <2>. QED
      BY <1>3, <2>1, <2>2
  <1>5. outcome' \in [Requests -> {"none", "admitted", "refused"}]
    BY <1>2 DEF RateInv, RateTypeOK
  <1>. QED
    BY <1>2, <1>3, <1>4, <1>5 DEF RateInv, RateTypeOK, Starts

LEMMA RateInvariant == RateSpec => []RateInv
  <1>1. RateInit => RateInv
    BY RateAssumption, RateStarts DEF RateInit, RateInv, RateTypeOK
  <1>2. RateInv /\ [RateNext]_rateVars => RateInv'
    <2>. SUFFICES ASSUME RateInv, [RateNext]_rateVars PROVE RateInv'
      OBVIOUS
    <2>1. CASE Tick
      BY <2>1, RateAssumption, RateStarts DEF Tick, RateInv, RateTypeOK, Starts
    <2>2. ASSUME NEW r \in Requests, Arrive(r) PROVE RateInv'
      BY <2>2, RateAssumption DEF Arrive, RateInv, RateTypeOK, Starts
    <2>3. ASSUME NEW r \in Requests, Enforce(r) PROVE RateInv'
      BY <2>3, EnforceKeeps
    <2>4. CASE UNCHANGED rateVars
      BY <2>4 DEF rateVars, RateInv, RateTypeOK, Starts
    <2>. QED
      BY <2>1, <2>2, <2>3, <2>4 DEF RateNext
  <1>. QED
    BY <1>1, <1>2, PTL DEF RateSpec

\* However requests and clean-ups interleave around the end of a window, no
\* more than the limit are admitted within one (enforce_rate_limit).
THEOREM RateKept == RateSpec => []WithinRate
  <1>1. RateInv => WithinRate
    BY DEF RateInv, WithinRate
  <1>. QED
    BY <1>1, RateInvariant, PTL

-----------------------------------------------------------------------------
(* MaintenanceLock.                                                        *)

\* One connection holds the lock, one of the process that maintains; the days
\* after the last clean-up have none.
LockInv ==
    /\ LockTypeOK
    /\ \A c, d \in Connections : held[c] > 0 /\ held[d] > 0 => c = d
    /\ \A p \in Processes : HasLocked(p) => \E c \in PoolOf[p] : held[c] > 0
    /\ \A d \in 1..MaxDays : cleanups[d] <= 1 /\ (d > lastRun => cleanups[d] = 0)
    /\ \A p \in Processes : pass[p] \in {"retention", "note"} => lastRun < today

LEMMA PoolsAreConnections == \A p \in Processes : PoolOf[p] \subseteq Connections
  BY DEF Connections

LEMMA LockExcludes ==
    ASSUME LockInv
    PROVE  \A p, q \in Processes : HasLocked(p) /\ HasLocked(q) => p = q
  BY PoolsAreConnections, LockAssumption DEF LockInv

LEMMA TryLockKeeps ==
    ASSUME LockInv, NEW p \in Processes, NEW c \in PoolOf[p], TryLock(p, c)
    PROVE  LockInv'
  <1>1. c \in Connections /\ held \in [Connections -> 0..MaxHeld] /\ MaxHeld \in Nat
    BY PoolsAreConnections, LockAssumption DEF LockInv, LockTypeOK
  <1>2. CASE Free(c)
    <2>1. /\ held' = [held EXCEPT ![c] = held[c] + 1]
          /\ pass' = [pass EXCEPT ![p] = "jobs"]
          /\ held[c] < MaxHeld
          /\ UNCHANGED <<today, lastRun, cleanups, crashes>>
      BY <1>2 DEF TryLock
    <2>2. held' \in [Connections -> 0..MaxHeld] /\ held'[c] > 0
          /\ \A d \in Connections \ {c} : held'[d] = 0
      BY <1>1, <1>2, <2>1 DEF Free
    <2>3. \A q \in Processes \ {p} : ~HasLocked(q)
      BY <1>1, <1>2, PoolsAreConnections, LockAssumption DEF LockInv, Free
    <2>4. pass' \in [Processes -> {"none", "jobs", "retention", "note", "unlock", "skipped"}]
          /\ pass'[p] = "jobs" /\ \A q \in Processes \ {p} : pass'[q] = pass[q]
      BY <2>1 DEF LockInv, LockTypeOK
    <2>. QED
      BY <1>1, <2>1, <2>2, <2>3, <2>4 DEF LockInv, LockTypeOK, HasLocked
  <1>3. CASE ~Free(c)
    <2>1. /\ pass' = [pass EXCEPT ![p] = "skipped"]
          /\ UNCHANGED <<held, today, lastRun, cleanups, crashes>>
      BY <1>3 DEF TryLock
    <2>. QED
      BY <2>1 DEF LockInv, LockTypeOK, HasLocked
  <1>. QED
    BY <1>2, <1>3

LEMMA UnlockKeeps ==
    ASSUME LockInv, NEW p \in Processes, NEW c \in PoolOf[p], Unlock(p, c)
    PROVE  LockInv'
  <1>1. c \in Connections /\ held \in [Connections -> 0..MaxHeld] /\ MaxHeld \in Nat
    BY PoolsAreConnections, LockAssumption DEF LockInv, LockTypeOK
  <1>2. /\ held' = [held EXCEPT ![c] = IF held[c] > 0 THEN held[c] - 1 ELSE 0]
        /\ pass' = [pass EXCEPT ![p] = "none"]
        /\ HasLocked(p)
        /\ UNCHANGED <<today, lastRun, cleanups, crashes>>
    BY DEF Unlock
  <1>3. held' \in [Connections -> 0..MaxHeld]
        /\ \A d \in Connections : held'[d] > 0 => held[d] > 0
    BY <1>1, <1>2
  <1>4. \A q \in Processes \ {p} : ~HasLocked(q)
    BY <1>2, LockExcludes
  <1>5. pass' \in [Processes -> {"none", "jobs", "retention", "note", "unlock", "skipped"}]
        /\ pass'[p] = "none" /\ \A q \in Processes \ {p} : pass'[q] = pass[q]
    BY <1>2 DEF LockInv, LockTypeOK
  <1>. QED
    BY <1>2, <1>3, <1>4, <1>5 DEF LockInv, LockTypeOK, HasLocked

LEMMA NoteKeeps ==
    ASSUME LockInv, NEW p \in Processes, Note(p)
    PROVE  LockInv'
  <1>1. /\ pass[p] = "note" /\ pass' = [pass EXCEPT ![p] = "unlock"]
        /\ lastRun' = today /\ cleanups' = [cleanups EXCEPT ![today] = cleanups[today] + 1]
        /\ UNCHANGED <<held, today, crashes>>
    BY DEF Note
  <1>2. /\ today \in 1..MaxDays /\ lastRun \in 0..today /\ lastRun < today
        /\ cleanups \in [1..MaxDays -> Nat] /\ MaxDays \in Nat /\ cleanups[today] = 0
    BY <1>1, LockAssumption DEF LockInv, LockTypeOK
  <1>3. \A q \in Processes \ {p} : ~HasLocked(q)
    BY <1>1, LockExcludes DEF HasLocked
  <1>4. pass' \in [Processes -> {"none", "jobs", "retention", "note", "unlock", "skipped"}]
        /\ pass'[p] = "unlock" /\ \A q \in Processes \ {p} : pass'[q] = pass[q]
    BY <1>1 DEF LockInv, LockTypeOK
  <1>5. /\ cleanups' \in [1..MaxDays -> Nat] /\ cleanups'[today] = 1
        /\ \A d \in (1..MaxDays) \ {today} : cleanups'[d] = cleanups[d]
    BY <1>1, <1>2
  <1>6. \A d \in 1..MaxDays : cleanups'[d] <= 1 /\ (d > today => cleanups'[d] = 0)
    BY <1>2, <1>5 DEF LockInv
  <1>7. \A q \in Processes : HasLocked(q)' => \E c \in PoolOf[q] : held'[c] > 0
    BY <1>1, <1>3, <1>4 DEF LockInv, HasLocked
  <1>8. \A q \in Processes : pass'[q] \notin {"retention", "note"}
    BY <1>3, <1>4 DEF HasLocked
  <1>. QED
    BY <1>1, <1>2, <1>4, <1>5, <1>6, <1>7, <1>8 DEF LockInv, LockTypeOK

LEMMA CrashKeeps ==
    ASSUME LockInv, NEW p \in Processes, Crash(p)
    PROVE  LockInv'
  <1>1. /\ held' = [c \in Connections |-> IF c \in PoolOf[p] THEN 0 ELSE held[c]]
        /\ pass' = [pass EXCEPT ![p] = "none"] /\ crashes < MaxCrashes /\ crashes' = crashes + 1
        /\ UNCHANGED <<today, lastRun, cleanups>>
    BY DEF Crash
  <1>2. held' \in [Connections -> 0..MaxHeld] /\ crashes' \in 0..MaxCrashes
        /\ \A d \in Connections : held'[d] > 0 => held[d] > 0
    BY <1>1, LockAssumption DEF LockInv, LockTypeOK
  <1>3. pass' \in [Processes -> {"none", "jobs", "retention", "note", "unlock", "skipped"}]
        /\ pass'[p] = "none" /\ \A q \in Processes \ {p} : pass'[q] = pass[q]
    BY <1>1 DEF LockInv, LockTypeOK
  <1>4. \A q \in Processes \ {p} : HasLocked(q) => \E c \in PoolOf[q] : held'[c] > 0
    BY <1>1, PoolsAreConnections, LockAssumption DEF LockInv
  <1>. QED
    BY <1>1, <1>2, <1>3, <1>4 DEF LockInv, LockTypeOK, HasLocked

LEMMA LockInvariant == LockSpec => []LockInv
  <1>1. ASSUME LockInit PROVE LockInv
    BY <1>1, LockAssumption DEF LockInit, LockInv, LockTypeOK, HasLocked
  <1>2. LockInv /\ [LockNext]_lockVars => LockInv'
    <2>. SUFFICES ASSUME LockInv, [LockNext]_lockVars PROVE LockInv'
      OBVIOUS
    <2>1. CASE Midnight
      BY <2>1, LockAssumption DEF Midnight, LockInv, LockTypeOK, HasLocked
    <2>2. ASSUME NEW p \in Processes, MaintainJobs(p) PROVE LockInv'
      <3>1. pass[p] = "jobs" /\ UNCHANGED <<held, today, lastRun, cleanups, crashes>>
            /\ pass' = [pass EXCEPT ![p] = IF lastRun < today THEN "retention" ELSE "unlock"]
        BY <2>2 DEF MaintainJobs
      <3>. QED
        BY <3>1 DEF LockInv, LockTypeOK, HasLocked
    <2>3. ASSUME NEW p \in Processes, Retain(p) PROVE LockInv'
      BY <2>3 DEF Retain, LockInv, LockTypeOK, HasLocked
    <2>4. ASSUME NEW p \in Processes, Note(p) PROVE LockInv'
      BY <2>4, NoteKeeps
    <2>5. ASSUME NEW p \in Processes, Skip(p) PROVE LockInv'
      BY <2>5 DEF Skip, LockInv, LockTypeOK, HasLocked
    <2>6. ASSUME NEW p \in Processes, Crash(p) PROVE LockInv'
      BY <2>6, CrashKeeps
    <2>7. ASSUME NEW p \in Processes, NEW c \in PoolOf[p], TryLock(p, c) PROVE LockInv'
      BY <2>7, TryLockKeeps
    <2>8. ASSUME NEW p \in Processes, NEW c \in PoolOf[p], Unlock(p, c) PROVE LockInv'
      BY <2>8, UnlockKeeps
    <2>9. CASE UNCHANGED lockVars
      BY <2>9 DEF lockVars, LockInv, LockTypeOK, HasLocked
    <2>. QED
      BY <2>1, <2>2, <2>3, <2>4, <2>5, <2>6, <2>7, <2>8, <2>9 DEF LockNext
  <1>. QED
    BY <1>1, <1>2, PTL DEF LockSpec

\* Although a pass may unlock another connection than it locked, two processes
\* never maintain at once and a day has one retention clean-up at most
\* (run_maintenance).
THEOREM PassesAlone == LockSpec => []PassesExclusive
  <1>1. LockInv => PassesExclusive
    <2>. SUFFICES ASSUME LockInv PROVE PassesExclusive
      OBVIOUS
    <2>1. \A p, q \in Processes : HasLocked(p) /\ HasLocked(q) => p = q
      BY LockExcludes
    <2>2. \A d \in 1..MaxDays : cleanups[d] <= 1
      BY DEF LockInv
    <2>. QED
      BY <2>1, <2>2 DEF PassesExclusive
  <1>. QED
    BY <1>1, LockInvariant, PTL

-----------------------------------------------------------------------------
(* ResumeGeneration.                                                       *)

\* An attempt stores after the charge, and one that is done has left, or
\* found, a description that was paid for.
GenerationInv ==
    /\ GenerationTypeOK
    /\ StoredIsCharged
    /\ \A a \in Attempts :
          /\ at[a] = "store" => event = "succeeded"
          /\ at[a] = "done" => (described \/ erased) /\ event = "succeeded"

LEMMA GoKeepsType ==
    ASSUME GenerationTypeOK, NEW a \in Attempts, NEW spot \in Places, Go(a, spot)
    PROVE  /\ at' \in [Attempts -> Places]
           /\ at'[a] = spot
           /\ \A b \in Attempts \ {a} : at'[b] = at[b]
  BY DEF Go, GenerationTypeOK

\* A step that moves one attempt and changes nothing else preserves the
\* invariant unless it goes where more is known.
LEMMA MoveKeeps ==
    ASSUME GenerationInv, NEW a \in Attempts, NEW spot \in Places \ {"store", "done"},
           Go(a, spot), UNCHANGED <<event, described, session, jobOutcome, erased>>,
           aged' \in BOOLEAN
    PROVE  GenerationInv'
  <1>1. /\ at' \in [Attempts -> Places] /\ at'[a] = spot
        /\ \A b \in Attempts \ {a} : at'[b] = at[b]
    BY GoKeepsType DEF GenerationInv
  <1>. QED
    BY <1>1 DEF GenerationInv, GenerationTypeOK, StoredIsCharged

LEMMA BeginKeeps ==
    ASSUME GenerationInv, NEW a \in Attempts, Begin(a)
    PROVE  GenerationInv'
  <1>1. CASE described /\ Go(a, "done") /\ UNCHANGED <<event, aged, described, session, jobOutcome, erased>>
    <2>1. /\ at' \in [Attempts -> Places] /\ at'[a] = "done"
          /\ \A b \in Attempts \ {a} : at'[b] = at[b]
      BY <1>1, GoKeepsType DEF GenerationInv, Places
    <2>. QED
      BY <1>1, <2>1 DEF GenerationInv, GenerationTypeOK, StoredIsCharged
  <1>2. CASE Go(a, "failed") /\ UNCHANGED <<event, aged, described, session, jobOutcome, erased>>
    BY <1>2, MoveKeeps DEF Places, GenerationInv, GenerationTypeOK
  <1>3. CASE Go(a, "generate") /\ UNCHANGED <<event, aged, described, session, jobOutcome, erased>>
    BY <1>3, MoveKeeps DEF Places, Running, GenerationInv, GenerationTypeOK
  <1>4. CASE /\ event \in {"none", "released", "reserved"} /\ event' = "reserved" /\ aged' = FALSE
             /\ ~described /\ Go(a, "generate") /\ UNCHANGED <<described, session, jobOutcome, erased>>
    <2>1. /\ at' \in [Attempts -> Places] /\ at'[a] = "generate"
          /\ \A b \in Attempts \ {a} : at'[b] = at[b]
      BY <1>4, GoKeepsType DEF GenerationInv, Places, Running
    <2>. QED
      BY <1>4, <2>1 DEF GenerationInv, GenerationTypeOK, StoredIsCharged
  <1>. QED
    BY <1>1, <1>2, <1>3, <1>4 DEF Begin

LEMMA SettleKeeps ==
    ASSUME GenerationInv, NEW a \in Attempts, Settle(a)
    PROVE  GenerationInv'
  <1>1. aged' \in BOOLEAN /\ UNCHANGED <<described, session, jobOutcome, erased>>
    BY DEF Settle, GenerationInv, GenerationTypeOK
  <1>2. CASE Settles(event)
    <2>1. event' = "succeeded" /\ Go(a, "store")
      BY <1>2 DEF Settle, Settles
    <2>2. /\ at' \in [Attempts -> Places] /\ at'[a] = "store"
          /\ \A b \in Attempts \ {a} : at'[b] = at[b]
      BY <2>1, GoKeepsType DEF GenerationInv, Places, Running
    <2>. QED
      BY <1>1, <2>1, <2>2 DEF GenerationInv, GenerationTypeOK, StoredIsCharged
  <1>3. CASE ~Settles(event)
    <2>1. Go(a, "failed") /\ UNCHANGED event
      BY <1>3 DEF Settle
    <2>. QED
      BY <1>1, <2>1, MoveKeeps DEF Places
  <1>. QED
    BY <1>2, <1>3

LEMMA StoreKeeps ==
    ASSUME GenerationInv, NEW a \in Attempts, Store(a)
    PROVE  GenerationInv'
  <1>1. at[a] = "store" /\ event = "succeeded" /\ UNCHANGED <<event, aged, session, jobOutcome, erased>>
    BY DEF Store, GenerationInv
  <1>2. CASE described' = TRUE /\ Go(a, "done")
    <2>1. /\ at' \in [Attempts -> Places] /\ at'[a] = "done"
          /\ \A b \in Attempts \ {a} : at'[b] = at[b]
      BY <1>2, GoKeepsType DEF GenerationInv, Places
    <2>. QED
      BY <1>1, <1>2, <2>1 DEF GenerationInv, GenerationTypeOK, StoredIsCharged
  <1>3. CASE Go(a, "failed") /\ UNCHANGED described
    BY <1>1, <1>3, MoveKeeps DEF Places, GenerationInv, GenerationTypeOK
  <1>. QED
    BY <1>2, <1>3 DEF Store

LEMMA RefundKeeps ==
    ASSUME GenerationInv, NEW a \in Attempts, Refund(a)
    PROVE  GenerationInv'
  <1>1. /\ at' \in [Attempts -> Places] /\ at'[a] = "failed"
        /\ \A b \in Attempts \ {a} : at'[b] = at[b]
    BY GoKeepsType DEF GenerationInv, Places, Refund
  <1>2. /\ event' = IF event = "reserved" THEN "released" ELSE event
        /\ aged' \in BOOLEAN /\ UNCHANGED <<described, session, jobOutcome, erased>>
    BY DEF Refund, GenerationInv, GenerationTypeOK
  <1>. QED
    BY <1>1, <1>2 DEF GenerationInv, GenerationTypeOK, StoredIsCharged

LEMMA GenerationInvariant == GenerationSpec => []GenerationInv
  <1>1. GenerationInit => GenerationInv
    BY DEF GenerationInit, GenerationInv, GenerationTypeOK, StoredIsCharged, Places
  <1>2. GenerationInv /\ [GenerationNext]_generationVars => GenerationInv'
    <2>. SUFFICES ASSUME GenerationInv, [GenerationNext]_generationVars PROVE GenerationInv'
      OBVIOUS
    <2>. USE DEF GenerationInv, GenerationTypeOK, StoredIsCharged
    <2>1. CASE Age \/ Expire \/ Erase \/ DropSession
      <3>1. CASE Age
        BY <3>1 DEF Age
      <3>2. CASE Expire
        BY <3>2 DEF Expire
      <3>3. CASE Erase
        BY <3>3 DEF Erase
      <3>4. CASE DropSession
        BY <3>4 DEF DropSession
      <3>. QED
        BY <2>1, <3>1, <3>2, <3>3, <3>4
    <2>2. ASSUME NEW a \in Attempts, Start(a) PROVE GenerationInv'
      BY <2>2, MoveKeeps DEF Start, Places, Running
    <2>3. ASSUME NEW a \in Attempts, Begin(a) PROVE GenerationInv'
      BY <2>3, BeginKeeps
    <2>4. ASSUME NEW a \in Attempts, Generate(a) PROVE GenerationInv'
      BY <2>4, MoveKeeps DEF Generate, Places, Running
    <2>5. ASSUME NEW a \in Attempts, Refund(a) PROVE GenerationInv'
      BY <2>5, RefundKeeps
    <2>6. ASSUME NEW a \in Attempts, Settle(a) PROVE GenerationInv'
      BY <2>6, SettleKeeps
    <2>7. ASSUME NEW a \in Attempts, Store(a) PROVE GenerationInv'
      BY <2>7, StoreKeeps
    <2>8. ASSUME NEW a \in Attempts, Report(a) PROVE GenerationInv'
      BY <2>8 DEF Report
    <2>9. ASSUME NEW a \in Attempts, Die(a) PROVE GenerationInv'
      BY <2>9, MoveKeeps DEF Die, Places
    <2>10. CASE UNCHANGED generationVars
      BY <2>10 DEF generationVars
    <2>. QED
      BY <2>1, <2>2, <2>3, <2>4, <2>5, <2>6, <2>7, <2>8, <2>9, <2>10 DEF GenerationNext
  <1>. QED
    BY <1>1, <1>2, PTL DEF GenerationSpec

\* Whatever attempts overlap or die, a stored description, and the success of
\* its job, have been paid for (generate_resume_project_description).
THEOREM StoredIsPaid == GenerationSpec => []StoredIsCharged
  <1>1. GenerationInv => StoredIsCharged
    BY DEF GenerationInv
  <1>. QED
    BY <1>1, GenerationInvariant, PTL

-----------------------------------------------------------------------------
(* TargetJobs.                                                             *)

\* A row that a request has deactivated stays locked, and as it was committed,
\* until the request ends.
TargetInv ==
    /\ TargetTypeOK
    /\ \A i, j \in Active : i = j
    /\ expected => Active # {}
    /\ \A p \in Activators : activation[p].mine \subseteq Active
    /\ \A p \in Activators : activation[p].copied => activation[p].target \in JobIds

LEMMA ProceedKeeps ==
    ASSUME TargetInv, NEW p \in Activators, NEW a \in Activation, Proceed(p, a),
           a.mine \subseteq Active, a.copied => a.target \in JobIds,
           UNCHANGED <<targetJobs, expected>>
    PROVE  TargetInv'
  <1>1. activation' \in [Activators -> Activation] /\ activation'[p] = a
        /\ \A q \in Activators \ {p} : activation'[q] = activation[q]
    BY DEF TargetInv, TargetTypeOK, Proceed
  <1>2. Active' = Active
    BY DEF Active
  <1>. QED
    BY <1>1, <1>2 DEF TargetInv, TargetTypeOK

LEMMA NoActivationTyped == NoActivation \in Activation
  BY DEF NoActivation, Activation

LEMMA ActivateKeeps ==
    ASSUME TargetInv, NEW p \in Activators, NEW i \in JobIds, Activate(p, i)
    PROVE  TargetInv'
  <1>. DEFINE a == activation[p]
  <1>1. a \in Activation /\ a.mine \subseteq Active /\ (a.copied => a.target \in JobIds)
    BY DEF TargetInv, TargetTypeOK
  <1>2. /\ a.target # NoId => i = a.target
        /\ ({i} \union Active) \intersect LockedByOthers(p) = {}
        /\ ~Collides(a)
        /\ targetJobs' = [j \in JobIds |->
               IF j = i /\ Marks(a) THEN "active"
               ELSE IF j \in a.mine THEN "idle" ELSE targetJobs[j]]
        /\ expected' = (Marks(a) \/ (expected /\ a.mine = {}))
        /\ Proceed(p, NoActivation)
    BY DEF Activate
  <1>3. \A q \in Activators \ {p} : activation[q].mine = {}
    BY <1>2 DEF LockedByOthers, TargetInv
  <1>4. /\ activation' \in [Activators -> Activation]
        /\ \A q \in Activators : activation'[q].mine = {}
        /\ \A q \in Activators : activation'[q].copied => activation'[q].target \in JobIds
    <2>1. activation' = [activation EXCEPT ![p] = NoActivation]
      BY <1>2 DEF Proceed
    <2>2. NoActivation.mine = {} /\ ~NoActivation.copied
      BY DEF NoActivation
    <2>. QED
      BY <1>3, <2>1, <2>2, NoActivationTyped DEF TargetInv, TargetTypeOK
  <1>5. targetJobs' \in [JobIds -> {"absent", "idle", "active"}] /\ expected' \in BOOLEAN
    BY <1>2 DEF TargetInv, TargetTypeOK
  <1>. HIDE DEF a
  <1>6. CASE Marks(a)
    <2>1. Active \subseteq a.mine \union {i}
      <3>1. Active \subseteq a.mine \union {a.target}
        BY <1>2, <1>6 DEF Collides
      <3>2. a.target = NoId => Active \subseteq a.mine
        BY <3>1, TargetAssumption DEF Active
      <3>. QED
        BY <1>2, <3>1, <3>2
    <2>2. \A j \in JobIds : targetJobs'[j] = "active" <=> j = i
      BY <1>2, <1>6, <2>1 DEF Active
    <2>3. Active' = {i}
      BY <2>2 DEF Active
    <2>. QED
      BY <1>4, <1>5, <2>3 DEF TargetInv, TargetTypeOK
  <1>7. CASE ~Marks(a)
    <2>1. \A j \in JobIds : targetJobs'[j] = "active" <=> targetJobs[j] = "active" /\ j \notin a.mine
      BY <1>2, <1>7
    <2>2. Active' = Active \ a.mine
      BY <2>1 DEF Active
    <2>3. expected' => expected /\ a.mine = {}
      BY <1>2, <1>7
    <2>. QED
      BY <1>4, <1>5, <2>2, <2>3 DEF TargetInv, TargetTypeOK
  <1>. QED
    BY <1>6, <1>7

LEMMA TargetInvariant == TargetSpec => []TargetInv
  <1>1. TargetInit => TargetInv
    <2>. SUFFICES ASSUME TargetInit PROVE TargetInv
      OBVIOUS
    <2>1. Active = {}
      BY DEF TargetInit, Active
    <2>2. \A p \in Activators : activation[p] = NoActivation
      BY DEF TargetInit
    <2>. QED
      BY <2>1, <2>2, NoActivationTyped DEF TargetInit, TargetInv, TargetTypeOK, NoActivation
  <1>2. TargetInv /\ [TargetNext]_targetVars => TargetInv'
    <2>. SUFFICES ASSUME TargetInv, [TargetNext]_targetVars PROVE TargetInv'
      OBVIOUS
    <2>1. ASSUME NEW i \in JobIds, CreateIdle(i) PROVE TargetInv'
      <3>1. Active' = Active /\ targetJobs' \in [JobIds -> {"absent", "idle", "active"}]
        BY <2>1 DEF CreateIdle, Active, TargetInv, TargetTypeOK
      <3>. QED
        BY <2>1, <3>1 DEF CreateIdle, TargetInv, TargetTypeOK
    <2>2. ASSUME NEW i \in JobIds, DeleteJob(i) PROVE TargetInv'
      <3>1. Active' = Active \ {i} /\ targetJobs' \in [JobIds -> {"absent", "idle", "active"}]
        BY <2>2 DEF DeleteJob, Active, TargetInv, TargetTypeOK
      <3>2. \A p \in Activators : i \notin activation[p].mine
        BY <2>2 DEF DeleteJob
      <3>3. UNCHANGED activation /\ expected' = (expected /\ i \notin Active)
        BY <2>2 DEF DeleteJob
      <3>. QED
        BY <3>1, <3>2, <3>3 DEF TargetInv, TargetTypeOK
    <2>3. ASSUME NEW p \in Activators, NEW i \in JobIds \union {NoId}, BeginActivation(p, i)
          PROVE  TargetInv'
      <3>. DEFINE b == [NoActivation EXCEPT !.pc = "select", !.target = i, !.copied = i \in Active]
      <3>1. b \in Activation /\ b.mine = {} /\ (b.copied => b.target \in JobIds)
        <4>1. \A x \in BOOLEAN : (x => i \in JobIds) =>
                LET c == [NoActivation EXCEPT !.pc = "select", !.target = i, !.copied = x]
                IN  c \in Activation /\ c.mine = {} /\ (c.copied => c.target \in JobIds)
          BY DEF NoActivation, Activation
        <4>2. (i \in Active) \in BOOLEAN /\ (i \in Active => i \in JobIds)
          BY DEF Active
        <4>. QED
          BY <4>1, <4>2, Zenon
      <3>2. Proceed(p, b) /\ UNCHANGED <<targetJobs, expected>>
        BY <2>3 DEF BeginActivation
      <3>. HIDE DEF b
      <3>. QED
        BY <3>1, <3>2, ProceedKeeps
    <2>4. ASSUME NEW p \in Activators, Select(p) PROVE TargetInv'
      <3>. DEFINE b == [activation[p] EXCEPT !.pc = "deactivate", !.seen = Active]
      <3>1. activation[p] \in Activation /\ activation[p].mine \subseteq Active
            /\ (activation[p].copied => activation[p].target \in JobIds)
        BY DEF TargetInv, TargetTypeOK
      <3>2. b \in Activation /\ b.mine = activation[p].mine
            /\ b.copied = activation[p].copied /\ b.target = activation[p].target
        BY <3>1 DEF Activation, Active
      <3>3. Proceed(p, b) /\ UNCHANGED <<targetJobs, expected>>
        BY <2>4 DEF Select
      <3>. HIDE DEF b
      <3>. QED
        BY <3>1, <3>2, <3>3, ProceedKeeps
    <2>5. ASSUME NEW p \in Activators, Deactivate(p) PROVE TargetInv'
      <3>. DEFINE b == [activation[p] EXCEPT !.pc = "commit",
                           !.mine = activation[p].seen \intersect Active]
      <3>1. activation[p] \in Activation
            /\ (activation[p].copied => activation[p].target \in JobIds)
        BY DEF TargetInv, TargetTypeOK
      <3>2. b \in Activation /\ b.mine \subseteq Active
            /\ b.copied = activation[p].copied /\ b.target = activation[p].target
        BY <3>1 DEF Activation, Active
      <3>3. Proceed(p, b) /\ UNCHANGED <<targetJobs, expected>>
        BY <2>5 DEF Deactivate
      <3>. HIDE DEF b
      <3>. QED
        BY <3>1, <3>2, <3>3, ProceedKeeps
    <2>6. ASSUME NEW p \in Activators, Rollback(p) PROVE TargetInv'
      <3>1. NoActivation.mine = {} /\ ~NoActivation.copied
        BY DEF NoActivation
      <3>. QED
        BY <2>6, <3>1, NoActivationTyped, ProceedKeeps DEF Rollback
    <2>7. ASSUME NEW p \in Activators, NEW i \in JobIds, Activate(p, i) PROVE TargetInv'
      BY <2>7, ActivateKeeps
    <2>8. CASE UNCHANGED targetVars
      BY <2>8 DEF targetVars, TargetInv, TargetTypeOK, Active
    <2>. QED
      BY <2>1, <2>2, <2>3, <2>4, <2>5, <2>6, <2>7, <2>8 DEF TargetNext
  <1>. QED
    BY <1>1, <1>2, PTL DEF TargetSpec

\* Overlapping activations leave at most one active job, and one as long as it
\* may be expected (activate_target_job, create_target_job).
THEOREM ActiveStays == TargetSpec => []ActiveKept
  <1>1. TargetInv => ActiveKept
    <2>. SUFFICES ASSUME TargetInv PROVE ActiveKept
      OBVIOUS
    <2>1. CASE Active = {}
      BY <2>1, FS_EmptySet DEF TargetInv, ActiveKept
    <2>2. ASSUME NEW i \in Active PROVE ActiveKept
      <3>1. Active = {i}
        BY <2>2 DEF TargetInv
      <3>2. Cardinality(Active) = 1
        BY <3>1, FS_Singleton
      <3>. QED
        BY <3>1, <3>2 DEF ActiveKept
    <2>. QED
      BY <2>1, <2>2
  <1>. QED
    BY <1>1, TargetInvariant, PTL

-----------------------------------------------------------------------------
(* AnswerGeneration.                                                       *)

\* What a try has gathered when it is at a place.
Gathering(c, p, f) ==
    /\ p = "local" => f.route \in {"local", "hybrid"} /\ f.web = "none"
    /\ p = "web" => /\ f.route \in {"web", "hybrid"} /\ f.web = "none"
                    /\ c.service # "agent" => f.local
    /\ p \in {"write", "keep"} =>
          /\ f.route \in Routes
          /\ f.route \in {"web", "hybrid"} <=> f.web # "none"
          /\ c.service # "agent" => f.local
    /\ p = "keep" => f.local \/ f.web = "found"

\* The result of a try that keeps or returns an answer is that of the record.
Agrees(t) ==
    place[t] \in {"done", "charge"} /\ ~forgotten =>
        record # Nothing /\ (returned[t] <=> UsedWeb(record))

AnswerInv ==
    /\ AnswerTypeOK
    /\ AnsweredOnce
    /\ \A t \in Tries : Gathering(call, place[t], found[t]) /\ Agrees(t)

PlacesOfTries == {"waiting", "done", "failed", "dead"} \union AtWork

LEMMA MoveTryKeepsType ==
    ASSUME AnswerTypeOK, NEW t \in Tries, NEW p \in PlacesOfTries, MoveTry(t, p)
    PROVE  /\ place' \in [Tries -> PlacesOfTries]
           /\ place'[t] = p
           /\ \A u \in Tries \ {t} : place'[u] = place[u]
  BY DEF MoveTry, AnswerTypeOK, PlacesOfTries

\* A try that goes to a place where nothing is kept yet, with what it has
\* gathered there, and leaves record and result alone.
LEMMA TryMoves ==
    ASSUME AnswerInv, NEW t \in Tries, NEW p \in PlacesOfTries \ {"done", "charge"}, MoveTry(t, p),
           NEW f \in Found, found' = [found EXCEPT ![t] = f], Gathering(call, p, f),
           UNCHANGED <<call, record, returned, forgotten>>,
           unit' \in {"none", "reserved", "released", "succeeded"},
           unit' = "succeeded" => unit = "succeeded"
    PROVE  AnswerInv'
  <1>1. /\ place' \in [Tries -> PlacesOfTries] /\ place'[t] = p
        /\ \A u \in Tries \ {t} : place'[u] = place[u]
    BY MoveTryKeepsType DEF AnswerInv
  <1>2. /\ found' \in [Tries -> Found] /\ found'[t] = f
        /\ \A u \in Tries \ {t} : found'[u] = found[u]
    BY DEF AnswerInv, AnswerTypeOK
  <1>3. AnswerTypeOK'
    BY <1>1, <1>2 DEF AnswerInv, AnswerTypeOK, PlacesOfTries
  <1>4. AnsweredOnce'
    BY <1>1 DEF AnswerInv, AnsweredOnce, UsedWeb
  <1>5. ASSUME NEW u \in Tries PROVE (Gathering(call, place[u], found[u]) /\ Agrees(u))'
    <2>1. CASE u = t
      BY <1>1, <1>2, <2>1 DEF Gathering, Agrees
    <2>2. CASE u # t
      BY <1>1, <1>2, <2>2 DEF AnswerInv, Gathering, Agrees, UsedWeb
    <2>. QED
      BY <2>1, <2>2
  <1>. QED
    BY <1>3, <1>4, <1>5 DEF AnswerInv

\* The same for a try that keeps what it has.
LEMMA TryGoes ==
    ASSUME AnswerInv, NEW t \in Tries, NEW p \in PlacesOfTries \ {"done", "charge"}, MoveTry(t, p),
           Gathering(call, p, found[t]),
           UNCHANGED <<call, found, record, returned, forgotten>>,
           unit' \in {"none", "reserved", "released", "succeeded"},
           unit' = "succeeded" => unit = "succeeded"
    PROVE  AnswerInv'
  <1>1. found[t] \in Found /\ found' = [found EXCEPT ![t] = found[t]]
    BY DEF AnswerInv, AnswerTypeOK
  <1>. QED
    BY <1>1, TryMoves

LEMMA GiveUpKeeps ==
    ASSUME AnswerInv, NEW t \in Tries, GiveUp(t),
           UNCHANGED <<call, found, record, returned, unit, forgotten>>
    PROVE  AnswerInv'
  <1>1. unit \in {"none", "reserved", "released", "succeeded"}
    BY DEF AnswerInv, AnswerTypeOK
  <1>2. CASE Metered
    BY <1>1, <1>2, TryGoes DEF GiveUp, Gathering, PlacesOfTries, AtWork
  <1>3. CASE ~Metered
    BY <1>1, <1>3, TryGoes DEF GiveUp, Gathering, PlacesOfTries, AtWork
  <1>. QED
    BY <1>2, <1>3

\* A try that ends with the record there is, or is about to be charged for it.
LEMMA TryEnds ==
    ASSUME AnswerInv, NEW t \in Tries, NEW p \in {"done", "charge"}, MoveTry(t, p),
           returned' \in [Tries -> BOOLEAN],
           \A u \in Tries \ {t} : returned'[u] = returned[u],
           ~forgotten => record # Nothing /\ (returned'[t] <=> UsedWeb(record)),
           UNCHANGED <<call, found, record, forgotten>>,
           unit' \in {"none", "reserved", "released", "succeeded"},
           unit' = "succeeded" => record # Nothing \/ forgotten
    PROVE  AnswerInv'
  <1>1. /\ place' \in [Tries -> PlacesOfTries] /\ place'[t] = p
        /\ \A u \in Tries \ {t} : place'[u] = place[u]
    BY MoveTryKeepsType DEF AnswerInv, PlacesOfTries, AtWork
  <1>2. AnswerTypeOK'
    BY <1>1 DEF AnswerInv, AnswerTypeOK, PlacesOfTries
  <1>3. ASSUME NEW u \in Tries PROVE (Gathering(call, place[u], found[u]) /\ Agrees(u))'
    <2>1. CASE u = t
      BY <1>1, <2>1 DEF Gathering, Agrees, UsedWeb
    <2>2. CASE u # t
      BY <1>1, <2>2 DEF AnswerInv, Gathering, Agrees, UsedWeb
    <2>. QED
      BY <2>1, <2>2
  <1>4. AnsweredOnce'
    <2>1. \A u \in Tries : place'[u] = "done" /\ ~forgotten' =>
              record' # Nothing /\ returned'[u] = UsedWeb(record')
      BY <1>2, <1>3 DEF Agrees, AnswerTypeOK, UsedWeb
    <2>. QED
      BY <2>1 DEF AnswerInv, AnsweredOnce, UsedWeb
  <1>. QED
    BY <1>2, <1>3, <1>4 DEF AnswerInv

LEMMA FoundTyped ==
    ASSUME NEW f \in Found
    PROVE  /\ f.route \in Routes \union {"none"} /\ f.local \in BOOLEAN
           /\ f.web \in {"none", "empty", "found"}
           /\ \A w \in {"none", "empty", "found"} :
                /\ [f EXCEPT !.web = w] \in Found
                /\ [f EXCEPT !.web = w].web = w
                /\ [f EXCEPT !.web = w].route = f.route
                /\ [f EXCEPT !.web = w].local = f.local
           /\ \A b \in BOOLEAN :
                /\ [f EXCEPT !.local = b] \in Found
                /\ [f EXCEPT !.local = b].local = b
                /\ [f EXCEPT !.local = b].route = f.route
                /\ [f EXCEPT !.local = b].web = f.web
  BY DEF Found

LEMMA NothingTyped ==
    /\ Nothing \in Found /\ Nothing.route = "none"
    /\ \A r \in Routes : /\ [Nothing EXCEPT !.route = r] \in Found
                         /\ [Nothing EXCEPT !.route = r].route = r
                         /\ [Nothing EXCEPT !.route = r].local = FALSE
                         /\ [Nothing EXCEPT !.route = r].web = "none"
  BY DEF Nothing, Found

LEMMA LookUpKeeps ==
    ASSUME AnswerInv, NEW t \in Tries, LookUpRecord(t)
    PROVE  AnswerInv'
  <1>1. UNCHANGED <<call, found, record, forgotten>> /\ place[t] = "begin"
        /\ unit \in {"none", "reserved", "released", "succeeded"}
        /\ returned \in [Tries -> BOOLEAN]
    BY DEF LookUpRecord, AnswerInv, AnswerTypeOK
  <1>2. CASE call.tracked /\ record # Nothing
    <2>1. /\ returned' = [returned EXCEPT ![t] = UsedWeb(record)]
          /\ MoveTry(t, "done") /\ UNCHANGED unit
      BY <1>2 DEF LookUpRecord
    <2>2. UsedWeb(record) \in BOOLEAN
      BY DEF UsedWeb
    <2>3. /\ returned' \in [Tries -> BOOLEAN] /\ (returned'[t] <=> UsedWeb(record))
          /\ \A u \in Tries \ {t} : returned'[u] = returned[u]
      BY <1>1, <2>1, <2>2
    <2>4. unit' = "succeeded" => record # Nothing \/ forgotten
      BY <1>2
    <2>. QED
      BY <1>1, <1>2, <2>1, <2>3, <2>4, TryEnds
  <1>3. CASE ~(call.tracked /\ record # Nothing)
    <2>1. /\ UNCHANGED returned
          /\ \/ /\ MoveTry(t, "route")
                /\ unit' = IF Metered THEN "reserved" ELSE unit
             \/ Metered /\ MoveTry(t, "failed") /\ UNCHANGED unit
      BY <1>3 DEF LookUpRecord
    <2>2. CASE MoveTry(t, "route") /\ unit' = IF Metered THEN "reserved" ELSE unit
      BY <1>1, <2>1, <2>2, TryGoes DEF Gathering, PlacesOfTries, AtWork
    <2>3. CASE MoveTry(t, "failed") /\ UNCHANGED unit
      BY <1>1, <2>1, <2>3, TryGoes DEF Gathering, PlacesOfTries, AtWork
    <2>. QED
      BY <2>1, <2>2, <2>3
  <1>. QED
    BY <1>2, <1>3

LEMMA ChooseRouteKeeps ==
    ASSUME AnswerInv, NEW t \in Tries, ChooseRoute(t)
    PROVE  AnswerInv'
  <1>1. PICK r \in IF call.mode = "auto" THEN Routes ELSE {call.mode} :
          /\ found' = [found EXCEPT ![t] = [Nothing EXCEPT !.route = r]]
          /\ MoveTry(t, IF r = "web" THEN "web" ELSE "local")
    BY DEF ChooseRoute, Gathered
  <1>2. UNCHANGED <<call, record, returned, unit, forgotten>>
        /\ unit \in {"none", "reserved", "released", "succeeded"} /\ call \in Calls
    BY DEF ChooseRoute, AnswerInv, AnswerTypeOK
  <1>3. r \in Routes /\ (r = "web" => call.service = "agent")
    BY <1>1, <1>2 DEF Calls, Routes
  <1>. DEFINE f == [Nothing EXCEPT !.route = r]
  <1>4. f \in Found /\ f.route = r /\ f.web = "none"
    BY <1>3, NothingTyped
  <1>. HIDE DEF f
  <1>5. found' = [found EXCEPT ![t] = f]
    BY <1>1 DEF f
  <1>6. CASE r = "web"
    <2>1. MoveTry(t, "web") /\ Gathering(call, "web", f)
      BY <1>1, <1>3, <1>4, <1>6 DEF Gathering
    <2>. QED
      BY <1>2, <1>4, <1>5, <2>1, TryMoves DEF PlacesOfTries, AtWork
  <1>7. CASE r # "web"
    <2>1. MoveTry(t, "local") /\ Gathering(call, "local", f)
      BY <1>1, <1>3, <1>4, <1>7 DEF Gathering, Routes
    <2>. QED
      BY <1>2, <1>4, <1>5, <2>1, TryMoves DEF PlacesOfTries, AtWork
  <1>. QED
    BY <1>6, <1>7

LEMMA RetrieveKeeps ==
    ASSUME AnswerInv, NEW t \in Tries, RetrieveLocal(t)
    PROVE  AnswerInv'
  <1>1. /\ UNCHANGED <<call, record, returned, unit, forgotten>>
        /\ unit \in {"none", "reserved", "released", "succeeded"} /\ found[t] \in Found
        /\ found[t].route \in {"local", "hybrid"} /\ found[t].web = "none"
    BY DEF RetrieveLocal, AnswerInv, AnswerTypeOK, Gathering
  <1>2. PICK o \in {"error", "insufficient", "sufficient"} :
          IF Stops(o)
          THEN GiveUp(t) /\ UNCHANGED found
          ELSE /\ found' = [found EXCEPT ![t] = [found[t] EXCEPT !.local = o = "sufficient"]]
               /\ MoveTry(t, IF found[t].route = "hybrid" THEN "web" ELSE "write")
    BY DEF RetrieveLocal, Gathered
  <1>3. CASE Stops(o)
    BY <1>1, <1>2, <1>3, GiveUpKeeps
  <1>4. CASE ~Stops(o)
    <2>. DEFINE b == (o = "sufficient")
                f == [found[t] EXCEPT !.local = b]
    <2>1. b \in BOOLEAN
      OBVIOUS
    <2>2. f \in Found /\ f.local = b /\ f.route = found[t].route /\ f.web = found[t].web
      <3>. HIDE DEF b
      <3>1. /\ f \in Found
            /\ f.local = b
        BY <1>1, <2>1, FoundTyped
      <3>2. f.route = found[t].route /\ f.web = found[t].web
        BY <1>1, <2>1, FoundTyped
      <3>. QED
        BY <3>1, <3>2
    <2>3. found' = [found EXCEPT ![t] = f]
      BY <1>2, <1>4
    <2>4. call.service # "agent" => b
      BY <1>4 DEF Stops
    <2>. HIDE DEF f, b
    <2>5. CASE found[t].route = "hybrid"
      <3>1. MoveTry(t, "web") /\ Gathering(call, "web", f)
        BY <1>1, <1>2, <1>4, <2>2, <2>4, <2>5 DEF Gathering
      <3>. QED
        BY <1>1, <2>2, <2>3, <3>1, TryMoves DEF PlacesOfTries, AtWork
    <2>6. CASE found[t].route # "hybrid"
      <3>1. MoveTry(t, "write") /\ Gathering(call, "write", f)
        BY <1>1, <1>2, <1>4, <2>2, <2>4, <2>6 DEF Gathering, Routes
      <3>. QED
        BY <1>1, <2>2, <2>3, <3>1, TryMoves DEF PlacesOfTries, AtWork
    <2>. QED
      BY <2>5, <2>6
  <1>. QED
    BY <1>3, <1>4

LEMMA SearchWebKeeps ==
    ASSUME AnswerInv, NEW t \in Tries, SearchWeb(t)
    PROVE  AnswerInv'
  <1>1. /\ UNCHANGED <<call, record, returned, unit, forgotten>>
        /\ unit \in {"none", "reserved", "released", "succeeded"} /\ found[t] \in Found
        /\ found[t].route \in {"web", "hybrid"}
        /\ call.service # "agent" => found[t].local
    BY DEF SearchWeb, AnswerInv, AnswerTypeOK, Gathering
  <1>2. PICK o \in WebOutcomes :
          IF o = "error" THEN GiveUp(t) /\ UNCHANGED found
          ELSE /\ found' = [found EXCEPT ![t] = [found[t] EXCEPT !.web = o]]
               /\ MoveTry(t, "write")
    BY DEF SearchWeb, Gathered
  <1>3. CASE o = "error"
    BY <1>1, <1>2, <1>3, GiveUpKeeps
  <1>4. CASE o # "error"
    <2>. DEFINE f == [found[t] EXCEPT !.web = o]
    <2>1. /\ f \in Found /\ f.web = o /\ f.route = found[t].route
          /\ f.local = found[t].local
      <3>1. o \in {"none", "empty", "found"}
        BY <1>4 DEF WebOutcomes
      <3>. HIDE DEF WebOutcomes
      <3>2. f \in Found
        BY <1>1, <3>1 DEF Found
      <3>3. f.web = o
        BY <1>1 DEF Found
      <3>4. f.route = found[t].route /\ f.local = found[t].local
        BY <1>1, <3>1, FoundTyped
      <3>. QED
        BY <3>2, <3>3, <3>4
    <2>2. found' = [found EXCEPT ![t] = f] /\ MoveTry(t, "write")
      BY <1>2, <1>4
    <2>. HIDE DEF f
    <2>3. Gathering(call, "write", f)
      BY <1>1, <1>2, <1>4, <2>1 DEF Gathering, Routes, WebOutcomes
    <2>. QED
      BY <1>1, <2>1, <2>2, <2>3, TryMoves DEF PlacesOfTries, AtWork
  <1>. QED
    BY <1>3, <1>4

LEMMA KeepKeeps ==
    ASSUME AnswerInv, NEW t \in Tries, KeepAnswer(t)
    PROVE  AnswerInv'
  <1>1. CASE Insertable
    <2>. DEFINE p == IF Metered THEN "charge" ELSE "done"
    <2>1. /\ record' = found[t] /\ MoveTry(t, p)
          /\ returned' = [returned EXCEPT ![t] = UsedWeb(found[t])]
          /\ UNCHANGED <<call, found, unit, forgotten>>
          /\ record = Nothing
      BY <1>1 DEF KeepAnswer, Insertable
    <2>2. p \in {"charge", "done"} /\ p \in PlacesOfTries
      BY DEF PlacesOfTries, AtWork
    <2>. HIDE DEF p
    <2>3. /\ place' \in [Tries -> PlacesOfTries] /\ place'[t] = p
          /\ \A u \in Tries \ {t} : place'[u] = place[u]
      BY <2>1, <2>2, MoveTryKeepsType DEF AnswerInv
    <2>4. UsedWeb(found[t]) \in BOOLEAN
      BY DEF UsedWeb
    <2>5. /\ returned' \in [Tries -> BOOLEAN] /\ (returned'[t] <=> UsedWeb(record'))
          /\ \A u \in Tries \ {t} : returned'[u] = returned[u]
      BY <2>1, <2>4 DEF AnswerInv, AnswerTypeOK, UsedWeb
    <2>6. /\ record' \in Found /\ record' # Nothing
          /\ record'.local \/ (call.service = "agent" /\ record'.web = "found")
          /\ UsedWeb(record') <=> record'.web # "none"
      <3>1. place[t] = "keep" /\ found[t] \in Found /\ Gathering(call, "keep", found[t])
            /\ record' = found[t]
        BY <2>1 DEF KeepAnswer, AnswerInv, AnswerTypeOK
      <3>. QED
        BY <3>1, NothingTyped DEF Gathering, Routes, UsedWeb
    <2>7. AnswerTypeOK'
      BY <2>1, <2>3, <2>5, <2>6 DEF AnswerInv, AnswerTypeOK, PlacesOfTries
    <2>8. ASSUME NEW u \in Tries \ {t} PROVE place[u] \in {"done", "charge"} => forgotten
      BY <2>1 DEF AnswerInv, Agrees
    <2>9. ASSUME NEW u \in Tries PROVE (Gathering(call, place[u], found[u]) /\ Agrees(u))'
      <3>1. CASE u = t
        BY <2>1, <2>2, <2>3, <2>5, <2>6, <3>1 DEF Gathering, Agrees
      <3>2. CASE u # t
        BY <2>1, <2>3, <2>8, <3>2 DEF AnswerInv, Gathering, Agrees
      <3>. QED
        BY <3>1, <3>2
    <2>10. AnsweredOnce'
      <3>1. \A u \in Tries : place'[u] = "done" /\ ~forgotten' =>
                record' # Nothing /\ returned'[u] = UsedWeb(record')
        BY <2>7, <2>9 DEF Agrees, AnswerTypeOK, UsedWeb
      <3>. QED
        BY <2>1, <2>6, <3>1 DEF AnsweredOnce, UsedWeb
    <2>. QED
      BY <2>7, <2>9, <2>10 DEF AnswerInv
  <1>2. CASE ~Insertable
    BY <1>2, GiveUpKeeps DEF KeepAnswer
  <1>. QED
    BY <1>1, <1>2

LEMMA ChargeKeeps ==
    ASSUME AnswerInv, NEW t \in Tries, ChargeAnswer(t)
    PROVE  AnswerInv'
  <1>1. /\ place[t] = "charge" /\ UNCHANGED <<call, found, record, returned, forgotten>>
        /\ unit \in {"none", "reserved", "released", "succeeded"}
        /\ returned \in [Tries -> BOOLEAN]
        /\ ~forgotten => record # Nothing /\ (returned[t] <=> UsedWeb(record))
    BY DEF ChargeAnswer, AnswerInv, AnswerTypeOK, Agrees
  <1>2. CASE unit = "reserved"
    <2>1. unit' = "succeeded" /\ MoveTry(t, "done")
      BY <1>2 DEF ChargeAnswer
    <2>. QED
      BY <1>1, <2>1, TryEnds
  <1>3. CASE unit # "reserved"
    <2>1. UNCHANGED unit /\ MoveTry(t, "failed")
      BY <1>3 DEF ChargeAnswer
    <2>. QED
      BY <1>1, <2>1, TryGoes DEF Gathering, PlacesOfTries, AtWork
  <1>. QED
    BY <1>2, <1>3

LEMMA AnswerInvariant == AnswerSpec => []AnswerInv
  <1>1. AnswerInit => AnswerInv
    BY NothingTyped DEF AnswerInit, AnswerInv, AnswerTypeOK, AnsweredOnce, Gathering, Agrees, AtWork
  <1>2. AnswerInv /\ [AnswerNext]_answerVars => AnswerInv'
    <2>. SUFFICES ASSUME AnswerInv, [AnswerNext]_answerVars PROVE AnswerInv'
      OBVIOUS
    <2>0. unit \in {"none", "reserved", "released", "succeeded"}
      BY DEF AnswerInv, AnswerTypeOK
    <2>1. CASE TimeOut
      BY <2>1 DEF TimeOut, AnswerInv, AnswerTypeOK, AnsweredOnce, Gathering, Agrees, UsedWeb
    <2>2. CASE Forget
      BY <2>2, NothingTyped DEF Forget, AnswerInv, AnswerTypeOK, AnsweredOnce, Gathering, Agrees, UsedWeb
    <2>3. ASSUME NEW t \in Tries, BeginTry(t) PROVE AnswerInv'
      BY <2>0, <2>3, TryGoes DEF BeginTry, Gathering, PlacesOfTries, AtWork
    <2>4. ASSUME NEW t \in Tries, LookUpRecord(t) PROVE AnswerInv'
      BY <2>4, LookUpKeeps
    <2>5. ASSUME NEW t \in Tries, ChooseRoute(t) PROVE AnswerInv'
      BY <2>5, ChooseRouteKeeps
    <2>6. ASSUME NEW t \in Tries, RetrieveLocal(t) PROVE AnswerInv'
      BY <2>6, RetrieveKeeps
    <2>7. ASSUME NEW t \in Tries, SearchWeb(t) PROVE AnswerInv'
      BY <2>7, SearchWebKeeps
    <2>8. ASSUME NEW t \in Tries, WriteAnswer(t) PROVE AnswerInv'
      <3>1. UNCHANGED <<call, found, record, returned, unit, forgotten>> /\ place[t] = "write"
        BY <2>8 DEF WriteAnswer
      <3>2. CASE (found[t].local \/ found[t].web = "found") /\ MoveTry(t, "keep")
        <4>1. Gathering(call, "keep", found[t])
          BY <3>1, <3>2 DEF AnswerInv, Gathering
        <4>. QED
          BY <2>0, <3>1, <3>2, <4>1, TryGoes DEF PlacesOfTries, AtWork
      <3>3. CASE GiveUp(t)
        BY <3>1, <3>3, GiveUpKeeps
      <3>. QED
        BY <2>8, <3>2, <3>3 DEF WriteAnswer
    <2>9. ASSUME NEW t \in Tries, KeepAnswer(t) PROVE AnswerInv'
      BY <2>9, KeepKeeps
    <2>10. ASSUME NEW t \in Tries, ChargeAnswer(t) PROVE AnswerInv'
      BY <2>10, ChargeKeeps
    <2>11. ASSUME NEW t \in Tries, GiveBack(t) PROVE AnswerInv'
      BY <2>0, <2>11, TryGoes DEF GiveBack, Gathering, PlacesOfTries, AtWork
    <2>12. ASSUME NEW t \in Tries, DieTrying(t) PROVE AnswerInv'
      BY <2>0, <2>12, TryGoes DEF DieTrying, Gathering, PlacesOfTries, AtWork
    <2>13. CASE UNCHANGED answerVars
      BY <2>13 DEF answerVars, AnswerInv, AnswerTypeOK, AnsweredOnce, Gathering, Agrees, UsedWeb
    <2>. QED
      BY <2>1, <2>2, <2>3, <2>4, <2>5, <2>6, <2>7, <2>8, <2>9, <2>10, <2>11, <2>12, <2>13
      DEF AnswerNext
  <1>. QED
    BY <1>1, <1>2, PTL DEF AnswerSpec

\* Whatever attempts of a job overlap, fail or die, all that end well return the
\* one answer that is kept (analyze_job, ask_agent, ask_with_rag).
THEOREM OneAnswer == AnswerSpec => []AnsweredOnce
  <1>1. AnswerInv => AnsweredOnce
    BY DEF AnswerInv
  <1>. QED
    BY <1>1, AnswerInvariant, PTL
=============================================================================
