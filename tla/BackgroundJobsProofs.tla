------------------------ MODULE BackgroundJobsProofs ------------------------
(***************************************************************************)
(* Proofs about BackgroundJobs for every set of jobs, requests, workers    *)
(* and clients.  The first part allows handlers that interleave between    *)
(* their read and their write of a row, leases that lapse under a live     *)
(* worker, ageing reservations, history cleanup and crashes; so does       *)
(* OneCharge at the end, without the cleanup.  What lies between assumes   *)
(* AtomicHandlers, and says where it needs LeasesHold or ~ReservationsAge: *)
(* without them TLC finds the property violated.                           *)
(***************************************************************************)
EXTENDS BackgroundJobs, TLAPS

\* The statuses of the abstract life cycle, spelled out.
LEMMA StatusFacts ==
    /\ Terminal = {"succeeded", "failed", "cancelled", "timed_out"}
    /\ Statuses = {"absent", "queued", "retry_wait", "running", "cancel_requested",
                   "deleted", "succeeded", "failed", "cancelled", "timed_out"}
  BY DEF Terminal, Statuses, Lifecycle!Terminal, Lifecycle!Statuses

\* The program points, spelled out.
LEMMA StepFacts ==
    /\ ThreadSteps = {"check5", "ping5", "resume", "check20", "ping20", "work",
                      "check90", "ping90", "start", "complete", "timeout", "store",
                      "reload", "charge", "recheck", "finish", "onCancelled",
                      "onRetryable", "onPermanent"}
    /\ JobSteps = ThreadSteps \union {"settle", "release", "reserve", "reserveFresh", "bind"}
    /\ ThreadSteps \subseteq Steps
    /\ {"idle", "settle", "release", "insert", "reserve", "reserveFresh", "bind",
        "rejected", "recover", "history", "orphans", "releaseFirst", "reloadNext",
        "releaseNext"} \subseteq Steps
  BY DEF ThreadSteps, HeartbeatSteps, JobSteps, Steps, ClientSteps, MaintenanceSteps

\* A copy of an event in hand is no job in hand.
LEMMA HoldingFacts ==
    ASSUME NEW q
    PROVE  Holding(q).pc = "releaseNext" /\ Holding(q).at = None
  BY DEF Holding, At, Idle

\* The empty local state and the copies made of it are well typed.
LEMMA LocalFacts ==
    /\ NoRow \in Row
    /\ Idle \in LocalState
    /\ \A r \in Requests : QueuedRow(r) \in Row
    /\ \A s \in Steps, j \in Jobs \union {None} : At(s, j) \in LocalState
    /\ \A s \in Steps, j \in Jobs, m \in Row, g \in Statuses : Window(s, j, m, g) \in LocalState
    /\ \A q \in Quotas : Holding(q) \in LocalState
  <1>1. NoRow \in Row
    BY ConstantsAssumption, StatusFacts DEF NoRow, Row
  <1>2. \A r \in Requests : QueuedRow(r) \in Row
    BY <1>1, StatusFacts DEF QueuedRow, NoRow, Row
  <1>3. Idle \in LocalState
    BY <1>1, StatusFacts, StepFacts DEF Idle, LocalState
  <1>4. \A s \in Steps, j \in Jobs \union {None} : At(s, j) \in LocalState
    BY <1>3 DEF At, LocalState
  <1>5. \A s \in Steps, j \in Jobs, m \in Row, g \in Statuses : Window(s, j, m, g) \in LocalState
    BY DEF Window, LocalState
  <1>6. \A q \in Quotas : Holding(q) \in LocalState
    <2>. TAKE q \in Quotas
    <2>. DEFINE m == [NoRow EXCEPT !.quota = q]
    <2>1. m \in Row
      BY <1>1 DEF Row
    <2>2. At("releaseNext", None) \in LocalState
      BY <1>4, StepFacts
    <2>3. Holding(q) = [At("releaseNext", None) EXCEPT !.mem = m]
      BY DEF Holding
    <2>. HIDE DEF m
    <2>. QED
      BY <2>1, <2>2, <2>3 DEF LocalState
  <1>. QED
    BY <1>1, <1>2, <1>3, <1>4, <1>5, <1>6

\* A row that a process has in hand only grows: it stays, keeps its request
\* and result, and once attempted keeps its attempts and its quota event.
Grows(r, s) ==
    Present(r) => /\ Present(s)
                  /\ s.req = r.req
                  /\ r.result => s.result
                  /\ r.attempts > 0 => s.attempts > 0 /\ s.quota = r.quota

\* Hence what a process knows survives the steps of the others.
LEMMA LocalInvStable ==
    ASSUME NEW R \in [Jobs -> Row], NEW S \in [Jobs -> Row],
           NEW U \in [Quotas -> Nat], NEW V \in [Quotas -> Nat],
           NEW p \in Procs, NEW l \in LocalState,
           LocalInv(R, U, p, l),
           l.at \in Jobs => Grows(R[l.at], S[l.at]),
           \A q \in Quotas : U[q] > 0 => V[q] > 0
    PROVE  LocalInv(S, V, p, l)
  <1>1. l.pc \in JobSteps => /\ l.at \in Jobs
                             /\ Present(R[l.at])
                             /\ Grows(R[l.at], S[l.at])
    BY DEF LocalInv
  <1>2. R[l.at].quota \in Quotas \union {None} \/ l.at \notin Jobs
    BY DEF Row
  <1>3. l.pc \in PayingSteps \union ThreadSteps \union {"charge", "finish", "recheck", "reload"}
           => l.pc \in JobSteps
    BY StepFacts DEF PayingSteps
  <1>. QED
    BY <1>1, <1>2, <1>3, StepFacts DEF LocalInv, Grows, Paid, PayingSteps

\* A row whose columns the invariant speaks of are left alone grows.
LEMMA GrowsReflexive ==
    /\ \A r \in Row : Grows(r, r)
    /\ \A r \in Row, s \in Row :
          /\ Present(s) /\ s.req = r.req /\ s.result = r.result
          /\ s.attempts = r.attempts /\ s.quota = r.quota
          => Grows(r, s)
  BY DEF Grows

\* What is left to show of a step of p: its own local state, the rows it
\* writes, and that they grow.
LEMMA StepPreserves ==
    ASSUME IInv, NEW p \in Procs,
           row' \in [Jobs -> Row], used' \in [Quotas -> Nat], evt' \in [Quotas -> Event],
           proc'[p] \in LocalState, proc' = [proc EXCEPT ![p] = proc'[p]],
           todo' \subseteq Jobs, orphans' \subseteq Quotas, up' \subseteq Workers,
           worked' \subseteq Jobs, crashes' \in 0..MaxCrashes,
           \A o \in Procs \ {p} : proc[o].at \in Jobs =>
               Grows(row[proc[o].at], row'[proc[o].at]),
           \A q \in Quotas : used[q] > 0 => used'[q] > 0,
           LocalInv(row', used', p, proc'[p]),
           \A j \in Jobs : RowInv(used', row'[j]),
           \A q \in Quotas : evt'[q].status = "succeeded" => used'[q] > 0,
           \A j \in todo' : Present(row'[j])
    PROVE  IInv'
  <1>1. TypeOK'
    BY DEF IInv, TypeOK
  <1>2. \A o \in Procs : LocalInv(row', used', o, proc'[o])
    <2>1. ASSUME NEW o \in Procs, o # p
          PROVE  LocalInv(row', used', o, proc'[o])
      <3>1. proc'[o] = proc[o] /\ proc[o] \in LocalState
        BY <2>1 DEF IInv, TypeOK
      <3>2. LocalInv(row, used, o, proc[o])
        BY DEF IInv
      <3>. QED
        BY <2>1, <3>1, <3>2, LocalInvStable DEF IInv, TypeOK
    <2>. QED
      BY <2>1
  <1>. QED
    BY <1>1, <1>2 DEF IInv, Exists

\* The same for a step that writes no row, event or counter.
LEMMA LocalStepPreserves ==
    ASSUME IInv, NEW p \in Procs,
           UNCHANGED <<row, evt, used>>,
           proc'[p] \in LocalState, proc' = [proc EXCEPT ![p] = proc'[p]],
           todo' \subseteq Jobs, orphans' \subseteq Quotas, up' \subseteq Workers,
           worked' \subseteq Jobs, crashes' \in 0..MaxCrashes,
           LocalInv(row, used, p, proc'[p]),
           \A j \in todo' : Exists(j)
    PROVE  IInv'
  <1>1. \A o \in Procs \ {p} : proc[o].at \in Jobs =>
               Grows(row[proc[o].at], row'[proc[o].at])
    BY GrowsReflexive DEF IInv, TypeOK
  <1>. QED
    BY <1>1, StepPreserves DEF IInv, TypeOK, Exists

\* What Become does to the function of local states.
LEMMA BecomeFacts ==
    ASSUME IInv, NEW p \in Procs, NEW l \in LocalState, Become(p, l)
    PROVE  proc'[p] = l /\ proc' = [proc EXCEPT ![p] = proc'[p]]
  BY DEF IInv, TypeOK, Become

\* The knowledge of a process that has nothing, or no job, in hand.
LEMMA RestingFacts ==
    ASSUME NEW R, NEW U, NEW p
    PROVE  /\ LocalInv(R, U, p, Idle)
           /\ \A s \in {"rejected", "recover", "history", "orphans", "releaseFirst",
                        "reloadNext"} : LocalInv(R, U, p, At(s, None))
           /\ \A q : LocalInv(R, U, p, Holding(q))
  <1>1. LocalInv(R, U, p, Idle)
    BY ConstantsAssumption, StepFacts DEF LocalInv, Idle, PayingSteps
  <1>2. ASSUME NEW s \in {"rejected", "recover", "history", "orphans", "releaseFirst",
                          "reloadNext"}
        PROVE  LocalInv(R, U, p, At(s, None))
    BY ConstantsAssumption, StepFacts DEF LocalInv, Idle, At, PayingSteps
  <1>3. ASSUME NEW q PROVE LocalInv(R, U, p, Holding(q))
    BY HoldingFacts, ConstantsAssumption, StepFacts DEF LocalInv, PayingSteps
  <1>. QED
    BY <1>1, <1>2, <1>3

\* What a transition does to a copy of the row.
LEMMA TransitionedFacts ==
    ASSUME NEW m \in Row, NEW g \in Statuses
    PROVE  /\ Transitioned(m, g) \in Row
           /\ Transitioned(m, g).status = g
           /\ Transitioned(m, g).attempts = m.attempts
           /\ Transitioned(m, g).quota = m.quota
           /\ Transitioned(m, g).req = m.req
           /\ Transitioned(m, g).result = m.result
  <1>. DEFINE w == IF g \in Terminal \union {"retry_wait"} THEN None ELSE m.worker
              e == IF g \in Terminal \union {"retry_wait"} THEN "none" ELSE m.lease
  <1>1. Transitioned(m, g) = [m EXCEPT !.status = g, !.worker = w, !.lease = e]
    BY DEF Transitioned
  <1>2. w \in Workers \union {None} /\ e \in {"none", "live", "expired"}
    BY DEF Row
  <1>. HIDE DEF w, e
  <1>. QED
    BY <1>1, <1>2 DEF Row

\* The flush of a transition keeps the rows' invariant, whatever has become
\* of the row since it was loaded.
LEMMA FlushPreserves ==
    ASSUME IInv, NEW p \in Procs, proc[p].pc \in {"settle", "finish"}, Flush(p)
    PROVE  /\ row' \in [Jobs -> Row]
           /\ \A j \in Jobs : Grows(row[j], row'[j]) /\ RowInv(used, row'[j])
           /\ \A j \in Jobs : Present(row[j]) => Present(row'[j])
  <1>. DEFINE l == proc[p]
              j == l.at
              g == l.goal
              new == Merge(row[j], l.mem, Transitioned(l.mem, g))
  <1>1. l \in LocalState /\ LocalInv(row, used, p, l)
    BY DEF IInv, TypeOK
  <1>2. j \in Jobs /\ Present(row[j])
    BY <1>1, StepFacts DEF LocalInv
  <1>3. g \in {"cancelled", "failed", "cancel_requested", "retry_wait", "timed_out",
               "succeeded"}
    BY <1>1 DEF LocalInv
  <1>4. /\ row[j] \in Row /\ l.mem \in Row /\ RowInv(used, row[j])
        /\ row \in [Jobs -> Row]
    BY <1>1, <1>2 DEF IInv, TypeOK, LocalState
  <1>5. /\ new \in Row
        /\ new.status = IF g # l.mem.status THEN g ELSE row[j].status
        /\ new.attempts = row[j].attempts /\ new.quota = row[j].quota
        /\ new.req = row[j].req /\ new.result = row[j].result
    <2>1. /\ Transitioned(l.mem, g) \in Row
          /\ Transitioned(l.mem, g).status = g
      BY <1>3, <1>4, StatusFacts, TransitionedFacts
    <2>. DEFINE made == Transitioned(l.mem, g)
    <2>2. made \in Row /\ made.status = g
      BY <2>1
    <2>. HIDE DEF made
    <2>3. /\ Merge(row[j], l.mem, made) \in Row
          /\ Merge(row[j], l.mem, made).status = IF g # l.mem.status THEN g ELSE row[j].status
      BY <1>4, <2>2 DEF Merge, Row
    <2>4. LET m == Merge(row[j], l.mem, made) IN
             /\ m.attempts = row[j].attempts /\ m.quota = row[j].quota
             /\ m.req = row[j].req /\ m.result = row[j].result
      BY <1>4 DEF Merge, Row
    <2>. QED
      BY <2>3, <2>4 DEF made
  <1>6. Present(new) /\ Grows(row[j], new)
    BY <1>2, <1>3, <1>5 DEF Present, Grows
  <1>7. RowInv(used, new)
    <2>1. new.status = "succeeded" => new.attempts > 0 /\ new.result /\ Paid(used, new)
      <3>1. CASE row[j].status = "succeeded"
        BY <1>4, <1>5, <3>1 DEF RowInv, Paid
      <3>2. CASE row[j].status # "succeeded"
        <4>. SUFFICES ASSUME g = "succeeded"
                      PROVE  new.attempts > 0 /\ new.result /\ Paid(used, new)
          BY <1>5, <3>2
        <4>1. l.pc = "finish"
          BY <1>1 DEF LocalInv
        <4>. QED
          BY <1>1, <1>5, <4>1, StepFacts DEF LocalInv, Paid
      <3>. QED
        BY <3>1, <3>2
    <2>. QED
      BY <1>2, <1>4, <1>5, <1>6, <2>1 DEF RowInv
  <1>8. row' = row \/ row' = [row EXCEPT ![j] = new]
    BY DEF Flush
  <1>. QED
    BY <1>2, <1>4, <1>5, <1>6, <1>7, <1>8, GrowsReflexive DEF IInv

\* Init establishes the invariant.
LEMMA InitIInv == Init => IInv
  <1>. SUFFICES ASSUME Init PROVE IInv
    OBVIOUS
  <1>1. TypeOK
    BY LocalFacts, ConstantsAssumption DEF Init, TypeOK, Event
  <1>2. \A p \in Procs : LocalInv(row, used, p, proc[p])
    BY RestingFacts DEF Init
  <1>3. \A j \in Jobs : RowInv(used, row[j])
    BY DEF Init, RowInv, NoRow, Present
  <1>. QED
    BY <1>1, <1>2, <1>3 DEF IInv, Init

\* A transition committed, refused, or followed by the release of the
\* reservation.
LEMMA SettlePreserves ==
    ASSUME IInv, NEW p \in Procs,
           Settle(p) \/ SettleRefused(p) \/ ReleaseQuota(p) \/ Finish(p) \/ FinishRefused(p)
    PROVE  IInv'
  <1>. DEFINE j == proc[p].at
  <1>1. /\ proc[p] \in LocalState /\ LocalInv(row, used, p, proc[p])
        /\ j \in Jobs /\ Present(row[j]) /\ row[j] \in Row
    BY StepFacts DEF IInv, TypeOK, LocalInv, Settle, SettleRefused, ReleaseQuota,
                     Finish, FinishRefused
  <1>2. Resting(p) \in LocalState
    BY LocalFacts, StepFacts DEF Resting
  <1>3. \A R, U : LocalInv(R, U, p, Resting(p)) /\ LocalInv(R, U, p, Idle)
    BY RestingFacts DEF Resting
  <1>4. /\ At("release", j) \in LocalState
        /\ \A R, U : Present(R[j]) => LocalInv(R, U, p, At("release", j))
    BY <1>1, LocalFacts, StepFacts DEF LocalInv, At, Idle, PayingSteps
  <1>5. CASE Settle(p) \/ Finish(p)
    <2>1. proc[p].pc \in {"settle", "finish"} /\ Flush(p)
      BY <1>5 DEF Settle, Finish
    <2>2. \E l \in {Resting(p), Idle, At("release", j)} : Become(p, l)
      BY <1>5 DEF Settle, Finish
    <2>3. PICK l \in {Resting(p), Idle, At("release", j)} : Become(p, l)
      BY <2>2
    <2>4. proc'[p] = l /\ proc' = [proc EXCEPT ![p] = proc'[p]]
      BY <1>2, <1>4, <2>3, BecomeFacts, LocalFacts
    <2>5. UNCHANGED <<evt, used, todo, orphans, up, worked, crashes>>
      BY <1>5 DEF Settle, Finish
    <2>6. LocalInv(row', used, p, l)
      BY <1>1, <1>3, <1>4, <2>1, FlushPreserves
    <2>7. l \in LocalState
      BY <1>2, <1>4, LocalFacts
    <2>. QED
      BY <1>1, <2>1, <2>4, <2>5, <2>6, <2>7, FlushPreserves, StepPreserves
         DEF IInv, TypeOK, Exists
  <1>6. CASE SettleRefused(p)
    <2>1. Become(p, Idle) /\ UNCHANGED <<row, evt, used, orphans, up, worked, crashes>>
          /\ todo' \subseteq todo
      BY <1>6 DEF SettleRefused
    <2>. QED
      BY <1>3, <2>1, BecomeFacts, LocalFacts, LocalStepPreserves DEF IInv, TypeOK
  <1>7. CASE ReleaseQuota(p)
    <2>1. /\ Become(p, Resting(p))
          /\ UNCHANGED <<row, used, todo, orphans, up, worked, crashes>>
      BY <1>7 DEF ReleaseQuota
    <2>2. row[j].quota \in Quotas \union {None}
      BY <1>1 DEF Row
    <2>3. /\ evt' \in [Quotas -> Event]
          /\ \A q \in Quotas : evt'[q].status = "succeeded" => evt[q].status = "succeeded"
      BY <1>7, <2>2 DEF ReleaseQuota, IInv, TypeOK, Released, Event
    <2>. QED
      BY <1>2, <1>3, <2>1, <2>3, BecomeFacts, StepPreserves, GrowsReflexive
         DEF IInv, TypeOK, Exists
  <1>8. CASE FinishRefused(p)
    <2>1. /\ Become(p, At("onRetryable", j))
          /\ UNCHANGED <<row, evt, used, todo, orphans, up, worked, crashes>>
          /\ proc[p].pc = "finish"
      BY <1>8 DEF FinishRefused
    <2>2. At("onRetryable", j) \in LocalState
      BY <1>1, LocalFacts, StepFacts
    <2>3. LocalInv(row, used, p, At("onRetryable", j))
      BY <1>1, <2>1, StepFacts DEF LocalInv, At, Idle, PayingSteps
    <2>. QED
      BY <2>1, <2>2, <2>3, BecomeFacts, LocalStepPreserves DEF IInv, TypeOK
  <1>. QED
    BY <1>5, <1>6, <1>7, <1>8

\* A step of p that only changes what p has in hand.
LEMMA BecomePreserves ==
    ASSUME IInv, NEW p \in Procs, NEW l \in LocalState, Become(p, l),
           LocalInv(row, used, p, l),
           UNCHANGED <<row, evt, used>>,
           todo' \subseteq Jobs, orphans' \subseteq Quotas, up' \subseteq Workers,
           worked' \subseteq Jobs, crashes' \in 0..MaxCrashes,
           \A j \in todo' : Exists(j)
    PROVE  IInv'
  BY BecomeFacts, LocalStepPreserves

\* Local states of a process that works on an existing job and holds no copy.
LEMMA AtFacts ==
    ASSUME NEW R, NEW U, NEW p \in Procs, NEW j \in Jobs, Present(R[j])
    PROVE  /\ \A s \in Steps : At(s, j) \in LocalState
           /\ LocalInv(R, U, p, At("release", j))
           /\ QuotaOf[R[j].req] # None =>
                 \A s \in PayingSteps : LocalInv(R, U, p, At(s, j))
           /\ p \in Threads /\ R[j].attempts > 0 =>
                 \A s \in ThreadSteps \ {"reload", "charge", "recheck", "finish"} :
                     LocalInv(R, U, p, At(s, j))
           /\ \A m \in Row, g \in {"cancelled", "failed", "cancel_requested", "retry_wait"} :
                 /\ Window("settle", j, m, g) \in LocalState
                 /\ LocalInv(R, U, p, Window("settle", j, m, g))
  <1>1. \A s \in Steps : At(s, j) \in LocalState
    BY LocalFacts
  <1>2. LocalInv(R, U, p, At("release", j))
    BY StepFacts DEF LocalInv, At, Idle, PayingSteps
  <1>3. QuotaOf[R[j].req] # None => \A s \in PayingSteps : LocalInv(R, U, p, At(s, j))
    BY StepFacts DEF LocalInv, At, Idle, PayingSteps
  <1>4. p \in Threads /\ R[j].attempts > 0 =>
           \A s \in ThreadSteps \ {"reload", "charge", "recheck", "finish"} :
               LocalInv(R, U, p, At(s, j))
    BY StepFacts DEF LocalInv, At, Idle, PayingSteps
  <1>5. \A m \in Row, g \in {"cancelled", "failed", "cancel_requested", "retry_wait"} :
           /\ Window("settle", j, m, g) \in LocalState
           /\ LocalInv(R, U, p, Window("settle", j, m, g))
    <2>. SUFFICES ASSUME NEW m \in Row,
                         NEW g \in {"cancelled", "failed", "cancel_requested", "retry_wait"}
                  PROVE  /\ Window("settle", j, m, g) \in LocalState
                         /\ LocalInv(R, U, p, Window("settle", j, m, g))
      OBVIOUS
    <2>1. Window("settle", j, m, g) \in LocalState
      BY LocalFacts, StatusFacts, StepFacts
    <2>2. LocalInv(R, U, p, Window("settle", j, m, g))
      BY StepFacts DEF LocalInv, Window, PayingSteps
    <2>. QED
      BY <2>1, <2>2
  <1>. QED
    BY <1>1, <1>2, <1>3, <1>4, <1>5

\* The steps of an API request.
LEMMA ClientPreserves ==
    ASSUME IInv, NEW c \in Clients,
           \/ \E r \in Requests : SubmitLookup(c, r)
           \/ \E j \in Jobs : CancelLoad(c, j)
           \/ \E S \in SUBSET Quotas : ReleaseStale(c, S)
           \/ ClientStep(c)
    PROVE  IInv'
  <1>1. c \in Procs
    BY DEF Procs
  <1>. DEFINE l == proc[c]
              j == l.at
  <1>2. l \in LocalState /\ LocalInv(row, used, c, l)
    BY <1>1 DEF IInv, TypeOK
  <1>3. l.pc \in PayingSteps => /\ j \in Jobs /\ Present(row[j])
                                /\ row[j] \in Row /\ RowInv(used, row[j])
                                /\ QuotaOf[row[j].req] \in Quotas
                                /\ QuotaOf[row[j].req] # None
    <2>1. l.pc \in PayingSteps =>
             j \in Jobs /\ Present(row[j]) /\ QuotaOf[row[j].req] # None
      BY <1>2, StepFacts DEF LocalInv, PayingSteps
    <2>2. \A k \in Jobs : row[k] \in Row /\ RowInv(used, row[k])
      BY DEF IInv, TypeOK
    <2>3. l.pc \in PayingSteps => row[j].req \in Requests
      BY <2>1, <2>2 DEF RowInv
    <2>. QED
      BY <2>1, <2>2, <2>3, ConstantsAssumption
  <1>4. ASSUME NEW r \in Requests, SubmitLookup(c, r) PROVE IInv'
    <2>. DEFINE n == [At("insert", None) EXCEPT !.mem = QueuedRow(r)]
    <2>1. n \in LocalState
      BY LocalFacts, StepFacts, StatusFacts DEF At, Idle, LocalState
    <2>2. QueuedRow(r).req = r
      BY DEF QueuedRow, NoRow
    <2>3. LocalInv(row, used, c, n)
      BY <2>2, StepFacts, ConstantsAssumption DEF LocalInv, At, Idle, PayingSteps
    <2>. QED
      BY <1>1, <1>4, <2>1, <2>3, BecomePreserves DEF SubmitLookup, IInv, TypeOK
  <1>5. CASE SubmitInsert(c)
    <2>. DEFINE r == l.mem.req
    <2>1. l.mem = QueuedRow(r) /\ r \in Requests
      BY <1>2, <1>5 DEF LocalInv, SubmitInsert
    <2>2. PICK k \in Jobs :
             /\ row[k].status = "absent"
             /\ row' = [row EXCEPT ![k] = QueuedRow(r)]
             /\ Become(c, IF QuotaOf[r] = None THEN Idle ELSE At("reserve", k))
      BY <1>5, <2>1 DEF SubmitInsert
    <2>3. UNCHANGED <<evt, used, todo, orphans, up, worked, crashes>>
      BY <1>5 DEF SubmitInsert
    <2>. DEFINE n == IF QuotaOf[r] = None THEN Idle ELSE At("reserve", k)
    <2>4. /\ QueuedRow(r) \in Row /\ QueuedRow(r).req = r /\ QueuedRow(r).attempts = 0
          /\ QueuedRow(r).status = "queued" /\ QueuedRow(r).quota = None
      BY <2>1, LocalFacts DEF QueuedRow, NoRow
    <2>5. row' \in [Jobs -> Row] /\ row'[k] = QueuedRow(r) /\ ~Present(row[k])
      BY <2>2, <2>4 DEF IInv, TypeOK, Present
    <2>6. \A i \in Jobs : Grows(row[i], row'[i]) /\ RowInv(used, row'[i])
      BY <2>1, <2>2, <2>4, <2>5, GrowsReflexive DEF Grows, RowInv, Present, IInv, TypeOK
    <2>7. \A i \in Jobs : Present(row[i]) => Present(row'[i])
      BY <2>6 DEF Grows
    <2>8. n \in LocalState /\ LocalInv(row', used, c, n)
      <3>1. Present(row'[k]) /\ row'[k].req = r
        BY <2>4, <2>5 DEF Present
      <3>. QED
        BY <1>1, <3>1, AtFacts, RestingFacts, LocalFacts, StepFacts DEF PayingSteps
    <2>. HIDE DEF n
    <2>9. Become(c, n)
      BY <2>2 DEF n
    <2>10. proc'[c] = n /\ proc' = [proc EXCEPT ![c] = proc'[c]]
      BY <1>1, <2>8, <2>9, BecomeFacts
    <2>. QED
      BY <1>1, <2>3, <2>5, <2>6, <2>7, <2>8, <2>10, StepPreserves DEF IInv, TypeOK, Exists
  <1>6. CASE SubmitRefused(c)
    BY <1>1, <1>6, LocalFacts, StepFacts, RestingFacts, BecomePreserves
       DEF SubmitRefused, IInv, TypeOK
  <1>7. CASE Reply(c)
    BY <1>1, <1>7, LocalFacts, RestingFacts, BecomePreserves DEF Reply, IInv, TypeOK
  <1>8. ASSUME NEW S \in SUBSET Quotas, ReleaseStale(c, S) PROVE IInv'
    <2>1. /\ evt' \in [Quotas -> Event]
          /\ \A q \in Quotas : evt'[q].status = "succeeded" => evt[q].status = "succeeded"
      BY <1>8 DEF ReleaseStale, Released, IInv, TypeOK, Event
    <2>2. /\ Become(c, At("reserveFresh", j)) /\ l.pc = "reserve"
          /\ UNCHANGED <<row, used, todo, orphans, up, worked, crashes>>
      BY <1>8 DEF ReleaseStale
    <2>3. /\ At("reserveFresh", j) \in LocalState
          /\ LocalInv(row, used, c, At("reserveFresh", j))
      BY <1>1, <1>3, <2>2, AtFacts, StepFacts DEF PayingSteps
    <2>. QED
      BY <1>1, <2>1, <2>2, <2>3, BecomeFacts, StepPreserves, GrowsReflexive
         DEF IInv, TypeOK, Exists
  <1>9. CASE ReserveQuota(c)
    <2>. DEFINE q == QuotaOf[row[j].req]
    <2>1. /\ Become(c, At("bind", j)) /\ l.pc \in {"reserve", "reserveFresh"}
          /\ UNCHANGED <<row, used, todo, orphans, up, worked, crashes>>
      BY <1>9 DEF ReserveQuota
    <2>2. j \in Jobs /\ q \in Quotas
      BY <1>3, <2>1 DEF PayingSteps
    <2>3. /\ evt' \in [Quotas -> Event]
          /\ \A k \in Quotas : evt'[k].status = "succeeded" => evt[k].status = "succeeded"
      BY <1>9, <2>2 DEF ReserveQuota, IInv, TypeOK, Event
    <2>4. At("bind", j) \in LocalState /\ LocalInv(row, used, c, At("bind", j))
      BY <1>1, <1>3, <2>1, AtFacts, StepFacts DEF PayingSteps
    <2>. QED
      BY <1>1, <2>1, <2>3, <2>4, BecomeFacts, StepPreserves, GrowsReflexive
         DEF IInv, TypeOK, Exists
  <1>10. CASE ReserveConflict(c)
    BY <1>1, <1>10, LocalFacts, RestingFacts, BecomePreserves
       DEF ReserveConflict, IInv, TypeOK
  <1>11. CASE RejectQuota(c)
    BY <1>1, <1>3, <1>11, AtFacts, BecomePreserves
       DEF RejectQuota, IInv, TypeOK, PayingSteps
  <1>12. CASE BindQuota(c)
    <2>. DEFINE q == QuotaOf[row[j].req]
    <2>1. /\ Become(c, Idle) /\ row' = [row EXCEPT ![j].quota = q]
          /\ UNCHANGED <<evt, used, todo, orphans, up, worked, crashes>>
          /\ l.pc = "bind"
      BY <1>12 DEF BindQuota
    <2>2. /\ j \in Jobs /\ Present(row[j]) /\ row[j] \in Row /\ RowInv(used, row[j])
          /\ q \in Quotas /\ q # None
      BY <1>3, <2>1 DEF PayingSteps
    <2>. DEFINE new == [row[j] EXCEPT !.quota = q]
    <2>3. new \in Row /\ row' = [row EXCEPT ![j] = new]
      BY <2>1, <2>2 DEF Row, IInv, TypeOK
    <2>4. /\ new.status = row[j].status /\ new.req = row[j].req
          /\ new.attempts = row[j].attempts /\ new.result = row[j].result /\ new.quota = q
      BY <2>2 DEF Row
    <2>5. new.attempts > 0 => new.quota = row[j].quota
      BY <2>2, <2>4 DEF RowInv
    <2>6. Grows(row[j], new) /\ RowInv(used, new)
      BY <2>2, <2>4, <2>5 DEF Grows, RowInv, Present, Paid
    <2>7. /\ row' \in [Jobs -> Row]
          /\ \A i \in Jobs : Grows(row[i], row'[i]) /\ RowInv(used, row'[i])
      BY <2>2, <2>3, <2>6, GrowsReflexive DEF IInv, TypeOK
    <2>8. \A i \in Jobs : Present(row[i]) => Present(row'[i])
      BY <2>7 DEF Grows
    <2>9. /\ proc'[c] = Idle /\ proc' = [proc EXCEPT ![c] = proc'[c]]
          /\ Idle \in LocalState /\ LocalInv(row', used', c, Idle)
      BY <1>1, <2>1, BecomeFacts, LocalFacts, RestingFacts
    <2>. QED
      BY <1>1, <2>1, <2>7, <2>8, <2>9, StepPreserves DEF IInv, TypeOK, Exists
  <1>13. CASE Settle(c) \/ SettleRefused(c) \/ ReleaseQuota(c)
    BY <1>1, <1>13, SettlePreserves
  <1>14. ASSUME NEW k \in Jobs, CancelLoad(c, k) PROVE IInv'
    <2>1. Present(row[k]) /\ row[k] \in Row
      BY <1>14 DEF CancelLoad, Present, Claimable, IInv, TypeOK
    <2>. QED
      BY <1>1, <1>14, <2>1, AtFacts, BecomePreserves DEF CancelLoad, IInv, TypeOK
  <1>. QED
    BY <1>4, <1>5, <1>6, <1>7, <1>8, <1>9, <1>10, <1>11, <1>12, <1>13, <1>14 DEF ClientStep

\* A step of p that writes the row of one job.
LEMMA RowStepPreserves ==
    ASSUME IInv, NEW p \in Procs, NEW j \in Jobs, NEW new \in Row,
           row' = [row EXCEPT ![j] = new], Grows(row[j], new), RowInv(used, new),
           Present(row[j]),
           NEW l \in LocalState, Become(p, l),
           Present(new) => LocalInv(row', used, p, l),
           UNCHANGED <<evt, used, todo, orphans, up, worked, crashes>>
    PROVE  IInv'
  <1>1. /\ row' \in [Jobs -> Row]
        /\ \A i \in Jobs : Grows(row[i], row'[i]) /\ RowInv(used, row'[i])
    BY GrowsReflexive DEF IInv, TypeOK
  <1>2. \A i \in Jobs : Present(row[i]) => Present(row'[i])
    BY <1>1 DEF Grows
  <1>3. Present(new)
    BY DEF Grows
  <1>4. proc'[p] = l /\ proc' = [proc EXCEPT ![p] = proc'[p]]
    BY BecomeFacts
  <1>. QED
    BY <1>1, <1>2, <1>3, <1>4, StepPreserves DEF IInv, TypeOK, Exists

\* A row that keeps what the invariant speaks of, apart from its status.
LEMMA AlikeFacts ==
    ASSUME NEW r \in Row, NEW s \in Row, Present(r), Present(s), RowInv(used, r),
           s.req = r.req, s.result = r.result, s.attempts = r.attempts,
           s.quota = r.quota, s.status \in {r.status, "failed"}
    PROVE  Grows(r, s) /\ RowInv(used, s)
  BY DEF Grows, RowInv, Paid

\* The claim of a job.
LEMMA ClaimPreserves ==
    ASSUME IInv, NEW t \in Threads, ClaimStep(t)
    PROVE  IInv'
  <1>1. t \in Procs
    BY DEF Procs
  <1>2. ASSUME NEW j \in Jobs, Claim(t, j) PROVE IInv'
    <2>. DEFINE new == [row[j] EXCEPT !.status = "running", !.worker = WorkerOf[t],
                                      !.lease = "live", !.attempts = @ + 1]
    <2>1. /\ row[j] \in Row /\ Present(row[j]) /\ RowInv(used, row[j])
          /\ row[j].attempts < MaxAttempts
      BY <1>2, ConstantsAssumption
         DEF Claim, Ready, Claimable, Present, IInv, TypeOK, Row, Exhausted
    <2>2. row[j].attempts \in Nat /\ row[j].attempts + 1 \in 0..MaxAttempts
      BY <2>1, ConstantsAssumption DEF Row
    <2>3. /\ new \in Row /\ new.status = "running" /\ new.quota = row[j].quota
          /\ new.req = row[j].req /\ new.result = row[j].result
          /\ new.attempts = row[j].attempts + 1
      BY <2>1, <2>2, StatusFacts, ConstantsAssumption DEF Row
    <2>4. row' = [row EXCEPT ![j] = new]
      BY <1>2 DEF Claim, IInv, TypeOK
    <2>. HIDE DEF new
    <2>5. new.quota = QuotaOf[new.req]
      BY <1>2, <2>1, <2>3, ConstantsAssumption DEF Claim, Ready, RowInv
    <2>6. Grows(row[j], new) /\ RowInv(used, new) /\ Present(new) /\ new.attempts > 0
      BY <2>1, <2>2, <2>3, <2>5 DEF Grows, RowInv, Present
    <2>7. row'[j] = new
      BY <2>4 DEF IInv, TypeOK
    <2>8. At("start", j) \in LocalState /\ LocalInv(row', used, t, At("start", j))
      BY <1>1, <2>6, <2>7, AtFacts, StepFacts
    <2>. QED
      BY <1>1, <1>2, <2>1, <2>3, <2>4, <2>6, <2>8, RowStepPreserves DEF Claim
  <1>3. ASSUME NEW j \in Jobs, ClaimExhausted(t, j) PROVE IInv'
    <2>. DEFINE new == Transitioned(row[j], "failed")
    <2>1. /\ row[j] \in Row /\ Present(row[j]) /\ RowInv(used, row[j])
      BY <1>3 DEF ClaimExhausted, Ready, Claimable, Present, IInv, TypeOK
    <2>2. /\ new \in Row /\ new.status = "failed" /\ new.attempts = row[j].attempts
          /\ new.quota = row[j].quota /\ new.req = row[j].req
          /\ new.result = row[j].result
      BY <2>1, StatusFacts, TransitionedFacts
    <2>3. row' = [row EXCEPT ![j] = new]
      BY <1>3 DEF ClaimExhausted, IInv, TypeOK
    <2>. HIDE DEF new
    <2>4. Present(new) /\ Grows(row[j], new) /\ RowInv(used, new)
      BY <2>1, <2>2, AlikeFacts DEF Present
    <2>5. row'[j] = new
      BY <2>3 DEF IInv, TypeOK
    <2>6. At("release", j) \in LocalState /\ LocalInv(row', used, t, At("release", j))
      BY <1>1, <2>4, <2>5, AtFacts, StepFacts
    <2>. QED
      BY <1>1, <1>3, <2>1, <2>2, <2>3, <2>4, <2>6, RowStepPreserves DEF ClaimExhausted
  <1>. QED
    BY <1>2, <1>3 DEF ClaimStep

\* The steps of run_job that only decide, on the row as they find it.
LEMMA DecidePreserves ==
    ASSUME IInv, NEW t \in Threads,
           \/ Start(t) \/ Check(t) \/ Resume(t) \/ Work(t) \/ Timeout(t)
           \/ Complete(t) \/ Reload(t) \/ Recheck(t) \/ Handle(t)
    PROVE  IInv'
  <1>1. t \in Procs
    BY DEF Procs
  <1>. DEFINE l == proc[t]
              j == l.at
  <1>2. l \in LocalState /\ LocalInv(row, used, t, l) /\ l.pc \in ThreadSteps
    BY <1>1, StepFacts DEF IInv, TypeOK, Start, Check, Resume, Work, Timeout, Complete,
       Reload, Recheck, Handle, PingOf
  <1>3. /\ j \in Jobs /\ row[j] \in Row /\ Present(row[j]) /\ row[j].attempts > 0
        /\ RowInv(used, row[j])
    BY <1>2, StepFacts DEF LocalInv, IInv, TypeOK
  <1>4. /\ UNCHANGED <<row, evt, used, todo, orphans, up, crashes>>
        /\ worked' \subseteq Jobs
    BY <1>3 DEF IInv, TypeOK, Start, Check, Resume, Work, Timeout, Complete,
       Reload, Recheck, Handle
  <1>. DEFINE Fine(x) == x \in LocalState /\ LocalInv(row, used, t, x)
  <1>5. /\ Fine(Idle)
        /\ \A s \in ThreadSteps \ {"reload", "charge", "recheck", "finish"} : Fine(At(s, j))
        /\ \A g \in {"cancelled", "failed", "retry_wait"} :
              Fine(Window("settle", j, row[j], g))
    BY <1>1, <1>3, AtFacts, LocalFacts, RestingFacts, StepFacts
  <1>6. \A g \in {"cancelled", "timed_out"} : Fine(Window("finish", j, row[j], g))
    <2>. SUFFICES ASSUME NEW g \in {"cancelled", "timed_out"}
                  PROVE  Fine(Window("finish", j, row[j], g))
      OBVIOUS
    <2>1. Window("finish", j, row[j], g) \in LocalState
      BY <1>3, LocalFacts, StatusFacts, StepFacts
    <2>2. LocalInv(row, used, t, Window("finish", j, row[j], g))
      BY <1>3, StepFacts DEF LocalInv, Window, PayingSteps
    <2>. QED
      BY <2>1, <2>2
  <1>7. \A s \in {"ping5", "ping20", "ping90"} : Fine(Window(s, j, row[j], "running"))
    <2>. SUFFICES ASSUME NEW s \in {"ping5", "ping20", "ping90"}
                  PROVE  Fine(Window(s, j, row[j], "running"))
      OBVIOUS
    <2>1. Window(s, j, row[j], "running") \in LocalState
      BY <1>3, LocalFacts, StatusFacts, StepFacts
    <2>2. LocalInv(row, used, t, Window(s, j, row[j], "running"))
      BY <1>1, <1>3, StepFacts DEF LocalInv, Window, PayingSteps
    <2>. QED
      BY <2>1, <2>2
  <1>8. CASE Reload(t)
    <2>1. row[j].result /\ Become(t, Window(Payment(row[j]), j, row[j], "succeeded"))
      BY <1>2, <1>8 DEF Reload, LocalInv
    <2>. DEFINE n == Window(Payment(row[j]), j, row[j], "succeeded")
    <2>2. n \in LocalState
      BY <1>3, LocalFacts, StatusFacts, StepFacts DEF Payment
    <2>3. LocalInv(row, used, t, n)
      BY <1>3, <2>1, StepFacts DEF LocalInv, Window, PayingSteps, Payment, Paid
    <2>. QED
      BY <1>1, <1>4, <2>1, <2>2, <2>3, BecomePreserves DEF IInv, TypeOK
  <1>9. CASE Recheck(t)
    <2>1. /\ row[j].result /\ Paid(used, row[j])
          /\ Become(t, Window("finish", j, row[j], "succeeded"))
      BY <1>2, <1>9 DEF Recheck, LocalInv
    <2>. DEFINE n == Window("finish", j, row[j], "succeeded")
    <2>2. n \in LocalState
      BY <1>3, LocalFacts, StatusFacts, StepFacts
    <2>3. LocalInv(row, used, t, n)
      BY <1>3, <2>1, StepFacts DEF LocalInv, Window, PayingSteps
    <2>. QED
      BY <1>1, <1>4, <2>1, <2>2, <2>3, BecomePreserves DEF IInv, TypeOK
  <1>10. CASE ~Reload(t) /\ ~Recheck(t)
    <2>1. \/ Become(t, Idle)
          \/ \E s \in ThreadSteps \ {"reload", "charge", "recheck", "finish"} :
                Become(t, At(s, j))
          \/ \E g \in {"cancelled", "failed", "retry_wait"} :
                Become(t, Window("settle", j, row[j], g))
          \/ \E g \in {"cancelled", "timed_out"} :
                Become(t, Window("finish", j, row[j], g))
          \/ \E s \in {"ping5", "ping20", "ping90"} :
                Become(t, Window(s, j, row[j], "running"))
      <3>1. CASE Start(t) \/ Resume(t) \/ Work(t)
        BY <3>1, StepFacts DEF Start, Resume, Work
      <3>2. CASE Check(t)
        <4>1. PingOf[l.pc] \in {"ping5", "ping20", "ping90"}
          BY <3>2 DEF Check, PingOf
        <4>. QED
          BY <3>2, <4>1, StepFacts DEF Check
      <3>3. CASE Timeout(t) \/ Complete(t)
        BY <3>3, StepFacts DEF Timeout, Complete
      <3>4. CASE Handle(t)
        BY <3>4, StepFacts DEF Handle
      <3>. QED
        BY <1>10, <3>1, <3>2, <3>3, <3>4
    <2>2. \E n \in LocalState : Become(t, n) /\ LocalInv(row, used, t, n)
      BY <1>5, <1>6, <1>7, <2>1
    <2>. QED
      BY <1>1, <1>4, <2>2, BecomePreserves DEF IInv, TypeOK
  <1>. QED
    BY <1>8, <1>9, <1>10

\* A change of a row's lease.
LEMMA LeaseFacts ==
    ASSUME NEW r \in Row, NEW e \in {"live", "expired"}, Present(r), NEW U, RowInv(U, r)
    PROVE  LET s == [r EXCEPT !.lease = e]
           IN  s \in Row /\ Present(s) /\ Grows(r, s) /\ RowInv(U, s)
                /\ s.req = r.req /\ s.result = r.result /\ s.attempts = r.attempts
  <1>. DEFINE s == [r EXCEPT !.lease = e]
  <1>1. /\ s \in Row /\ s.status = r.status /\ s.req = r.req /\ s.result = r.result
        /\ s.attempts = r.attempts /\ s.quota = r.quota
    BY DEF Row
  <1>2. Present(s) /\ Grows(r, s) /\ RowInv(U, s)
    BY <1>1 DEF Present, Grows, RowInv, Paid
  <1>. QED
    BY <1>1, <1>2

\* The steps of a thread that write the row, the event or the counter.
LEMMA WritePreserves ==
    ASSUME IInv, NEW t \in Threads, Ping(t) \/ Store(t) \/ Charge(t)
    PROVE  IInv'
  <1>1. t \in Procs
    BY DEF Procs
  <1>. DEFINE l == proc[t]
              j == l.at
  <1>2. l \in LocalState /\ LocalInv(row, used, t, l) /\ l.pc \in ThreadSteps
    BY <1>1, StepFacts DEF IInv, TypeOK, Ping, Store, Charge, AfterPing
  <1>3. /\ j \in Jobs /\ row[j] \in Row /\ Present(row[j]) /\ row[j].attempts > 0
        /\ RowInv(used, row[j])
    BY <1>2, StepFacts DEF LocalInv, IInv, TypeOK
  <1>4. CASE Ping(t)
    <2>. DEFINE new == [row[j] EXCEPT !.lease = "live"]
    <2>1. /\ new \in Row /\ Present(new) /\ Grows(row[j], new) /\ RowInv(used, new)
          /\ new.attempts > 0
      BY <1>3, LeaseFacts
    <2>2. row' = [row EXCEPT ![j] = new]
      BY <1>3, <1>4 DEF Ping, IInv, TypeOK
    <2>. HIDE DEF new
    <2>3. row'[j] = new
      BY <1>3, <2>2 DEF IInv, TypeOK
    <2>4. AfterPing[l.pc] \subseteq {"resume", "work", "complete", "timeout"}
      BY <1>4 DEF Ping, AfterPing
    <2>5. \E s \in {"resume", "work", "complete", "timeout"} : Become(t, At(s, j))
      BY <1>4, <2>4 DEF Ping
    <2>6. \A s \in {"resume", "work", "complete", "timeout"} :
             At(s, j) \in LocalState /\ LocalInv(row', used, t, At(s, j))
      BY <1>1, <1>3, <2>1, <2>3, AtFacts, StepFacts
    <2>7. PICK n \in LocalState : Become(t, n) /\ LocalInv(row', used, t, n)
      BY <2>5, <2>6
    <2>8. UNCHANGED <<evt, used, todo, orphans, up, worked, crashes>>
      BY <1>4 DEF Ping
    <2>. QED
      BY <1>1, <1>3, <2>1, <2>2, <2>7, <2>8, RowStepPreserves
  <1>5. CASE Store(t)
    <2>. DEFINE new == [row[j] EXCEPT !.result = TRUE]
    <2>1. /\ new \in Row /\ new.result /\ new.status = row[j].status
          /\ new.attempts = row[j].attempts /\ new.quota = row[j].quota
          /\ new.req = row[j].req
      BY <1>3 DEF Row
    <2>2. Present(new) /\ Grows(row[j], new) /\ RowInv(used, new)
      BY <1>3, <2>1 DEF Present, Grows, RowInv, Paid
    <2>3. row' = [row EXCEPT ![j] = new]
      BY <1>3, <1>5 DEF Store, Result, IInv, TypeOK
    <2>. HIDE DEF new
    <2>4. row'[j] = new
      BY <1>3, <2>3 DEF IInv, TypeOK
    <2>5. Become(t, At("reload", j)) /\ UNCHANGED <<evt, used, todo, orphans, up, worked, crashes>>
      BY <1>5 DEF Store
    <2>6. At("reload", j) \in LocalState
      BY <1>3, LocalFacts, StepFacts
    <2>7. LocalInv(row', used, t, At("reload", j))
      BY <1>3, <2>1, <2>2, <2>4, StepFacts DEF LocalInv, At, Idle, PayingSteps
    <2>. QED
      BY <1>1, <1>3, <2>1, <2>2, <2>3, <2>5, <2>6, <2>7, RowStepPreserves
  <1>6. CASE Charge(t)
    <2>. DEFINE q == l.mem.quota
    <2>1. /\ l.goal = "succeeded" /\ q # None /\ q = row[j].quota /\ row[j].result
          /\ q \in Quotas
          /\ UNCHANGED <<row, todo, orphans, up, worked, crashes>>
      BY <1>2, <1>3, <1>6 DEF Charge, LocalInv, Row
    <2>2. CASE /\ evt[q].status \in Chargeable
               /\ evt' = [evt EXCEPT ![q].status = "succeeded"]
               /\ used' = [used EXCEPT ![q] = @ + 1]
               /\ Become(t, At("recheck", j))
      <3>1. /\ used' \in [Quotas -> Nat] /\ used'[q] > 0
            /\ \A k \in Quotas : used[k] > 0 => used'[k] > 0
        BY <2>1, <2>2 DEF IInv, TypeOK
      <3>2. /\ evt' \in [Quotas -> Event]
            /\ \A k \in Quotas : evt'[k].status = "succeeded" => used'[k] > 0
        <4>1. evt \in [Quotas -> Event] /\ \A k \in Quotas : evt[k].status = "succeeded" => used[k] > 0
          BY DEF IInv, TypeOK
        <4>2. evt' \in [Quotas -> Event]
          BY <2>1, <2>2, <4>1 DEF Event
        <4>3. \A k \in Quotas \ {q} : evt'[k] = evt[k]
          BY <2>2, <4>1
        <4>. QED
          BY <3>1, <4>1, <4>2, <4>3
      <3>3. At("recheck", j) \in LocalState
        BY <1>3, LocalFacts, StepFacts
      <3>4. LocalInv(row', used', t, At("recheck", j))
        BY <1>3, <2>1, <3>1, StepFacts DEF LocalInv, At, Idle, PayingSteps, Paid
      <3>5. \A k \in Jobs : RowInv(used', row'[k])
        <4>1. \A k \in Jobs : row[k].quota \in Quotas \union {None}
          BY DEF IInv, TypeOK, Row
        <4>. QED
          BY <2>1, <3>1, <4>1 DEF IInv, RowInv, Paid
      <3>6. \A i \in Jobs : Grows(row[i], row'[i])
        BY <2>1, GrowsReflexive DEF IInv, TypeOK
      <3>7. proc'[t] = At("recheck", j) /\ proc' = [proc EXCEPT ![t] = proc'[t]]
        BY <1>1, <2>2, <3>3, BecomeFacts
      <3>. QED
        BY <1>1, <2>1, <3>1, <3>2, <3>3, <3>4, <3>5, <3>6, <3>7, StepPreserves
           DEF IInv, TypeOK, Exists
    <2>3. CASE /\ evt[q].status = "succeeded"
               /\ Become(t, [l EXCEPT !.pc = "finish"])
               /\ UNCHANGED <<evt, used>>
      <3>. DEFINE n == [l EXCEPT !.pc = "finish"]
      <3>1. /\ n \in LocalState /\ n.pc = "finish" /\ n.at = j /\ n.goal = "succeeded"
            /\ n.mem = l.mem
        BY <1>2, <2>1, StepFacts DEF LocalState
      <3>2. Paid(used, row[j])
        BY <2>1, <2>3 DEF IInv, Paid
      <3>3. LocalInv(row, used, t, n)
        BY <1>1, <1>3, <2>1, <3>1, <3>2, StepFacts DEF LocalInv, PayingSteps
      <3>. QED
        BY <1>1, <2>1, <2>3, <3>1, <3>3, BecomePreserves DEF IInv, TypeOK
    <2>4. CASE Become(t, At("onRetryable", j)) /\ UNCHANGED <<evt, used>>
      BY <1>1, <1>3, <2>1, <2>4, AtFacts, StepFacts, BecomePreserves DEF IInv, TypeOK
    <2>. QED
      BY <1>6, <2>2, <2>3, <2>4 DEF Charge
  <1>. QED
    BY <1>4, <1>5, <1>6

\* Every step of run_job.
LEMMA ThreadPreserves ==
    ASSUME IInv, NEW t \in Threads, ThreadStep(t)
    PROVE  IInv'
  <1>1. t \in Procs
    BY DEF Procs
  <1>. QED
    BY <1>1, DecidePreserves, WritePreserves, SettlePreserves DEF ThreadStep

\* A step that writes a row's lease and nothing else.
LEMMA LeasePreserves ==
    ASSUME IInv, NEW j \in Jobs, NEW e \in {"live", "expired"}, Present(row[j]),
           row' = [row EXCEPT ![j].lease = e],
           UNCHANGED <<evt, used, proc, todo, orphans, up, worked, crashes>>
    PROVE  IInv'
  <1>1. Maintenance \in Procs
    BY DEF Procs
  <1>. DEFINE new == [row[j] EXCEPT !.lease = e]
              l == proc[Maintenance]
  <1>2. row[j] \in Row /\ RowInv(used, row[j]) /\ row' = [row EXCEPT ![j] = new]
    BY DEF IInv, TypeOK
  <1>3. new \in Row /\ Present(new) /\ Grows(row[j], new) /\ RowInv(used, new)
    BY <1>2, LeaseFacts
  <1>. HIDE DEF new
  <1>4. /\ l \in LocalState /\ LocalInv(row, used, Maintenance, l)
        /\ proc = [proc EXCEPT ![Maintenance] = l]
    BY <1>1 DEF IInv, TypeOK
  <1>5. row' \in [Jobs -> Row] /\ \A i \in Jobs : Grows(row[i], row'[i])
    BY <1>2, <1>3, GrowsReflexive DEF IInv, TypeOK
  <1>6. LocalInv(row', used, Maintenance, l)
    BY <1>1, <1>4, <1>5, LocalInvStable DEF IInv, TypeOK
  <1>7. Become(Maintenance, l)
    BY <1>4 DEF Become
  <1>. QED
    BY <1>1, <1>2, <1>3, <1>4, <1>6, <1>7, RowStepPreserves

\* The maintenance pass.
LEMMA MaintenancePreserves ==
    ASSUME IInv, MaintenanceStep
    PROVE  IInv'
  <1>. DEFINE p == Maintenance
  <1>1. p \in Procs
    BY DEF Procs
  <1>2. \A s \in {"recover", "history", "orphans", "releaseFirst", "reloadNext"} :
           At(s, None) \in LocalState /\ \A R, U : LocalInv(R, U, p, At(s, None))
    BY LocalFacts, RestingFacts, StepFacts
  <1>3. Idle \in LocalState /\ \A R, U : LocalInv(R, U, p, Idle)
    BY LocalFacts, RestingFacts
  <1>4. CASE Snapshot \/ RecoverNext
    <2>1. UNCHANGED <<row, evt, used, orphans, up, worked, crashes>>
      BY <1>4 DEF Snapshot, RecoverNext
    <2>2. CASE Become(p, At("history", None)) /\ UNCHANGED todo
      BY <1>1, <1>2, <2>1, <2>2, BecomePreserves DEF IInv, TypeOK
    <2>3. ASSUME NEW j \in Jobs, Exists(j), todo' \subseteq Jobs,
                 \A i \in todo' : Exists(i),
                 Become(p, Window("settle", j, row[j], RecoveryGoal(row[j])))
          PROVE  IInv'
      <3>1. RecoveryGoal(row[j]) \in {"cancelled", "retry_wait", "failed"}
        BY DEF RecoveryGoal
      <3>2. row[j] \in Row /\ Present(row[j])
        BY <2>3 DEF Exists, IInv, TypeOK
      <3>. QED
        BY <1>1, <2>1, <2>3, <3>1, <3>2, AtFacts, BecomePreserves DEF IInv, TypeOK
    <2>4. \A j \in Lapsed : j \in Jobs /\ Exists(j)
      BY DEF Lapsed, Exists, Present
    <2>5. CASE Snapshot
      BY <2>2, <2>3, <2>4, <2>5 DEF Snapshot
    <2>6. CASE RecoverNext
      BY <2>2, <2>3, <2>6 DEF RecoverNext, IInv, TypeOK
    <2>. QED
      BY <1>4, <2>5, <2>6
  <1>5. ASSUME NEW S \in SUBSET Jobs, PurgeHistory(S) PROVE IInv'
    <2>. DEFINE gone == [NoRow EXCEPT !.status = "deleted"]
    <2>1. gone \in Row /\ ~Present(gone) /\ gone.attempts = 0 /\ gone.status = "deleted"
      BY LocalFacts, StatusFacts DEF Row, NoRow, Present
    <2>. HIDE DEF gone
    <2>2. /\ row' = [j \in Jobs |-> IF j \in S THEN gone ELSE row[j]]
          /\ Become(p, At("orphans", None))
          /\ UNCHANGED <<evt, used, todo, orphans, up, worked, crashes>>
          /\ \A j \in S : j \notin todo /\ \A o \in Procs : proc[o].at # j
      BY <1>5 DEF PurgeHistory, Forgotten, gone
    <2>3. row' \in [Jobs -> Row] /\ \A j \in Jobs : RowInv(used, row'[j])
      BY <2>1, <2>2 DEF IInv, TypeOK, RowInv
    <2>4. \A o \in Procs \ {p} : proc[o].at \in Jobs =>
             Grows(row[proc[o].at], row'[proc[o].at])
      BY <2>2, GrowsReflexive DEF IInv, TypeOK
    <2>5. \A j \in todo' : Present(row'[j])
      BY <2>2 DEF IInv, TypeOK, Exists
    <2>6. proc'[p] = At("orphans", None) /\ proc' = [proc EXCEPT ![p] = proc'[p]]
      BY <1>1, <1>2, <2>2, BecomeFacts
    <2>. QED
      <3>1. proc'[p] \in LocalState /\ LocalInv(row', used', p, proc'[p])
        BY <1>2, <2>6
      <3>2. /\ used' \in [Quotas -> Nat] /\ evt' \in [Quotas -> Event]
            /\ todo' \subseteq Jobs /\ orphans' \subseteq Quotas /\ up' \subseteq Workers
            /\ worked' \subseteq Jobs /\ crashes' \in 0..MaxCrashes
            /\ \A q \in Quotas : used[q] > 0 => used'[q] > 0
            /\ \A q \in Quotas : evt'[q].status = "succeeded" => used'[q] > 0
        BY <2>2 DEF IInv, TypeOK
      <3>3. \A j \in Jobs : RowInv(used', row'[j])
        BY <2>2, <2>3
      <3>. QED
        BY <1>1, <2>3, <2>4, <2>5, <2>6, <3>1, <3>2, <3>3, StepPreserves
  <1>6. CASE OrphanSnapshot
    <2>1. /\ UNCHANGED <<row, evt, used, todo, up, worked, crashes>>
          /\ orphans' \subseteq Quotas
          /\ Become(p, Idle) \/ Become(p, At("releaseFirst", None))
      BY <1>6 DEF OrphanSnapshot, Orphaned
    <2>. QED
      BY <1>1, <1>2, <1>3, <2>1, BecomePreserves DEF IInv, TypeOK
  <1>7. ASSUME NEW q \in Quotas, OrphanRelease(q) PROVE IInv'
    <2>1. /\ evt' \in [Quotas -> Event]
          /\ \A k \in Quotas : evt'[k].status = "succeeded" => evt[k].status = "succeeded"
      BY <1>7 DEF OrphanRelease, IInv, TypeOK, Event
    <2>2. /\ Become(p, Idle) \/ Become(p, At("reloadNext", None))
          /\ orphans' \subseteq orphans
          /\ UNCHANGED <<row, used, todo, up, worked, crashes>>
      BY <1>7 DEF OrphanRelease, OrphanLeft
    <2>3. PICK l \in LocalState : Become(p, l) /\ LocalInv(row, used, p, l)
      BY <1>2, <1>3, <2>2
    <2>4. proc'[p] = l /\ proc' = [proc EXCEPT ![p] = proc'[p]]
      BY <1>1, <2>3, BecomeFacts
    <2>5. \A i \in Jobs : Grows(row[i], row'[i])
      BY <2>2, GrowsReflexive DEF IInv, TypeOK
    <2>. QED
      BY <1>1, <2>1, <2>2, <2>3, <2>4, <2>5, StepPreserves DEF IInv, TypeOK, Exists
  <1>8. ASSUME NEW q \in Quotas, OrphanReload(q) PROVE IInv'
    <2>1. /\ UNCHANGED <<row, evt, used, todo, up, worked, crashes>>
          /\ orphans' \subseteq orphans
          /\ \/ Become(p, Idle) \/ Become(p, At("reloadNext", None))
             \/ Become(p, Holding(q))
      BY <1>8 DEF OrphanReload, OrphanLeft
    <2>2. PICK l \in LocalState : Become(p, l) /\ LocalInv(row, used, p, l)
      BY <1>2, <1>3, <2>1, LocalFacts, RestingFacts
    <2>. QED
      BY <1>1, <2>1, <2>2, BecomePreserves DEF IInv, TypeOK
  <1>9. CASE Settle(p) \/ SettleRefused(p) \/ ReleaseQuota(p)
    BY <1>1, <1>9, SettlePreserves
  <1>. QED
    BY <1>4, <1>5, <1>6, <1>7, <1>8, <1>9 DEF MaintenanceStep

\* Crashes: processes lose what they know, the database loses nothing.
LEMMA CrashPreserves ==
    ASSUME IInv,
           \/ \E w \in Workers : WorkerCrash(w)
           \/ \E p \in Clients \union {Maintenance} : Crash(p)
    PROVE  IInv'
  <1>1. ASSUME NEW w \in Workers, WorkerCrash(w) PROVE IInv'
    <2>1. /\ UNCHANGED <<row, evt, used, todo, orphans, worked>>
          /\ up' = up \ {w} /\ crashes' = crashes + 1 /\ crashes < MaxCrashes
          /\ proc' = [o \in Procs |-> IF o \in Threads /\ WorkerOf[o] = w THEN Idle
                                      ELSE proc[o]]
      BY <1>1 DEF WorkerCrash
    <2>2. /\ proc' \in [Procs -> LocalState]
          /\ \A o \in Procs : LocalInv(row, used, o, proc'[o])
      BY <2>1, LocalFacts, RestingFacts DEF IInv, TypeOK
    <2>3. crashes' \in 0..MaxCrashes
      BY <2>1, ConstantsAssumption DEF IInv, TypeOK
    <2>. QED
      BY <2>1, <2>2, <2>3 DEF IInv, TypeOK, Exists
  <1>2. ASSUME NEW p \in Clients \union {Maintenance}, Crash(p) PROVE IInv'
    <2>1. p \in Procs
      BY DEF Procs
    <2>2. /\ Become(p, Idle) /\ UNCHANGED <<row, evt, used, up, worked>>
          /\ todo' \subseteq todo /\ orphans' \subseteq orphans
          /\ crashes' = crashes + 1 /\ crashes < MaxCrashes
      BY <1>2 DEF Crash
    <2>3. crashes' \in 0..MaxCrashes
      BY <2>2, ConstantsAssumption DEF IInv, TypeOK
    <2>. QED
      BY <2>1, <2>2, <2>3, LocalFacts, RestingFacts, BecomePreserves DEF IInv, TypeOK
  <1>. QED
    BY <1>1, <1>2

\* IInv is inductive: each kind of process preserves it, whatever it
\* interleaves with.
LEMMA NextPreserves == IInv /\ [Next]_vars => IInv'
  <1>. SUFFICES ASSUME IInv, [Next]_vars PROVE IInv'
    OBVIOUS
  <1>1. ASSUME NEW c \in Clients,
               \/ \E r \in Requests : SubmitLookup(c, r)
               \/ \E j \in Jobs : CancelLoad(c, j)
               \/ \E S \in SUBSET Quotas : ReleaseStale(c, S)
               \/ ClientStep(c)
        PROVE  IInv'
    BY <1>1, ClientPreserves
  <1>2. ASSUME NEW t \in Threads, ClaimStep(t) \/ ThreadStep(t) PROVE IInv'
    BY <1>2, ClaimPreserves, ThreadPreserves
  <1>3. ASSUME NEW t \in Threads, Renew(t) PROVE IInv'
    <2>1. t \in Procs /\ proc[t].pc \in ThreadSteps
      BY <1>3 DEF Procs, Renew, ThreadSteps
    <2>2. proc[t].at \in Jobs /\ Present(row[proc[t].at])
      BY <2>1, StepFacts DEF IInv, LocalInv
    <2>. QED
      BY <1>3, <2>2, LeasePreserves DEF Renew
  <1>4. CASE MaintenanceStep
    BY <1>4, MaintenancePreserves
  <1>5. ASSUME NEW j \in Jobs, LeaseLapses(j) PROVE IInv'
    BY <1>5, LeasePreserves DEF LeaseLapses, Present
  <1>6. CASE \/ \E w \in Workers : WorkerCrash(w)
             \/ \E p \in Clients \union {Maintenance} : Crash(p)
    BY <1>6, CrashPreserves
  <1>7. CASE UNCHANGED vars
    BY <1>7 DEF vars, IInv, TypeOK, LocalInv, RowInv, Paid, Present, Exists, PayingSteps
  <1>. QED
    BY <1>1, <1>2, <1>3, <1>4, <1>5, <1>6, <1>7 DEF Next

\* The invariant holds in every reachable state.
THEOREM Invariance == Spec => []IInv
  BY InitIInv, NextPreserves, PTL DEF Spec

\* Every variable keeps its type; in particular no interleaving of claims,
\* recoveries and retries pushes attempts past max_attempts, which the
\* column's check constraint would refuse.
THEOREM TypeCorrect == Spec => []TypeOK
  <1>1. IInv => TypeOK
    BY DEF IInv
  <1>. QED
    BY <1>1, Invariance, PTL

\* No job ends up succeeded without its stored result and, if metered, a
\* unit in the counter.
THEOREM SuccessPaid == Spec => []SuccessIsPaid
  <1>1. IInv => SuccessIsPaid
    BY DEF IInv, RowInv, Paid, SuccessIsPaid
  <1>. QED
    BY <1>1, Invariance, PTL

\* A metered job that was ever attempted is bound to its own usage event.
THEOREM Bound == Spec => []BoundBeforeRun
  <1>1. IInv => BoundBeforeRun
    BY DEF IInv, RowInv, BoundBeforeRun
  <1>. QED
    BY <1>1, Invariance, PTL

\* Only complete_job charges, and only for a job whose result is stored.
THEOREM ChargedForStoredResult == Spec => ChargedForResult
  <1>. DEFINE A == \A q \in Quotas : used'[q] # used[q] =>
                      \E j \in Jobs : row[j].quota = q /\ row[j].result
  <1>1. IInv /\ [Next]_vars => [A]_vars
    <2>. SUFFICES ASSUME IInv, Next PROVE A
      BY DEF vars
    <2>. SUFFICES ASSUME NEW q \in Quotas, used'[q] # used[q]
                  PROVE  \E j \in Jobs : row[j].quota = q /\ row[j].result
      OBVIOUS
    <2>1. PICK t \in Threads : Charge(t)
      <3>1. ~\E c \in Clients :
                \/ \E r \in Requests : SubmitLookup(c, r)
                \/ \E j \in Jobs : CancelLoad(c, j)
                \/ \E S \in SUBSET Quotas : ReleaseStale(c, S)
        BY DEF SubmitLookup, CancelLoad, ReleaseStale
      <3>2. ~\E c \in Clients : ClientStep(c)
        BY DEF ClientStep, SubmitInsert, SubmitRefused, Reply, ReserveQuota, ReserveConflict,
           RejectQuota, BindQuota, Settle, SettleRefused, ReleaseQuota
      <3>3. ~\E u \in Threads : ClaimStep(u) \/ Renew(u)
        BY DEF ClaimStep, Claim, ClaimExhausted, Renew
      <3>4. \A u \in Threads : ThreadStep(u) => Charge(u)
        BY DEF ThreadStep, Start, Check, Ping, Resume, Work, Timeout, Complete, Store, Reload,
           Recheck, Finish, FinishRefused, Handle, Settle, SettleRefused, ReleaseQuota
      <3>5. ~MaintenanceStep
        BY DEF MaintenanceStep, Snapshot, RecoverNext, PurgeHistory, OrphanSnapshot,
           OrphanRelease, OrphanReload, Settle, SettleRefused, ReleaseQuota
      <3>6. /\ ~\E j \in Jobs : LeaseLapses(j)
            /\ ~\E w \in Workers : WorkerCrash(w)
            /\ ~\E p \in Clients \union {Maintenance} : Crash(p)
        BY DEF LeaseLapses, WorkerCrash, Crash
      <3>. QED
        BY <3>1, <3>2, <3>3, <3>4, <3>5, <3>6 DEF Next
    <2>2. proc[t].mem.quota = q
      BY <2>1 DEF Charge, IInv, TypeOK
    <2>3. /\ LocalInv(row, used, t, proc[t]) /\ proc[t].pc = "charge"
      BY <2>1 DEF Charge, IInv, Procs
    <2>4. /\ proc[t].at \in Jobs /\ row[proc[t].at].result
          /\ row[proc[t].at].quota = q
      BY <2>2, <2>3, StepFacts DEF LocalInv
    <2>. QED
      BY <2>4
  <1>2. Spec => [][A]_vars
    BY <1>1, Invariance, PTL DEF Spec
  <1>. QED
    BY <1>2 DEF ChargedForResult

-----------------------------------------------------------------------------
(* What follows holds when no handler reads a row while another is between  *)
(* its own read and its write of it (AtomicHandlers), unless said otherwise. *)

\* p has loaded the row of j and has not flushed its decision yet.
InWindow(p, j) == proc[p].pc \in WindowSteps /\ proc[p].at = j

\* A copy is up to date as long as it is decided on, no two processes hold a
\* copy of the same row, and a reservation is released for a terminal job.
Serialised ==
    /\ \A p \in Procs : proc[p].pc \in WindowSteps =>
          proc[p].mem.status = row[proc[p].at].status
    /\ \A p, o \in Procs : \A j \in Jobs : InWindow(p, j) /\ InWindow(o, j) => p = o
    /\ \A p \in Procs : proc[p].pc = "release" => row[proc[p].at].status \in Terminal

\* The steps between the claim of a job and the flush that gives it up.
WorkSteps == ThreadSteps \union {"settle"}
Works(t, j) == proc[t].pc \in WorkSteps /\ proc[t].at = j

\* p goes on to l, and takes a copy only of a row that nobody else decides on.
Loads(p, l) ==
    /\ Become(p, l)
    /\ l.pc \in WindowSteps =>
          \/ l.mem = row[l.at] /\ Quiet(l.at)
          \/ proc[p].pc \in WindowSteps /\ l.at = proc[p].at /\ l.mem = proc[p].mem
    /\ l.pc # "release"

\* The same where no thread gets hold of a job and nothing is recovered.
Moves(p, l) ==
    /\ Loads(p, l)
    /\ p \in Threads /\ l.pc \in WorkSteps => proc[p].pc \in WorkSteps /\ l.at = proc[p].at
    /\ p = Maintenance => l.pc \notin WindowSteps

\* The steps of a window are steps on a job.
LEMMA WindowFacts ==
    /\ WindowSteps = {"settle", "finish", "charge", "ping5", "ping20", "ping90"}
    /\ WindowSteps \subseteq JobSteps
    /\ WindowSteps \subseteq WorkSteps
  BY StepFacts DEF WindowSteps, WorkSteps

\* A process that is at a step on a job has an existing job in hand.
LEMMA InHandFacts ==
    ASSUME IInv, NEW p \in Procs, proc[p].pc \in JobSteps
    PROVE  proc[p].at \in Jobs /\ Present(row[proc[p].at]) /\ row[proc[p].at] \in Row
  BY DEF IInv, TypeOK, LocalInv

\* Become changes the local state of p alone.
LEMMA BecomeOnly ==
    ASSUME IInv, NEW p \in Procs, NEW l, Become(p, l)
    PROVE  proc'[p] = l /\ \A o \in Procs \ {p} : proc'[o] = proc[o]
  BY DEF IInv, TypeOK, Become

\* The steps of a request that write nothing.
LEMMA ClientMoves ==
    ASSUME IInv, NEW c \in Clients,
           \/ \E r \in Requests : SubmitLookup(c, r)
           \/ \E j \in Jobs : CancelLoad(c, j)
           \/ SubmitRefused(c) \/ Reply(c) \/ ReserveConflict(c) \/ RejectQuota(c)
    PROVE  /\ UNCHANGED <<row, evt, used, todo, orphans>>
           /\ \E l : Moves(c, l) /\ l.pc \notin PayingSteps
  <1>1. c \notin Threads /\ c # Maintenance
    BY ConstantsAssumption
  <1>2. ASSUME NEW r \in Requests, SubmitLookup(c, r)
        PROVE  \E l : Moves(c, l) /\ l.pc \notin PayingSteps
    <2>. DEFINE l == [At("insert", None) EXCEPT !.mem = QueuedRow(r)]
    <2>1. l.pc = "insert"
      BY DEF At, Idle
    <2>2. Become(c, l)
      BY <1>2 DEF SubmitLookup
    <2>. HIDE DEF l
    <2>. QED
      BY <1>1, <2>1, <2>2, WindowFacts DEF Moves, Loads, PayingSteps
  <1>3. \A s \in {"rejected", "idle"} : At(s, None).pc = s
    BY DEF At, Idle
  <1>4. Idle.pc = "idle"
    BY DEF Idle
  <1>5. CASE SubmitRefused(c) \/ Reply(c) \/ ReserveConflict(c)
    BY <1>1, <1>3, <1>4, <1>5, WindowFacts
       DEF Moves, Loads, PayingSteps, SubmitRefused, Reply, ReserveConflict
  <1>6. \A j, m, g : /\ Window("settle", j, m, g).pc = "settle"
                     /\ Window("settle", j, m, g).at = j
                     /\ Window("settle", j, m, g).mem = m
    BY DEF Window
  <1>7. CASE RejectQuota(c)
    <2>. DEFINE l == Window("settle", proc[c].at, row[proc[c].at], "failed")
    <2>1. Become(c, l) /\ Quiet(proc[c].at)
      BY <1>7 DEF RejectQuota
    <2>2. l.pc = "settle" /\ l.at = proc[c].at /\ l.mem = row[proc[c].at]
      BY <1>6
    <2>. HIDE DEF l
    <2>3. Moves(c, l)
      BY <1>1, <2>1, <2>2 DEF Moves, Loads
    <2>. QED
      BY <1>7, <2>2, <2>3 DEF PayingSteps, RejectQuota
  <1>8. ASSUME NEW j \in Jobs, CancelLoad(c, j)
        PROVE  \E l : Moves(c, l) /\ l.pc \notin PayingSteps
    <2>1. PICK g \in {"cancelled", "cancel_requested"} :
             Become(c, Window("settle", j, row[j], g)) /\ Quiet(j)
      BY <1>8 DEF CancelLoad
    <2>. QED
      BY <1>1, <1>6, <2>1 DEF Moves, Loads, PayingSteps
  <1>9. UNCHANGED <<row, evt, used, todo, orphans>>
    BY DEF SubmitLookup, CancelLoad, SubmitRefused, Reply, ReserveConflict, RejectQuota
  <1>. QED
    BY <1>2, <1>5, <1>7, <1>8, <1>9

\* The steps of a thread that write neither a row nor an event.
LEMMA ThreadMoves ==
    ASSUME IInv, NEW t \in Threads,
           \/ Start(t) \/ Check(t) \/ Resume(t) \/ Work(t) \/ Timeout(t)
           \/ Complete(t) \/ Reload(t) \/ Recheck(t) \/ FinishRefused(t) \/ Handle(t)
    PROVE  /\ UNCHANGED <<row, evt, used, todo, orphans>>
           /\ \E l : Moves(t, l) /\ l.pc \notin PayingSteps
  <1>1. t # Maintenance
    BY ConstantsAssumption
  <1>. DEFINE j == proc[t].at
  <1>2. proc[t].pc \in ThreadSteps
    BY StepFacts DEF Start, Check, Resume, Work, Timeout, Complete, Reload, Recheck,
       FinishRefused, Handle, PingOf
  <1>3. /\ Idle.pc = "idle"
        /\ \A s : At(s, j).pc = s /\ At(s, j).at = j
        /\ \A s, m, g : /\ Window(s, j, m, g).pc = s
                        /\ Window(s, j, m, g).at = j
                        /\ Window(s, j, m, g).mem = m
    BY DEF Idle, At, Window
  <1>4. \/ Become(t, Idle)
        \/ \E s \in ThreadSteps \ WindowSteps : Become(t, At(s, j))
        \/ Quiet(j) /\ \E s \in WindowSteps : \E g : Become(t, Window(s, j, row[j], g))
    <2>1. CASE Start(t) \/ Resume(t) \/ Work(t) \/ FinishRefused(t)
      BY <2>1, StepFacts, WindowFacts DEF Start, Resume, Work, FinishRefused
    <2>2. CASE Check(t)
      <3>1. PingOf[proc[t].pc] \in WindowSteps
        BY <2>2, WindowFacts DEF Check, PingOf
      <3>. QED
        BY <2>2, <3>1, StepFacts, WindowFacts DEF Check
    <2>3. CASE Timeout(t) \/ Complete(t) \/ Reload(t)
      BY <2>3, StepFacts, WindowFacts DEF Timeout, Complete, Reload, Payment
    <2>4. CASE Recheck(t) \/ Handle(t)
      BY <2>4, StepFacts, WindowFacts DEF Recheck, Handle
    <2>. QED
      BY <2>1, <2>2, <2>3, <2>4
  <1>5. \E l : Moves(t, l) /\ l.pc \notin PayingSteps
    <2>1. CASE Become(t, Idle)
      BY <1>1, <1>3, <2>1, WindowFacts, StepFacts DEF Moves, Loads, PayingSteps, WorkSteps
    <2>2. ASSUME NEW s \in ThreadSteps \ WindowSteps, Become(t, At(s, j))
          PROVE  \E l : Moves(t, l) /\ l.pc \notin PayingSteps
      BY <1>1, <1>2, <1>3, <2>2, StepFacts DEF Moves, Loads, PayingSteps, WorkSteps
    <2>3. ASSUME NEW s \in WindowSteps, NEW g, Become(t, Window(s, j, row[j], g)), Quiet(j)
          PROVE  \E l : Moves(t, l) /\ l.pc \notin PayingSteps
      <3>1. Moves(t, Window(s, j, row[j], g))
        BY <1>1, <1>2, <1>3, <2>3, WindowFacts DEF Moves, Loads, WorkSteps
      <3>. QED
        BY <1>3, <3>1, WindowFacts DEF PayingSteps
    <2>. QED
      BY <1>4, <2>1, <2>2, <2>3
  <1>6. UNCHANGED <<row, evt, used, todo, orphans>>
    BY DEF Start, Check, Resume, Work, Timeout, Complete, Reload, Recheck,
       FinishRefused, Handle
  <1>. QED
    BY <1>5, <1>6

KeepsStatus == \A j \in Jobs : row'[j].status = row[j].status

\* A step that changes no status and takes at most a fresh copy.
LEMMA LoadSerial ==
    ASSUME AtomicHandlers, IInv, IInv', Serialised, NEW p \in Procs, NEW l,
           Loads(p, l), KeepsStatus
    PROVE  Serialised'
  <1>1. proc'[p] = l /\ \A o \in Procs \ {p} : proc'[o] = proc[o]
    BY BecomeOnly DEF Loads
  <1>2. \A o \in Procs : proc[o].pc \in WindowSteps \union {"release"} => proc[o].at \in Jobs
    BY InHandFacts, WindowFacts, StepFacts
  <1>3. l.pc \in WindowSteps => l.at \in Jobs /\ Present(row'[l.at])
    BY <1>1, WindowFacts DEF IInv, LocalInv
  <1>4. l.pc \in WindowSteps => /\ l.mem.status = row[l.at].status
                               /\ \A o \in Procs \ {p} : ~InWindow(o, l.at)
    <2>1. CASE l.mem = row[l.at] /\ Quiet(l.at)
      BY <2>1 DEF Quiet, InWindow
    <2>2. CASE proc[p].pc \in WindowSteps /\ l.at = proc[p].at /\ l.mem = proc[p].mem
      BY <1>2, <2>2 DEF Serialised, InWindow
    <2>. QED
      BY <2>1, <2>2 DEF Loads
  <1>5. \A o \in Procs : proc'[o].pc \in WindowSteps =>
             proc'[o].mem.status = row'[proc'[o].at].status
    BY <1>1, <1>2, <1>3, <1>4 DEF Serialised, KeepsStatus
  <1>6. \A o, n \in Procs : \A j \in Jobs : InWindow(o, j)' /\ InWindow(n, j)' => o = n
    BY <1>1, <1>4 DEF Serialised, InWindow
  <1>7. \A o \in Procs : proc'[o].pc = "release" => row'[proc'[o].at].status \in Terminal
    BY <1>1, <1>2 DEF Serialised, KeepsStatus, Loads
  <1>. QED
    BY <1>5, <1>6, <1>7 DEF Serialised, Terminal, Lifecycle!Terminal

\* A step that writes only rows nobody else decides on or has ended.
LEMMA WriteSerial ==
    ASSUME IInv, Serialised, NEW p \in Procs, NEW l, Become(p, l),
           l.pc \notin WindowSteps,
           l.pc = "release" => row'[l.at].status \in Terminal,
           \A o \in Procs \ {p} : proc[o].pc \in WindowSteps \union {"release"} =>
               row'[proc[o].at].status = row[proc[o].at].status
    PROVE  Serialised'
  <1>1. proc'[p] = l /\ \A o \in Procs \ {p} : proc'[o] = proc[o]
    BY BecomeOnly
  <1>2. \A o \in Procs : proc[o].pc \in WindowSteps \union {"release"} => proc[o].at \in Jobs
    BY InHandFacts, WindowFacts, StepFacts
  <1>4. \A o \in Procs : proc'[o].pc \in WindowSteps =>
             proc'[o].mem.status = row'[proc'[o].at].status
    BY <1>1 DEF Serialised
  <1>5. \A o, n \in Procs : \A i \in Jobs : InWindow(o, i)' /\ InWindow(n, i)' => o = n
    BY <1>1 DEF Serialised, InWindow
  <1>6. \A o \in Procs : proc'[o].pc = "release" => row'[proc'[o].at].status \in Terminal
    BY <1>1, <1>2 DEF Serialised
  <1>. QED
    BY <1>4, <1>5, <1>6 DEF Serialised, Terminal, Lifecycle!Terminal

\* The transition table.
LEMMA LegalFacts ==
    /\ \A s \in Statuses \ {"queued", "retry_wait", "running", "cancel_requested"} :
          Legal[s] = {}
    /\ \A s \in Claimable : Legal[s] = {"running", "cancelled", "failed"}
    /\ Legal["running"] = {"succeeded", "failed", "cancel_requested", "timed_out", "retry_wait"}
    /\ Legal["cancel_requested"] = {"cancelled", "failed", "timed_out"}
  BY StatusFacts DEF Legal, Lifecycle!Legal, Claimable, Statuses

\* A flush on an up-to-date copy moves the row along the table.
LEMMA FlushIsLegal ==
    ASSUME IInv, Serialised, NEW p \in Procs, proc[p].pc \in {"settle", "finish"},
           Permitted(p), Flush(p)
    PROVE  LET j == proc[p].at
               g == proc[p].goal
           IN  /\ j \in Jobs /\ row[j] \in Row
               /\ g \in {"cancelled", "failed", "cancel_requested", "retry_wait",
                         "timed_out", "succeeded"}
               /\ g = row[j].status \/ g \in Legal[row[j].status]
               /\ row'[j].status = g
               /\ g = row[j].status => row' = row
               /\ \A i \in Jobs \ {j} : row'[i] = row[i]
               /\ row'[j].attempts = row[j].attempts /\ row'[j].quota = row[j].quota
               /\ row'[j].req = row[j].req /\ row'[j].result = row[j].result
  <1>. DEFINE l == proc[p]
              j == l.at
              g == l.goal
              copy == Transitioned(l.mem, g)
              new == Merge(row[j], l.mem, copy)
  <1>1. /\ l \in LocalState /\ j \in Jobs /\ row[j] \in Row /\ l.mem \in Row
        /\ row \in [Jobs -> Row]
    BY InHandFacts, StepFacts DEF IInv, TypeOK, LocalState
  <1>2. g \in {"cancelled", "failed", "cancel_requested", "retry_wait",
               "timed_out", "succeeded"}
    BY DEF IInv, LocalInv
  <1>3. l.mem.status = row[j].status
    BY WindowFacts DEF Serialised
  <1>4. g = row[j].status \/ g \in Legal[row[j].status]
    BY <1>3 DEF Permitted
  <1>5. CASE g = row[j].status
    BY <1>1, <1>2, <1>3, <1>4, <1>5 DEF Flush
  <1>6. CASE g # row[j].status
    <2>1. row' = [row EXCEPT ![j] = new]
      BY <1>1, <1>3, <1>6 DEF Flush
    <2>2. copy.status = g
      BY <1>1, <1>2, TransitionedFacts, StatusFacts
    <2>. HIDE DEF copy
    <2>3. /\ new.status = g /\ new.attempts = row[j].attempts /\ new.quota = row[j].quota
          /\ new.req = row[j].req /\ new.result = row[j].result
      BY <1>1, <1>3, <1>6, <2>2 DEF Merge, Row
    <2>. HIDE DEF new
    <2>4. row'[j] = new /\ \A i \in Jobs \ {j} : row'[i] = row[i]
      BY <1>1, <2>1
    <2>. QED
      BY <1>1, <1>2, <1>4, <1>6, <2>3, <2>4
  <1>. QED
    BY <1>5, <1>6

\* A step that at most ends what some processes do.
LEMMA StillSerial ==
    ASSUME IInv, Serialised, KeepsStatus,
           \A o \in Procs : proc'[o] \in {proc[o], Idle}
    PROVE  Serialised'
  <1>1. Idle.pc = "idle"
    BY DEF Idle
  <1>2. \A o \in Procs : proc[o].pc \in WindowSteps \union {"release"} => proc[o].at \in Jobs
    BY InHandFacts, WindowFacts, StepFacts
  <1>. QED
    BY <1>1, <1>2, WindowFacts DEF Serialised, KeepsStatus, InWindow, Terminal, Lifecycle!Terminal

\* The steps that write an event, or a column of a row other than its status.
LEMMA EventSerial ==
    ASSUME AtomicHandlers, IInv, IInv', Serialised,
           \/ \E c \in Clients : \/ \E S \in SUBSET Quotas : ReleaseStale(c, S)
                                \/ ReserveQuota(c) \/ BindQuota(c)
           \/ \E t \in Threads : Ping(t) \/ Store(t) \/ Charge(t)
           \/ \E p \in Procs : ReleaseQuota(p)
           \/ OrphanSnapshot \/ \E q \in Quotas : OrphanRelease(q) \/ OrphanReload(q)
    PROVE  Serialised'
  <1>1. ASSUME NEW p \in Procs, NEW l, Become(p, l), KeepsStatus,
               l.pc \notin WindowSteps, l.pc # "release"
        PROVE  Serialised'
    BY <1>1, LoadSerial DEF Loads
  <1>2. \A s, j : At(s, j).pc = s
    BY DEF At, Idle
  <1>3. Idle.pc = "idle" /\ Maintenance \in Procs
    BY DEF Idle, Procs
  <1>4. UNCHANGED row => KeepsStatus
    BY DEF KeepsStatus
  <1>5. ASSUME NEW c \in Clients,
               \/ \E S \in SUBSET Quotas : ReleaseStale(c, S)
               \/ ReserveQuota(c) \/ BindQuota(c)
        PROVE  Serialised'
    <2>1. \E s \in {"reserveFresh", "bind", "idle"} :
             \E l : Become(c, l) /\ l.pc = s
      <3>1. CASE \E S \in SUBSET Quotas : ReleaseStale(c, S)
        BY <1>2, <3>1 DEF ReleaseStale
      <3>2. CASE ReserveQuota(c)
        <4>1. Become(c, At("bind", proc[c].at))
          BY <3>2 DEF ReserveQuota
        <4>. QED
          BY <1>2, <4>1
      <3>3. CASE BindQuota(c)
        BY <1>3, <3>3 DEF BindQuota
      <3>. QED
        BY <1>5, <3>1, <3>2, <3>3
    <2>2. KeepsStatus
      <3>1. CASE ReserveQuota(c)
        BY <1>4, <3>1 DEF ReserveQuota
      <3>2. CASE BindQuota(c)
        BY <3>2 DEF BindQuota, KeepsStatus, IInv, TypeOK, Row
      <3>. QED
        BY <1>4, <1>5, <3>1, <3>2 DEF ReleaseStale
    <2>. QED
      BY <1>1, <2>1, <2>2, WindowFacts DEF Procs
  <1>6. ASSUME NEW t \in Threads, Ping(t) \/ Store(t)
        PROVE  Serialised'
    <2>1. PICK l : Become(t, l) /\ l.pc \in {"resume", "work", "complete", "timeout", "reload"}
      <3>1. Ping(t) => AfterPing[proc[t].pc] \subseteq {"resume", "work", "complete", "timeout"}
        BY DEF Ping, AfterPing
      <3>. QED
        BY <1>2, <1>6, <3>1 DEF Ping, Store
    <2>2. KeepsStatus
      BY <1>6 DEF Ping, Store, KeepsStatus, IInv, TypeOK, Row
    <2>. QED
      BY <1>1, <2>1, <2>2, WindowFacts DEF Procs
  <1>7. ASSUME NEW t \in Threads, Charge(t)
        PROVE  Serialised'
    <2>1. PICK l : Become(t, l) /\ \/ l.pc \in {"recheck", "onRetryable"}
                                   \/ l = [proc[t] EXCEPT !.pc = "finish"]
      BY <1>2, <1>7 DEF Charge
    <2>2. proc[t] \in LocalState /\ proc[t].pc = "charge"
      BY <1>7 DEF Charge, IInv, TypeOK, Procs
    <2>3. Loads(t, l)
      BY <2>1, <2>2, WindowFacts DEF Loads, LocalState
    <2>. QED
      BY <1>4, <1>7, <2>3, LoadSerial DEF Charge, Procs
  <1>8. ASSUME NEW p \in Procs, ReleaseQuota(p) PROVE Serialised'
    <2>1. Resting(p).pc \in {"idle", "recover"}
      BY <1>2, <1>3 DEF Resting
    <2>. QED
      BY <1>1, <1>4, <1>8, <2>1, WindowFacts DEF ReleaseQuota
  <1>9. CASE OrphanSnapshot \/ \E q \in Quotas : OrphanRelease(q) \/ OrphanReload(q)
    <2>1. PICK l : /\ Become(Maintenance, l)
                   /\ l.pc \in {"idle", "releaseFirst", "reloadNext", "releaseNext"}
      BY <1>2, <1>3, <1>9, HoldingFacts
      DEF OrphanSnapshot, OrphanRelease, OrphanReload, OrphanLeft
    <2>. QED
      BY <1>1, <1>3, <1>4, <1>9, <2>1, WindowFacts
      DEF OrphanSnapshot, OrphanRelease, OrphanReload
  <1>. QED
    BY <1>5, <1>6, <1>7, <1>8, <1>9

\* The steps that change the status of a row.
LEMMA StatusSerial ==
    ASSUME AtomicHandlers, IInv, IInv', Serialised,
           \/ \E p \in Procs : Settle(p) \/ Finish(p)
           \/ \E t \in Threads : ClaimStep(t)
           \/ \E c \in Clients : SubmitInsert(c)
           \/ \E S \in SUBSET Jobs : PurgeHistory(S)
    PROVE  Serialised'
  <1>1. \A s, j : At(s, j).pc = s /\ At(s, j).at = j
    BY DEF At, Idle
  <1>2. Idle.pc = "idle" /\ \A p : Resting(p).pc \in {"idle", "recover"}
    BY <1>1 DEF Idle, Resting
  <1>3. \A o \in Procs : proc[o].pc \in WindowSteps \union {"release"} =>
            proc[o].at \in Jobs /\ Present(row[proc[o].at])
    BY InHandFacts, WindowFacts, StepFacts
  <1>4. ASSUME NEW p \in Procs, Settle(p) \/ Finish(p) PROVE Serialised'
    <2>. DEFINE j == proc[p].at
                g == proc[p].goal
    <2>1. proc[p].pc \in {"settle", "finish"} /\ Permitted(p) /\ Flush(p)
      BY <1>4 DEF Settle, Finish
    <2>2. /\ j \in Jobs /\ row'[j].status = g /\ \A i \in Jobs \ {j} : row'[i] = row[i]
          /\ g = row[j].status => row' = row
          /\ g = row[j].status \/ g \in Legal[row[j].status]
      BY <2>1, FlushIsLegal
    <2>3. PICK l : Become(p, l) /\ \/ l.pc \in {"idle", "recover"}
                                   \/ g \in Releasing /\ l.pc = "release" /\ l.at = j
      BY <1>1, <1>2, <1>4 DEF Settle, Finish
    <2>4. \A o \in Procs \ {p} : proc[o].pc \in WindowSteps => proc[o].at # j
      BY <2>1, <2>2, WindowFacts DEF Serialised, InWindow
    <2>5. \A o \in Procs : proc[o].pc = "release" /\ proc[o].at = j => g = row[j].status
      <3>1. row[j].status \in Terminal => Legal[row[j].status] = {}
        BY StatusFacts, LegalFacts
      <3>. QED
        BY <2>2, <3>1 DEF Serialised
    <2>6. \A o \in Procs \ {p} : proc[o].pc \in WindowSteps \union {"release"} =>
               row'[proc[o].at].status = row[proc[o].at].status
      BY <1>3, <2>2, <2>4, <2>5
    <2>. QED
      BY <2>2, <2>3, <2>6, WriteSerial, WindowFacts, StatusFacts DEF Releasing
  <1>5. ASSUME NEW t \in Threads, ClaimStep(t) PROVE Serialised'
    <2>1. PICK j \in Jobs : Claim(t, j) \/ ClaimExhausted(t, j)
      BY <1>5 DEF ClaimStep
    <2>2. /\ Quiet(j) /\ row[j].status \in Claimable
          /\ \A i \in Jobs \ {j} : row'[i] = row[i]
      BY <2>1 DEF Claim, ClaimExhausted, Ready, IInv, TypeOK
    <2>3. ClaimExhausted(t, j) => row'[j].status \in Terminal
      BY StatusFacts, TransitionedFacts DEF ClaimExhausted, IInv, TypeOK
    <2>4. PICK l : Become(t, l) /\ \/ l.pc = "start"
                                   \/ ClaimExhausted(t, j) /\ l.pc = "release" /\ l.at = j
      BY <1>1, <2>1 DEF Claim, ClaimExhausted
    <2>5. \A o \in Procs : proc[o].pc \in WindowSteps \union {"release"} => proc[o].at # j
      BY <2>2, StatusFacts DEF Quiet, Serialised, Claimable
    <2>. QED
      BY <1>3, <2>2, <2>3, <2>4, <2>5, WriteSerial, WindowFacts DEF Procs
  <1>6. ASSUME NEW c \in Clients, SubmitInsert(c) PROVE Serialised'
    <2>1. PICK j \in Jobs : /\ row[j].status = "absent"
                            /\ row' = [row EXCEPT ![j] = proc[c].mem]
                            /\ \/ Become(c, Idle)
                               \/ Become(c, At("reserve", j))
      BY <1>6 DEF SubmitInsert
    <2>2. \A o \in Procs : proc[o].pc \in WindowSteps \union {"release"} => proc[o].at # j
      BY <1>3, <2>1 DEF Present
    <2>. QED
      BY <1>1, <1>2, <1>3, <2>1, <2>2, WriteSerial, WindowFacts DEF Procs, IInv, TypeOK
  <1>7. ASSUME NEW S \in SUBSET Jobs, PurgeHistory(S) PROVE Serialised'
    <2>1. /\ \A j \in Jobs \ S : row'[j] = row[j]
          /\ \A o \in Procs : proc[o].at \notin S
          /\ Become(Maintenance, At("orphans", None))
      BY <1>7 DEF PurgeHistory, Forgotten
    <2>. QED
      BY <1>1, <1>3, <2>1, WriteSerial, WindowFacts DEF Procs
  <1>. QED
    BY <1>4, <1>5, <1>6, <1>7

\* Maintenance takes the next job of its snapshot, or goes on.
LEMMA RecoverLoads ==
    ASSUME Snapshot \/ RecoverNext
    PROVE  /\ UNCHANGED <<row, evt, used, orphans>>
           /\ \E l : Loads(Maintenance, l)
  <1>1. \A s : At(s, None).pc = s
    BY DEF At, Idle
  <1>2. \A j, g : Window("settle", j, row[j], g).pc = "settle"
    BY DEF Window
  <1>3. \A j, g : Window("settle", j, row[j], g).at = j /\ Window("settle", j, row[j], g).mem = row[j]
    BY DEF Window
  <1>4. \/ Become(Maintenance, At("history", None))
        \/ \E j, g : Become(Maintenance, Window("settle", j, row[j], g)) /\ Quiet(j)
    <2>1. \/ Become(Maintenance, At("history", None))
          \/ \E j \in Lapsed \union todo :
                /\ Quiet(j)
                /\ Become(Maintenance, Window("settle", j, row[j], RecoveryGoal(row[j])))
      <3>1. CASE Snapshot
        BY <3>1 DEF Snapshot
      <3>2. CASE RecoverNext
        BY <3>2 DEF RecoverNext
      <3>. QED
        BY <3>1, <3>2
    <2>. QED
      BY <2>1
  <1>5. \E l : Loads(Maintenance, l)
    <2>1. CASE Become(Maintenance, At("history", None))
      BY <1>1, <2>1, WindowFacts DEF Loads
    <2>2. ASSUME NEW j, NEW g, Become(Maintenance, Window("settle", j, row[j], g)), Quiet(j)
          PROVE  Loads(Maintenance, Window("settle", j, row[j], g))
      BY <1>2, <1>3, <2>2, WindowFacts, ZenonT(30) DEF Loads
    <2>. QED
      BY <1>4, <2>1, <2>2
  <1>. QED
    BY <1>5 DEF Snapshot, RecoverNext

\* Initially nobody has a copy.
LEMMA InitSerial == Init => Serialised
  BY WindowFacts DEF Init, Serialised, InWindow, Idle

\* Every step keeps the copies up to date.
LEMMA NextSerial ==
    ASSUME AtomicHandlers, IInv, IInv', Serialised, [Next]_vars
    PROVE  Serialised'
  <1>1. UNCHANGED row => KeepsStatus
    BY DEF KeepsStatus
  <1>2. ASSUME NEW c \in Clients,
               \/ \E r \in Requests : SubmitLookup(c, r)
               \/ \E j \in Jobs : CancelLoad(c, j)
               \/ \E S \in SUBSET Quotas : ReleaseStale(c, S)
               \/ ClientStep(c)
        PROVE  Serialised'
    <2>1. c \in Procs
      BY DEF Procs
    <2>2. CASE \/ \E r \in Requests : SubmitLookup(c, r)
               \/ \E j \in Jobs : CancelLoad(c, j)
               \/ SubmitRefused(c) \/ Reply(c) \/ ReserveConflict(c) \/ RejectQuota(c)
      BY <1>1, <2>1, <2>2, ClientMoves, LoadSerial DEF Moves
    <2>3. CASE SettleRefused(c)
      BY <1>1, <2>1, <2>3, BecomeOnly, StillSerial DEF SettleRefused
    <2>. QED
      BY <1>2, <2>1, <2>2, <2>3, EventSerial, StatusSerial DEF ClientStep
  <1>3. ASSUME NEW t \in Threads, ClaimStep(t) \/ ThreadStep(t) \/ Renew(t)
        PROVE  Serialised'
    <2>1. t \in Procs
      BY DEF Procs
    <2>2. CASE \/ Start(t) \/ Check(t) \/ Resume(t) \/ Work(t) \/ Timeout(t)
               \/ Complete(t) \/ Reload(t) \/ Recheck(t) \/ FinishRefused(t) \/ Handle(t)
      BY <1>1, <2>1, <2>2, ThreadMoves, LoadSerial DEF Moves
    <2>3. CASE SettleRefused(t)
      BY <1>1, <2>1, <2>3, BecomeOnly, StillSerial DEF SettleRefused
    <2>4. CASE Renew(t)
      <3>1. KeepsStatus
        BY <2>4 DEF Renew, KeepsStatus, IInv, TypeOK, Row
      <3>. QED
        BY <2>4, <3>1, StillSerial DEF Renew
    <2>. QED
      BY <1>3, <2>1, <2>2, <2>3, <2>4, EventSerial, StatusSerial DEF ThreadStep
  <1>4. CASE MaintenanceStep
    <2>1. Maintenance \in Procs
      BY DEF Procs
    <2>2. CASE Snapshot \/ RecoverNext
      BY <1>1, <2>1, <2>2, RecoverLoads, LoadSerial
    <2>3. CASE SettleRefused(Maintenance)
      BY <1>1, <2>1, <2>3, BecomeOnly, StillSerial DEF SettleRefused
    <2>. QED
      BY <1>4, <2>1, <2>2, <2>3, EventSerial, StatusSerial DEF MaintenanceStep
  <1>5. ASSUME NEW j \in Jobs, LeaseLapses(j) PROVE Serialised'
    <2>1. KeepsStatus
      BY <1>5 DEF LeaseLapses, KeepsStatus, IInv, TypeOK, Row
    <2>. QED
      BY <1>5, <2>1, StillSerial DEF LeaseLapses
  <1>6. ASSUME NEW w \in Workers, WorkerCrash(w) PROVE Serialised'
    BY <1>1, <1>6, StillSerial DEF WorkerCrash
  <1>7. ASSUME NEW p \in Clients \union {Maintenance}, Crash(p) PROVE Serialised'
    BY <1>1, <1>7, BecomeOnly, StillSerial DEF Crash, Procs
  <1>8. CASE UNCHANGED vars
    BY <1>1, <1>8, StillSerial DEF vars
  <1>. QED
    BY <1>2, <1>3, <1>4, <1>5, <1>6, <1>7, <1>8 DEF Next

\* No copy goes stale while it is decided on.
THEOREM CopiesAreFresh == ASSUME AtomicHandlers PROVE Spec => []Serialised
  <1>1. IInv /\ IInv' /\ Serialised /\ [Next]_vars => Serialised'
    BY NextSerial
  <1>. QED
    BY <1>1, InitSerial, Invariance, PTL DEF Spec

\* The steps that change a status.
ChangesStatus ==
    \/ \E p \in Procs : Settle(p) \/ Finish(p)
    \/ \E t \in Threads : ClaimStep(t)
    \/ \E c \in Clients : SubmitInsert(c)
    \/ \E S \in SUBSET Jobs : PurgeHistory(S)

\* All other steps keep every row's status.
LEMMA StatusChanges ==
    ASSUME IInv, [Next]_vars
    PROVE  KeepsStatus \/ ChangesStatus
  <1>1. UNCHANGED row => KeepsStatus
    BY DEF KeepsStatus
  <1>2. ASSUME NEW c \in Clients,
               \/ \E r \in Requests : SubmitLookup(c, r)
               \/ \E j \in Jobs : CancelLoad(c, j)
               \/ \E S \in SUBSET Quotas : ReleaseStale(c, S)
               \/ ClientStep(c)
        PROVE  KeepsStatus \/ ChangesStatus
    <2>1. c \in Procs
      BY DEF Procs
    <2>2. CASE BindQuota(c)
      BY <2>2 DEF BindQuota, KeepsStatus, IInv, TypeOK, Row
    <2>3. CASE SubmitInsert(c) \/ Settle(c)
      BY <2>1, <2>3 DEF ChangesStatus
    <2>4. CASE ReserveQuota(c)
      BY <1>1, <2>4 DEF ReserveQuota
    <2>5. CASE \/ \E r \in Requests : SubmitLookup(c, r)
               \/ \E j \in Jobs : CancelLoad(c, j)
               \/ \E S \in SUBSET Quotas : ReleaseStale(c, S)
               \/ SubmitRefused(c) \/ Reply(c) \/ ReserveConflict(c) \/ RejectQuota(c)
               \/ SettleRefused(c) \/ ReleaseQuota(c)
      BY <1>1, <2>5 DEF SubmitLookup, CancelLoad, ReleaseStale, SubmitRefused, Reply,
         ReserveConflict, RejectQuota, SettleRefused, ReleaseQuota
    <2>. QED
      BY <1>2, <2>2, <2>3, <2>4, <2>5 DEF ClientStep
  <1>3. ASSUME NEW t \in Threads, ClaimStep(t) \/ ThreadStep(t) \/ Renew(t)
        PROVE  KeepsStatus \/ ChangesStatus
    <2>1. t \in Procs
      BY DEF Procs
    <2>2. CASE ClaimStep(t) \/ Settle(t) \/ Finish(t)
      BY <2>1, <2>2 DEF ChangesStatus
    <2>3. CASE Ping(t) \/ Store(t) \/ Renew(t)
      BY <2>3 DEF Ping, Store, Renew, KeepsStatus, IInv, TypeOK, Row
    <2>4. CASE Charge(t)
      BY <1>1, <2>4 DEF Charge
    <2>5. CASE SettleRefused(t) \/ ReleaseQuota(t)
      BY <1>1, <2>5 DEF SettleRefused, ReleaseQuota
    <2>6. CASE \/ Start(t) \/ Check(t) \/ Resume(t) \/ Work(t) \/ Timeout(t)
               \/ Complete(t) \/ Reload(t) \/ Recheck(t) \/ FinishRefused(t) \/ Handle(t)
      BY <1>1, <2>6, ThreadMoves
    <2>. QED
      BY <1>3, <2>2, <2>3, <2>4, <2>5, <2>6 DEF ThreadStep
  <1>4. CASE MaintenanceStep
    <2>1. Maintenance \in Procs
      BY DEF Procs
    <2>2. CASE Settle(Maintenance) \/ \E S \in SUBSET Jobs : PurgeHistory(S)
      BY <2>1, <2>2 DEF ChangesStatus
    <2>. QED
      BY <1>1, <1>4, <2>2 DEF MaintenanceStep, Snapshot, RecoverNext, OrphanSnapshot,
         OrphanRelease, OrphanReload, SettleRefused, ReleaseQuota
  <1>5. ASSUME NEW j \in Jobs, LeaseLapses(j) PROVE KeepsStatus
    BY <1>5 DEF LeaseLapses, KeepsStatus, IInv, TypeOK, Row
  <1>6. CASE \/ \E w \in Workers : WorkerCrash(w)
             \/ \E p \in Clients \union {Maintenance} : Crash(p)
             \/ UNCHANGED vars
    BY <1>1, <1>6 DEF WorkerCrash, Crash, vars
  <1>. QED
    BY <1>2, <1>3, <1>4, <1>5, <1>6 DEF Next

\* The status of each job, which the abstract life cycle speaks of.
StatusOf == [j \in Jobs |-> row[j].status]

\* Every step is a step of the life cycle, or leaves every status alone.
LEMMA StepsOfLife ==
    ASSUME AtomicHandlers, IInv, Serialised, [Next]_vars
    PROVE  [Lifecycle!Next]_StatusOf
  <1>1. row \in [Jobs -> Row]
    BY DEF IInv, TypeOK
  <1>2. CASE KeepsStatus
    BY <1>2 DEF KeepsStatus, StatusOf
  <1>3. ASSUME NEW j \in Jobs, row'[j].status \in Legal[row[j].status],
               \A i \in Jobs \ {j} : row'[i].status = row[i].status
        PROVE  Lifecycle!Next
    <2>1. StatusOf' = [StatusOf EXCEPT ![j] = row'[j].status]
      BY <1>3 DEF StatusOf
    <2>2. Lifecycle!Move(j)
      BY <1>3, <2>1 DEF Lifecycle!Move, StatusOf, Legal
    <2>. QED
      BY <2>2 DEF Lifecycle!Next
  <1>4. ASSUME NEW p \in Procs, Settle(p) \/ Finish(p) PROVE [Lifecycle!Next]_StatusOf
    <2>. DEFINE j == proc[p].at
                g == proc[p].goal
    <2>1. /\ j \in Jobs /\ row'[j].status = g /\ \A i \in Jobs \ {j} : row'[i] = row[i]
          /\ g = row[j].status => row' = row
          /\ g = row[j].status \/ g \in Legal[row[j].status]
      BY <1>4, FlushIsLegal DEF Settle, Finish
    <2>2. CASE g = row[j].status
      BY <1>2, <2>1, <2>2 DEF KeepsStatus
    <2>3. CASE g \in Legal[row[j].status]
      BY <1>3, <2>1, <2>3
    <2>. QED
      BY <2>1, <2>2, <2>3
  <1>5. ASSUME NEW t \in Threads, ClaimStep(t) PROVE Lifecycle!Next
    <2>1. PICK j \in Jobs : Claim(t, j) \/ ClaimExhausted(t, j)
      BY <1>5 DEF ClaimStep
    <2>2. /\ row[j].status \in Claimable /\ row[j] \in Row
          /\ \A i \in Jobs \ {j} : row'[i] = row[i]
      BY <1>1, <2>1 DEF Claim, ClaimExhausted, Ready
    <2>3. row'[j].status \in {"running", "failed"}
      <3>1. CASE Claim(t, j)
        BY <1>1, <2>2, <3>1 DEF Claim, Row
      <3>2. CASE ClaimExhausted(t, j)
        BY <1>1, <2>2, <3>2, TransitionedFacts, StatusFacts DEF ClaimExhausted
      <3>. QED
        BY <2>1, <3>1, <3>2
    <2>. QED
      BY <1>3, <2>2, <2>3, LegalFacts DEF Claimable
  <1>6. ASSUME NEW c \in Clients, SubmitInsert(c) PROVE Lifecycle!Next
    <2>1. PICK j \in Jobs : /\ row[j].status = "absent"
                            /\ row' = [row EXCEPT ![j] = proc[c].mem]
      BY <1>6 DEF SubmitInsert
    <2>2. proc[c].mem.status = "queued"
      <3>1. \A r : QueuedRow(r).status = "queued"
        BY DEF QueuedRow, NoRow
      <3>2. proc[c].mem = QueuedRow(proc[c].mem.req)
        BY <1>6 DEF SubmitInsert, IInv, LocalInv, Procs
      <3>. QED
        BY <3>1, <3>2
    <2>3. StatusOf' = [StatusOf EXCEPT ![j] = "queued"] /\ StatusOf[j] = "absent"
      BY <1>1, <2>1, <2>2 DEF StatusOf
    <2>. QED
      BY <2>3 DEF Lifecycle!Next, Lifecycle!Create, StatusOf
  <1>7. ASSUME NEW S \in SUBSET Jobs, PurgeHistory(S) PROVE Lifecycle!Next
    <2>1. /\ \A j \in S : row[j].status \in Terminal
          /\ \A j \in Jobs : row'[j].status = IF j \in S THEN "deleted" ELSE row[j].status
      BY <1>7 DEF PurgeHistory, Forgotten, NoRow
    <2>2. StatusOf' = [j \in Jobs |-> IF j \in S THEN "deleted" ELSE StatusOf[j]]
      BY <2>1 DEF StatusOf
    <2>3. Lifecycle!Purge(S)
      BY <2>1, <2>2 DEF Lifecycle!Purge, StatusOf, Terminal
    <2>. QED
      BY <2>3 DEF Lifecycle!Next
  <1>. QED
    BY <1>2, <1>4, <1>5, <1>6, <1>7, StatusChanges DEF ChangesStatus

\* Seen from outside, the queue is the life cycle its clients are promised.
THEOREM LifecycleImplemented == ASSUME AtomicHandlers PROVE Spec => ImplementsLifecycle
  <1>1. Init => Lifecycle!Init
    BY DEF Init, Lifecycle!Init, NoRow
  <1>2. IInv /\ Serialised /\ [Next]_vars => [Lifecycle!Next]_StatusOf
    BY StepsOfLife
  <1>3. Spec => []Serialised
    BY CopiesAreFresh
  <1>. QED
    BY <1>1, <1>2, <1>3, Invariance, PTL DEF Spec, ImplementsLifecycle, Lifecycle!Spec, StatusOf

\* Who may have j in hand.  While a thread works on j nobody may claim it, and
\* its lease is live if it runs; what maintenance has set out to recover
\* has been let go of by its worker, unless it is to be cancelled.
HandedOver(j) ==
    /\ \A t \in Threads : Works(t, j) =>
          /\ row[j].status \in {"running", "cancel_requested"} \union Terminal
          /\ row[j].status = "running" => row[j].worker = WorkerOf[t] /\ row[j].lease = "live"
          /\ \A u \in Threads : Works(u, j) => t = u
    /\ j \in todo =>
          /\ row[j].status \in {"running", "cancel_requested"} \union Terminal
          /\ row[j].status = "running" => row[j].lease = "expired"
    /\ InWindow(Maintenance, j) =>
          /\ row[j].status = "running" => row[j].lease = "expired"
          /\ j \notin todo

OneOwner == \A j \in Jobs : HandedOver(j)

\* Nobody gets hold of j in this step.
NobodyTakes(j) ==
    /\ \A t \in Threads : Works(t, j)' => Works(t, j)
    /\ j \in todo' => j \in todo
    /\ InWindow(Maintenance, j)' => InWindow(Maintenance, j)

\* Whose job it is does not change when its row does not,
LEMMA Untouched ==
    ASSUME NEW j \in Jobs, HandedOver(j), NobodyTakes(j),
           row'[j].status = row[j].status, row'[j].worker = row[j].worker,
           row'[j].lease = row[j].lease
    PROVE  HandedOver(j)'
  BY DEF HandedOver, NobodyTakes, Terminal, Lifecycle!Terminal

\* nor when the job is asked to stop or has ended;
LEMMA Stopping ==
    ASSUME NEW j \in Jobs, HandedOver(j), NobodyTakes(j),
           row'[j].status \in {"cancel_requested"} \union Terminal
    PROVE  HandedOver(j)'
  BY StatusFacts DEF HandedOver, NobodyTakes, Terminal, Lifecycle!Terminal

\* and a job in nobody's hands is handed over to nobody.
LEMMA LetGo ==
    ASSUME NEW j \in Jobs, j \notin todo', ~InWindow(Maintenance, j)',
           \A t \in Threads : ~Works(t, j)'
    PROVE  HandedOver(j)'
  BY DEF HandedOver

\* A step that writes no row, takes no job and recovers none.
LEMMA BystanderOwns ==
    ASSUME OneOwner, UNCHANGED row, \A j \in Jobs : NobodyTakes(j)
    PROVE  OneOwner'
  BY Untouched DEF OneOwner

\* What a step of p does to who works and what is recovered.
LEMMA TakesFacts ==
    ASSUME IInv, NEW p \in Procs, NEW l, Become(p, l), todo' \subseteq todo,
           p \in Threads /\ l.pc \in WorkSteps => proc[p].pc \in WorkSteps /\ l.at = proc[p].at,
           p = Maintenance => l.pc \notin WindowSteps
    PROVE  \A j : NobodyTakes(j)
  <1>1. proc'[p] = l /\ \A o \in Procs \ {p} : proc'[o] = proc[o]
    BY BecomeOnly
  <1>2. Threads \subseteq Procs /\ Maintenance \in Procs
    BY DEF Procs
  <1>. QED
    BY <1>1, <1>2 DEF NobodyTakes, Works, InWindow, WorkSteps, WindowSteps

\* The quiet steps of requests and threads, and those that write an event.
LEMMA QuietOwns ==
    ASSUME IInv, OneOwner,
           \/ \E c \in Clients :
                 \/ \E r \in Requests : SubmitLookup(c, r)
                 \/ \E j \in Jobs : CancelLoad(c, j)
                 \/ \E S \in SUBSET Quotas : ReleaseStale(c, S)
                 \/ SubmitRefused(c) \/ Reply(c) \/ ReserveConflict(c) \/ RejectQuota(c)
                 \/ ReserveQuota(c)
           \/ \E t \in Threads :
                 \/ Start(t) \/ Check(t) \/ Resume(t) \/ Work(t) \/ Timeout(t)
                 \/ Complete(t) \/ Reload(t) \/ Recheck(t) \/ FinishRefused(t) \/ Handle(t)
                 \/ Charge(t)
           \/ \E p \in Procs : ReleaseQuota(p) \/ SettleRefused(p)
           \/ OrphanSnapshot \/ \E q \in Quotas : OrphanRelease(q) \/ OrphanReload(q)
    PROVE  OneOwner'
  <1>1. /\ Idle.pc = "idle" /\ Maintenance \in Procs
        /\ \A s, j : At(s, j).pc = s /\ At(s, j).at = j
    BY DEF Idle, Procs, At
  <1>2. ASSUME NEW p \in Procs, NEW l, Moves(p, l), UNCHANGED <<row, todo>> PROVE OneOwner'
    BY <1>2, TakesFacts, BystanderOwns DEF Moves, Loads
  <1>3. ASSUME NEW p \in Procs, NEW l, Become(p, l), UNCHANGED row, todo' \subseteq todo,
               l.pc \notin WorkSteps
        PROVE  OneOwner'
    BY <1>3, TakesFacts, BystanderOwns, WindowFacts
  <1>4. ASSUME NEW c \in Clients,
               \/ \E r \in Requests : SubmitLookup(c, r)
               \/ \E j \in Jobs : CancelLoad(c, j)
               \/ SubmitRefused(c) \/ Reply(c) \/ ReserveConflict(c) \/ RejectQuota(c)
        PROVE  OneOwner'
    BY <1>2, <1>4, ClientMoves DEF Procs
  <1>5. ASSUME NEW t \in Threads,
               \/ Start(t) \/ Check(t) \/ Resume(t) \/ Work(t) \/ Timeout(t)
               \/ Complete(t) \/ Reload(t) \/ Recheck(t) \/ FinishRefused(t) \/ Handle(t)
        PROVE  OneOwner'
    BY <1>2, <1>5, ThreadMoves DEF Procs
  <1>6. ASSUME NEW c \in Clients,
               ReserveQuota(c) \/ \E S \in SUBSET Quotas : ReleaseStale(c, S)
        PROVE  OneOwner'
    <2>1. /\ \E l : Become(c, l) /\ l.pc \in {"bind", "reserveFresh"}
          /\ UNCHANGED <<row, todo>>
      <3>1. CASE ReserveQuota(c)
        <4>1. Become(c, At("bind", proc[c].at)) /\ UNCHANGED <<row, todo>>
          BY <3>1 DEF ReserveQuota
        <4>. QED
          BY <1>1, <4>1
      <3>2. CASE \E S \in SUBSET Quotas : ReleaseStale(c, S)
        BY <1>1, <3>2 DEF ReleaseStale
      <3>. QED
        BY <1>6, <3>1, <3>2
    <2>. QED
      BY <1>3, <2>1, StepFacts DEF Procs, WorkSteps
  <1>7. ASSUME NEW t \in Threads, Charge(t) PROVE OneOwner'
    <2>1. proc[t] \in LocalState /\ proc[t].pc = "charge" /\ t # Maintenance /\ t \in Procs
      BY <1>7, ConstantsAssumption DEF Charge, IInv, TypeOK, Procs
    <2>2. PICK l : /\ Become(t, l)
                   /\ \/ l.pc \in {"recheck", "onRetryable"} /\ l.at = proc[t].at
                      \/ l = [proc[t] EXCEPT !.pc = "finish"]
      <3>1. \/ Become(t, At("recheck", proc[t].at))
            \/ Become(t, [proc[t] EXCEPT !.pc = "finish"])
            \/ Become(t, At("onRetryable", proc[t].at))
        BY <1>7 DEF Charge
      <3>2. \A s : At(s, proc[t].at).pc = s /\ At(s, proc[t].at).at = proc[t].at
        BY DEF At, Idle
      <3>. QED
        BY <3>1, <3>2
    <2>3. l.at = proc[t].at
      BY <2>1, <2>2 DEF LocalState
    <2>4. UNCHANGED <<row, todo>>
      BY <1>7 DEF Charge
    <2>. QED
      BY <2>1, <2>2, <2>3, <2>4, StepFacts, TakesFacts, BystanderOwns DEF WorkSteps
  <1>8. ASSUME NEW p \in Procs, ReleaseQuota(p) \/ SettleRefused(p) PROVE OneOwner'
    <2>1. Resting(p).pc \in {"idle", "recover"}
      BY <1>1 DEF Resting
    <2>2. \E l : Become(p, l) /\ l.pc \in {"idle", "recover"}
      BY <1>1, <1>8, <2>1 DEF ReleaseQuota, SettleRefused
    <2>3. UNCHANGED row /\ todo' \subseteq todo
      BY <1>8 DEF ReleaseQuota, SettleRefused
    <2>. QED
      BY <1>3, <2>2, <2>3, StepFacts DEF WorkSteps
  <1>9. CASE OrphanSnapshot \/ \E q \in Quotas : OrphanRelease(q) \/ OrphanReload(q)
    <2>1. \E l : /\ Become(Maintenance, l)
                 /\ l.pc \in {"idle", "releaseFirst", "reloadNext", "releaseNext"}
      BY <1>1, <1>9, HoldingFacts
      DEF OrphanSnapshot, OrphanRelease, OrphanReload, OrphanLeft
    <2>2. UNCHANGED row /\ todo' \subseteq todo
      BY <1>9 DEF OrphanSnapshot, OrphanRelease, OrphanReload
    <2>. QED
      BY <1>1, <1>3, <2>1, <2>2, StepFacts DEF WorkSteps
  <1>. QED
    BY <1>4, <1>5, <1>6, <1>7, <1>8, <1>9

\* A request never sends a job back to wait for another attempt.
RequestGoals ==
    \A c \in Clients : proc[c].pc = "settle" =>
        proc[c].goal \in {"cancelled", "failed", "cancel_requested"}

\* Only fail_job and the recovery decide on retry_wait.
LEMMA NextRequestGoals ==
    ASSUME IInv, RequestGoals, [Next]_vars
    PROVE  RequestGoals'
  <1>1. /\ Idle.pc = "idle"
        /\ \A s, j : At(s, j).pc = s
        /\ \A j, m, g : Window("settle", j, m, g).goal = g
        /\ \A r : [At("insert", None) EXCEPT !.mem = QueuedRow(r)].pc = "insert"
    BY DEF Idle, At, Window
  <1>2. /\ Clients \subseteq Procs /\ Threads \subseteq Procs /\ Maintenance \in Procs
        /\ Clients \intersect (Threads \union {Maintenance}) = {}
    BY ConstantsAssumption DEF Procs
  <1>3. ASSUME NEW p \in Procs, NEW l, Become(p, l),
               \/ p \notin Clients \/ l.pc # "settle"
               \/ l.goal \in {"cancelled", "failed", "cancel_requested"}
        PROVE  RequestGoals'
    <2>1. proc'[p] = l /\ \A o \in Procs \ {p} : proc'[o] = proc[o]
      BY <1>3, BecomeOnly
    <2>. QED
      BY <1>2, <1>3, <2>1 DEF RequestGoals
  <1>4. ASSUME NEW c \in Clients, NEW r \in Requests, SubmitLookup(c, r) PROVE RequestGoals'
    <2>1. Become(c, [At("insert", None) EXCEPT !.mem = QueuedRow(r)])
      BY <1>4 DEF SubmitLookup
    <2>. QED
      BY <1>1, <1>2, <1>3, <2>1
  <1>12. ASSUME NEW c \in Clients, NEW j \in Jobs, CancelLoad(c, j) PROVE RequestGoals'
    <2>1. \E g \in {"cancelled", "cancel_requested"} :
              Become(c, Window("settle", j, row[j], g))
      BY <1>12 DEF CancelLoad
    <2>. QED
      BY <1>1, <1>2, <1>3, <2>1
  <1>5. ASSUME NEW c \in Clients, RejectQuota(c) PROVE RequestGoals'
    <2>1. \E l : Become(c, l) /\ l.goal = "failed"
      BY <1>1, <1>5 DEF RejectQuota
    <2>. QED
      BY <1>2, <1>3, <2>1
  <1>6. ASSUME NEW c \in Clients, ReserveQuota(c) PROVE RequestGoals'
    <2>1. Become(c, At("bind", proc[c].at))
      BY <1>6 DEF ReserveQuota
    <2>. QED
      BY <1>1, <1>2, <1>3, <2>1
  <1>7. ASSUME NEW c \in Clients,
               \/ \E S \in SUBSET Quotas : ReleaseStale(c, S)
               \/ SubmitInsert(c) \/ SubmitRefused(c) \/ Reply(c) \/ ReserveConflict(c)
               \/ BindQuota(c) \/ Settle(c) \/ SettleRefused(c) \/ ReleaseQuota(c)
        PROVE  RequestGoals'
    <2>1. \E l : Become(c, l) /\ l.pc \in {"idle", "reserve", "reserveFresh", "rejected",
                                          "release"}
      BY <1>1, <1>2, <1>7, SMTT(30) DEF ReleaseStale, SubmitInsert, SubmitRefused, Reply,
         ReserveConflict, BindQuota, Settle, SettleRefused, ReleaseQuota, Resting
    <2>. QED
      BY <1>2, <1>3, <2>1
  <1>8. ASSUME NEW t \in Threads, ClaimStep(t) \/ ThreadStep(t) \/ Renew(t)
        PROVE  RequestGoals'
    <2>1. (\E l : Become(t, l)) \/ UNCHANGED proc
      BY <1>8 DEF ClaimStep, Claim, ClaimExhausted, ThreadStep, Renew, Start, Check, Ping,
         Resume, Work, Timeout, Complete, Store, Reload, Charge, Recheck, Finish,
         FinishRefused, Handle, Settle, SettleRefused, ReleaseQuota
    <2>. QED
      BY <1>2, <1>3, <2>1 DEF RequestGoals
  <1>9. CASE MaintenanceStep
    <2>1. \E l : Become(Maintenance, l)
      BY <1>9 DEF MaintenanceStep, Snapshot, RecoverNext, PurgeHistory, OrphanSnapshot,
         OrphanRelease, OrphanReload, OrphanLeft, Settle, SettleRefused, ReleaseQuota
    <2>. QED
      BY <1>2, <1>3, <2>1
  <1>10. CASE \/ \E j \in Jobs : LeaseLapses(j)
              \/ \E w \in Workers : WorkerCrash(w)
              \/ UNCHANGED vars
    BY <1>2, <1>10 DEF LeaseLapses, WorkerCrash, vars, RequestGoals
  <1>11. ASSUME NEW p \in Clients \union {Maintenance}, Crash(p) PROVE RequestGoals'
    BY <1>1, <1>2, <1>3, <1>11 DEF Crash
  <1>. QED
    BY <1>4, <1>5, <1>6, <1>7, <1>8, <1>9, <1>10, <1>11, <1>12 DEF Next, ClientStep

\* A decision is flushed: the job has ended, is asked to stop, or is let go of.
LEMMA FlushOwns ==
    ASSUME IInv, Serialised, OneOwner, RequestGoals,
           NEW p \in Procs, Settle(p) \/ Finish(p)
    PROVE  OneOwner'
  <1>. DEFINE g == proc[p].goal
  <1>1. proc[p].pc \in {"settle", "finish"} /\ Permitted(p) /\ Flush(p)
    BY DEF Settle, Finish
  <1>. PICK j \in Jobs : j = proc[p].at
    BY <1>1, FlushIsLegal
  <1>2. /\ row'[j].status = g /\ \A i \in Jobs \ {j} : row'[i] = row[i]
        /\ g = row[j].status => row' = row
        /\ g = row[j].status \/ g \in Legal[row[j].status]
        /\ g \in {"cancelled", "failed", "cancel_requested", "retry_wait",
                  "timed_out", "succeeded"}
    BY <1>1, FlushIsLegal
  <1>3. PICK l : Become(p, l) /\ l.pc \in {"idle", "recover", "release"}
    <2>1. \A s, i : At(s, i).pc = s
      BY DEF At, Idle
    <2>2. Idle.pc = "idle" /\ \A o : Resting(o).pc \in {"idle", "recover"}
      BY <2>1 DEF Idle, Resting
    <2>. QED
      BY <2>1, <2>2 DEF Settle, Finish
  <1>4. UNCHANGED todo
    BY DEF Settle, Finish
  <1>5. \A i : NobodyTakes(i)
    BY <1>3, <1>4, StepFacts, WindowFacts, TakesFacts DEF WorkSteps
  <1>6. proc'[p] = l /\ \A o \in Procs \ {p} : proc'[o] = proc[o]
    BY <1>3, BecomeOnly
  <1>7. ASSUME NEW i \in Jobs, i # j PROVE HandedOver(i)'
    BY <1>2, <1>5, <1>7, Untouched DEF OneOwner
  <1>8. HandedOver(j)'
    <2>1. HandedOver(j)
      BY <1>2 DEF OneOwner
    <2>2. CASE g = row[j].status
      BY <1>2, <1>5, <2>1, <2>2, Untouched
    <2>3. CASE g \in {"cancel_requested"} \union Terminal
      BY <1>2, <1>5, <2>1, <2>3, Stopping
    <2>4. CASE g = "retry_wait" /\ g # row[j].status
      <3>1. row[j].status = "running"
        BY <1>1, <1>2, <2>4, LegalFacts, FlushIsLegal DEF Claimable, Row
      <3>2. InWindow(p, j)
        BY <1>1, WindowFacts DEF InWindow
      <3>3. p \in Threads \union {Maintenance}
        <4>1. proc[p].pc = "finish" => p \in Threads
          BY StepFacts DEF IInv, LocalInv
        <4>. QED
          BY <1>1, <2>4, <4>1 DEF RequestGoals, Procs
      <3>4. CASE p \in Threads
        <4>1. Works(p, j)
          BY <1>1, <3>4, StepFacts DEF Works, WorkSteps
        <4>2. j \notin todo /\ \A u \in Threads : Works(u, j) => u = p
          BY <2>1, <3>1, <3>4, <4>1 DEF HandedOver
        <4>3. ~InWindow(Maintenance, j)
          BY <1>2, <3>2, <3>4, ConstantsAssumption DEF Serialised, Procs
        <4>4. \A t \in Threads : ~Works(t, j)'
          BY <1>3, <1>5, <1>6, <3>4, <4>2, StepFacts DEF NobodyTakes, Works, WorkSteps
        <4>. QED
          BY <1>2, <1>5, <4>2, <4>3, <4>4, LetGo DEF NobodyTakes
      <3>5. CASE p = Maintenance
        <4>1. j \notin todo /\ \A t \in Threads : ~Works(t, j)
          BY <2>1, <3>1, <3>2, <3>5 DEF HandedOver
        <4>2. ~InWindow(Maintenance, j)'
          BY <1>3, <1>6, <3>5, WindowFacts DEF InWindow
        <4>. QED
          BY <1>2, <1>5, <4>1, <4>2, LetGo DEF NobodyTakes
      <3>. QED
        BY <3>3, <3>4, <3>5
    <2>. QED
      BY <1>2, <2>2, <2>3, <2>4, StatusFacts
  <1>. QED
    BY <1>7, <1>8 DEF OneOwner

\* A job that can be claimed is in nobody's hands.
LEMMA ClaimOwns ==
    ASSUME AtomicHandlers, IInv, OneOwner, NEW t \in Threads, ClaimStep(t)
    PROVE  OneOwner'
  <1>1. PICK j \in Jobs : Claim(t, j) \/ ClaimExhausted(t, j)
    BY DEF ClaimStep
  <1>2. /\ t \in Procs /\ t # Maintenance /\ Maintenance \in Procs
        /\ row \in [Jobs -> Row] /\ row[j] \in Row
    BY ConstantsAssumption DEF Procs, IInv, TypeOK
  <1>3. /\ Quiet(j) /\ row[j].status \in Claimable /\ UNCHANGED todo
        /\ \A i \in Jobs \ {j} : row'[i] = row[i]
        /\ proc[t].pc = "idle"
    BY <1>2, <1>1 DEF Claim, ClaimExhausted, Ready
  <1>4. HandedOver(j) /\ row[j].status \notin {"running", "cancel_requested"} \union Terminal
    BY <1>3, StatusFacts DEF OneOwner, Claimable
  <1>5. j \notin todo /\ ~InWindow(Maintenance, j) /\ \A u \in Threads : ~Works(u, j)
    BY <1>2, <1>3, <1>4 DEF HandedOver, Quiet, InWindow
  <1>6. PICK s \in {"start", "release"} : Become(t, At(s, j)) /\ (s = "start" => Claim(t, j))
    BY <1>1 DEF Claim, ClaimExhausted
  <1>7. At(s, j).pc = s /\ At(s, j).at = j
    BY DEF At, Idle
  <1>8. proc'[t] = At(s, j) /\ \A o \in Procs \ {t} : proc'[o] = proc[o]
    BY <1>2, <1>6, BecomeOnly
  <1>9. Threads \subseteq Procs
    BY DEF Procs
  <1>10. \A u \in Threads : Works(u, j)' => u = t /\ s = "start"
    BY <1>5, <1>7, <1>8, <1>9, StepFacts DEF Works, WorkSteps
  <1>11. ~InWindow(Maintenance, j)' /\ j \notin todo'
    BY <1>2, <1>3, <1>5, <1>8 DEF InWindow
  <1>12. s = "start" => row'[j].status = "running" /\ row'[j].worker = WorkerOf[t]
                        /\ row'[j].lease = "live"
    BY <1>2, <1>6 DEF Claim, Row
  <1>13. HandedOver(j)'
    BY <1>10, <1>11, <1>12 DEF HandedOver
  <1>14. ASSUME NEW i \in Jobs, i # j PROVE HandedOver(i)'
    <2>1. NobodyTakes(i)
      BY <1>2, <1>3, <1>7, <1>8, <1>9, <1>14 DEF NobodyTakes, Works, InWindow
    <2>. QED
      BY <1>3, <1>14, <2>1, Untouched DEF OneOwner
  <1>. QED
    BY <1>13, <1>14 DEF OneOwner

\* A row is created or removed: nobody has it in hand.
LEMMA RowsOwns ==
    ASSUME IInv, OneOwner,
           \/ \E c \in Clients : SubmitInsert(c)
           \/ \E S \in SUBSET Jobs : PurgeHistory(S)
    PROVE  OneOwner'
  <1>1. /\ Clients \subseteq Procs /\ Threads \subseteq Procs /\ Maintenance \in Procs
        /\ row \in [Jobs -> Row]
    BY DEF Procs, IInv, TypeOK
  <1>2. ASSUME NEW c \in Clients, SubmitInsert(c) PROVE OneOwner'
    <2>1. PICK j \in Jobs : /\ row[j].status = "absent"
                            /\ row' = [row EXCEPT ![j] = proc[c].mem]
                            /\ \/ Become(c, Idle)
                               \/ Become(c, At("reserve", j))
      BY <1>2 DEF SubmitInsert
    <2>2. PICK l : Become(c, l) /\ l.pc \notin WorkSteps
      <3>1. Idle.pc = "idle" /\ At("reserve", j).pc = "reserve"
        BY DEF Idle, At
      <3>. QED
        BY <2>1, <3>1, StepFacts DEF WorkSteps
    <2>3. UNCHANGED todo
      BY <1>2 DEF SubmitInsert
    <2>4. \A i : NobodyTakes(i)
      BY <1>1, <2>2, <2>3, WindowFacts, TakesFacts
    <2>5. ~Exists(j)
      BY <2>1 DEF Exists, Present
    <2>6. j \notin todo /\ ~InWindow(Maintenance, j) /\ \A t \in Threads : ~Works(t, j)
      BY <1>1, <2>5, InHandFacts, WindowFacts, StepFacts
         DEF InWindow, Works, WorkSteps, IInv, Exists
    <2>7. HandedOver(j)'
      BY <2>4, <2>6, LetGo DEF NobodyTakes
    <2>8. ASSUME NEW i \in Jobs, i # j PROVE HandedOver(i)'
      <3>1. row'[i] = row[i]
        BY <1>1, <2>1, <2>8
      <3>. QED
        BY <2>4, <3>1, Untouched DEF OneOwner
    <2>. QED
      BY <2>7, <2>8 DEF OneOwner
  <1>3. ASSUME NEW S \in SUBSET Jobs, PurgeHistory(S) PROVE OneOwner'
    <2>1. /\ \A j \in Jobs \ S : row'[j] = row[j]
          /\ \A j \in S : j \notin todo /\ \A o \in Procs : proc[o].at # j
          /\ Become(Maintenance, At("orphans", None)) /\ UNCHANGED todo
      BY <1>3 DEF PurgeHistory, Forgotten
    <2>2. At("orphans", None).pc = "orphans"
      BY DEF At, Idle
    <2>3. \A i : NobodyTakes(i)
      BY <1>1, <2>1, <2>2, WindowFacts, StepFacts, TakesFacts DEF WorkSteps
    <2>4. ASSUME NEW j \in S PROVE HandedOver(j)'
      <3>1. j \notin todo /\ ~InWindow(Maintenance, j) /\ \A t \in Threads : ~Works(t, j)
        BY <1>1, <2>1 DEF InWindow, Works
      <3>. QED
        BY <2>3, <3>1, LetGo DEF NobodyTakes
    <2>5. ASSUME NEW j \in Jobs \ S PROVE HandedOver(j)'
      BY <2>1, <2>3, Untouched DEF OneOwner
    <2>. QED
      BY <2>4, <2>5 DEF OneOwner
  <1>. QED
    BY <1>2, <1>3

\* The steps that write another column of a row than its status.
LEMMA ColumnOwns ==
    ASSUME IInv, Serialised, OneOwner,
           \/ \E c \in Clients : BindQuota(c)
           \/ \E t \in Threads : Ping(t) \/ Store(t)
    PROVE  OneOwner'
  <1>1. /\ Clients \subseteq Procs /\ Threads \subseteq Procs /\ row \in [Jobs -> Row]
        /\ Maintenance \notin Threads \union Clients
    BY ConstantsAssumption DEF Procs, IInv, TypeOK
  <1>2. \A s, j : At(s, j).pc = s /\ At(s, j).at = j
    BY DEF At, Idle
  <1>3. ASSUME NEW c \in Clients, BindQuota(c) PROVE OneOwner'
    <2>1. /\ \A i \in Jobs : /\ row'[i].status = row[i].status
                             /\ row'[i].worker = row[i].worker /\ row'[i].lease = row[i].lease
          /\ Become(c, Idle) /\ UNCHANGED todo
      BY <1>1, <1>3 DEF BindQuota, Row
    <2>2. \A i : NobodyTakes(i)
      BY <1>1, <2>1, WindowFacts, StepFacts, TakesFacts DEF WorkSteps, Idle
    <2>. QED
      BY <2>1, <2>2, Untouched DEF OneOwner
  <1>4. ASSUME NEW t \in Threads, Store(t) PROVE OneOwner'
    <2>1. /\ \A i \in Jobs : /\ row'[i].status = row[i].status
                             /\ row'[i].worker = row[i].worker /\ row'[i].lease = row[i].lease
          /\ Become(t, At("reload", proc[t].at)) /\ UNCHANGED todo /\ proc[t].pc = "store"
      BY <1>1, <1>4 DEF Store, Row
    <2>2. \A i : NobodyTakes(i)
      BY <1>1, <1>2, <2>1, WindowFacts, StepFacts, TakesFacts DEF WorkSteps
    <2>. QED
      BY <2>1, <2>2, Untouched DEF OneOwner
  <1>5. ASSUME NEW t \in Threads, Ping(t) PROVE OneOwner'
    <2>1. proc[t].pc \in {"ping5", "ping20", "ping90"}
      BY <1>5 DEF Ping, AfterPing
    <2>. PICK j \in Jobs : j = proc[t].at
      BY <1>1, <2>1, InHandFacts, WindowFacts
    <2>2. /\ \A i \in Jobs \ {j} : row'[i] = row[i]
          /\ row'[j].status = row[j].status /\ row'[j].worker = row[j].worker
          /\ row'[j].lease = "live" /\ UNCHANGED todo
      BY <1>1, <1>5 DEF Ping, Row
    <2>3. PICK s \in {"resume", "work", "complete", "timeout"} : Become(t, At(s, j))
      BY <1>5 DEF Ping, AfterPing
    <2>4. \A i : NobodyTakes(i)
      BY <1>1, <1>2, <2>1, <2>2, <2>3, WindowFacts, StepFacts, TakesFacts DEF WorkSteps
    <2>5. Works(t, j) /\ HandedOver(j)
      BY <2>1, WindowFacts DEF Works, OneOwner
    <2>6. HandedOver(j)'
      <3>1. CASE row[j].status = "running"
        BY <2>2, <2>4, <2>5, <3>1, Untouched DEF HandedOver
      <3>2. CASE row[j].status \in {"cancel_requested"} \union Terminal
        BY <2>2, <2>4, <2>5, <3>2, Stopping
      <3>. QED
        BY <2>5, <3>1, <3>2 DEF HandedOver
    <2>7. ASSUME NEW i \in Jobs, i # j PROVE HandedOver(i)'
      BY <2>2, <2>4, <2>7, Untouched DEF OneOwner
    <2>. QED
      BY <2>6, <2>7 DEF OneOwner
  <1>. QED
    BY <1>3, <1>4, <1>5

\* Maintenance takes over jobs whose lease has run out.
LEMMA RecoverOwns ==
    ASSUME IInv, OneOwner, Snapshot \/ RecoverNext
    PROVE  OneOwner'
  <1>1. /\ Maintenance \in Procs /\ Maintenance \notin Threads /\ Threads \subseteq Procs
        /\ UNCHANGED row
    BY ConstantsAssumption DEF Procs, Snapshot, RecoverNext
  <1>2. CASE Become(Maintenance, At("history", None)) /\ UNCHANGED todo
    <2>1. At("history", None).pc = "history"
      BY DEF At, Idle
    <2>2. \A i : NobodyTakes(i)
      BY <1>1, <1>2, <2>1, WindowFacts, StepFacts, TakesFacts DEF WorkSteps
    <2>. QED
      BY <1>1, <2>2, BystanderOwns
  <1>3. ASSUME NEW j \in Jobs, NEW T, j \in T, todo' = T \ {j},
               Become(Maintenance, Window("settle", j, row[j], RecoveryGoal(row[j]))),
               \A i \in T \intersect Jobs :
                   /\ row[i].status \in {"running", "cancel_requested"} \union Terminal
                   /\ row[i].status = "running" => row[i].lease = "expired"
        PROVE  OneOwner'
    <2>1. \A m, g : Window("settle", j, m, g).pc = "settle" /\ Window("settle", j, m, g).at = j
      BY DEF Window
    <2>2. /\ \A o \in Procs \ {Maintenance} : proc'[o] = proc[o]
          /\ proc'[Maintenance].at = j /\ proc'[Maintenance].pc = "settle"
      BY <1>1, <1>3, <2>1, BecomeOnly
    <2>3. ASSUME NEW i \in Jobs PROVE HandedOver(i)'
      <3>1. \A t \in Threads : Works(t, i)' <=> Works(t, i)
        BY <1>1, <2>2 DEF Works
      <3>2. InWindow(Maintenance, i)' => i = j
        BY <2>2 DEF InWindow
      <3>3. row'[i] = row[i]
        BY <1>1
      <3>. QED
        BY <1>3, <3>1, <3>2, <3>3 DEF HandedOver, OneOwner, Terminal, Lifecycle!Terminal
    <2>. QED
      BY <2>3 DEF OneOwner
  <1>4. CASE Snapshot
    <2>1. Lapsed \subseteq Jobs
          /\ \A i \in Lapsed : /\ row[i].status \in {"running", "cancel_requested"}
                               /\ row[i].lease = "expired"
      BY DEF Lapsed
    <2>. QED
      BY <1>2, <1>3, <1>4, <2>1 DEF Snapshot
  <1>5. CASE RecoverNext
    <2>1. todo \subseteq Jobs /\ \A i \in todo : HandedOver(i)
      BY DEF IInv, TypeOK, OneOwner
    <2>. QED
      BY <1>2, <1>3, <1>5, <2>1 DEF RecoverNext, HandedOver
  <1>. QED
    BY <1>4, <1>5

\* A lease that is renewed in time runs out only when its worker is gone.
LEMMA LeaseOwns ==
    ASSUME LeasesHold, IInv, OneOwner, NEW j \in Jobs, LeaseLapses(j)
    PROVE  OneOwner'
  <1>1. /\ row \in [Jobs -> Row] /\ UNCHANGED <<proc, todo>>
        /\ row' = [row EXCEPT ![j].lease = "expired"]
    BY DEF LeaseLapses, IInv, TypeOK
  <1>2. /\ row'[j].status = row[j].status /\ row'[j].lease = "expired"
        /\ \A i \in Jobs \ {j} : row'[i] = row[i]
    BY <1>1 DEF Row
  <1>3. \A i : NobodyTakes(i)
    BY <1>1 DEF NobodyTakes, Works, InWindow
  <1>4. HandedOver(j)
    BY DEF OneOwner
  <1>5. CASE row[j].status = "cancel_requested"
    <2>1. HandedOver(j)'
      BY <1>2, <1>3, <1>4, <1>5, Stopping
    <2>. QED
      BY <1>2, <1>3, <2>1, Untouched DEF OneOwner
  <1>6. CASE row[j].status = "running"
    <2>1. \A t \in Threads : ~Works(t, j)
      BY <1>4, <1>6 DEF HandedOver, LeaseLapses, Works
    <2>2. \A t \in Threads : ~Works(t, j)'
      BY <1>3, <2>1 DEF NobodyTakes
    <2>3. HandedOver(j)'
      BY <1>2, <1>3, <1>4, <1>6, <2>2 DEF HandedOver, NobodyTakes
    <2>. QED
      BY <1>2, <1>3, <2>3, Untouched DEF OneOwner
  <1>. QED
    BY <1>5, <1>6 DEF LeaseLapses

\* Initially no job exists.
LEMMA InitOwns == Init => OneOwner /\ RequestGoals
  BY StepFacts, WindowFacts
     DEF Init, OneOwner, RequestGoals, HandedOver, Works, InWindow, WorkSteps, Idle, Procs

\* No step puts a job in two threads' hands.
LEMMA NextOwns ==
    ASSUME AtomicHandlers, LeasesHold, IInv, Serialised, OneOwner, RequestGoals, [Next]_vars
    PROVE  OneOwner'
  <1>1. /\ Clients \subseteq Procs /\ Threads \subseteq Procs /\ Maintenance \in Procs
        /\ row \in [Jobs -> Row]
    BY DEF Procs, IInv, TypeOK
  <1>2. ASSUME NEW c \in Clients,
               \/ \E r \in Requests : SubmitLookup(c, r)
               \/ \E j \in Jobs : CancelLoad(c, j)
               \/ \E S \in SUBSET Quotas : ReleaseStale(c, S)
               \/ ClientStep(c)
        PROVE  OneOwner'
    <2>1. CASE SubmitInsert(c) \/ BindQuota(c) \/ Settle(c)
      BY <1>1, <2>1, RowsOwns, ColumnOwns, FlushOwns
    <2>. QED
      BY <1>1, <1>2, <2>1, QuietOwns DEF ClientStep
  <1>3. ASSUME NEW t \in Threads, ClaimStep(t) \/ ThreadStep(t) \/ Renew(t)
        PROVE  OneOwner'
    <2>1. CASE ClaimStep(t) \/ Ping(t) \/ Store(t) \/ Settle(t) \/ Finish(t)
      BY <1>1, <2>1, ClaimOwns, ColumnOwns, FlushOwns
    <2>2. CASE Renew(t)
      <3>. PICK j : j = proc[t].at
        OBVIOUS
      <3>1. Works(t, j) /\ row[j].status = "running" /\ row[j].lease = "expired"
        BY <2>2, StepFacts DEF Renew, HeartbeatSteps, Works, WorkSteps
      <3>2. j \in Jobs
        BY <1>1, <3>1, InHandFacts, StepFacts DEF Works, WorkSteps
      <3>. QED
        BY <3>1, <3>2 DEF OneOwner, HandedOver
    <2>. QED
      BY <1>1, <1>3, <2>1, <2>2, QuietOwns DEF ThreadStep
  <1>4. CASE MaintenanceStep
    BY <1>1, <1>4, RecoverOwns, RowsOwns, FlushOwns, QuietOwns DEF MaintenanceStep
  <1>5. ASSUME UNCHANGED row, todo' \subseteq todo, \A o \in Procs : proc'[o] \in {proc[o], Idle}
        PROVE  OneOwner'
    <2>1. Idle.pc = "idle"
      BY DEF Idle
    <2>2. \A i : NobodyTakes(i)
      BY <1>1, <1>5, <2>1, StepFacts, WindowFacts DEF NobodyTakes, Works, InWindow, WorkSteps
    <2>. QED
      BY <1>5, <2>2, BystanderOwns
  <1>6. ASSUME NEW w \in Workers, WorkerCrash(w) PROVE OneOwner'
    BY <1>5, <1>6 DEF WorkerCrash
  <1>7. ASSUME NEW p \in Clients \union {Maintenance}, Crash(p) PROVE OneOwner'
    BY <1>1, <1>5, <1>7, BecomeOnly DEF Crash
  <1>8. CASE UNCHANGED vars
    BY <1>5, <1>8 DEF vars
  <1>. QED
    BY <1>2, <1>3, <1>4, <1>6, <1>7, <1>8, LeaseOwns DEF Next

\* Two threads never execute the same job: recovery hands a job over only
\* when the worker that held it is gone.
THEOREM OneExecutor ==
    ASSUME AtomicHandlers, LeasesHold
    PROVE  Spec => []ExclusiveExecution
  <1>1. IInv /\ Serialised /\ OneOwner /\ RequestGoals /\ [Next]_vars
            => OneOwner' /\ RequestGoals'
    BY NextOwns, NextRequestGoals
  <1>2. IInv /\ OneOwner => ExclusiveExecution
    <2>1. \A t \in Threads : proc[t].pc \in ThreadSteps => t \in Procs /\ proc[t].pc \in JobSteps
      BY StepFacts DEF Procs
    <2>. QED
      BY <2>1, InHandFacts, StepFacts DEF OneOwner, HandedOver, Works, WorkSteps,
         ExclusiveExecution
  <1>3. Spec => []Serialised
    BY CopiesAreFresh
  <1>. QED
    BY <1>1, <1>2, <1>3, InitOwns, Invariance, PTL DEF Spec

\* Nothing rewrites a job that has ended, but the history cleanup.
THEOREM TerminalKept == ASSUME AtomicHandlers PROVE Spec => TerminalImmutable
  <1>1. ASSUME IInv, [Lifecycle!Next]_StatusOf
        PROVE  \A j \in Jobs : row[j].status \in Terminal =>
                   row'[j].status \in {row[j].status, "deleted"}
    <2>1. \A j \in Jobs : StatusOf[j] = row[j].status /\ StatusOf'[j] = row'[j].status
      BY DEF StatusOf
    <2>2. CASE \E j \in Jobs : Lifecycle!Create(j)
      BY <2>1, <2>2, StatusFacts DEF Lifecycle!Create, StatusOf
    <2>3. ASSUME NEW j \in Jobs, Lifecycle!Move(j)
          PROVE  \A i \in Jobs : row[i].status \in Terminal => row'[i].status = row[i].status
      <3>1. \E s \in Legal[row[j].status] : StatusOf' = [StatusOf EXCEPT ![j] = s]
        BY <2>1, <2>3 DEF Lifecycle!Move, Legal, StatusOf
      <3>2. row[j].status \in Statuses
        BY <1>1 DEF IInv, TypeOK, Row
      <3>3. \A i \in Jobs \ {j} : StatusOf'[i] = StatusOf[i]
        BY <3>1 DEF StatusOf
      <3>. QED
        BY <2>1, <3>1, <3>2, <3>3, LegalFacts, StatusFacts
    <2>4. CASE \E S \in SUBSET Jobs : Lifecycle!Purge(S)
      BY <2>1, <2>4 DEF Lifecycle!Purge, StatusOf
    <2>5. CASE StatusOf' = StatusOf
      BY <2>1, <2>5
    <2>. QED
      BY <1>1, <2>2, <2>3, <2>4, <2>5 DEF Lifecycle!Next
  <1>2. IInv /\ Serialised /\ [Next]_vars =>
          [\A j \in Jobs : row[j].status \in Terminal =>
               row'[j].status \in {row[j].status, "deleted"}]_vars
    BY <1>1, StepsOfLife
  <1>. QED
    BY <1>2, CopiesAreFresh, Invariance, PTL DEF Spec, TerminalImmutable

\* Jobs that may still run, and requests about to bind the event of key q.
Active(j) == row[j].status \in {"queued", "retry_wait", "running", "cancel_requested"}
Binds(c, q) == proc[c].pc = "bind" /\ QuotaOf[row[proc[c].at].req] = q

\* An event nobody has reserved belongs to no job; the one reserved for a job
\* that may still run is bound to no other job and on nobody's list of orphans.
Funding(q) ==
    /\ evt[q].status = "absent" =>
          /\ evt[q].job = None /\ q \notin orphans
          /\ \A i \in Jobs : row[i].quota # q
          /\ \A c \in Clients : ~Binds(c, q)
    /\ evt[q].status # "absent" =>
          evt[q].job \in Jobs /\ row[evt[q].job].status # "absent"
    /\ evt[q].job \in Jobs /\ Active(evt[q].job) =>
          /\ evt[q].status \in {"reserved", "succeeded"} /\ q \notin orphans
          /\ evt[q].status = "reserved" =>
                /\ \A i \in Jobs : row[i].quota = q => i = evt[q].job
                /\ \A c \in Clients : Binds(c, q) => proc[c].at = evt[q].job

Funded == \A q \in Quotas : Funding(q)

\* Nobody binds an event in this step, and no job begins or comes back to life.
NobodyBinds ==
    /\ \A c \in Clients : proc'[c] = proc[c] \/ proc'[c].pc # "bind"
    /\ \A c \in Clients : proc[c].pc = "bind" =>
          row'[proc[c].at].req = row[proc[c].at].req
    /\ \A i \in Jobs : row'[i].quota \in {row[i].quota, None}
    /\ \A i \in Jobs : row[i].status # "absent" => row'[i].status # "absent"
    /\ \A i \in Jobs : Active(i)' => Active(i) \/ row[i].status = "absent"

\* Such a step keeps the funding of a key whose event it leaves alone,
LEMMA KeptFunding ==
    ASSUME NobodyBinds, NEW q \in Quotas, Funding(q), evt'[q] = evt[q],
           q \in orphans' => q \in orphans
    PROVE  Funding(q)'
  <1>1. q # None
    BY ConstantsAssumption
  <1>2. \A c \in Clients : Binds(c, q)' => Binds(c, q) /\ proc'[c] = proc[c]
    BY DEF NobodyBinds, Binds
  <1>3. \A i \in Jobs : row'[i].quota = q => row[i].quota = q
    BY <1>1 DEF NobodyBinds
  <1>4. ASSUME evt'[q].job \in Jobs, Active(evt[q].job)' PROVE Active(evt[q].job)
    <2>. PICK j \in Jobs : j = evt[q].job
      BY <1>4
    <2>1. Active(j)'
      BY <1>4 DEF Active
    <2>2. row[j].status # "absent"
      BY ConstantsAssumption DEF Funding
    <2>3. Active(j)
      BY <2>1, <2>2 DEF NobodyBinds
    <2>. QED
      BY <2>3
  <1>5. evt'[q].status # "absent" =>
          evt'[q].job \in Jobs /\ row'[evt'[q].job].status # "absent"
    BY DEF Funding, NobodyBinds
  <1>. QED
    BY <1>2, <1>3, <1>4, <1>5 DEF Funding

\* and of one whose reservation it releases, unless it funds an active job.
LEMMA EventFunding ==
    ASSUME NobodyBinds, NEW q \in Quotas, Funding(q), evt[q].status # "absent",
           evt'[q].status # "absent", evt'[q].job = evt[q].job,
           q \in orphans' => q \in orphans,
           Active(evt[q].job) => evt'[q].status = "succeeded"
    PROVE  Funding(q)'
  <1>. PICK j \in Jobs : j = evt[q].job /\ row[j].status # "absent"
    BY DEF Funding
  <1>1. Active(j)' => Active(j)
    BY DEF NobodyBinds
  <1>2. row'[j].status # "absent"
    BY DEF NobodyBinds
  <1>3. ASSUME evt'[q].job \in Jobs, Active(evt[q].job)'
        PROVE  evt'[q].status = "succeeded" /\ q \notin orphans'
    <2>1. Active(j)'
      BY <1>3 DEF Active
    <2>2. Active(evt[q].job)
      BY <1>1, <2>1
    <2>. QED
      BY <2>2 DEF Funding
  <1>. QED
    BY <1>2, <1>3 DEF Funding

\* The key and binding of every row stay, and no ended job comes back.
RowsKept ==
    \A i \in Jobs :
        /\ row'[i].quota = row[i].quota /\ row'[i].req = row[i].req
        /\ row[i].status # "absent" => row'[i].status # "absent"
        /\ Active(i)' => Active(i)

\* A request that is about to bind an event has created its job.
LEMMA BindsFacts ==
    ASSUME IInv, NEW c \in Clients, proc[c].pc = "bind"
    PROVE  proc[c].at \in Jobs /\ row[proc[c].at].status # "absent"
                               /\ QuotaOf[row[proc[c].at].req] # None
  <1>1. c \in Procs /\ proc[c].pc \in JobSteps
    BY StepFacts DEF Procs
  <1>2. proc[c].at \in Jobs /\ Present(row[proc[c].at])
    BY <1>1, InHandFacts
  <1>3. QuotaOf[row[proc[c].at].req] # None
    BY <1>1 DEF IInv, LocalInv, PayingSteps
  <1>. QED
    BY <1>2, <1>3 DEF Present

\* A step of p that ends anywhere but at "bind".
LEMMA UnboundStep ==
    ASSUME IInv, RowsKept, NEW p \in Procs, NEW l, Become(p, l), l.pc # "bind"
    PROVE  NobodyBinds
  <1>1. Clients \subseteq Procs
    BY DEF Procs
  <1>2. proc'[p] = l /\ \A o \in Procs \ {p} : proc'[o] = proc[o]
    BY BecomeOnly
  <1>. QED
    BY <1>1, <1>2, BindsFacts DEF NobodyBinds, RowsKept

\* A step that touches neither events nor the list of orphans.
LEMMA KeptFunded ==
    ASSUME Funded, NobodyBinds, UNCHANGED evt, orphans' \subseteq orphans
    PROVE  Funded'
  BY KeptFunding DEF Funded

\* Writes of a status, a lease, a worker, a result.
LEMMA RowsKeptFacts ==
    ASSUME IInv,
           \/ UNCHANGED row
           \/ \E p \in Procs : Permitted(p) /\ Flush(p) /\ Serialised
                               /\ proc[p].pc \in {"settle", "finish"}
           \/ \E t \in Threads : ClaimStep(t) \/ Ping(t) \/ Store(t) \/ Renew(t)
           \/ \E j \in Jobs : LeaseLapses(j)
    PROVE  RowsKept
  <1>1. row \in [Jobs -> Row]
    BY DEF IInv, TypeOK
  <1>2. CASE UNCHANGED row
    BY <1>2 DEF RowsKept, Active
  <1>3. ASSUME NEW p \in Procs, Permitted(p), Flush(p), Serialised,
               proc[p].pc \in {"settle", "finish"}
        PROVE  RowsKept
    <2>. PICK j \in Jobs : j = proc[p].at
      BY <1>3, FlushIsLegal
    <2>1. /\ \A i \in Jobs \ {j} : row'[i] = row[i]
          /\ row'[j].quota = row[j].quota /\ row'[j].req = row[j].req
          /\ row'[j].status = row[j].status \/ row'[j].status \in Legal[row[j].status]
          /\ row[j].status \in Statuses /\ row'[j].status # "absent"
      BY <1>3, FlushIsLegal DEF Row
    <2>2. Active(j)' => Active(j)
      BY <2>1, LegalFacts, StatusFacts DEF Active
    <2>. QED
      BY <2>1, <2>2 DEF RowsKept, Active
  <1>4. ASSUME NEW t \in Threads, ClaimStep(t) PROVE RowsKept
    <2>1. PICK j \in Jobs : Claim(t, j) \/ ClaimExhausted(t, j)
      BY <1>4 DEF ClaimStep
    <2>2. row[j].status \in Claimable /\ row[j] \in Row
      BY <1>1, <2>1 DEF Claim, ClaimExhausted, Ready
    <2>3. \A i \in Jobs \ {j} : row'[i] = row[i]
      BY <1>1, <2>1 DEF Claim, ClaimExhausted
    <2>4. /\ row'[j].quota = row[j].quota /\ row'[j].req = row[j].req
          /\ row'[j].status \in {"running", "failed"}
      <3>1. CASE Claim(t, j)
        BY <1>1, <2>2, <3>1 DEF Claim, Row
      <3>2. CASE ClaimExhausted(t, j)
        BY <1>1, <2>2, <3>2, TransitionedFacts, StatusFacts DEF ClaimExhausted
      <3>. QED
        BY <2>1, <3>1, <3>2
    <2>. QED
      BY <2>2, <2>3, <2>4 DEF RowsKept, Active, Claimable
  <1>5. ASSUME NEW t \in Threads, Ping(t) \/ Store(t) \/ Renew(t) PROVE RowsKept
    BY <1>1, <1>5 DEF Ping, Store, Renew, Row, RowsKept, Active
  <1>6. ASSUME NEW j \in Jobs, LeaseLapses(j) PROVE RowsKept
    BY <1>1, <1>6 DEF LeaseLapses, Row, RowsKept, Active
  <1>. QED
    BY <1>2, <1>3, <1>4, <1>5, <1>6

\* A request reserves the event of its job, or finds it used.
LEMMA ReserveFunded ==
    ASSUME IInv, Funded, NEW c \in Clients, ReserveQuota(c)
    PROVE  Funded'
  <1>. PICK j : j = proc[c].at
    OBVIOUS
  <1>. PICK q : q = QuotaOf[row[j].req]
    OBVIOUS
  <1>1. /\ j \in Jobs /\ Present(row[j]) /\ q \in Quotas /\ c \in Procs
        /\ evt \in [Quotas -> Event] /\ Clients \subseteq Procs
    <2>1. c \in Procs /\ proc[c].pc \in PayingSteps /\ proc[c].pc \in JobSteps
      BY StepFacts DEF ReserveQuota, Procs, PayingSteps
    <2>2. j \in Jobs /\ Present(row[j]) /\ q # None /\ row[j].req \in Requests
      BY <2>1, InHandFacts DEF IInv, LocalInv, RowInv
    <2>. QED
      BY <2>1, <2>2, ConstantsAssumption DEF IInv, TypeOK, Procs
  <1>2. /\ Become(c, At("bind", j)) /\ UNCHANGED <<row, orphans>>
        /\ \/ /\ evt[q].status = "absent"
              /\ evt' = [evt EXCEPT ![q] = [status |-> "reserved", job |-> j]]
           \/ /\ evt[q].status = "released"
              /\ evt' = [evt EXCEPT ![q].status = "reserved"]
           \/ /\ evt[q].status = "succeeded"
              /\ evt' = evt
    <2>1. evt[q].status \in {"absent", "released", "succeeded"}
      BY <1>1 DEF ReserveQuota, Event
    <2>2. CASE evt[q].status = "absent"
      BY <2>2 DEF ReserveQuota
    <2>3. CASE evt[q].status = "released"
      BY <2>3 DEF ReserveQuota
    <2>4. CASE evt[q].status = "succeeded"
      BY <2>4 DEF ReserveQuota
    <2>. QED
      BY <2>1, <2>2, <2>3, <2>4
  <1>3. /\ proc'[c].pc = "bind" /\ proc'[c].at = j
        /\ \A d \in Clients \ {c} : proc'[d] = proc[d]
    <2>1. At("bind", j).pc = "bind" /\ At("bind", j).at = j
      BY DEF At, Idle
    <2>. QED
      BY <1>1, <1>2, <2>1, BecomeOnly
  <1>4. \A k : \A d \in Clients : Binds(d, k)' =>
            \/ Binds(d, k) /\ proc'[d] = proc[d]
            \/ d = c /\ k = q
    <2>1. row' = row
      BY <1>2
    <2>2. ASSUME NEW k, NEW d \in Clients, d # c, Binds(d, k)'
          PROVE  Binds(d, k) /\ proc'[d] = proc[d]
      BY <1>3, <2>1, <2>2 DEF Binds
    <2>3. ASSUME NEW k, Binds(c, k)' PROVE k = q
      BY <1>3, <2>1, <2>3 DEF Binds
    <2>. QED
      BY <2>2, <2>3
  <1>5. ASSUME NEW k \in Quotas \ {q} PROVE Funding(k)'
    <2>1. evt'[k] = evt[k] /\ Funding(k)
      BY <1>1, <1>2, <1>5 DEF Funded
    <2>2. \A d \in Clients : Binds(d, k)' => Binds(d, k) /\ proc'[d] = proc[d]
      BY <1>4, <1>5
    <2>. QED
      BY <1>2, <2>1, <2>2 DEF Funding, Active
  <1>6. Funding(q)'
    <2>1. Funding(q) /\ evt[q] \in Event
      BY <1>1 DEF Funded
    <2>2. CASE evt[q].status = "absent"
      <3>1. evt'[q].status = "reserved" /\ evt'[q].job = j
        BY <1>1, <1>2, <2>2, SMTT(30)
      <3>2. \A d \in Clients : Binds(d, q)' => d = c
        BY <1>4, <2>1, <2>2 DEF Funding
      <3>3. \A i \in Jobs : row'[i].quota # q
        BY <1>2, <2>1, <2>2 DEF Funding
      <3>4. q \notin orphans' /\ row'[j].status # "absent"
        BY <1>1, <1>2, <2>1, <2>2 DEF Funding, Present
      <3>. QED
        BY <1>1, <1>3, <3>1, <3>2, <3>3, <3>4 DEF Funding
    <2>3. CASE evt[q].status = "released"
      <3>1. evt'[q].status = "reserved" /\ evt'[q].job = evt[q].job
        <4>1. evt' = [evt EXCEPT ![q].status = "reserved"]
          BY <1>2, <2>3
        <4>. QED
          BY <1>1, <2>1, <4>1 DEF Event
      <3>. QED
        BY <1>2, <2>1, <2>3, <3>1 DEF Funding, Active
    <2>4. CASE evt[q].status = "succeeded"
      BY <1>2, <2>1, <2>4 DEF Funding, Active
    <2>. QED
      BY <1>2, <2>2, <2>3, <2>4
  <1>. QED
    BY <1>5, <1>6 DEF Funded

\* A request binds the event it has reserved to its job.
LEMMA BindFunded ==
    ASSUME IInv, Funded, NEW c \in Clients, BindQuota(c)
    PROVE  Funded'
  <1>. PICK j : j = proc[c].at
    OBVIOUS
  <1>1. c \in Procs /\ Clients \subseteq Procs /\ j \in Jobs /\ row \in [Jobs -> Row]
    BY BindsFacts DEF BindQuota, Procs, IInv, TypeOK
  <1>2. /\ UNCHANGED <<evt, orphans>> /\ proc[c].pc = "bind"
        /\ row' = [row EXCEPT ![j].quota = QuotaOf[row[j].req]]
        /\ Become(c, Idle)
    BY DEF BindQuota
  <1>3. /\ row'[j].quota = QuotaOf[row[j].req]
        /\ \A i \in Jobs \ {j} : row'[i] = row[i]
        /\ \A i \in Jobs : row'[i].status = row[i].status /\ row'[i].req = row[i].req
    BY <1>1, <1>2 DEF Row
  <1>4. \A d \in Clients : proc'[d].pc = "bind" => proc'[d] = proc[d] /\ d # c
    <2>1. Idle.pc = "idle"
      BY DEF Idle
    <2>. QED
      BY <1>1, <1>2, <2>1, BecomeOnly
  <1>5. ASSUME NEW q \in Quotas PROVE Funding(q)'
    <2>1. Funding(q)
      BY DEF Funded
    <2>2. \A d \in Clients : Binds(d, q)' => Binds(d, q) /\ proc'[d] = proc[d]
      BY <1>3, <1>4, BindsFacts DEF Binds
    <2>3. \A i \in Jobs : row'[i].quota = q => row[i].quota = q \/ (i = j /\ Binds(c, q))
      BY <1>2, <1>3 DEF Binds
    <2>. QED
      BY <1>2, <1>3, <2>1, <2>2, <2>3, SMTT(30) DEF Funding, Active
  <1>. QED
    BY <1>5 DEF Funded

\* A job is created: no event was reserved for it before.
LEMMA InsertFunded ==
    ASSUME IInv, Funded, NEW c \in Clients, SubmitInsert(c)
    PROVE  Funded'
  <1>1. PICK j \in Jobs : /\ row[j].status = "absent"
                          /\ row' = [row EXCEPT ![j] = proc[c].mem]
                          /\ Become(c, Idle) \/ Become(c, At("reserve", j))
    BY DEF SubmitInsert
  <1>2. /\ c \in Procs /\ row \in [Jobs -> Row] /\ UNCHANGED <<evt, orphans>>
    BY DEF SubmitInsert, Procs, IInv, TypeOK
  <1>3. proc[c].mem.status = "queued" /\ proc[c].mem.quota = None
    <2>1. \A r : QueuedRow(r).status = "queued" /\ QueuedRow(r).quota = None
      BY DEF QueuedRow, NoRow
    <2>2. proc[c].mem = QueuedRow(proc[c].mem.req)
      BY <1>2 DEF SubmitInsert, IInv, LocalInv
    <2>. QED
      BY <2>1, <2>2
  <1>4. /\ row'[j].status = "queued" /\ row'[j].quota = None
        /\ \A i \in Jobs \ {j} : row'[i] = row[i]
    BY <1>1, <1>2, <1>3
  <1>5. \A d \in Clients : proc'[d] = proc[d] \/ proc'[d].pc # "bind"
    <2>1. Idle.pc = "idle" /\ At("reserve", j).pc = "reserve"
      BY DEF Idle, At
    <2>. QED
      BY <1>1, <1>2, <2>1, BecomeOnly DEF Procs
  <1>6. NobodyBinds
    BY <1>1, <1>4, <1>5, BindsFacts DEF NobodyBinds, Active
  <1>. QED
    BY <1>2, <1>6, KeptFunded

\* A unit is charged or released: the event's job is paid for, or has ended.
LEMMA SettledFunded ==
    ASSUME AtomicHandlers, IInv, Serialised, Funded,
           \/ \E t \in Threads : Charge(t)
           \/ \E p \in Procs : ReleaseQuota(p)
           \/ \E q \in Quotas : OrphanRelease(q)
    PROVE  Funded'
  <1>1. /\ Idle.pc = "idle" /\ Maintenance \in Procs /\ Threads \subseteq Procs
        /\ \A s, j : At(s, j).pc = s
        /\ evt \in [Quotas -> Event]
    BY DEF Idle, Procs, At, IInv, TypeOK
  <1>2. \A q \in Quotas : Funding(q) /\ evt[q] \in Event
    BY <1>1 DEF Funded
  <1>3. ASSUME NEW p \in Procs, NEW l, Become(p, l), l.pc # "bind", UNCHANGED row,
               NEW q \in Quotas, NEW e \in Event, evt' = [evt EXCEPT ![q] = e],
               e.job = evt[q].job, orphans' \subseteq orphans,
               e = evt[q] \/ (evt[q].status # "absent" /\ e.status # "absent"),
               e = evt[q] \/ (Active(evt[q].job) => e.status = "succeeded")
        PROVE  Funded'
    <2>1. NobodyBinds
      BY <1>3, RowsKeptFacts, UnboundStep
    <2>2. evt'[q] = e /\ \A k \in Quotas \ {q} : evt'[k] = evt[k]
      BY <1>1, <1>3
    <2>3. Funding(q)'
      BY <1>2, <1>3, <2>1, <2>2, KeptFunding, EventFunding
    <2>. QED
      BY <1>2, <1>3, <2>1, <2>2, <2>3, KeptFunding DEF Funded
  <1>4. ASSUME NEW t \in Threads, Charge(t) PROVE Funded'
    <2>1. PICK l : Become(t, l) /\ l.pc # "bind"
      <3>1. proc[t] \in LocalState /\ [proc[t] EXCEPT !.pc = "finish"].pc = "finish"
        BY <1>1 DEF IInv, TypeOK, LocalState
      <3>2. \/ Become(t, [proc[t] EXCEPT !.pc = "finish"])
            \/ \E s \in {"recheck", "onRetryable"} : Become(t, At(s, proc[t].at))
        BY <1>4 DEF Charge
      <3>. QED
        BY <1>1, <3>1, <3>2
    <2>. PICK q : q = proc[t].mem.quota
      OBVIOUS
    <2>2. q \in Quotas
      <3>1. /\ proc[t].mem.quota # None /\ proc[t] \in LocalState
        BY <1>1, <1>4 DEF Charge, IInv, TypeOK, LocalInv
      <3>. QED
        BY <3>1 DEF LocalState, Row
    <2>3. UNCHANGED <<row, orphans>>
      BY <1>4 DEF Charge
    <2>4. \/ evt' = evt
          \/ evt[q].status = "reserved" /\ evt' = [evt EXCEPT ![q].status = "succeeded"]
      BY <1>4 DEF Charge, Chargeable
    <2>5. CASE evt' = evt
      BY <1>1, <2>1, <2>3, <2>5, RowsKeptFacts, UnboundStep, KeptFunded
    <2>6. CASE evt[q].status = "reserved" /\ evt' = [evt EXCEPT ![q].status = "succeeded"]
      <3>. PICK e : e = [evt[q] EXCEPT !.status = "succeeded"]
        OBVIOUS
      <3>1. e \in Event /\ e.status = "succeeded" /\ e.job = evt[q].job
        BY <1>2, <2>2 DEF Event
      <3>2. evt' = [evt EXCEPT ![q] = e] /\ evt[q].status # "absent"
        BY <2>6
      <3>3. orphans' \subseteq orphans /\ UNCHANGED row /\ t \in Procs
        BY <1>1, <2>3
      <3>. QED
        BY <1>3, <2>1, <2>2, <3>1, <3>2, <3>3
    <2>. QED
      BY <2>4, <2>5, <2>6
  <1>5. \A e \in Event : /\ Released(e) \in Event /\ Released(e).job = e.job
                         /\ Released(e).status = "absent" <=> e.status = "absent"
                         /\ e.status # "reserved" => Released(e) = e
    BY DEF Released, Event
  <1>6. ASSUME NEW p \in Procs, ReleaseQuota(p) PROVE Funded'
    <2>. PICK j : j = proc[p].at
      OBVIOUS
    <2>. PICK q : q = row[j].quota
      OBVIOUS
    <2>1. /\ proc[p].pc = "release" /\ UNCHANGED <<row, orphans>>
          /\ evt' = IF q = None THEN evt ELSE [evt EXCEPT ![q] = Released(@)]
          /\ Become(p, Resting(p))
      BY <1>6 DEF ReleaseQuota
    <2>2. j \in Jobs /\ row[j] \in Row /\ row[j].status \in Terminal
      BY <2>1, InHandFacts, StepFacts DEF Serialised
    <2>3. q \in Quotas \union {None}
      BY <2>2 DEF Row
    <2>4. Resting(p).pc # "bind"
      BY <1>1 DEF Resting
    <2>5. CASE q = None
      BY <2>1, <2>4, <2>5, RowsKeptFacts, UnboundStep, KeptFunded
    <2>6. CASE q # None
      <3>1. q \in Quotas /\ Funding(q) /\ evt[q] \in Event
        BY <1>2, <2>3, <2>6
      <3>2. evt[q].status # "absent"
        BY <2>2, <3>1 DEF Funding
      <3>3. evt[q].status = "reserved" /\ Active(evt[q].job) => FALSE
        BY <2>2, <3>1, <3>2, StatusFacts DEF Funding, Active
      <3>4. evt' = [evt EXCEPT ![q] = Released(evt[q])]
        BY <2>1, <2>6
      <3>. QED
        BY <1>3, <1>5, <2>1, <2>4, <3>1, <3>2, <3>3, <3>4
    <2>. QED
      BY <2>5, <2>6
  <1>7. ASSUME NEW q \in Quotas, OrphanRelease(q) PROVE Funded'
    <2>1. /\ q \in orphans /\ orphans' \subseteq orphans /\ UNCHANGED row
          /\ evt' = [evt EXCEPT ![q].status = "released"]
          /\ \E l : Become(Maintenance, l) /\ l.pc # "bind"
      BY <1>1, <1>7 DEF OrphanRelease, OrphanLeft
    <2>2. PICK l : Become(Maintenance, l) /\ l.pc # "bind"
      BY <2>1
    <2>3. evt[q].status # "absent" /\ ~Active(evt[q].job)
      BY <1>2, <2>1 DEF Funding
    <2>. PICK f : f = [evt[q] EXCEPT !.status = "released"]
      OBVIOUS
    <2>4. f \in Event /\ f.status # "absent" /\ f.job = evt[q].job
      BY <1>2, <2>3 DEF Event
    <2>5. evt' = [evt EXCEPT ![q] = f]
      BY <2>1
    <2>. QED
      BY <1>1, <1>3, <2>1, <2>2, <2>3, <2>4, <2>5
  <1>. QED
    BY <1>4, <1>6, <1>7

\* Maintenance looks for orphans, or forgets jobs that have ended.
LEMMA SweepFunded ==
    ASSUME IInv, Funded,
           OrphanSnapshot \/ \E S \in SUBSET Jobs : PurgeHistory(S)
    PROVE  Funded'
  <1>1. /\ Idle.pc = "idle" /\ Maintenance \in Procs /\ Clients \subseteq Procs
        /\ \A s, j : At(s, j).pc = s
    BY DEF Idle, Procs, At
  <1>2. CASE OrphanSnapshot
    <2>1. /\ UNCHANGED <<row, evt>> /\ orphans' = Orphaned
          /\ \E l : Become(Maintenance, l) /\ l.pc # "bind"
      BY <1>1, <1>2 DEF OrphanSnapshot
    <2>2. NobodyBinds
      BY <1>1, <2>1, RowsKeptFacts, UnboundStep
    <2>3. ASSUME NEW q \in Quotas PROVE Funding(q)'
      <3>1. Funding(q) /\ evt'[q] = evt[q]
        BY <2>1 DEF Funded
      <3>2. CASE q \notin Orphaned
        BY <2>1, <2>2, <3>1, <3>2, KeptFunding
      <3>3. CASE q \in Orphaned
        <4>1. /\ evt[q].status = "reserved"
              /\ \/ \E j \in Jobs : row[j].quota = q /\ row[j].status \in Terminal
                 \/ ~Exists(evt[q].job)
          BY <3>3 DEF Orphaned
        <4>2. ~Active(evt[q].job)
          BY <3>1, <4>1, StatusFacts DEF Funding, Active, Exists, Present
        <4>3. evt[q].job \in Jobs /\ row[evt[q].job].status # "absent"
          BY <3>1, <4>1 DEF Funding
        <4>. QED
          BY <2>1, <3>1, <4>1, <4>2, <4>3 DEF Funding, Active
      <3>. QED
        BY <3>2, <3>3
    <2>. QED
      BY <2>3 DEF Funded
  <1>3. ASSUME NEW S \in SUBSET Jobs, PurgeHistory(S) PROVE Funded'
    <2>1. /\ \A j \in Jobs : row'[j] = IF j \in S THEN [NoRow EXCEPT !.status = "deleted"]
                                      ELSE row[j]
          /\ \A j \in S : \A o \in Procs : proc[o].at # j
          /\ Become(Maintenance, At("orphans", None)) /\ UNCHANGED <<evt, orphans>>
      BY <1>3 DEF PurgeHistory, Forgotten
    <2>2. [NoRow EXCEPT !.status = "deleted"].status = "deleted"
          /\ [NoRow EXCEPT !.status = "deleted"].quota = None
      BY DEF NoRow
    <2>3. \A c \in Clients : proc'[c] = proc[c] \/ proc'[c].pc # "bind"
      BY <1>1, <2>1, BecomeOnly
    <2>4. NobodyBinds
      BY <1>1, <2>1, <2>2, <2>3, BindsFacts DEF NobodyBinds, Active
    <2>. QED
      BY <2>1, <2>4, KeptFunded
  <1>. QED
    BY <1>2, <1>3

\* Initially there are no events.
LEMMA InitFunded == Init => Funded
  BY ConstantsAssumption DEF Init, Funded, Funding, Binds, Idle, NoRow, Procs

\* Every step keeps active jobs funded, unless reservations expire by age.
LEMMA NextFunded ==
    ASSUME AtomicHandlers, ~ReservationsAge, IInv, Serialised, Funded, [Next]_vars
    PROVE  Funded'
  <1>1. /\ Clients \subseteq Procs /\ Threads \subseteq Procs /\ Maintenance \in Procs
        /\ Idle.pc = "idle" /\ \A s, j : At(s, j).pc = s
    BY DEF Procs, Idle, At
  <1>2. ASSUME RowsKept, UNCHANGED evt, orphans' \subseteq orphans,
               NEW p \in Procs, NEW l, Become(p, l), l.pc # "bind"
        PROVE  Funded'
    BY <1>2, UnboundStep, KeptFunded
  <1>3. ASSUME RowsKept, UNCHANGED evt, orphans' \subseteq orphans,
               \A c \in Clients : proc'[c] \in {proc[c], Idle}
        PROVE  Funded'
    <2>1. NobodyBinds
      BY <1>1, <1>3, BindsFacts DEF NobodyBinds, RowsKept
    <2>. QED
      BY <1>3, <2>1, KeptFunded
  <1>4. ASSUME NEW p \in Procs, Settle(p) \/ SettleRefused(p) \/ Finish(p)
        PROVE  Funded'
    <2>1. \E l : Become(p, l) /\ l.pc # "bind"
      BY <1>1, <1>4 DEF Settle, SettleRefused, Finish, Resting
    <2>2. RowsKept
      BY <1>4, RowsKeptFacts DEF Settle, SettleRefused, Finish
    <2>3. UNCHANGED <<evt, orphans>>
      BY <1>4 DEF Settle, SettleRefused, Finish
    <2>. QED
      BY <1>2, <2>1, <2>2, <2>3
  <1>5. ASSUME NEW c \in Clients,
               \/ \E r \in Requests : SubmitLookup(c, r)
               \/ \E j \in Jobs : CancelLoad(c, j)
               \/ \E S \in SUBSET Quotas : ReleaseStale(c, S)
               \/ ClientStep(c)
        PROVE  Funded'
    <2>1. CASE \/ \E r \in Requests : SubmitLookup(c, r)
               \/ \E j \in Jobs : CancelLoad(c, j)
               \/ SubmitRefused(c) \/ Reply(c) \/ ReserveConflict(c) \/ RejectQuota(c)
      BY <1>1, <1>2, <2>1, ClientMoves, RowsKeptFacts DEF Moves, Loads, PayingSteps
    <2>2. CASE \E S \in SUBSET Quotas : ReleaseStale(c, S)
      BY <2>2 DEF ReleaseStale
    <2>3. CASE Settle(c) \/ SettleRefused(c)
      BY <1>1, <1>4, <2>3
    <2>. QED
      BY <1>1, <1>5, <2>1, <2>2, <2>3, InsertFunded, ReserveFunded, BindFunded, SettledFunded
         DEF ClientStep
  <1>6. ASSUME NEW t \in Threads, ClaimStep(t) \/ ThreadStep(t) \/ Renew(t)
        PROVE  Funded'
    <2>1. CASE \/ Start(t) \/ Check(t) \/ Resume(t) \/ Work(t) \/ Timeout(t)
               \/ Complete(t) \/ Reload(t) \/ Recheck(t) \/ FinishRefused(t) \/ Handle(t)
      BY <1>1, <1>2, <2>1, ThreadMoves, RowsKeptFacts DEF Moves, Loads, PayingSteps
    <2>2. CASE Settle(t) \/ SettleRefused(t) \/ Finish(t)
      BY <1>1, <1>4, <2>2
    <2>3. CASE ClaimStep(t) \/ Ping(t) \/ Store(t) \/ Renew(t)
      <3>1. RowsKept
        BY <2>3, RowsKeptFacts
      <3>2. UNCHANGED <<evt, orphans>>
        BY <2>3 DEF ClaimStep, Claim, ClaimExhausted, Ping, Store, Renew
      <3>3. (\E l : Become(t, l)) \/ UNCHANGED proc
        BY <2>3 DEF ClaimStep, Claim, ClaimExhausted, Ping, Store, Renew
      <3>4. \A c \in Clients : proc'[c] = proc[c]
        BY <1>1, <3>3, BecomeOnly, ConstantsAssumption
      <3>. QED
        BY <1>3, <3>1, <3>2, <3>4
    <2>4. CASE Charge(t) \/ ReleaseQuota(t)
      BY <1>1, <2>4, SettledFunded
    <2>. QED
      BY <1>6, <2>1, <2>2, <2>3, <2>4 DEF ThreadStep
  <1>7. CASE MaintenanceStep
    <2>1. CASE Snapshot \/ RecoverNext
      <3>1. UNCHANGED <<row, evt, orphans>> /\ \E l : Become(Maintenance, l)
        BY <2>1, RecoverLoads DEF Loads
      <3>2. \A c \in Clients : proc'[c] = proc[c]
        BY <1>1, <3>1, BecomeOnly, ConstantsAssumption
      <3>. QED
        BY <1>3, <3>1, <3>2, RowsKeptFacts
    <2>2. CASE Settle(Maintenance) \/ SettleRefused(Maintenance)
      BY <1>1, <1>4, <2>2
    <2>3. ASSUME NEW q \in Quotas, OrphanReload(q) PROVE Funded'
      <3>1. /\ UNCHANGED <<row, evt>> /\ orphans' \subseteq orphans
            /\ \E l : Become(Maintenance, l)
        BY <2>3 DEF OrphanReload, OrphanLeft
      <3>2. \A c \in Clients : proc'[c] = proc[c]
        BY <1>1, <3>1, BecomeOnly, ConstantsAssumption
      <3>. QED
        BY <1>3, <3>1, <3>2, RowsKeptFacts
    <2>. QED
      BY <1>1, <1>7, <2>1, <2>2, <2>3, SweepFunded, SettledFunded DEF MaintenanceStep
  <1>8. ASSUME NEW j \in Jobs, LeaseLapses(j) PROVE Funded'
    <2>1. RowsKept /\ UNCHANGED <<evt, orphans, proc>>
      BY <1>8, RowsKeptFacts DEF LeaseLapses
    <2>. QED
      BY <1>3, <2>1
  <1>9. ASSUME NEW w \in Workers, WorkerCrash(w) PROVE Funded'
    BY <1>1, <1>3, <1>9, RowsKeptFacts DEF WorkerCrash
  <1>10. ASSUME NEW p \in Clients \union {Maintenance}, Crash(p) PROVE Funded'
    <2>1. Become(p, Idle) /\ UNCHANGED <<row, evt>> /\ orphans' \subseteq orphans
      BY <1>10 DEF Crash
    <2>. QED
      BY <1>1, <1>2, <2>1, RowsKeptFacts
  <1>11. CASE UNCHANGED vars
    BY <1>3, <1>11, RowsKeptFacts DEF vars
  <1>. QED
    BY <1>5, <1>6, <1>7, <1>8, <1>9, <1>10, <1>11 DEF Next

\* Nobody releases the reservation of a job that is queued, running or waiting
\* for another attempt, unless reservations expire by age.
THEOREM ReservationsHeld ==
    ASSUME AtomicHandlers, ~ReservationsAge
    PROVE  Spec => []FundedWhileActive
  <1>1. IInv /\ Serialised /\ Funded /\ [Next]_vars => Funded'
    BY NextFunded
  <1>2. IInv /\ Funded => FundedWhileActive
    <2>. SUFFICES ASSUME IInv, Funded, NEW j \in Jobs,
                         row[j].status \in Claimable \union {"running"},
                         row[j].quota # None, evt[row[j].quota].job = j
                  PROVE  evt[row[j].quota].status \in {"reserved", "succeeded"}
      BY DEF FundedWhileActive
    <2>1. row[j].quota \in Quotas
      BY DEF IInv, TypeOK, Row
    <2>2. Active(j)
      BY DEF Active, Claimable
    <2>. QED
      BY <2>1, <2>2 DEF Funded, Funding
  <1>. QED
    BY <1>1, <1>2, InitFunded, CopiesAreFresh, Invariance, PTL DEF Spec

-----------------------------------------------------------------------------
(* The charge, under any interleaving of the handlers.                      *)

\* No two requests share a usage event.
KeysApart ==
    \A r, s \in Requests : QuotaOf[r] = QuotaOf[s] /\ QuotaOf[r] # None => r = s

\* c is about to reserve the event of job j.
Reserves(c, j) == proc[c].pc \in {"reserve", "reserveFresh"} /\ proc[c].at = j

\* A key is charged at most once, and not before its event has been reserved;
\* an event belongs to the one job of its key, and only the request that has
\* created that job reserves it, once.
Billing ==
    /\ \A q \in Quotas :
          /\ evt[q].status \in {"absent", "reserved"} => used[q] = 0
          /\ used[q] <= 1
          /\ evt[q].status # "absent" =>
                \E j \in Jobs : Exists(j) /\ QuotaOf[row[j].req] = q
    /\ \A c \in Clients : \A j \in Jobs : Reserves(c, j) =>
          /\ evt[QuotaOf[row[j].req]].status = "absent"
          /\ \A d \in Clients : Reserves(d, j) => d = c
    /\ \A i, j \in Jobs : Exists(i) /\ Exists(j) /\ row[i].req = row[j].req => i = j

\* Rows neither appear nor vanish, nor change their request.
RowsStay ==
    \A j \in Jobs : /\ Exists(j)' <=> Exists(j)
                    /\ Exists(j) => row'[j].req = row[j].req

\* An event is left alone, or was no longer absent and cannot be charged again.
EventKept(q) ==
    /\ used'[q] = used[q]
    /\ \/ evt'[q] = evt[q]
       \/ evt[q].status # "absent" /\ evt'[q].status \in {"succeeded", "released"}

\* A request that is about to reserve has created a metered job.
LEMMA ReservesFacts ==
    ASSUME IInv, NEW c \in Clients, NEW j \in Jobs, Reserves(c, j)
    PROVE  /\ Exists(j) /\ row[j].req \in Requests
           /\ QuotaOf[row[j].req] # None /\ QuotaOf[row[j].req] \in Quotas
  <1>1. c \in Procs /\ proc[c].pc \in PayingSteps /\ proc[c].pc \in JobSteps
    BY StepFacts DEF Procs, Reserves, PayingSteps
  <1>2. Present(row[j]) /\ QuotaOf[row[j].req] # None
    BY <1>1, InHandFacts DEF IInv, LocalInv, Reserves
  <1>3. row[j].req \in Requests
    BY <1>2 DEF IInv, RowInv
  <1>. QED
    BY <1>2, <1>3, ConstantsAssumption DEF Exists

\* A step in which no request comes to reserve and no event is reserved.
LEMMA BillingKept ==
    ASSUME IInv, Billing, RowsStay, \A q \in Quotas : EventKept(q),
           \A c \in Clients : \A j \in Jobs : Reserves(c, j)' => Reserves(c, j)
    PROVE  Billing'
  <1>1. ASSUME NEW q \in Quotas
        PROVE  /\ evt'[q].status \in {"absent", "reserved"} => used'[q] = 0
               /\ used'[q] <= 1
               /\ evt'[q].status # "absent" =>
                     \E j \in Jobs : Exists(j)' /\ QuotaOf[row'[j].req] = q
    <2>1. EventKept(q)
      OBVIOUS
    <2>2. evt'[q].status # "absent" => \E j \in Jobs : Exists(j) /\ QuotaOf[row[j].req] = q
      BY <2>1 DEF Billing, EventKept
    <2>3. evt'[q].status # "absent" => \E j \in Jobs : Exists(j)' /\ QuotaOf[row'[j].req] = q
      BY <2>2 DEF RowsStay
    <2>. QED
      BY <2>1, <2>3 DEF Billing, EventKept
  <1>2. ASSUME NEW c \in Clients, NEW j \in Jobs, Reserves(c, j)'
        PROVE  /\ evt'[QuotaOf[row'[j].req]].status = "absent"
               /\ \A d \in Clients : Reserves(d, j)' => d = c
    <2>1. Reserves(c, j)
      BY <1>2
    <2>2. row'[j].req = row[j].req /\ QuotaOf[row[j].req] \in Quotas
      BY <2>1, ReservesFacts DEF RowsStay
    <2>3. evt'[QuotaOf[row[j].req]] = evt[QuotaOf[row[j].req]]
      BY <2>1, <2>2 DEF Billing, EventKept
    <2>. QED
      BY <2>1, <2>2, <2>3 DEF Billing
  <1>3. \A i, j \in Jobs : Exists(i)' /\ Exists(j)' /\ row'[i].req = row'[j].req => i = j
    BY DEF Billing, RowsStay
  <1>. QED
    BY <1>1, <1>2, <1>3 DEF Billing

\* Writes of a row that exists.
LEMMA RowsStayFacts ==
    ASSUME IInv,
           \/ UNCHANGED row
           \/ \E p \in Procs : Flush(p) /\ proc[p].pc \in {"settle", "finish"}
           \/ \E t \in Threads : ClaimStep(t) \/ Ping(t) \/ Store(t) \/ Renew(t)
           \/ \E c \in Clients : BindQuota(c)
           \/ \E j \in Jobs : LeaseLapses(j)
    PROVE  RowsStay
  <1>1. row \in [Jobs -> Row]
    BY DEF IInv, TypeOK
  <1>2. CASE UNCHANGED row
    BY <1>2 DEF RowsStay, Exists, Present
  <1>3. ASSUME NEW p \in Procs, Flush(p), proc[p].pc \in {"settle", "finish"}
        PROVE  RowsStay
    <2>. PICK j \in Jobs : j = proc[p].at /\ Present(row[j])
      BY <1>3, InHandFacts, StepFacts
    <2>1. \A i \in Jobs \ {j} : row'[i] = row[i]
      BY <1>1, <1>3 DEF Flush
    <2>2. \A i \in Jobs : Present(row[i]) => Present(row'[i]) /\ row'[i].req = row[i].req
      BY <1>3, FlushPreserves DEF Grows
    <2>. QED
      BY <2>1, <2>2 DEF RowsStay, Exists
  <1>4. ASSUME NEW t \in Threads, ClaimStep(t) PROVE RowsStay
    <2>1. RowsKept
      BY <1>4, RowsKeptFacts
    <2>2. PICK j \in Jobs : Claim(t, j) \/ ClaimExhausted(t, j)
      BY <1>4 DEF ClaimStep
    <2>3. \A i \in Jobs \ {j} : row'[i] = row[i]
      BY <1>1, <2>2 DEF Claim, ClaimExhausted
    <2>4. row[j].status \in Claimable /\ row'[j].status \in {"running", "failed"}
      <3>1. CASE Claim(t, j)
        BY <1>1, <2>2, <3>1 DEF Claim, Row, Ready
      <3>2. CASE ClaimExhausted(t, j)
        BY <1>1, <2>2, <3>2, TransitionedFacts, StatusFacts DEF ClaimExhausted, Ready
      <3>. QED
        BY <2>2, <3>1, <3>2
    <2>. QED
      BY <2>1, <2>3, <2>4 DEF RowsKept, RowsStay, Exists, Present, Claimable
  <1>5. ASSUME NEW t \in Threads, Ping(t) \/ Store(t) \/ Renew(t) PROVE RowsStay
    BY <1>1, <1>5 DEF Ping, Store, Renew, Row, RowsStay, Exists, Present
  <1>6. ASSUME NEW c \in Clients, BindQuota(c) PROVE RowsStay
    BY <1>1, <1>6 DEF BindQuota, Row, RowsStay, Exists, Present
  <1>7. ASSUME NEW j \in Jobs, LeaseLapses(j) PROVE RowsStay
    BY <1>1, <1>7 DEF LeaseLapses, Row, RowsStay, Exists, Present
  <1>. QED
    BY <1>2, <1>3, <1>4, <1>5, <1>6, <1>7

\* A job is created: its key has no event yet, and nobody else reserves it.
LEMMA InsertBilled ==
    ASSUME KeysApart, IInv, Billing, NEW c \in Clients, SubmitInsert(c)
    PROVE  Billing'
  <1>. PICK r : r = proc[c].mem.req
    OBVIOUS
  <1>1. PICK j \in Jobs : /\ row[j].status = "absent"
                          /\ row' = [row EXCEPT ![j] = proc[c].mem]
                          /\ Become(c, IF QuotaOf[r] = None THEN Idle ELSE At("reserve", j))
    BY DEF SubmitInsert
  <1>2. /\ c \in Procs /\ Clients \subseteq Procs /\ row \in [Jobs -> Row]
        /\ UNCHANGED <<evt, used>>
        /\ \A i \in Jobs : Exists(i) => row[i].req # r
    BY DEF SubmitInsert, Procs, IInv, TypeOK
  <1>3. /\ proc[c].mem.status = "queued" /\ r \in Requests
    <2>1. \A s : QueuedRow(s).status = "queued"
      BY DEF QueuedRow, NoRow
    <2>2. proc[c].mem = QueuedRow(r) /\ r \in Requests
      BY <1>2 DEF SubmitInsert, IInv, LocalInv
    <2>. QED
      BY <2>1, <2>2
  <1>4. /\ ~Exists(j) /\ Exists(j)' /\ row'[j].req = r
        /\ \A i \in Jobs \ {j} : row'[i] = row[i] /\ (Exists(i)' <=> Exists(i))
    BY <1>1, <1>2, <1>3 DEF Exists, Present
  <1>5. \A d \in Clients : \A i \in Jobs :
            Reserves(d, i)' => \/ Reserves(d, i) /\ i # j
                               \/ d = c /\ i = j /\ QuotaOf[r] # None
    <2>1. Idle.pc = "idle" /\ At("reserve", j).at = j
      BY DEF Idle, At
    <2>2. \A d \in Clients : Reserves(d, j) => FALSE
      BY <1>4, ReservesFacts
    <2>3. ASSUME NEW d \in Clients, d # c, NEW i \in Jobs, Reserves(d, i)'
          PROVE  Reserves(d, i) /\ i # j
      <3>1. proc'[d] = proc[d]
        BY <1>1, <1>2, <2>3, BecomeOnly
      <3>. QED
        BY <2>2, <2>3, <3>1 DEF Reserves
    <2>4. ASSUME NEW i \in Jobs, Reserves(c, i)' PROVE i = j /\ QuotaOf[r] # None
      <3>1. proc'[c] = IF QuotaOf[r] = None THEN Idle ELSE At("reserve", j)
        BY <1>1, <1>2, BecomeOnly
      <3>. QED
        BY <2>1, <2>4, <3>1 DEF Reserves
    <2>. QED
      BY <2>3, <2>4
  <1>6. QuotaOf[r] # None => evt[QuotaOf[r]].status = "absent"
    <2>. SUFFICES ASSUME QuotaOf[r] # None, evt[QuotaOf[r]].status # "absent" PROVE FALSE
      OBVIOUS
    <2>1. QuotaOf[r] \in Quotas
      BY <1>3, ConstantsAssumption
    <2>2. PICK i \in Jobs : Exists(i) /\ QuotaOf[row[i].req] = QuotaOf[r]
      BY <2>1 DEF Billing
    <2>3. row[i].req \in Requests
      BY <2>2 DEF IInv, RowInv, Exists
    <2>. QED
      BY <1>2, <1>3, <2>2, <2>3 DEF KeysApart
  <1>7. ASSUME NEW q \in Quotas
        PROVE  /\ evt'[q].status \in {"absent", "reserved"} => used'[q] = 0
               /\ used'[q] <= 1
               /\ evt'[q].status # "absent" =>
                     \E i \in Jobs : Exists(i)' /\ QuotaOf[row'[i].req] = q
    <2>1. evt[q].status # "absent" => \E i \in Jobs \ {j} : Exists(i) /\ QuotaOf[row[i].req] = q
      BY <1>4 DEF Billing
    <2>2. evt'[q].status # "absent" => \E i \in Jobs : Exists(i)' /\ QuotaOf[row'[i].req] = q
      BY <1>2, <1>4, <2>1
    <2>. QED
      BY <1>2, <2>2 DEF Billing
  <1>8. ASSUME NEW d \in Clients, NEW i \in Jobs, Reserves(d, i)'
        PROVE  /\ evt'[QuotaOf[row'[i].req]].status = "absent"
               /\ \A e \in Clients : Reserves(e, i)' => e = d
    <2>1. CASE i = j
      BY <1>2, <1>4, <1>5, <1>6, <1>8, <2>1
    <2>2. CASE i # j
      <3>1. row'[i] = row[i] /\ Reserves(d, i)
        BY <1>4, <1>5, <1>8, <2>2
      <3>2. \A e \in Clients : Reserves(e, i)' => Reserves(e, i)
        BY <1>5, <2>2
      <3>. QED
        BY <1>2, <3>1, <3>2 DEF Billing
    <2>. QED
      BY <2>1, <2>2
  <1>9. \A i, k \in Jobs : Exists(i)' /\ Exists(k)' /\ row'[i].req = row'[k].req => i = k
    <2>1. \A i \in Jobs \ {j} : Exists(i)' => row'[i].req # r
      BY <1>2, <1>4
    <2>. QED
      BY <1>4, <2>1 DEF Billing
  <1>. QED
    BY <1>7, <1>8, <1>9 DEF Billing

\* The event is reserved, by the only request that would.
LEMMA ReserveBilled ==
    ASSUME KeysApart, IInv, Billing, NEW c \in Clients, ReserveQuota(c)
    PROVE  Billing'
  <1>. PICK j : j = proc[c].at
    OBVIOUS
  <1>. PICK q : q = QuotaOf[row[j].req]
    OBVIOUS
  <1>1. /\ c \in Procs /\ Clients \subseteq Procs /\ evt \in [Quotas -> Event]
        /\ j \in Jobs
    <2>1. c \in Procs /\ proc[c].pc \in JobSteps
      BY StepFacts DEF ReserveQuota, Procs
    <2>. QED
      BY <2>1, InHandFacts DEF Procs, IInv, TypeOK
  <1>2. Reserves(c, j)
    BY DEF ReserveQuota, Reserves
  <1>3. Exists(j) /\ row[j].req \in Requests /\ q \in Quotas /\ q # None
    BY <1>1, <1>2, ReservesFacts
  <1>4. evt[q].status = "absent"
    BY <1>1, <1>2 DEF Billing
  <1>5. evt' = [evt EXCEPT ![q] = [status |-> "reserved", job |-> j]]
    BY <1>4 DEF ReserveQuota
  <1>6. evt'[q].status = "reserved" /\ \A k \in Quotas \ {q} : evt'[k] = evt[k]
    BY <1>1, <1>3, <1>5
  <1>7. row' = row /\ used' = used /\ Become(c, At("bind", j))
    BY DEF ReserveQuota
  <1>8. \A d \in Clients : \A i \in Jobs : Reserves(d, i)' => Reserves(d, i) /\ d # c
    <2>1. At("bind", j).pc = "bind"
      BY DEF At, Idle
    <2>. QED
      BY <1>1, <1>7, <2>1, BecomeOnly DEF Reserves
  <1>9. ASSUME NEW d \in Clients, NEW i \in Jobs, Reserves(d, i)'
        PROVE  /\ evt'[QuotaOf[row'[i].req]].status = "absent"
               /\ \A e \in Clients : Reserves(e, i)' => e = d
    <2>1. Reserves(d, i) /\ d # c /\ i # j
      BY <1>1, <1>2, <1>8, <1>9 DEF Billing
    <2>2. /\ Exists(i) /\ row[i].req \in Requests
          /\ QuotaOf[row[i].req] \in Quotas /\ QuotaOf[row[i].req] # None
      BY <2>1, ReservesFacts
    <2>3. row[i].req # row[j].req
      BY <1>1, <1>3, <2>1, <2>2 DEF Billing
    <2>4. QuotaOf[row[i].req] # q
      BY <1>3, <2>2, <2>3 DEF KeysApart
    <2>. QED
      BY <1>6, <1>7, <1>8, <2>1, <2>2, <2>4 DEF Billing
  <1>10. ASSUME NEW k \in Quotas
         PROVE  /\ evt'[k].status \in {"absent", "reserved"} => used'[k] = 0
                /\ used'[k] <= 1
                /\ evt'[k].status # "absent" =>
                      \E i \in Jobs : Exists(i)' /\ QuotaOf[row'[i].req] = k
    <2>1. \A i \in Jobs : Exists(i)' <=> Exists(i)
      BY <1>7 DEF Exists
    <2>2. CASE k = q
      BY <1>1, <1>3, <1>4, <1>7, <2>1, <2>2 DEF Billing
    <2>3. CASE k # q
      BY <1>6, <1>7, <2>1, <2>3 DEF Billing
    <2>. QED
      BY <2>2, <2>3
  <1>11. \A i, k \in Jobs : Exists(i)' /\ Exists(k)' /\ row'[i].req = row'[k].req => i = k
    BY <1>7 DEF Billing, Exists
  <1>. QED
    BY <1>9, <1>10, <1>11 DEF Billing

\* commit_usage adds the unit only to an event that is still reserved.
LEMMA ChargeBilled ==
    ASSUME IInv, Billing, NEW t \in Threads, Charge(t)
    PROVE  Billing'
  <1>. PICK q : q = proc[t].mem.quota
    OBVIOUS
  <1>1. /\ t \in Procs /\ evt \in [Quotas -> Event] /\ used \in [Quotas -> Nat]
        /\ row' = row
        /\ Clients \subseteq Procs /\ t \notin Clients
    BY ConstantsAssumption DEF Charge, Procs, IInv, TypeOK
  <1>2. q \in Quotas
    <2>1. proc[t].mem.quota # None /\ proc[t] \in LocalState
      BY <1>1 DEF Charge, IInv, TypeOK, LocalInv
    <2>. QED
      BY <2>1 DEF LocalState, Row
  <1>3. \A c \in Clients : \A j \in Jobs : Reserves(c, j)' => Reserves(c, j)
    <2>1. \E l : Become(t, l)
      BY DEF Charge
    <2>. QED
      BY <1>1, <2>1, BecomeOnly DEF Reserves
  <1>4. RowsStay
    BY <1>1, RowsStayFacts
  <1>5. \/ UNCHANGED <<evt, used>>
        \/ /\ evt[q].status = "reserved"
           /\ evt' = [evt EXCEPT ![q].status = "succeeded"]
           /\ used' = [used EXCEPT ![q] = @ + 1]
    BY DEF Charge, Chargeable
  <1>6. CASE UNCHANGED <<evt, used>>
    BY <1>3, <1>4, <1>6, BillingKept DEF EventKept
  <1>7. CASE /\ evt[q].status = "reserved"
             /\ evt' = [evt EXCEPT ![q].status = "succeeded"]
             /\ used' = [used EXCEPT ![q] = @ + 1]
    <2>1. /\ evt'[q].status = "succeeded" /\ used'[q] = used[q] + 1
          /\ \A k \in Quotas \ {q} : evt'[k] = evt[k] /\ used'[k] = used[k]
      BY <1>1, <1>2, <1>7 DEF Event
    <2>2. used[q] = 0
      BY <1>2, <1>7 DEF Billing
    <2>3. \A j \in Jobs : Exists(j)' <=> Exists(j)
      BY <1>1 DEF Exists
    <2>4. ASSUME NEW k \in Quotas
          PROVE  /\ evt'[k].status \in {"absent", "reserved"} => used'[k] = 0
                 /\ used'[k] <= 1
                 /\ evt'[k].status # "absent" =>
                       \E i \in Jobs : Exists(i)' /\ QuotaOf[row'[i].req] = k
      <3>1. evt[k].status = "absent" <=> evt'[k].status = "absent"
        BY <1>7, <2>1
      <3>2. evt[k].status # "absent" => \E i \in Jobs : Exists(i)' /\ QuotaOf[row'[i].req] = k
        BY <1>1, <2>3 DEF Billing
      <3>. QED
        BY <2>1, <2>2, <3>1, <3>2 DEF Billing
    <2>5. ASSUME NEW d \in Clients, NEW i \in Jobs, Reserves(d, i)'
          PROVE  /\ evt'[QuotaOf[row'[i].req]].status = "absent"
                 /\ \A e \in Clients : Reserves(e, i)' => e = d
      <3>1. Reserves(d, i) /\ QuotaOf[row[i].req] \in Quotas
        BY <1>3, <2>5, ReservesFacts
      <3>2. QuotaOf[row[i].req] # q
        BY <1>7, <3>1 DEF Billing
      <3>. QED
        BY <1>1, <1>3, <2>1, <3>1, <3>2 DEF Billing
    <2>6. \A i, k \in Jobs : Exists(i)' /\ Exists(k)' /\ row'[i].req = row'[k].req => i = k
      BY <1>1, <2>3 DEF Billing
    <2>. QED
      BY <2>4, <2>5, <2>6 DEF Billing
  <1>. QED
    BY <1>5, <1>6, <1>7

\* A reservation is returned, by whomever.
LEMMA ReturnBilled ==
    ASSUME IInv, Billing,
           \/ \E c \in Clients : \E S \in SUBSET Quotas : ReleaseStale(c, S)
           \/ \E p \in Procs : ReleaseQuota(p)
           \/ \E q \in Quotas : OrphanRelease(q) /\ evt[q].status # "absent"
    PROVE  Billing'
  <1>1. /\ Idle.pc = "idle" /\ Maintenance \in Procs /\ Clients \subseteq Procs
        /\ \A s, j : At(s, j).pc = s /\ At(s, j).at = j
        /\ evt \in [Quotas -> Event]
    BY DEF Idle, Procs, At, IInv, TypeOK
  <1>2. \A e \in Event : /\ Released(e) \in Event
                         /\ \/ Released(e) = e
                            \/ e.status # "absent" /\ Released(e).status = "released"
    BY DEF Released, Event
  <1>3. ASSUME NEW p \in Procs, NEW l, Become(p, l), UNCHANGED <<row, used>>,
               \A q \in Quotas : \/ evt'[q] = evt[q]
                                 \/ /\ evt[q].status # "absent"
                                    /\ evt'[q].status \in {"succeeded", "released"},
               \A j \in Jobs : p \in Clients /\ l.pc \in {"reserve", "reserveFresh"}
                               /\ l.at = j => Reserves(p, j)
        PROVE  Billing'
    <2>1. proc'[p] = l /\ \A o \in Procs \ {p} : proc'[o] = proc[o]
      BY <1>3, BecomeOnly
    <2>2. \A c \in Clients : \A j \in Jobs : Reserves(c, j)' => Reserves(c, j)
      BY <1>1, <1>3, <2>1 DEF Reserves
    <2>3. \A q \in Quotas : EventKept(q)
      BY <1>3 DEF EventKept
    <2>. QED
      BY <1>3, <2>2, <2>3, RowsStayFacts, BillingKept
  <1>4. ASSUME NEW c \in Clients, NEW S \in SUBSET Quotas, ReleaseStale(c, S) PROVE Billing'
    <2>1. /\ evt' = [q \in Quotas |-> IF q \in S THEN Released(evt[q]) ELSE evt[q]]
          /\ Become(c, At("reserveFresh", proc[c].at)) /\ UNCHANGED <<row, used>>
          /\ proc[c].pc = "reserve"
      BY <1>4 DEF ReleaseStale
    <2>2. \A q \in Quotas : \/ evt'[q] = evt[q]
                            \/ /\ evt[q].status # "absent"
                               /\ evt'[q].status \in {"succeeded", "released"}
      BY <1>1, <1>2, <2>1
    <2>. QED
      BY <1>1, <1>3, <2>1, <2>2 DEF Reserves
  <1>5. ASSUME NEW p \in Procs, ReleaseQuota(p) PROVE Billing'
    <2>1. /\ Become(p, Resting(p)) /\ UNCHANGED <<row, used>>
          /\ evt' = evt \/ \E q : evt' = [evt EXCEPT ![q] = Released(@)]
      BY <1>5 DEF ReleaseQuota
    <2>2. \A q \in Quotas : \/ evt'[q] = evt[q]
                            \/ /\ evt[q].status # "absent"
                               /\ evt'[q].status \in {"succeeded", "released"}
      BY <1>1, <1>2, <2>1
    <2>3. Resting(p).pc \in {"idle", "recover"}
      BY <1>1 DEF Resting
    <2>. QED
      BY <1>3, <2>1, <2>2, <2>3
  <1>6. ASSUME NEW q \in Quotas, OrphanRelease(q), evt[q].status # "absent" PROVE Billing'
    <2>1. /\ UNCHANGED <<row, used>>
          /\ evt' = [evt EXCEPT ![q].status = "released"]
          /\ \E l : Become(Maintenance, l) /\ l.pc \in {"idle", "reloadNext"}
      BY <1>1, <1>6 DEF OrphanRelease, OrphanLeft
    <2>2. \A k \in Quotas : \/ evt'[k] = evt[k]
                            \/ /\ evt[k].status # "absent"
                               /\ evt'[k].status \in {"succeeded", "released"}
      <3>1. [evt[q] EXCEPT !.status = "released"].status = "released"
        BY <1>1 DEF Event
      <3>2. evt'[q].status = "released"
        BY <1>1, <2>1, <3>1
      <3>3. \A k \in Quotas \ {q} : evt'[k] = evt[k]
        BY <1>1, <2>1
      <3>. QED
        BY <1>6, <3>2, <3>3
    <2>. QED
      BY <1>1, <1>3, <2>1, <2>2
  <1>. QED
    BY <1>4, <1>5, <1>6

\* The list of orphans holds reserved events only, when it is drawn up.
ListedReserved == \A q \in orphans : evt[q].status # "absent"

\* No event returns to absent.
LEMMA NextListed ==
    ASSUME IInv, ListedReserved, [Next]_vars
    PROVE  ListedReserved'
  <1>1. evt \in [Quotas -> Event] /\ orphans \subseteq Quotas
    BY DEF IInv, TypeOK
  <1>2. ASSUME \A q \in Quotas : evt[q].status # "absent" => evt'[q].status # "absent",
               orphans' \subseteq orphans
        PROVE  ListedReserved'
    BY <1>1, <1>2 DEF ListedReserved
  <1>3. \A e \in Event : Released(e).status = "absent" => e.status = "absent"
    BY DEF Released, Event
  <1>4. ASSUME UNCHANGED evt, orphans' \subseteq orphans PROVE ListedReserved'
    BY <1>2, <1>4
  <1>5. ASSUME NEW c \in Clients, \E S \in SUBSET Quotas : ReleaseStale(c, S)
        PROVE  ListedReserved'
    BY <1>2, <1>3, <1>1, <1>5 DEF ReleaseStale
  <1>6. ASSUME NEW c \in Clients, ReserveQuota(c) PROVE ListedReserved'
    <2>. PICK q : q = QuotaOf[row[proc[c].at].req]
      OBVIOUS
    <2>1. orphans' = orphans
      BY <1>6 DEF ReserveQuota
    <2>2. \/ evt' = [evt EXCEPT ![q] = [status |-> "reserved", job |-> proc[c].at]]
          \/ evt' = [evt EXCEPT ![q].status = "reserved"]
          \/ evt' = evt
      <3>1. CASE evt[q].status = "absent"
        BY <1>6, <3>1 DEF ReserveQuota
      <3>2. CASE evt[q].status = "released"
        BY <1>6, <3>2 DEF ReserveQuota
      <3>3. CASE evt[q].status \notin {"absent", "released"}
        BY <1>6, <3>3 DEF ReserveQuota
      <3>. QED
        BY <3>1, <3>2, <3>3
    <2>3. ASSUME NEW k \in Quotas, evt[k].status # "absent"
          PROVE  evt'[k].status # "absent"
      <3>1. CASE evt' = [evt EXCEPT ![q] = [status |-> "reserved", job |-> proc[c].at]]
        BY <1>1, <2>3, <3>1
      <3>2. CASE evt' = [evt EXCEPT ![q].status = "reserved"]
        BY <1>1, <2>3, <3>2 DEF Event
      <3>. QED
        BY <2>2, <2>3, <3>1, <3>2
    <2>. QED
      BY <1>2, <2>1, <2>3
  <1>7. ASSUME NEW t \in Threads, Charge(t) PROVE ListedReserved'
    BY <1>1, <1>2, <1>7 DEF Charge, Event
  <1>8. ASSUME NEW p \in Procs, ReleaseQuota(p) PROVE ListedReserved'
    BY <1>1, <1>2, <1>3, <1>8 DEF ReleaseQuota
  <1>9. ASSUME NEW q \in Quotas, OrphanRelease(q) PROVE ListedReserved'
    BY <1>1, <1>2, <1>9 DEF OrphanRelease, OrphanLeft, Event
  <1>10. ASSUME OrphanSnapshot PROVE ListedReserved'
    BY <1>10 DEF OrphanSnapshot, Orphaned, ListedReserved
  <1>11. ASSUME NEW c \in Clients,
               \/ \E r \in Requests : SubmitLookup(c, r)
               \/ \E j \in Jobs : CancelLoad(c, j)
               \/ \E S \in SUBSET Quotas : ReleaseStale(c, S)
               \/ ClientStep(c)
         PROVE  ListedReserved'
    <2>1. CASE \/ \E r \in Requests : SubmitLookup(c, r)
               \/ \E j \in Jobs : CancelLoad(c, j)
               \/ SubmitInsert(c) \/ SubmitRefused(c) \/ Reply(c) \/ ReserveConflict(c)
               \/ RejectQuota(c) \/ BindQuota(c) \/ Settle(c) \/ SettleRefused(c)
      BY <1>4, <2>1 DEF SubmitLookup, CancelLoad, SubmitInsert, SubmitRefused, Reply,
         ReserveConflict, RejectQuota, BindQuota, Settle, SettleRefused
    <2>. QED
      BY <1>5, <1>6, <1>8, <1>11, <2>1 DEF ClientStep, Procs
  <1>12. ASSUME NEW t \in Threads, ClaimStep(t) \/ ThreadStep(t) \/ Renew(t)
         PROVE  ListedReserved'
    <2>1. CASE ClaimStep(t) \/ Renew(t)
      BY <1>4, <2>1 DEF ClaimStep, Claim, ClaimExhausted, Renew
    <2>2. CASE ThreadStep(t) /\ ~Charge(t) /\ ~ReleaseQuota(t)
      BY <1>4, <2>2 DEF ThreadStep, Start, Check, Ping, Resume, Work, Timeout, Complete,
         Store, Reload, Recheck, Finish, FinishRefused, Handle, Settle, SettleRefused
    <2>. QED
      BY <1>7, <1>8, <1>12, <2>1, <2>2 DEF Procs
  <1>13. CASE MaintenanceStep
    <2>1. CASE \/ Snapshot \/ RecoverNext \/ \E S \in SUBSET Jobs : PurgeHistory(S)
               \/ Settle(Maintenance) \/ SettleRefused(Maintenance)
               \/ \E q \in Quotas : OrphanReload(q)
      BY <1>4, <2>1 DEF Snapshot, RecoverNext, PurgeHistory, Settle, SettleRefused,
         OrphanReload, OrphanLeft
    <2>. QED
      BY <1>8, <1>9, <1>10, <1>13, <2>1 DEF MaintenanceStep, Procs
  <1>14. CASE \/ \E j \in Jobs : LeaseLapses(j)
              \/ \E w \in Workers : WorkerCrash(w)
              \/ \E p \in Clients \union {Maintenance} : Crash(p)
              \/ UNCHANGED vars
    <2>1. UNCHANGED evt /\ orphans' \subseteq orphans
      BY <1>14 DEF LeaseLapses, WorkerCrash, Crash, vars
    <2>. QED
      BY <1>4, <2>1
  <1>. QED
    BY <1>11, <1>12, <1>13, <1>14 DEF Next

\* Initially nothing is charged.
LEMMA InitBilled == Init => Billing /\ ListedReserved
  <1>1. NoRow.status = "absent" /\ Idle.pc = "idle"
    BY DEF NoRow, Idle
  <1>. QED
    BY <1>1 DEF Init, Billing, ListedReserved, Reserves, Exists, Present, Procs

\* No step charges a key a second time.
LEMMA NextBilled ==
    ASSUME KeysApart, ~HistoryCleanup, IInv, Billing, ListedReserved, [Next]_vars
    PROVE  Billing'
  <1>1. /\ Clients \subseteq Procs /\ Threads \subseteq Procs /\ Maintenance \in Procs
        /\ Idle.pc = "idle" /\ \A s, j : At(s, j).pc = s
        /\ Threads \intersect Clients = {} /\ Maintenance \notin Clients
    BY ConstantsAssumption DEF Procs, Idle, At
  <1>2. ASSUME RowsStay, UNCHANGED <<evt, used>>,
               NEW p \in Procs, NEW l, Become(p, l),
               p \notin Clients \/ l.pc \notin {"reserve", "reserveFresh"}
        PROVE  Billing'
    <2>1. \A c \in Clients : \A j \in Jobs : Reserves(c, j)' => Reserves(c, j)
      BY <1>1, <1>2, BecomeOnly DEF Reserves
    <2>. QED
      BY <1>2, <2>1, BillingKept DEF EventKept
  <1>3. ASSUME RowsStay, UNCHANGED <<evt, used>>,
               \A c \in Clients : proc'[c] \in {proc[c], Idle}
        PROVE  Billing'
    <2>1. \A c \in Clients : \A j \in Jobs : Reserves(c, j)' => Reserves(c, j)
      BY <1>1, <1>3 DEF Reserves
    <2>. QED
      BY <1>3, <2>1, BillingKept DEF EventKept
  <1>4. ASSUME NEW p \in Procs, Settle(p) \/ SettleRefused(p) \/ Finish(p)
        PROVE  Billing'
    <2>1. \E l : Become(p, l) /\ l.pc \notin {"reserve", "reserveFresh"}
      BY <1>1, <1>4 DEF Settle, SettleRefused, Finish, Resting
    <2>2. RowsStay
      BY <1>4, RowsStayFacts DEF Settle, SettleRefused, Finish
    <2>3. UNCHANGED <<evt, used>>
      BY <1>4 DEF Settle, SettleRefused, Finish
    <2>. QED
      BY <1>2, <2>1, <2>2, <2>3
  <1>5. ASSUME NEW c \in Clients,
               \/ \E r \in Requests : SubmitLookup(c, r)
               \/ \E j \in Jobs : CancelLoad(c, j)
               \/ \E S \in SUBSET Quotas : ReleaseStale(c, S)
               \/ ClientStep(c)
        PROVE  Billing'
    <2>1. CASE \/ \E r \in Requests : SubmitLookup(c, r)
               \/ \E j \in Jobs : CancelLoad(c, j)
               \/ SubmitRefused(c) \/ Reply(c) \/ ReserveConflict(c) \/ RejectQuota(c)
      BY <1>1, <1>2, <2>1, ClientMoves, RowsStayFacts DEF Moves, Loads, PayingSteps
    <2>2. CASE Settle(c) \/ SettleRefused(c)
      BY <1>1, <1>4, <2>2
    <2>3. CASE BindQuota(c)
      <3>1. UNCHANGED <<evt, used>> /\ Become(c, Idle) /\ c \in Procs
        BY <1>1, <2>3 DEF BindQuota
      <3>. QED
        BY <1>1, <1>2, <2>3, <3>1, RowsStayFacts
    <2>. QED
      BY <1>1, <1>5, <2>1, <2>2, <2>3, InsertBilled, ReserveBilled, ReturnBilled
         DEF ClientStep
  <1>6. ASSUME NEW t \in Threads, ClaimStep(t) \/ ThreadStep(t) \/ Renew(t)
        PROVE  Billing'
    <2>1. CASE \/ Start(t) \/ Check(t) \/ Resume(t) \/ Work(t) \/ Timeout(t)
               \/ Complete(t) \/ Reload(t) \/ Recheck(t) \/ FinishRefused(t) \/ Handle(t)
      BY <1>1, <1>2, <2>1, ThreadMoves, RowsStayFacts DEF Moves, Loads
    <2>2. CASE Settle(t) \/ SettleRefused(t) \/ Finish(t)
      BY <1>1, <1>4, <2>2
    <2>3. CASE ClaimStep(t) \/ Ping(t) \/ Store(t) \/ Renew(t)
      <3>1. RowsStay
        BY <2>3, RowsStayFacts
      <3>2. UNCHANGED <<evt, used>>
        BY <2>3 DEF ClaimStep, Claim, ClaimExhausted, Ping, Store, Renew
      <3>3. (\E l : Become(t, l)) \/ UNCHANGED proc
        BY <2>3 DEF ClaimStep, Claim, ClaimExhausted, Ping, Store, Renew
      <3>4. \A c \in Clients : proc'[c] = proc[c]
        BY <1>1, <3>3, BecomeOnly
      <3>. QED
        BY <1>3, <3>1, <3>2, <3>4
    <2>. QED
      BY <1>1, <1>6, <2>1, <2>2, <2>3, ChargeBilled, ReturnBilled DEF ThreadStep
  <1>7. CASE MaintenanceStep
    <2>1. CASE Snapshot \/ RecoverNext
      <3>1. UNCHANGED <<row, evt, used>> /\ \E l : Become(Maintenance, l)
        BY <2>1, RecoverLoads DEF Loads
      <3>. QED
        BY <1>1, <1>2, <3>1, RowsStayFacts
    <2>2. CASE Settle(Maintenance) \/ SettleRefused(Maintenance)
      BY <1>1, <1>4, <2>2
    <2>3. CASE OrphanSnapshot
      <3>1. UNCHANGED <<row, evt, used>> /\ \E l : Become(Maintenance, l)
        BY <2>3 DEF OrphanSnapshot
      <3>. QED
        BY <1>1, <1>2, <3>1, RowsStayFacts
    <2>4. ASSUME NEW S \in SUBSET Jobs, PurgeHistory(S) PROVE Billing'
      <3>1. S = {} /\ UNCHANGED <<evt, used>> /\ \E l : Become(Maintenance, l)
        BY <2>4 DEF PurgeHistory
      <3>2. \A j \in Jobs : row'[j] = row[j]
        BY <2>4, <3>1 DEF PurgeHistory
      <3>3. RowsStay
        BY <3>2 DEF RowsStay, Exists
      <3>. QED
        BY <1>1, <1>2, <3>1, <3>3
    <2>5. ASSUME NEW q \in Quotas, OrphanRelease(q) PROVE Billing'
      <3>1. evt[q].status # "absent"
        BY <2>5 DEF OrphanRelease, ListedReserved
      <3>. QED
        BY <2>5, <3>1, ReturnBilled
    <2>6. ASSUME NEW q \in Quotas, OrphanReload(q) PROVE Billing'
      <3>1. UNCHANGED <<row, evt, used>> /\ \E l : Become(Maintenance, l)
        BY <2>6 DEF OrphanReload, OrphanLeft
      <3>. QED
        BY <1>1, <1>2, <3>1, RowsStayFacts
    <2>. QED
      BY <1>1, <1>7, <2>1, <2>2, <2>3, <2>4, <2>5, <2>6, ReturnBilled DEF MaintenanceStep
  <1>8. CASE \/ \E j \in Jobs : LeaseLapses(j)
             \/ \E w \in Workers : WorkerCrash(w)
             \/ UNCHANGED vars
    <2>1. RowsStay
      BY <1>8, RowsStayFacts DEF WorkerCrash, vars
    <2>2. /\ UNCHANGED <<evt, used>>
          /\ \A c \in Clients : proc'[c] \in {proc[c], Idle}
      BY <1>1, <1>8 DEF LeaseLapses, WorkerCrash, vars
    <2>. QED
      BY <1>3, <2>1, <2>2
  <1>9. ASSUME NEW p \in Clients \union {Maintenance}, Crash(p) PROVE Billing'
    <2>1. Become(p, Idle) /\ UNCHANGED <<row, evt, used>> /\ p \in Procs
      BY <1>1, <1>9 DEF Crash
    <2>. QED
      BY <1>1, <1>2, <2>1, RowsStayFacts
  <1>. QED
    BY <1>5, <1>6, <1>7, <1>8, <1>9 DEF Next

\* No unit is charged twice, however often the job is executed and whoever
\* cancels, recovers or sweeps meanwhile.  The keys are in use by one job each:
\* the requests' events differ, and no job is forgotten and sent again.
THEOREM OneCharge ==
    ASSUME KeysApart, ~HistoryCleanup
    PROVE  Spec => []ChargedOnce
  <1>1. IInv /\ Billing /\ ListedReserved /\ [Next]_vars => Billing' /\ ListedReserved'
    BY NextBilled, NextListed
  <1>2. Billing => ChargedOnce
    BY DEF Billing, ChargedOnce
  <1>. QED
    BY <1>1, <1>2, InitBilled, Invariance, PTL DEF Spec
=============================================================================
