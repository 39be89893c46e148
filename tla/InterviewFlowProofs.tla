------------------------- MODULE InterviewFlowProofs -------------------------
(***************************************************************************)
(* Proofs about InterviewFlow for any number of requests, planned main     *)
(* questions and answers, with the code's two follow-ups.  The argument is *)
(* that the turns of a session only grow until they are deleted together:  *)
(* answers and evaluations are set once and turns appended (Grows), so     *)
(* that what a process knows of them stays so (LocalInvStable).            *)
(***************************************************************************)
EXTENDS InterviewFlow, FiniteSetTheorems, TLAPS

LEMMA MaxTurnsNat == MaxTurns \in Nat
  <1>1. CASE MaxFollowUps = 1
    BY <1>1, InterviewAssumption DEF MaxTurns
  <1>2. CASE MaxFollowUps = 2
    BY <1>2, InterviewAssumption DEF MaxTurns
  <1>. QED
    BY <1>1, <1>2, InterviewAssumption

\* Turns u continue turns t.
Grows(t, u) ==
    /\ Len(t) <= Len(u)
    /\ \A i \in Positions(t) :
          /\ u[i].main = t[i].main
          /\ u[i].follow = t[i].follow
          /\ t[i].answer # None => u[i].answer = t[i].answer
          /\ t[i].score # None => u[i].score # None

LEMMA LocalInvStable ==
    ASSUME NEW t \in Seq(Turn), NEW u \in Seq(Turn), Grows(t, u),
           NEW l \in Local, LocalInv(t, l)
    PROVE  LocalInv(u, l)
  <1>1. Len(t) \in Nat /\ Len(u) \in Nat /\ Positions(t) \subseteq Positions(u)
    BY DEF Grows, Positions
  <1>2. \A m : MainScored(t, m) => MainScored(u, m)
    BY <1>1 DEF MainScored, Grows
  <1>3. \A m, f : PlacedIn(t, m, f) => PlacedIn(u, m, f)
    BY <1>1 DEF PlacedIn, Grows
  <1>4. l.turn \in Positions(t) =>
          /\ l.turn \in Positions(u)
          /\ u[l.turn].main = t[l.turn].main
          /\ t[l.turn].answer # None => u[l.turn].answer = t[l.turn].answer
          /\ t[l.turn].score # None => u[l.turn].score # None
    BY <1>1 DEF Grows
  <1>. QED
    BY <1>2, <1>3, <1>4 DEF LocalInv, OwnAnswer, Evaluated

LEMMA GrowsReflexive == \A t : Len(t) \in Nat => Grows(t, t)
  BY DEF Grows

\* A sequence of turns with distinct keys is no longer than there are keys.
LEMMA TurnsBounded ==
    ASSUME NEW t \in Seq(Turn), Numbered(t)
    PROVE  Len(t) <= MaxTurns
  <1>. DEFINE Keys == (1..Planned) \X (0..MaxFollowUps)
              key == [i \in Positions(t) |-> <<t[i].main, t[i].follow>>]
  <1>1. Len(t) \in Nat /\ \A i \in Positions(t) : t[i] \in Turn
    BY DEF Positions
  <1>2. key \in [Positions(t) -> Keys]
    BY <1>1 DEF Turn
  <1>3. IsFiniteSet(Positions(t)) /\ Cardinality(Positions(t)) = Len(t)
    BY <1>1, FS_Interval, SMTT(30) DEF Positions
  <1>4. IsFiniteSet(Keys) /\ Cardinality(Keys) = MaxTurns
    <2>1. IsFiniteSet(1..Planned) /\ Cardinality(1..Planned) = Planned
      BY FS_Interval, InterviewAssumption
    <2>2. IsFiniteSet(0..MaxFollowUps) /\ Cardinality(0..MaxFollowUps) = MaxFollowUps + 1
      BY FS_Interval, InterviewAssumption
    <2>. QED
      BY <2>1, <2>2, FS_Product, ZenonT(30) DEF MaxTurns
  <1>5. ASSUME NEW i \in Positions(t), NEW j \in Positions(t), key[i] = key[j]
        PROVE  i = j
    BY <1>5 DEF Numbered, Key
  <1>6. MaxTurns \in Nat
    BY MaxTurnsNat
  <1>7. SUFFICES ASSUME MaxTurns < Len(t) PROVE FALSE
    BY <1>1, <1>6
  <1>8. \E i, j \in Positions(t) : i # j /\ key[i] = key[j]
    <2>. HIDE DEF key, Keys
    <2>. QED
      BY <1>2, <1>3, <1>4, <1>7, FS_PigeonHole
  <1>. QED
    BY <1>5, <1>8

\* The number that the next follow-up gets is its predecessor's and one.
LEMMA NextFollowUp ==
    ASSUME TypeOK, QuestionsNumbered, NEW m \in 1..Planned, MainScored(turns, m),
           FollowUpCount(m) + 1 <= MaxFollowUps
    PROVE  FollowUpCount(m) \in 0..MaxFollowUps /\ Placed(m, FollowUpCount(m))
  <1>1. Len(turns) \in Nat /\ \A i \in Turns : turns[i] \in Turn
    BY DEF TypeOK, Turns, Positions
  <1>2. /\ IsFiniteSet(FollowUps(m)) /\ FollowUpCount(m) \in Nat
        /\ FollowUpCount(m) = 0 => FollowUps(m) = {}
    <2>1. IsFiniteSet(Turns)
      BY <1>1, FS_Interval DEF Turns, Positions
    <2>. QED
      BY <2>1, FS_Subset, FS_CardinalityType, FS_EmptySet DEF FollowUps, FollowUpCount
  <1>3. FollowUpCount(m) \in {0, 1} /\ (FollowUpCount(m) = 1 => MaxFollowUps = 2)
    BY <1>2, InterviewAssumption
  <1>4. CASE FollowUpCount(m) = 0
    BY <1>1, <1>2, <1>4, InterviewAssumption
       DEF MainScored, FollowUps, Placed, PlacedIn, Turns, Turn
  <1>5. CASE FollowUpCount(m) = 1
    <2>1. FollowUps(m) # {}
      BY <1>5, FS_EmptySet DEF FollowUpCount
    <2>2. PICK i \in Turns : turns[i].main = m /\ turns[i].follow > 0
      BY <2>1 DEF FollowUps
    <2>3. turns[i].follow \in {1, 2}
      BY <1>1, <1>3, <1>5, <2>2 DEF Turn
    <2>4. CASE turns[i].follow = 1
      BY <1>5, <2>2, <2>4, <1>3 DEF Placed, PlacedIn, Turns
    <2>5. CASE turns[i].follow = 2
      <3>1. PICK j \in 1..(i - 1) : turns[j].main = m /\ turns[j].follow = 1
        BY <2>2, <2>5 DEF QuestionsNumbered, Numbered, Turns
      <3>2. j \in Turns
        BY <1>1, <3>1 DEF Turns, Positions
      <3>. QED
        BY <1>5, <3>1, <3>2, <1>3 DEF Placed, PlacedIn, Turns
    <2>. QED
      BY <2>3, <2>4, <2>5
  <1>. QED
    BY <1>3, <1>4, <1>5

-----------------------------------------------------------------------------

LEMMA IdleLocal == Idle \in Local /\ \A t : LocalInv(t, Idle)
  BY MaxTurnsNat, InterviewAssumption
     DEF Idle, Local, Decisions, LocalInv, OwnAnswer, Evaluated

LEMMA InitIInv == Init => IInv
  <1>. SUFFICES ASSUME Init PROVE IInv
    OBVIOUS
  <1>1. Len(turns) = 0 /\ Turns = {}
    BY DEF Init, Turns, Positions
  <1>2. TypeOK
    BY <1>1, MaxTurnsNat, IdleLocal, InterviewAssumption DEF Init, TypeOK, Session
  <1>3. \A p \in Processes : LocalInv(turns, proc[p])
    BY IdleLocal DEF Init
  <1>. QED
    BY <1>1, <1>2, <1>3
       DEF Init, IInv, QuestionsNumbered, Numbered, Turns, ChargedForEvaluation, OneGenerator,
           At, Idle, RowInv, Exists

UsageType == [1..MaxTurns -> {"absent", "reserved", "succeeded", "returned"}]

\* A process that neither enters nor leaves the generation.
LEMMA OneGeneratorStable ==
    ASSUME IInv, NEW p \in Processes, NEW l \in Local, Become(p, l), l.at # "generate",
           Exists' => Exists /\ session'.improvement = session.improvement
    PROVE  OneGenerator'
  BY DEF IInv, TypeOK, OneGenerator, Become, At

\* A step of one process that leaves the session in existence and lets its
\* turns grow.
LEMMA LivePreserves ==
    ASSUME IInv, Exists, Exists', NEW p \in Processes, NEW l \in Local, Become(p, l),
           session' \in Session, turns' \in Seq(Turn), usage' \in UsageType,
           crashes' \in 0..MaxCrashes,
           Grows(turns, turns'), Numbered(turns'), OneGenerator', RowInv',
           \A i \in Positions(turns') : usage'[i] = "succeeded" => turns'[i].score # None,
           LocalInv(turns', l)
    PROVE  IInv'
  <1>1. TypeOK'
    BY TurnsBounded DEF IInv, TypeOK, Become, UsageType
  <1>2. \A q \in Processes : LocalInv(turns', proc'[q])
    <2>. TAKE q \in Processes
    <2>1. CASE q = p
      BY <2>1 DEF IInv, TypeOK, Become
    <2>2. CASE q # p
      BY <2>2, LocalInvStable DEF IInv, TypeOK, Become
    <2>. QED
      BY <2>1, <2>2
  <1>. QED
    BY <1>1, <1>2 DEF IInv, QuestionsNumbered, ChargedForEvaluation, Turns

\* A step of one process that leaves the session and its turns alone.
LEMMA MovePreserves ==
    ASSUME IInv, UNCHANGED <<session, turns>>,
           NEW p \in Processes, NEW l \in Local, Become(p, l), l.at # "generate",
           usage' \in UsageType, crashes' \in 0..MaxCrashes,
           \A i \in Turns : usage'[i] = "succeeded" => turns[i].score # None,
           Exists => \A i \in 1..MaxTurns : i > Len(turns) => usage'[i] = "absent",
           Exists => LocalInv(turns, l)
    PROVE  IInv'
  <1>1. OneGenerator'
    BY OneGeneratorStable DEF Exists
  <1>2. CASE Exists
    <2>1. Grows(turns, turns') /\ turns' \in Seq(Turn) /\ session' \in Session
      BY GrowsReflexive DEF IInv, TypeOK
    <2>2. RowInv'
      BY <1>2 DEF IInv, RowInv, MainScored
    <2>. QED
      BY <1>1, <1>2, <2>1, <2>2, LivePreserves DEF IInv, QuestionsNumbered, Exists, Turns
  <1>3. CASE ~Exists
    BY <1>1, <1>3
       DEF IInv, TypeOK, Become, UsageType, QuestionsNumbered, ChargedForEvaluation, Turns, Exists
  <1>. QED
    BY <1>2, <1>3

\* A step of one process that changes nothing but what it remembers.
LEMMA QuietPreserves ==
    ASSUME IInv, UNCHANGED <<session, turns, usage>>,
           NEW p \in Processes, NEW l \in Local, Become(p, l), l.at # "generate",
           crashes' \in 0..MaxCrashes,
           Exists => LocalInv(turns, l)
    PROVE  IInv'
  <1>1. usage' \in UsageType
    BY DEF IInv, TypeOK, UsageType
  <1>2. \A i \in Turns : usage'[i] = "succeeded" => turns[i].score # None
    BY DEF IInv, ChargedForEvaluation
  <1>3. Exists => \A i \in 1..MaxTurns : i > Len(turns) => usage'[i] = "absent"
    BY DEF IInv, RowInv
  <1>. QED
    BY <1>1, <1>2, <1>3, MovePreserves

LEMMA LeavePreserves ==
    ASSUME IInv, NEW p \in Processes, Leave(p), UNCHANGED <<session, turns, usage>>,
           crashes' \in 0..MaxCrashes
    PROVE  IInv'
  BY IdleLocal, QuietPreserves DEF Leave, Idle

-----------------------------------------------------------------------------
(* One lemma for each action.                                              *)

LEMMA LeavesPreserve ==
    ASSUME IInv, NEW p \in Processes,
           StartFailed(p) \/ ReserveRefused(p) \/ PlaceRefused(p) \/ ClaimRefused(p) \/ Gone(p)
             \/ Crash(p)
    PROVE  IInv'
  BY LeavePreserves, InterviewAssumption
     DEF IInv, TypeOK, StartFailed, ReserveRefused, PlaceRefused, ClaimRefused, Gone, Crash

LEMMA LocalRecord == ASSUME IInv, NEW p \in Processes PROVE proc[p] \in Local
  BY DEF IInv, TypeOK

LEMMA StartLoadPreserves == ASSUME IInv, NEW p \in Processes, StartLoad(p) PROVE IInv'
  <1>. DEFINE l == [proc[p] EXCEPT !.at = "start"]
  <1>1. l \in Local /\ l.at = "start"
    BY LocalRecord DEF Local
  <1>2. Exists => LocalInv(turns, l)
    BY <1>1, LocalRecord DEF StartLoad, At, IInv, LocalInv, OwnAnswer, Evaluated, Local
  <1>3. Become(p, l) /\ UNCHANGED <<session, turns, usage>> /\ crashes' \in 0..MaxCrashes
    BY DEF StartLoad, Goto, IInv, TypeOK
  <1>. QED
    BY <1>1, <1>2, <1>3, QuietPreserves

LEMMA CancelLoadPreserves == ASSUME IInv, NEW p \in Processes, CancelLoad(p) PROVE IInv'
  <1>. DEFINE l == [proc[p] EXCEPT !.at = "cancel"]
  <1>1. l \in Local /\ l.at = "cancel"
    BY LocalRecord DEF Local
  <1>2. Exists => LocalInv(turns, l)
    BY <1>1, LocalRecord DEF CancelLoad, At, IInv, LocalInv, OwnAnswer, Evaluated, Local
  <1>3. Become(p, l) /\ UNCHANGED <<session, turns, usage>> /\ crashes' \in 0..MaxCrashes
    BY DEF CancelLoad, Goto, IInv, TypeOK
  <1>. QED
    BY <1>1, <1>2, <1>3, QuietPreserves

\* What a request remembers of turn i.
LEMMA AnsweringLocal ==
    ASSUME NEW i \in 1..MaxTurns, NEW a \in Answers \union {None}
    PROVE  [Idle EXCEPT !.at = "record", !.turn = i, !.answer = a] \in Local
  <1>1. /\ 0 \in 0..Planned /\ i \in 0..MaxTurns /\ 0 \in 0..MaxFollowUps
        /\ 0 \in 0..(MaxTurns + 1)
    BY MaxTurnsNat, InterviewAssumption
  <1>. QED
    BY <1>1 DEF Idle, Local

LEMMA AnsweredTyped ==
    ASSUME NEW s \in {"reserve", "count"}, NEW i \in 1..MaxTurns, NEW m \in 0..Planned,
           NEW a \in Answers \union {None}, NEW b \in BOOLEAN
    PROVE  [Idle EXCEPT !.at = s, !.turn = i, !.main = m, !.answer = a, !.scored = b] \in Local
  <1>1. i \in 0..MaxTurns /\ 0 \in 0..MaxFollowUps /\ 0 \in 0..(MaxTurns + 1)
    BY MaxTurnsNat, InterviewAssumption
  <1>. QED
    BY <1>1 DEF Idle, Local

\* The copy of an answered turn.
LEMMA AnsweredLocal ==
    ASSUME IInv, NEW i \in Turns, turns[i].answer # None
    PROVE  Answered(i) \in Local /\ Answered(i).at # "generate" /\ LocalInv(turns, Answered(i))
  <1>1. turns[i] \in Turn /\ i \in 1..MaxTurns
    BY MaxTurnsNat DEF IInv, TypeOK, Turns, Positions
  <1>3. Answered(i) \in Local
    <2>. DEFINE s == IF turns[i].score = None THEN "reserve" ELSE "count"
                b == turns[i].score # None
    <2>1. s \in {"reserve", "count"} /\ b \in BOOLEAN
      OBVIOUS
    <2>2. turns[i].main \in 0..Planned /\ turns[i].answer \in Answers \union {None}
      BY <1>1 DEF Turn
    <2>3. Answered(i) = [Idle EXCEPT !.at = s, !.turn = i, !.main = turns[i].main,
                                     !.answer = turns[i].answer, !.scored = b]
      BY DEF Answered
    <2>. HIDE DEF s, b
    <2>4. [Idle EXCEPT !.at = s, !.turn = i, !.main = turns[i].main,
                       !.answer = turns[i].answer, !.scored = b] \in Local
      BY <1>1, <2>1, <2>2, AnsweredTyped, Zenon
    <2>. QED
      BY <2>3, <2>4, Zenon
  <1>4. /\ Answered(i).at \in {"reserve", "count"}
        /\ Answered(i).turn = i /\ Answered(i).main = turns[i].main
        /\ Answered(i).answer = turns[i].answer /\ Answered(i).goal = "none"
        /\ Answered(i).scored => turns[i].score # None
    BY DEF Answered, Idle
  <1>. QED
    BY <1>3, <1>4 DEF LocalInv, OwnAnswer, Evaluated, Turns

LEMMA AnswerLoadPreserves ==
    ASSUME IInv, NEW p \in Processes, NEW i \in Turns, NEW a \in AnswersTo[i],
           AnswerLoad(p, i, a)
    PROVE  IInv'
  <1>1. i \in 1..MaxTurns /\ i \in Positions(turns)
    BY MaxTurnsNat DEF IInv, TypeOK, Turns, Positions
  <1>2. a \in Answers /\ a # None
    BY <1>1, InterviewAssumption DEF Answers
  <1>3. crashes' \in 0..MaxCrashes /\ UNCHANGED <<session, turns, usage>>
    BY DEF IInv, TypeOK, AnswerLoad
  <1>4. CASE turns[i].answer = a /\ Become(p, Answered(i))
    BY <1>2, <1>3, <1>4, AnsweredLocal, QuietPreserves
  <1>5. CASE Become(p, [Idle EXCEPT !.at = "record", !.turn = i, !.answer = a])
    <2>. DEFINE l == [Idle EXCEPT !.at = "record", !.turn = i, !.answer = a]
    <2>1. l \in Local
      BY <1>1, <1>2, AnsweringLocal
    <2>2. l.at # "generate" /\ LocalInv(turns, l)
      BY <1>1, <1>2 DEF Idle, LocalInv, OwnAnswer, Evaluated
    <2>. QED
      BY <1>3, <1>5, <2>1, <2>2, QuietPreserves
  <1>. QED
    BY <1>4, <1>5 DEF AnswerLoad

LEMMA ReloadPreserves ==
    ASSUME IInv, NEW p \in Processes, ReloadWon(p) \/ ReloadLost(p)
    PROVE  IInv'
  <1>. DEFINE i == proc[p].turn
  <1>1. crashes' \in 0..MaxCrashes /\ UNCHANGED <<session, turns, usage>>
    BY DEF IInv, TypeOK, ReloadWon, ReloadLost
  <1>2. i \in Turns /\ turns[i].answer # None
    BY DEF IInv, ReloadWon, ReloadLost, At, LocalInv, OwnAnswer, Turns
  <1>3. CASE Become(p, Answered(i))
    BY <1>1, <1>2, <1>3, AnsweredLocal, QuietPreserves
  <1>4. CASE Become(p, Idle)
    BY <1>1, <1>4, LeavePreserves DEF Leave
  <1>. QED
    BY <1>3, <1>4 DEF ReloadWon, ReloadLost

\* What may become of the usage events: charges only of evaluated turns.
LEMMA UsageMovePreserves ==
    ASSUME IInv, UNCHANGED <<session, turns, crashes>>,
           NEW p \in Processes, NEW l \in Local, Become(p, l), l.at # "generate",
           Exists => LocalInv(turns, l),
           NEW i \in 0..MaxTurns, Exists => i \in Turns,
           NEW v \in {"reserved", "succeeded", "returned"},
           usage' = [usage EXCEPT ![i] = v],
           v = "succeeded" /\ Exists => turns[i].score # None \/ usage[i] = "succeeded"
    PROVE  IInv'
  <1>1. usage' \in UsageType /\ crashes' \in 0..MaxCrashes
    BY DEF IInv, TypeOK, UsageType
  <1>2. \A j \in Turns : usage'[j] = "succeeded" => turns[j].score # None
    <2>. TAKE j \in Turns
    <2>1. Exists /\ j \in 1..MaxTurns
      BY MaxTurnsNat DEF IInv, TypeOK, Turns, Positions
    <2>. QED
      BY <2>1 DEF IInv, TypeOK, ChargedForEvaluation
  <1>3. Exists => \A j \in 1..MaxTurns : j > Len(turns) => usage'[j] = "absent"
    <2>. HAVE Exists
    <2>. TAKE j \in 1..MaxTurns
    <2>. HAVE j > Len(turns)
    <2>1. j # i
      BY MaxTurnsNat DEF IInv, TypeOK, Turns, Positions
    <2>. QED
      BY <2>1 DEF IInv, TypeOK, RowInv
  <1>. QED
    BY <1>1, <1>2, <1>3, MovePreserves

LEMMA ReservePreserves == ASSUME IInv, NEW p \in Processes, Reserve(p) PROVE IInv'
  <1>. DEFINE i == proc[p].turn
              l == [proc[p] EXCEPT !.at = "count", !.held = TRUE]
              v == IF usage[i] = "succeeded" THEN "succeeded" ELSE "reserved"
  <1>1. l \in Local /\ l.at = "count" /\ i \in 0..MaxTurns
    BY LocalRecord, ZenonT(30) DEF Local
  <1>2. Exists => LocalInv(turns, l) /\ i \in Turns
    BY <1>1, LocalRecord DEF Reserve, At, IInv, LocalInv, OwnAnswer, Evaluated, Local, Turns
  <1>3. /\ Become(p, l) /\ UNCHANGED <<session, turns, crashes>>
        /\ usage' = [usage EXCEPT ![i] = v]
    BY DEF Reserve
  <1>. QED
    BY <1>1, <1>2, <1>3, UsageMovePreserves

LEMMA FollowUpCountNat == ASSUME TypeOK, NEW m PROVE FollowUpCount(m) \in Nat
  <1>1. IsFiniteSet(Turns)
    BY FS_Interval DEF TypeOK, Turns, Positions
  <1>. QED
    BY <1>1, FS_Subset, FS_CardinalityType DEF FollowUps, FollowUpCount

LEMMA CountPreserves == ASSUME IInv, NEW p \in Processes, Count(p) PROVE IInv'
  <1>. DEFINE n == FollowUpCount(proc[p].main)
              l == [proc[p] EXCEPT !.at = IF proc[p].scored THEN "decide" ELSE "evaluate",
                                   !.answer = IF proc[p].scored THEN None ELSE @,
                                   !.scored = FALSE,
                                   !.count = n]
  <1>1. n \in Nat
    BY FollowUpCountNat DEF IInv
  <1>. HIDE DEF n
  <1>2. l \in Local /\ l.at \in {"decide", "evaluate"}
    BY <1>1, LocalRecord, ZenonT(30) DEF Local
  <1>3. Exists => LocalInv(turns, l)
    <2>1. CASE proc[p].scored
      BY <1>2, <2>1, LocalRecord DEF Count, At, IInv, LocalInv, OwnAnswer, Evaluated, Local
    <2>2. CASE ~proc[p].scored
      BY <1>2, <2>2, LocalRecord DEF Count, At, IInv, LocalInv, OwnAnswer, Evaluated, Local
    <2>. QED
      BY <2>1, <2>2
  <1>4. Become(p, l) /\ UNCHANGED <<session, turns, usage>> /\ crashes' \in 0..MaxCrashes
    BY DEF Count, IInv, TypeOK, n
  <1>. QED
    BY <1>2, <1>3, <1>4, QuietPreserves

LEMMA DecidePreserves == ASSUME IInv, NEW p \in Processes, Decide(p) PROVE IInv'
  <1>1. PICK a \in Decisions :
          Become(p, [proc[p] EXCEPT !.at = "charge", !.count = 0,
                                    !.goal = Clamp(a, proc[p].main, proc[p].count)])
    BY DEF Decide
  <1>. DEFINE g == Clamp(a, proc[p].main, proc[p].count)
              l == [proc[p] EXCEPT !.at = "charge", !.count = 0, !.goal = g]
  <1>2. /\ proc[p].main \in 1..Planned
        /\ g \in Decisions
        /\ g = "complete" => proc[p].main = Planned
        /\ g = "next_main_question" => proc[p].main < Planned
    <2>1. proc[p].turn \in Positions(turns) /\ proc[p].main = turns[proc[p].turn].main
      BY DEF Decide, At, IInv, LocalInv, Evaluated
    <2>2. proc[p].main \in 1..Planned
      <3>1. turns[proc[p].turn] \in Turn
        BY <2>1 DEF IInv, TypeOK, Positions
      <3>. QED
        BY <2>1, <3>1 DEF Turn
    <2>. QED
      BY <2>2, InterviewAssumption DEF Clamp, Decisions
  <1>. HIDE DEF g
  <1>3. l \in Local /\ l.at = "charge" /\ l.goal = g /\ l.goal # "none"
    BY <1>2, LocalRecord, ZenonT(30) DEF Local, Decisions
  <1>4. Exists => LocalInv(turns, l)
    BY <1>2, <1>3, LocalRecord DEF Decide, At, IInv, LocalInv, OwnAnswer, Evaluated, Local
  <1>5. Become(p, l) /\ UNCHANGED <<session, turns, usage>> /\ crashes' \in 0..MaxCrashes
    BY <1>1 DEF Decide, IInv, TypeOK, g
  <1>. QED
    BY <1>3, <1>4, <1>5, QuietPreserves

LEMMA GraphFailedPreserves == ASSUME IInv, NEW p \in Processes, GraphFailed(p) PROVE IInv'
  <1>. DEFINE i == proc[p].turn
              l == [Idle EXCEPT !.at = Settlement(turns[i]), !.turn = i]
  <1>1. UNCHANGED <<session, turns, usage>> /\ crashes' \in 0..MaxCrashes
    BY DEF GraphFailed, IInv, TypeOK
  <1>2. CASE Become(p, Idle)
    BY <1>1, <1>2, LeavePreserves DEF Leave
  <1>3. CASE Become(p, l)
    <2>1. i \in Positions(turns) /\ i \in 0..MaxTurns
      BY LocalRecord DEF GraphFailed, IInv, LocalInv, OwnAnswer, Evaluated, Local
    <2>2. l \in Local /\ l.turn = i /\ l.goal = "none"
          /\ l.at \in {"commit", "release"} /\ (l.at = "commit" => turns[i].score # None)
      BY <2>1, IdleLocal DEF Settlement, Local, Idle
    <2>3. LocalInv(turns, l)
      BY <2>1, <2>2 DEF LocalInv, OwnAnswer, Evaluated
    <2>. QED
      BY <1>1, <1>3, <2>2, <2>3, QuietPreserves
  <1>. QED
    BY <1>2, <1>3 DEF GraphFailed

LEMMA SettleFailedPreserves == ASSUME IInv, NEW p \in Processes, SettleFailed(p) PROVE IInv'
  <1>. DEFINE i == proc[p].turn
  <1>1. /\ Become(p, Idle) /\ Idle \in Local /\ Idle.at # "generate" /\ LocalInv(turns, Idle)
        /\ UNCHANGED <<session, turns, crashes>> /\ i \in 0..MaxTurns
    BY IdleLocal, LocalRecord DEF SettleFailed, Leave, Idle, Local
  <1>2. Exists => i \in Turns
    BY DEF SettleFailed, At, IInv, LocalInv, Evaluated, Turns
  <1>3. CASE usage[i] = "reserved" /\ usage' = [usage EXCEPT ![i] = "returned"]
    BY <1>1, <1>2, <1>3, UsageMovePreserves
  <1>4. CASE At(p, "commit") /\ usage[i] = "reserved"
             /\ usage' = [usage EXCEPT ![i] = "succeeded"]
    <2>1. Exists => turns[i].score # None
      BY <1>4 DEF At, IInv, LocalInv, Evaluated
    <2>. QED
      BY <1>1, <1>2, <1>4, <2>1, UsageMovePreserves
  <1>5. CASE usage' = usage
    BY <1>1, <1>5, QuietPreserves DEF IInv, TypeOK
  <1>. QED
    BY <1>3, <1>4, <1>5 DEF SettleFailed, Charged, IInv, TypeOK

LEMMA ChargePreserves == ASSUME IInv, NEW p \in Processes, Charge(p) PROVE IInv'
  <1>. DEFINE i == proc[p].turn
  <1>1. UNCHANGED <<session, turns, crashes>> /\ crashes \in 0..MaxCrashes /\ i \in 0..MaxTurns
    BY LocalRecord DEF Charge, IInv, TypeOK, Local
  <1>2. Exists => i \in Turns /\ turns[i].score # None
    BY DEF Charge, At, IInv, LocalInv, Evaluated, Turns
  <1>3. PICK l \in Local : Become(p, l) /\ l.at # "generate" /\ (Exists => LocalInv(turns, l))
    <2>1. CASE Become(p, [proc[p] EXCEPT !.at = "advance", !.held = FALSE])
      <3>. DEFINE l == [proc[p] EXCEPT !.at = "advance", !.held = FALSE]
      <3>1. l \in Local /\ l.at = "advance"
        BY LocalRecord, ZenonT(30) DEF Local
      <3>2. Exists => LocalInv(turns, l)
        BY <3>1, LocalRecord DEF Charge, At, IInv, LocalInv, OwnAnswer, Evaluated, Local
      <3>. QED
        BY <2>1, <3>1, <3>2
    <2>2. CASE Leave(p)
      BY <2>2, IdleLocal DEF Leave, Idle
    <2>3. CASE Goto(p, "advance")
      <3>. DEFINE l == [proc[p] EXCEPT !.at = "advance"]
      <3>1. l \in Local /\ l.at = "advance"
        BY LocalRecord DEF Local
      <3>2. Exists => LocalInv(turns, l)
        BY <3>1, LocalRecord DEF Charge, At, IInv, LocalInv, OwnAnswer, Evaluated, Local
      <3>. QED
        BY <2>3, <3>1, <3>2 DEF Goto
    <2>. QED
      BY <2>1, <2>2, <2>3 DEF Charge
  <1>4. CASE usage' = usage
    BY <1>1, <1>3, <1>4, QuietPreserves
  <1>5. CASE usage' = [usage EXCEPT ![i] = "succeeded"]
    BY <1>1, <1>2, <1>3, <1>5, UsageMovePreserves
  <1>. QED
    BY <1>4, <1>5 DEF Charge, Charged, IInv, TypeOK

LEMMA AdvancePreserves == ASSUME IInv, NEW p \in Processes, Advance(p) PROVE IInv'
  <1>1. UNCHANGED <<session, turns, usage>> /\ crashes' \in 0..MaxCrashes /\ Exists
    BY DEF Advance, IInv, TypeOK
  <1>2. /\ proc[p].turn \in Positions(turns) /\ proc[p].main = turns[proc[p].turn].main
        /\ turns[proc[p].turn].score # None /\ proc[p].goal # "none"
        /\ proc[p].goal = "complete" => proc[p].main = Planned
        /\ proc[p].goal = "next_main_question" => proc[p].main < Planned
    BY DEF Advance, IInv, LocalInv, Evaluated
  <1>3. MainScored(turns, proc[p].main)
    BY <1>2 DEF MainScored
  <1>4. CASE Become(p, Idle)
    BY <1>1, <1>4, LeavePreserves DEF Leave
  <1>5. CASE proc[p].goal = "complete" /\ Become(p, [Idle EXCEPT !.at = "complete"])
    <2>. DEFINE l == [Idle EXCEPT !.at = "complete"]
    <2>1. l \in Local /\ l.at = "complete" /\ l.goal = "none"
      BY IdleLocal DEF Local, Idle
    <2>2. LocalInv(turns, l)
      BY <1>2, <1>3, <1>5, <2>1 DEF LocalInv, OwnAnswer, Evaluated
    <2>. QED
      BY <1>1, <1>5, <2>1, <2>2, QuietPreserves
  <1>6. CASE proc[p].goal # "complete" /\ Become(p, [proc[p] EXCEPT !.at = "place", !.turn = 0])
    <2>. DEFINE l == [proc[p] EXCEPT !.at = "place", !.turn = 0]
    <2>1. /\ l \in Local /\ l.at = "place"
          /\ l.goal = proc[p].goal /\ l.main = proc[p].main
      <3>1. proc[p] \in Local /\ 0 \in 0..MaxTurns
        BY LocalRecord, MaxTurnsNat
      <3>. QED
        BY <3>1 DEF Local
    <2>2. LocalInv(turns, l)
      BY <1>2, <1>3, <1>6, <2>1 DEF LocalInv, OwnAnswer, Evaluated
    <2>. QED
      BY <1>1, <1>6, <2>1, <2>2, QuietPreserves
  <1>. QED
    BY <1>4, <1>5, <1>6 DEF Advance

LEMMA PlacePreserves == ASSUME IInv, NEW p \in Processes, Place(p) PROVE IInv'
  <1>. DEFINE k == proc[p]
              n == FollowUpCount(k.main)
              f == IF k.goal = "follow_up" THEN n + 1 ELSE 0
              l == [k EXCEPT !.at = "insert", !.follow = f, !.seq = Len(turns) + 1]
  <1>1. UNCHANGED <<session, turns, usage>> /\ crashes' \in 0..MaxCrashes /\ Exists
    BY DEF Place, IInv, TypeOK
  <1>2. /\ k \in Local /\ k.goal # "none" /\ k.goal # "complete" /\ MainScored(turns, k.main)
        /\ k.goal = "next_main_question" => k.main < Planned
    BY LocalRecord DEF Place, IInv, LocalInv
  <1>3. k.main \in 1..Planned
    <2>1. PICK i \in Positions(turns) : turns[i].main = k.main
      BY <1>2 DEF MainScored
    <2>2. turns[i] \in Turn
      BY <2>1 DEF IInv, TypeOK, Positions
    <2>. QED
      BY <2>1, <2>2 DEF Turn
  <1>4. Become(p, l) /\ f <= MaxFollowUps
    BY DEF Place, NextMain
  <1>5. k.goal = "follow_up" => n \in 0..MaxFollowUps /\ PlacedIn(turns, k.main, n)
    BY <1>2, <1>3, <1>4, NextFollowUp DEF IInv, Placed
  <1>6. f \in 0..MaxFollowUps /\ Len(turns) + 1 \in 0..(MaxTurns + 1)
    BY <1>4, <1>5, MaxTurnsNat, InterviewAssumption DEF IInv, TypeOK
  <1>. HIDE DEF n
  <1>7. l \in Local /\ l.at = "insert" /\ l.goal = k.goal /\ l.main = k.main /\ l.follow = f
    BY <1>2, <1>6 DEF Local
  <1>8. k.goal = "follow_up" => f > 0 /\ PlacedIn(turns, k.main, f - 1)
    BY <1>5
  <1>. HIDE DEF f
  <1>9. k.goal = "next_main_question" => f = 0
    BY DEF f
  <1>10. LocalInv(turns, l)
    BY <1>2, <1>7, <1>8, <1>9 DEF LocalInv, OwnAnswer, Evaluated
  <1>. QED
    BY <1>1, <1>4, <1>7, <1>10, QuietPreserves

-----------------------------------------------------------------------------
(* Steps that change the turns.                                            *)

LEMMA UpdatedTurn ==
    ASSUME turns \in Seq(Turn), NEW i \in Turns, NEW r \in Turn,
           Key(r) = Key(turns[i]),
           turns[i].answer # None => r.answer = turns[i].answer,
           turns[i].score # None => r.score # None,
           turns' = [turns EXCEPT ![i] = r]
    PROVE  /\ turns' \in Seq(Turn) /\ Len(turns') = Len(turns) /\ Positions(turns') = Turns
           /\ Grows(turns, turns')
           /\ turns'[i] = r /\ \A j \in Turns : j # i => turns'[j] = turns[j]
           /\ Numbered(turns) => Numbered(turns')
  <1>1. /\ turns' \in Seq(Turn) /\ Len(turns') = Len(turns) /\ turns'[i] = r
        /\ \A j \in Turns : j # i => turns'[j] = turns[j]
    BY DEF Turns, Positions
  <1>2. Positions(turns') = Turns /\ Len(turns) \in Nat
    BY <1>1 DEF Turns, Positions
  <1>3. \A j \in Turns : /\ Key(turns'[j]) = Key(turns[j])
                         /\ turns'[j].main = turns[j].main
                         /\ turns'[j].follow = turns[j].follow
    BY <1>1 DEF Key
  <1>4. Grows(turns, turns')
    BY <1>1, <1>2, <1>3 DEF Grows, Turns
  <1>5. \A j \in Turns : 1..(j - 1) \subseteq Turns
    BY <1>2 DEF Turns, Positions
  <1>6. Numbered(turns) => Numbered(turns')
    BY <1>2, <1>3, <1>5 DEF Numbered, Turns
  <1>. QED
    BY <1>1, <1>2, <1>4, <1>6

LEMMA MainScoredGrows ==
    ASSUME NEW t \in Seq(Turn), NEW u \in Seq(Turn), Grows(t, u), NEW m, MainScored(t, m)
    PROVE  MainScored(u, m)
  BY DEF MainScored, Grows, Positions

\* A turn is updated, and a process remembers l.
LEMMA UpdatePreserves ==
    ASSUME IInv, Exists, UNCHANGED <<session, usage, crashes>>,
           NEW i \in Turns, NEW r \in Turn, Key(r) = Key(turns[i]),
           turns[i].answer # None => r.answer = turns[i].answer,
           turns[i].score # None => r.score # None,
           turns' = [turns EXCEPT ![i] = r],
           NEW p \in Processes, NEW l \in Local, Become(p, l), l.at # "generate",
           LocalInv(turns', l)
    PROVE  IInv'
  <1>1. turns \in Seq(Turn) /\ i \in Positions(turns) /\ Numbered(turns)
    BY DEF IInv, TypeOK, Turns, QuestionsNumbered
  <1>2. /\ turns' \in Seq(Turn) /\ Len(turns') = Len(turns) /\ Positions(turns') = Turns
        /\ Grows(turns, turns') /\ turns'[i] = r
        /\ \A j \in Turns : j # i => turns'[j] = turns[j]
        /\ Numbered(turns')
    BY <1>1, UpdatedTurn
  <1>3. RowInv'
    <2>1. \A m : MainScored(turns, m) => MainScored(turns', m)
      BY <1>1, <1>2, MainScoredGrows
    <2>2. session.status # "draft"
      BY <1>1 DEF IInv, RowInv, Positions
    <2>. QED
      BY <1>2, <2>1, <2>2 DEF IInv, RowInv
  <1>4. \A j \in Positions(turns') : usage'[j] = "succeeded" => turns'[j].score # None
    BY <1>2 DEF IInv, ChargedForEvaluation
  <1>5. OneGenerator'
    BY OneGeneratorStable DEF Exists
  <1>6. Exists' /\ session' \in Session /\ usage' \in UsageType /\ crashes' \in 0..MaxCrashes
    BY DEF Exists, IInv, TypeOK, UsageType
  <1>. QED
    BY <1>2, <1>3, <1>4, <1>5, <1>6, LivePreserves

LEMMA RecordPreserves == ASSUME IInv, NEW p \in Processes, Record(p) PROVE IInv'
  <1>. DEFINE i == proc[p].turn
              a == proc[p].answer
  <1>1. /\ Exists /\ UNCHANGED <<session, usage, crashes>> /\ crashes' \in 0..MaxCrashes
        /\ i \in Turns /\ i \in Positions(turns) /\ turns[i] \in Turn
        /\ a \in Answers /\ a # None /\ proc[p].at = "record"
    BY LocalRecord DEF Record, At, IInv, TypeOK, LocalInv, Turns, Positions, Local
  <1>2. CASE turns[i].answer = None
    <2>. DEFINE r == [turns[i] EXCEPT !.answer = a]
                l == [proc[p] EXCEPT !.at = "recorded"]
    <2>1. /\ r \in Turn /\ Key(r) = Key(turns[i]) /\ r.score = turns[i].score /\ r.answer = a
          /\ turns' = [turns EXCEPT ![i] = r]
      BY <1>1, <1>2 DEF Record, Turn, Key
    <2>2. Become(p, l) /\ l \in Local /\ l.at = "recorded"
          /\ l.turn = i /\ l.answer = a /\ l.goal = proc[p].goal /\ l.main = proc[p].main
      BY <1>2, LocalRecord DEF Record, Goto, Local
    <2>3. turns'[i] = r /\ i \in Positions(turns')
      BY <1>1, <2>1 DEF IInv, TypeOK, Positions
    <2>4. LocalInv(turns', l)
      <3>1. /\ l.goal = "complete" => l.main = Planned
            /\ l.goal = "next_main_question" => l.main < Planned
        BY <1>1, <2>2 DEF IInv, LocalInv
      <3>. QED
        BY <1>1, <2>1, <2>2, <2>3, <3>1 DEF LocalInv, OwnAnswer, Evaluated
    <2>. HIDE DEF r, l
    <2>. QED
      BY <1>1, <1>2, <2>1, <2>2, <2>4, UpdatePreserves
  <1>3. CASE turns[i].answer # None
    <2>. DEFINE l == [proc[p] EXCEPT !.at = "lost"]
    <2>1. Become(p, l) /\ UNCHANGED turns /\ l \in Local /\ l.at = "lost"
      BY <1>3, LocalRecord DEF Record, Goto, Local
    <2>2. LocalInv(turns, l)
      BY <1>1, <1>3, <2>1, LocalRecord DEF IInv, LocalInv, OwnAnswer, Evaluated, Local
    <2>. QED
      BY <1>1, <2>1, <2>2, QuietPreserves
  <1>. QED
    BY <1>2, <1>3

LEMMA EvaluatePreserves == ASSUME IInv, NEW p \in Processes, Evaluate(p) PROVE IInv'
  <1>. DEFINE i == proc[p].turn
              a == proc[p].answer
              l == [proc[p] EXCEPT !.at = "decide", !.answer = None]
  <1>1. /\ Exists /\ UNCHANGED <<session, usage, crashes>> /\ crashes' \in 0..MaxCrashes
        /\ i \in Turns /\ i \in Positions(turns) /\ turns[i] \in Turn
        /\ a \in Answers /\ a # None /\ turns[i].answer = a /\ proc[p].main = turns[i].main
    BY LocalRecord DEF Evaluate, At, IInv, TypeOK, LocalInv, Turns, Positions, Local, OwnAnswer
  <1>2. Become(p, l) /\ l \in Local /\ l.at = "decide"
        /\ l.turn = i /\ l.goal = proc[p].goal /\ l.main = proc[p].main
    BY LocalRecord, ZenonT(30) DEF Evaluate, Local
  <1>3. /\ l.goal = "complete" => l.main = Planned
        /\ l.goal = "next_main_question" => l.main < Planned
    BY <1>1, <1>2 DEF IInv, LocalInv
  <1>. HIDE DEF l
  <1>4. CASE turns[i].score = None
    <2>. DEFINE r == [turns[i] EXCEPT !.score = a]
    <2>1. /\ r \in Turn /\ Key(r) = Key(turns[i]) /\ r.score # None
          /\ r.answer = turns[i].answer /\ r.main = turns[i].main
          /\ turns' = [turns EXCEPT ![i] = r]
      BY <1>1, <1>4 DEF Evaluate, Evaluable, Turn, Key
    <2>. HIDE DEF r
    <2>2. turns'[i] = r /\ i \in Positions(turns')
      BY <1>1, <2>1 DEF IInv, TypeOK, Positions
    <2>3. LocalInv(turns', l)
      BY <1>1, <1>2, <1>3, <2>1, <2>2 DEF LocalInv, OwnAnswer, Evaluated
    <2>. QED
      BY <1>1, <1>2, <1>4, <2>1, <2>3, UpdatePreserves
  <1>5. CASE turns[i].score # None
    <2>1. UNCHANGED turns
      BY <1>5 DEF Evaluate, Evaluable
    <2>2. LocalInv(turns, l)
      BY <1>1, <1>2, <1>3, <1>5 DEF LocalInv, OwnAnswer, Evaluated
    <2>. QED
      BY <1>1, <1>2, <2>1, <2>2, QuietPreserves
  <1>. QED
    BY <1>4, <1>5

\* A question is appended that none is like, after the one before it.
LEMMA AppendPreserves ==
    ASSUME IInv, Exists, Exists', session' \in Session,
           session'.improvement = session.improvement, session'.status # "draft",
           session'.status = "completed" => session.status = "completed",
           UNCHANGED <<usage, crashes>>, NEW p \in Processes, Leave(p),
           NEW m \in 1..Planned, NEW f \in 0..MaxFollowUps, ~Placed(m, f),
           IF f > 0 THEN Placed(m, f - 1) ELSE m > 1 => Placed(m - 1, 0),
           turns' = Append(turns, NewTurn(m, f))
    PROVE  IInv'
  <1>. DEFINE n == Len(turns)
              r == NewTurn(m, f)
  <1>1. turns \in Seq(Turn) /\ n \in Nat /\ Turns = 1..n /\ Positions(turns) = 1..n
    BY DEF IInv, TypeOK, Turns, Positions
  <1>2. r \in Turn /\ r.main = m /\ r.follow = f
    BY DEF NewTurn, Turn
  <1>3. /\ turns' \in Seq(Turn) /\ Len(turns') = n + 1 /\ Positions(turns') = 1..(n + 1)
        /\ \A j \in 1..n : turns'[j] = turns[j]
        /\ turns'[n + 1] = r
    BY <1>1, <1>2 DEF Positions
  <1>. HIDE DEF r
  <1>4. Grows(turns, turns')
    BY <1>1, <1>3 DEF Grows
  <1>5. Numbered(turns')
    <2>1. ASSUME NEW i \in 1..(n + 1), NEW j \in 1..(n + 1), Key(turns'[j]) = Key(turns'[i])
          PROVE  j = i
      <3>1. turns'[j].main = turns'[i].main /\ turns'[j].follow = turns'[i].follow
        BY <2>1 DEF Key
      <3>2. CASE i \in 1..n /\ j \in 1..n
        BY <1>1, <1>3, <2>1, <3>2 DEF IInv, QuestionsNumbered, Numbered
      <3>3. CASE i = n + 1 /\ j \in 1..n
        BY <1>1, <1>2, <1>3, <3>1, <3>3 DEF Placed, PlacedIn
      <3>4. CASE j = n + 1 /\ i \in 1..n
        BY <1>1, <1>2, <1>3, <3>1, <3>4 DEF Placed, PlacedIn
      <3>5. CASE i = n + 1 /\ j = n + 1
        BY <3>5
      <3>. QED
        BY <1>1, <3>2, <3>3, <3>4, <3>5
    <2>2. ASSUME NEW i \in 1..(n + 1)
          PROVE  IF turns'[i].follow > 0
                 THEN \E j \in 1..(i - 1) : /\ turns'[j].main = turns'[i].main
                                            /\ turns'[j].follow = turns'[i].follow - 1
                 ELSE turns'[i].main > 1 =>
                        \E j \in 1..(i - 1) : /\ turns'[j].main = turns'[i].main - 1
                                              /\ turns'[j].follow = 0
      <3>1. CASE i \in 1..n
        <4>1. 1..(i - 1) \subseteq 1..n
          BY <1>1
        <4>2. IF turns[i].follow > 0
              THEN \E j \in 1..(i - 1) : /\ turns[j].main = turns[i].main
                                         /\ turns[j].follow = turns[i].follow - 1
              ELSE turns[i].main > 1 =>
                     \E j \in 1..(i - 1) : turns[j].main = turns[i].main - 1 /\ turns[j].follow = 0
          BY <1>1, <3>1 DEF IInv, QuestionsNumbered, Numbered
        <4>. QED
          BY <1>3, <3>1, <4>1, <4>2
      <3>2. CASE i = n + 1
        <4>1. i - 1 = n
          BY <1>1, <3>2
        <4>2. CASE f > 0
          BY <1>1, <1>2, <1>3, <3>2, <4>1, <4>2 DEF Placed, PlacedIn
        <4>3. CASE ~(f > 0)
          BY <1>1, <1>2, <1>3, <3>2, <4>1, <4>3 DEF Placed, PlacedIn
        <4>. QED
          BY <4>2, <4>3
      <3>. QED
        BY <1>1, <3>1, <3>2
    <2>. QED
      BY <1>3, <2>1, <2>2 DEF Numbered
  <1>6. n + 1 \in 1..MaxTurns
    <2>1. Len(turns') <= MaxTurns
      BY <1>3, <1>5, TurnsBounded
    <2>. QED
      BY <1>1, <1>3, <2>1, MaxTurnsNat
  <1>7. RowInv'
    <2>1. MainScored(turns, Planned) => MainScored(turns', Planned)
      BY <1>1, <1>3, <1>4, MainScoredGrows
    <2>2. \A i \in 1..MaxTurns : i > n + 1 => usage[i] = "absent"
      BY <1>1 DEF IInv, RowInv
    <2>. QED
      BY <1>3, <2>1, <2>2 DEF IInv, RowInv
  <1>8. \A i \in Positions(turns') : usage'[i] = "succeeded" => turns'[i].score # None
    <2>. TAKE i \in Positions(turns')
    <2>1. CASE i \in 1..n
      BY <1>1, <1>3, <2>1 DEF IInv, ChargedForEvaluation
    <2>2. CASE i = n + 1
      BY <1>1, <1>6, <2>2 DEF IInv, RowInv
    <2>. QED
      BY <1>1, <1>3, <2>1, <2>2
  <1>9. OneGenerator'
    BY IdleLocal, OneGeneratorStable DEF Leave, Idle
  <1>10. usage' \in UsageType /\ crashes' \in 0..MaxCrashes
    BY DEF IInv, TypeOK, UsageType
  <1>11. Become(p, Idle) /\ Idle \in Local /\ LocalInv(turns', Idle)
    BY IdleLocal DEF Leave
  <1>. QED
    BY <1>3, <1>4, <1>5, <1>7, <1>8, <1>9, <1>10, <1>11, LivePreserves

LEMMA StartCommitPreserves == ASSUME IInv, NEW p \in Processes, StartCommit(p) PROVE IInv'
  <1>1. CASE session.status = "draft"
    <2>1. turns = <<>> /\ ~Placed(1, 0) /\ Exists
      BY <1>1 DEF IInv, RowInv, Exists, Placed, PlacedIn, Positions
    <2>2. /\ session' \in Session /\ session'.improvement = session.improvement
          /\ session'.status = "in_progress" /\ Exists'
      BY <1>1 DEF StartCommit, IInv, TypeOK, Session, Exists
    <2>3. turns' = Append(turns, NewTurn(1, 0)) /\ UNCHANGED <<usage, crashes>> /\ Leave(p)
      BY <1>1 DEF StartCommit
    <2>4. 1 \in 1..Planned /\ 0 \in 0..MaxFollowUps /\ ~(0 > 0) /\ ~(1 > 1)
      BY InterviewAssumption
    <2>. QED
      BY <2>1, <2>2, <2>3, <2>4, AppendPreserves
  <1>2. CASE session.status # "draft"
    BY <1>2, LeavePreserves DEF StartCommit, IInv, TypeOK
  <1>. QED
    BY <1>1, <1>2

\* Before every follow-up the main question itself was asked.
LEMMA MainPlaced ==
    ASSUME TypeOK, QuestionsNumbered, NEW i \in Turns
    PROVE  Placed(turns[i].main, 0)
  <1>1. \A j \in Turns : /\ turns[j] \in Turn
                         /\ turns[j].follow \in {0, 1, 2}
                         /\ 1..(j - 1) \subseteq Turns
    <2>. TAKE j \in Turns
    <2>1. turns[j] \in Turn /\ 1..(j - 1) \subseteq Turns
      BY DEF TypeOK, Turns, Positions
    <2>2. turns[j].follow \in 0..MaxFollowUps
      BY <2>1 DEF Turn
    <2>. QED
      BY <2>1, <2>2, InterviewAssumption
  <1>2. \A j \in Turns : turns[j].follow > 0 =>
          \E k \in Turns : turns[k].main = turns[j].main /\ turns[k].follow = turns[j].follow - 1
    BY <1>1 DEF QuestionsNumbered, Numbered, Turns
  <1>3. \A j \in Turns : turns[j].follow = 0 => Placed(turns[j].main, 0)
    BY DEF Placed, PlacedIn, Turns
  <1>4. \A j \in Turns : turns[j].follow = 1 => Placed(turns[j].main, 0)
    BY <1>2, <1>3
  <1>5. \A j \in Turns : turns[j].follow = 2 => Placed(turns[j].main, 0)
    BY <1>2, <1>4
  <1>. QED
    BY <1>1, <1>3, <1>4, <1>5

LEMMA InsertPreserves == ASSUME IInv, NEW p \in Processes, Insert(p) PROVE IInv'
  <1>. DEFINE k == proc[p]
              m == NextMain(k)
              f == k.follow
  <1>1. Exists /\ UNCHANGED <<session, usage, crashes>> /\ crashes' \in 0..MaxCrashes /\ Leave(p)
    BY DEF Insert, IInv, TypeOK
  <1>2. /\ k.goal \in {"follow_up", "next_main_question"} /\ MainScored(turns, k.main)
        /\ k.goal = "next_main_question" => k.main < Planned /\ f = 0
        /\ k.goal = "follow_up" => f > 0 /\ Placed(k.main, f - 1)
        /\ f \in 0..MaxFollowUps
    BY LocalRecord DEF Insert, IInv, LocalInv, Local, Decisions, Placed
  <1>3. k.main \in 1..Planned /\ Placed(k.main, 0)
    <2>1. PICK i \in Turns : turns[i].main = k.main
      BY <1>2 DEF MainScored, Turns
    <2>2. turns[i] \in Turn
      BY <2>1 DEF IInv, TypeOK, Turns, Positions
    <2>. QED
      BY <2>1, <2>2, MainPlaced DEF IInv, Turn
  <1>4. CASE Storable(m, f, k.seq)
    <2>1. turns' = Append(turns, NewTurn(m, f)) /\ ~Placed(m, f)
      BY <1>4 DEF Insert, Storable
    <2>2. /\ m \in 1..Planned
          /\ IF f > 0 THEN Placed(m, f - 1) ELSE m > 1 => Placed(m - 1, 0)
      <3>1. CASE k.goal = "follow_up"
        BY <1>2, <1>3, <3>1 DEF NextMain
      <3>2. CASE k.goal = "next_main_question"
        <4>1. m = k.main + 1 /\ f = 0
          BY <1>2, <3>2 DEF NextMain
        <4>2. m \in 1..Planned /\ m - 1 = k.main
          BY <1>2, <1>3, <3>2, <4>1, InterviewAssumption
        <4>. QED
          BY <1>3, <4>1, <4>2
      <3>. QED
        BY <1>2, <3>1, <3>2
    <2>3. /\ session' \in Session /\ session' = session /\ Exists'
          /\ session.status # "draft"
      <3>1. turns # <<>>
        BY <1>2 DEF MainScored, Positions
      <3>. QED
        BY <1>1, <3>1 DEF IInv, TypeOK, RowInv, Exists
    <2>. HIDE DEF m, f
    <2>. QED
      BY <1>1, <1>2, <2>1, <2>2, <2>3, AppendPreserves
  <1>5. CASE ~Storable(m, f, k.seq)
    BY <1>1, <1>5, LeavePreserves DEF Insert
  <1>. QED
    BY <1>4, <1>5

-----------------------------------------------------------------------------
(* Steps that change the row of the session.                               *)

LEMMA SessionPreserves ==
    ASSUME IInv, Exists, Exists', session' \in Session, UNCHANGED <<turns, usage, crashes>>,
           session'.status = "draft" => session.status = "draft",
           session'.status = "completed" => MainScored(turns, Planned),
           NEW p \in Processes, NEW l \in Local, Become(p, l), LocalInv(turns, l),
           OneGenerator'
    PROVE  IInv'
  <1>1. turns' \in Seq(Turn) /\ Grows(turns, turns') /\ Numbered(turns') /\ usage' \in UsageType
        /\ crashes' \in 0..MaxCrashes
    BY GrowsReflexive DEF IInv, TypeOK, UsageType, QuestionsNumbered
  <1>2. RowInv'
    BY DEF IInv, RowInv, MainScored, Positions
  <1>3. \A i \in Positions(turns') : usage'[i] = "succeeded" => turns'[i].score # None
    BY DEF IInv, ChargedForEvaluation, Turns
  <1>. QED
    BY <1>1, <1>2, <1>3, LivePreserves

LEMMA CompletePreserves == ASSUME IInv, NEW p \in Processes, Complete(p) PROVE IInv'
  <1>. DEFINE l == [proc[p] EXCEPT !.at = "claim"]
  <1>1. /\ Exists /\ Exists' /\ session' \in Session /\ UNCHANGED <<turns, usage, crashes>>
        /\ session'.status = "completed" /\ session'.improvement = session.improvement
    BY DEF Complete, Exists, IInv, TypeOK, Session
  <1>2. MainScored(turns, Planned)
    BY DEF Complete, At, IInv, LocalInv
  <1>3. Become(p, l) /\ l \in Local /\ l.at = "claim"
    BY LocalRecord DEF Complete, Goto, Local
  <1>4. LocalInv(turns, l)
    BY <1>1, <1>3, LocalRecord DEF IInv, LocalInv, OwnAnswer, Evaluated, Local
  <1>5. OneGenerator'
    BY <1>1, <1>3, OneGeneratorStable
  <1>. QED
    BY <1>1, <1>2, <1>3, <1>4, <1>5, SessionPreserves

LEMMA CancelPreserves == ASSUME IInv, NEW p \in Processes, Cancel(p) PROVE IInv'
  <1>1. /\ Exists /\ Exists' /\ session' \in Session /\ UNCHANGED <<turns, usage, crashes>>
        /\ session'.status = "cancelled" /\ session'.improvement = session.improvement
    BY DEF Cancel, Exists, IInv, TypeOK, Session
  <1>2. Become(p, Idle) /\ Idle \in Local /\ Idle.at # "generate" /\ LocalInv(turns, Idle)
    BY IdleLocal DEF Cancel, Leave, Idle
  <1>3. OneGenerator'
    BY <1>1, <1>2, OneGeneratorStable
  <1>. QED
    BY <1>1, <1>2, <1>3, SessionPreserves

LEMMA ClaimPreserves ==
    ASSUME IInv, NEW p \in Processes, NEW s \in {"claim", "idle"}, ClaimFrom(p, s)
    PROVE  IInv'
  <1>. DEFINE l == [proc[p] EXCEPT !.at = "generate"]
  <1>1. /\ Exists /\ Exists' /\ session' \in Session /\ UNCHANGED <<turns, usage, crashes>>
        /\ session'.status = "completed" /\ session.status = "completed"
        /\ session'.improvement = "generating" /\ session.improvement # "generating"
    BY DEF ClaimFrom, Claimable, Exists, IInv, TypeOK, Session
  <1>2. MainScored(turns, Planned)
    BY <1>1 DEF IInv, RowInv
  <1>3. Become(p, l) /\ l \in Local /\ l.at = "generate"
    BY LocalRecord DEF ClaimFrom, Goto, Local
  <1>4. LocalInv(turns, l)
    BY <1>1, <1>3, LocalRecord DEF ClaimFrom, At, IInv, LocalInv, OwnAnswer, Evaluated, Local
  <1>5. \A q \in Processes : ~At(q, "generate")
    BY <1>1 DEF IInv, OneGenerator
  <1>6. OneGenerator'
    BY <1>1, <1>3, <1>5 DEF OneGenerator, At, Become, IInv, TypeOK
  <1>. QED
    BY <1>1, <1>2, <1>3, <1>4, <1>6, SessionPreserves

LEMMA GeneratePreserves == ASSUME IInv, NEW p \in Processes, Generate(p) PROVE IInv'
  <1>1. /\ Exists /\ Exists' /\ session' \in Session /\ UNCHANGED <<turns, usage, crashes>>
        /\ session'.status = session.status
    BY DEF Generate, Exists, IInv, TypeOK, Session
  <1>2. Become(p, Idle) /\ Idle \in Local /\ Idle.at = "idle" /\ LocalInv(turns, Idle)
    BY IdleLocal DEF Generate, Leave, Idle
  <1>3. \A q \in Processes \ {p} : ~At(q, "generate")
    BY DEF Generate, IInv, OneGenerator
  <1>4. OneGenerator'
    BY <1>2, <1>3 DEF OneGenerator, At, Become, IInv, TypeOK
  <1>5. session'.status = "completed" => MainScored(turns, Planned)
    BY <1>1 DEF IInv, RowInv
  <1>. QED
    BY <1>1, <1>2, <1>4, <1>5, SessionPreserves

LEMMA DeletePreserves == ASSUME IInv, NEW p \in Processes, Delete(p) PROVE IInv'
  <1>1. turns' = <<>> /\ Len(turns') = 0 /\ Turns' = {} /\ ~Exists'
    BY DEF Delete, Turns, Positions, Exists
  <1>2. TypeOK'
    BY <1>1, MaxTurnsNat DEF Delete, IInv, TypeOK, Session
  <1>3. OneGenerator'
    BY <1>1 DEF Delete, IInv, OneGenerator, At
  <1>. QED
    BY <1>1, <1>2, <1>3 DEF IInv, QuestionsNumbered, Numbered, ChargedForEvaluation, Turns

LEMMA AgePreserves == ASSUME IInv, NEW i \in 1..MaxTurns, Age(i) PROVE IInv'
  <1>1. UNCHANGED <<session, turns, proc, crashes>> /\ usage' \in UsageType
        /\ \A j \in 1..MaxTurns : usage'[j] # usage[j] => usage[j] = "reserved" /\ usage'[j] = "returned"
    BY DEF Age, IInv, TypeOK, UsageType
  <1>2. TypeOK' /\ QuestionsNumbered' /\ OneGenerator'
    BY <1>1 DEF IInv, TypeOK, UsageType, QuestionsNumbered, OneGenerator, At, Exists
  <1>3. Turns \subseteq 1..MaxTurns
    BY MaxTurnsNat DEF IInv, TypeOK, Turns, Positions
  <1>4. ChargedForEvaluation'
    BY <1>1, <1>3 DEF IInv, ChargedForEvaluation, Turns
  <1>5. Exists => RowInv'
    BY <1>1 DEF IInv, RowInv
  <1>. QED
    BY <1>1, <1>2, <1>4, <1>5 DEF IInv, Exists

-----------------------------------------------------------------------------

LEMMA NextPreserves == ASSUME IInv, Next PROVE IInv'
  <1>1. ASSUME NEW p \in Processes, Step(p) PROVE IInv'
    BY <1>1, LeavesPreserve, StartCommitPreserves, RecordPreserves, ReloadPreserves,
       ReservePreserves, CountPreserves, EvaluatePreserves, DecidePreserves,
       GraphFailedPreserves, SettleFailedPreserves, ChargePreserves, AdvancePreserves,
       CompletePreserves, PlacePreserves, InsertPreserves, ClaimPreserves, GeneratePreserves,
       CancelPreserves
       DEF Step, Claim
  <1>2. ASSUME NEW p \in Processes, Request(p) PROVE IInv'
    BY <1>2, StartLoadPreserves, ClaimPreserves, CancelLoadPreserves, DeletePreserves,
       AnswerLoadPreserves
       DEF Request, GenerateAgain
  <1>3. ASSUME NEW p \in Processes, Crash(p) PROVE IInv'
    BY <1>3, LeavesPreserve
  <1>. QED
    BY <1>1, <1>2, <1>3, AgePreserves DEF Next

\* The inductive invariant: types, the order of the questions, the charges,
\* one generator, the row against its turns, and what each process knows of
\* them between two commits of answer_interview_turn.
THEOREM Invariance == Spec => []IInv
  <1>1. ASSUME IInv, UNCHANGED vars PROVE IInv'
    BY <1>1
       DEF vars, IInv, TypeOK, QuestionsNumbered, ChargedForEvaluation, Turns, OneGenerator, At,
           Exists, RowInv
  <1>. QED
    BY <1>1, InitIInv, NextPreserves, PTL DEF Spec

\* Every variable keeps its type; the numbers of create_interview_turn never
\* leave the planned range.
THEOREM Typing == Spec => []TypeOK
  BY Invariance, PTL DEF IInv

\* The questions of a session are asked once each and numbered without a gap,
\* for any number of overlapping requests (create_interview_turn).
THEOREM QuestionOrder == Spec => []QuestionsNumbered
  BY Invariance, PTL DEF IInv

\* Whatever fails, dies or overlaps, a charged evaluation was stored
\* (the two settlements of
\* answer_interview_turn).
THEOREM ChargeSafety == Spec => []ChargedForEvaluation
  BY Invariance, PTL DEF IInv

-----------------------------------------------------------------------------
(* InterviewFlow implements InterviewScript.                               *)

Scripted == <<turns, session.status = "completed", session.improvement>>

LEMMA StartsScripted ==
    ASSUME IInv, NEW p \in Processes, StartCommit(p)
    PROVE  Script!Next \/ UNCHANGED Scripted
  <1>1. CASE session.status = "draft"
    <2>1. turns = <<>> /\ ~Script!Asked(1, 0)
      BY <1>1 DEF IInv, RowInv, Exists, Script!Asked, Script!Turns
    <2>2. /\ turns' = Append(turns, NewTurn(1, 0))
          /\ session'.status = "in_progress" /\ session'.improvement = session.improvement
      BY <1>1 DEF StartCommit, IInv, TypeOK, Session
    <2>3. 1 \in 1..Planned /\ 0 \in 0..MaxFollowUps /\ ~(0 > 0) /\ ~(1 > 1)
      BY InterviewAssumption
    <2>4. Script!Ask(1, 0)
      BY <1>1, <2>1, <2>2, <2>3 DEF Script!Ask, Script!MayFollow, NewTurn
    <2>. QED
      BY <2>3, <2>4 DEF Script!Next
  <1>2. CASE session.status # "draft"
    BY <1>2 DEF StartCommit, Scripted
  <1>. QED
    BY <1>1, <1>2

LEMMA AnswersScripted ==
    ASSUME IInv, NEW p \in Processes, Record(p) \/ Evaluate(p)
    PROVE  Script!Next \/ UNCHANGED Scripted
  <1>. DEFINE i == proc[p].turn
              a == proc[p].answer
  <1>1. i \in Script!Turns /\ a \in Answers /\ turns[i] \in Turn /\ UNCHANGED session
    BY LocalRecord
       DEF Record, Evaluate, At, IInv, TypeOK, LocalInv, OwnAnswer, Positions, Script!Turns, Local
  <1>2. CASE Record(p) /\ turns[i].answer = None
    <2>1. Script!Answer(i, a)
      BY <1>1, <1>2 DEF Record, Script!Answer
    <2>. QED
      BY <1>1, <2>1 DEF Script!Next
  <1>3. CASE Evaluate(p) /\ Evaluable(turns[i])
    <2>1. turns[i].answer = a
      BY <1>3 DEF Evaluate, At, IInv, LocalInv, OwnAnswer
    <2>2. Script!Evaluate(i)
      BY <1>1, <1>3, <2>1 DEF Evaluate, Evaluable, Script!Evaluate
    <2>. QED
      BY <1>1, <2>2 DEF Script!Next
  <1>4. CASE UNCHANGED turns
    BY <1>1, <1>4 DEF Scripted
  <1>. QED
    BY <1>2, <1>3, <1>4 DEF Record, Evaluate

LEMMA InsertScripted ==
    ASSUME IInv, NEW p \in Processes, Insert(p)
    PROVE  Script!Next \/ UNCHANGED Scripted
  <1>. DEFINE k == proc[p]
              m == NextMain(k)
              f == k.follow
  <1>1. /\ k.goal \in {"follow_up", "next_main_question"} /\ MainScored(turns, k.main)
        /\ k.goal = "next_main_question" => k.main < Planned /\ f = 0
        /\ k.goal = "follow_up" => f > 0 /\ Placed(k.main, f - 1)
        /\ f \in 0..MaxFollowUps
    BY LocalRecord DEF Insert, IInv, LocalInv, Local, Decisions, Placed
  <1>2. k.main \in 1..Planned
    <2>1. PICK i \in Turns : turns[i].main = k.main
      BY <1>1 DEF MainScored, Turns
    <2>2. turns[i] \in Turn
      BY <2>1 DEF IInv, TypeOK, Turns, Positions
    <2>. QED
      BY <2>1, <2>2 DEF Turn
  <1>3. CASE Storable(m, f, k.seq)
    <2>1. turns' = Append(turns, NewTurn(m, f)) /\ ~Placed(m, f) /\ UNCHANGED session
      BY <1>3 DEF Insert, Storable
    <2>2. m \in 1..Planned /\ Script!MayFollow(m, f)
      <3>1. CASE k.goal = "follow_up"
        BY <1>1, <1>2, <3>1
           DEF NextMain, Script!MayFollow, Script!Asked, Script!Evaluated, Script!Turns, Placed,
               PlacedIn, MainScored, Positions
      <3>2. CASE k.goal = "next_main_question"
        <4>1. m \in 1..Planned /\ m - 1 = k.main /\ m > 1 /\ f = 0
          BY <1>1, <1>2, <3>2, InterviewAssumption DEF NextMain
        <4>. HIDE DEF m
        <4>. QED
          BY <1>1, <4>1
             DEF Script!MayFollow, Script!Evaluated, Script!Turns, MainScored, Positions
      <3>. QED
        BY <1>1, <3>1, <3>2
    <2>. HIDE DEF m, f
    <2>3. Script!Ask(m, f)
      BY <2>1, <2>2
         DEF Script!Ask, Script!Asked, Script!Turns, Placed, PlacedIn, Positions, NewTurn
    <2>. QED
      BY <1>1, <2>2, <2>3 DEF Script!Next, f
  <1>4. CASE ~Storable(m, f, k.seq)
    BY <1>4 DEF Insert, Scripted
  <1>. QED
    BY <1>3, <1>4

LEMMA SessionScripted ==
    ASSUME IInv, NEW p \in Processes,
           Complete(p) \/ Cancel(p) \/ Claim(p) \/ GenerateAgain(p) \/ Generate(p) \/ Delete(p)
    PROVE  Script!Next \/ UNCHANGED Scripted
  <1>1. session \in Session
    BY DEF IInv, TypeOK
  <1>2. CASE Complete(p)
    <2>1. MainScored(turns, Planned)
      BY <1>2 DEF Complete, At, IInv, LocalInv
    <2>2. Script!Evaluated(Planned)
      BY <2>1 DEF MainScored, Positions, Script!Evaluated, Script!Turns
    <2>. QED
      BY <1>1, <1>2, <2>2 DEF Complete, Session, Script!Next, Script!Finish
  <1>3. CASE Cancel(p)
    BY <1>1, <1>3 DEF Cancel, Session, Script!Next, Script!Cancel
  <1>4. CASE Claim(p) \/ GenerateAgain(p)
    BY <1>1, <1>4
       DEF Claim, GenerateAgain, ClaimFrom, Claimable, Session, Script!Next, Script!Claim
  <1>5. CASE Generate(p)
    <2>1. session.improvement = "generating"
      BY <1>5 DEF Generate, At, IInv, OneGenerator
    <2>. QED
      BY <1>1, <1>5, <2>1 DEF Generate, Session, Script!Next, Script!Generated
  <1>6. CASE Delete(p)
    BY <1>6 DEF Delete, Script!Next, Script!Delete
  <1>. QED
    BY <1>2, <1>3, <1>4, <1>5, <1>6

\* Every other step leaves the script alone.
LEMMA QuietScripted ==
    ASSUME UNCHANGED <<session, turns>> PROVE UNCHANGED Scripted
  BY DEF Scripted

LEMMA NextScripted == ASSUME IInv, Next PROVE Script!Next \/ UNCHANGED Scripted
  <1>1. ASSUME NEW p \in Processes, Step(p) PROVE Script!Next \/ UNCHANGED Scripted
    <2>1. CASE StartCommit(p)
      BY <2>1, StartsScripted
    <2>2. CASE Record(p) \/ Evaluate(p)
      BY <2>2, AnswersScripted
    <2>3. CASE Insert(p)
      BY <2>3, InsertScripted
    <2>4. CASE Complete(p) \/ Cancel(p) \/ Claim(p) \/ Generate(p)
      BY <2>4, SessionScripted
    <2>5. CASE UNCHANGED <<session, turns>>
      BY <2>5, QuietScripted
    <2>. QED
      BY <1>1, <2>1, <2>2, <2>3, <2>4, <2>5
         DEF Step, StartFailed, ReloadWon, ReloadLost, Reserve, ReserveRefused, Count, Decide,
             GraphFailed, SettleFailed, Charge, Advance, Place, PlaceRefused, ClaimRefused, Gone
  <1>2. ASSUME NEW p \in Processes, Request(p) PROVE Script!Next \/ UNCHANGED Scripted
    <2>1. CASE GenerateAgain(p) \/ Delete(p)
      BY <2>1, SessionScripted
    <2>2. CASE UNCHANGED <<session, turns>>
      BY <2>2, QuietScripted
    <2>. QED
      BY <1>2, <2>1, <2>2 DEF Request, StartLoad, CancelLoad, AnswerLoad
  <1>. QED
    BY <1>1, <1>2, QuietScripted DEF Next, Crash, Age

\* Every step of overlapping requests on one session is a step of the
\* interview's script or invisible to it (answer_interview_turn,
\* generate_improvements_for_session and what they call).
THEOREM Implementation == Spec => ImplementsScript
  <1>1. Init => Script!Init
    BY DEF Init, Script!Init
  <1>2. IInv /\ [Next]_vars => [Script!Next]_Scripted
    <2>1. ASSUME UNCHANGED vars PROVE UNCHANGED Scripted
      BY <2>1 DEF vars, Scripted
    <2>. QED
      BY <2>1, NextScripted
  <1>. QED
    BY <1>1, <1>2, Invariance, PTL DEF Spec, ImplementsScript, Script!Spec, Scripted
=============================================================================
