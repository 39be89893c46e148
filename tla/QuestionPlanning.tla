-------------------------- MODULE QuestionPlanning --------------------------
(***************************************************************************)
(* The questions of one interview, one generation at a time: the intent    *)
(* the next question is to examine, whether the model's question is taken, *)
(* and the pool of ready questions that stands in when the evidence does   *)
(* not suffice or the model was refused twice.                             *)
(*                                                                         *)
(* A question is a model value; which intents its words mention, which     *)
(* questions it resembles and whether it asks one clear thing is given.    *)
(* A generation that fails leaves no trace here and is repeated.  Requests *)
(* that overlap are InterviewFlow's subject.                               *)
(***************************************************************************)
EXTENDS Integers, FiniteSets, Sequences, SequencesExt

CONSTANTS
    Intents,
    MainPriority, FollowUpPriority,  \* every intent, in the order they are tried
    Pool,        \* the ready questions of each intent, in their order
    Written,     \* what the model may write
    IntentsOf,   \* the intents a question's words mention
    Resembles,   \* the questions that a candidate is too similar to
    Focused,     \* Chinese, a single question, and no names without evidence
    Planned, MaxFollowUps

PoolTexts == UNION {ToSet(Pool[i]) : i \in Intents}

ASSUME PlanningAssumption ==
    /\ IsFiniteSet(Intents) /\ IsFiniteSet(PoolTexts)
    /\ MainPriority \in Seq(Intents) /\ ToSet(MainPriority) = Intents
    /\ FollowUpPriority \in Seq(Intents) /\ ToSet(FollowUpPriority) = Intents
    /\ \A i \in Intents : Pool[i] \in Seq(PoolTexts)
    /\ IntentsOf \in [Written \union PoolTexts -> SUBSET Intents]
    /\ Resembles \in [Written \union PoolTexts -> SUBSET (Written \union PoolTexts)]
    /\ Planned \in Nat \ {0} /\ MaxFollowUps \in Nat

\* What the code's pool fulfils: as many questions as the longest interview
\* asks, each unlike the others, and the first of an intent mentions it alone.
\* Nothing is assumed of what the model writes: its questions are compared with
\* those asked, never with the ready ones still to come.
ASSUME PoolAssumption ==
    /\ Planned * (1 + MaxFollowUps) <= Cardinality(PoolTexts)
    /\ \A p, q \in PoolTexts : p \in Resembles[q] <=> p = q
    /\ \A i \in Intents : Pool[i] # <<>> /\ IntentsOf[Pool[i][1]] = {i}

VARIABLES
    asked,     \* the questions in their order
    main, follow,
    due        \* the action whose question is to be generated

planningVars == <<asked, main, follow, due>>

AskedSet == {asked[k] : k \in DOMAIN asked}
Covered == UNION {IntentsOf[q] : q \in AskedSet}
Duplicate(q) == Resembles[q] \intersect AskedSet # {}

\* The first element of s that is in S.
First(s, S) ==
    s[CHOOSE k \in DOMAIN s : s[k] \in S /\ \A j \in 1..(k - 1) : s[j] \notin S]

Priority == IF due = "follow_up" THEN FollowUpPriority ELSE MainPriority
NamedTarget(mentioned) ==                                   \* mutant of Target
    First(Priority, IF due = "follow_up" /\ mentioned # {} THEN mentioned ELSE Intents)

\* select_target_intent: an uncovered intent, one that the reason for a
\* follow-up mentions if there is one.
Target(mentioned) ==
    LET open == Intents \ Covered
        named == IF due = "follow_up" THEN open \intersect mentioned ELSE {}
    IN  IF open = {} THEN Priority[1]
        ELSE First(Priority, IF named # {} THEN named ELSE open)

\* question_rejection_reason.
Usable(q, target) == ~Duplicate(q) /\ q \in Focused /\ IntentsOf[q] = {target}

\* build_fallback_question: the target's ready questions first, then those of
\* the other intents.
Fresh == {p \in PoolTexts : ~Duplicate(p)}
FreshOf(i) == {p \in ToSet(Pool[i]) : ~Duplicate(p)}
Fallback(target) ==
    LET i == First(<<target>> \o FollowUpPriority, {j \in Intents : FreshOf(j) # {}})
    IN  First(Pool[i], FreshOf(i))

Ask(q) ==
    /\ asked' = Append(asked, q)
    /\ due' = "none"
    /\ UNCHANGED <<main, follow>>

\* With sufficient evidence the model's question is asked if it is accepted.
AskWritten(q, mentioned) ==
    /\ due # "none"
    /\ Usable(q, Target(mentioned))
    /\ Ask(q)

\* The evidence does not suffice, or the model's question and its second
\* attempt were refused.  With nothing fresh build_fallback_question raises,
\* and the interview cannot go on.
AskFallback(mentioned) ==
    /\ due # "none"
    /\ Fresh # {}
    /\ Ask(Fallback(Target(mentioned)))

DecidedUnbounded(action) ==                                 \* mutant of Decided
    IF action = "follow_up" THEN "follow_up"
    ELSE IF main >= Planned THEN "complete" ELSE "main_question"

\* SupervisorAgent.decide: the model's choice, kept within the plan.
Decided(action) ==
    IF action = "follow_up" /\ follow < MaxFollowUps THEN "follow_up"
    ELSE IF main >= Planned THEN "complete" ELSE "main_question"

DecideNext(action) ==
    /\ due = "none" /\ asked # <<>>
    /\ LET d == Decided(action) IN
          /\ d # "complete"
          /\ due' = d
          /\ main' = IF d = "main_question" THEN main + 1 ELSE main
          /\ follow' = IF d = "main_question" THEN 0 ELSE follow + 1
    /\ UNCHANGED asked

PlanningInit ==
    /\ asked = <<>>
    /\ main = 1 /\ follow = 0
    /\ due = "main_question"

PlanningNext ==
    \/ \E mentioned \in SUBSET Intents :
          AskFallback(mentioned) \/ \E q \in Written : AskWritten(q, mentioned)
    \/ \E action \in {"follow_up", "next_main_question", "complete"} : DecideNext(action)

PlanningSpec == PlanningInit /\ [][PlanningNext]_planningVars

-----------------------------------------------------------------------------
(* Properties.                                                             *)

\* The position of the interview, and how many questions it has asked.
PlanningTypeOK ==
    /\ asked \in Seq(Written \union PoolTexts)
    /\ main \in 1..Planned /\ follow \in 0..MaxFollowUps
    /\ due \in {"main_question", "follow_up", "none"}
    /\ Len(asked) + (IF due = "none" THEN 0 ELSE 1)
          <= (main - 1) * (1 + MaxFollowUps) + follow + 1

\* A ready question is left whenever one may be needed.  The longest interview
\* asks as many as the pool has, so that only a question of the model's that
\* resembles several ready ones at once can use the pool up before the end.
AskedOfModel == AskedSet \ PoolTexts
UsesSeveral(q) == \E p, r \in PoolTexts : p # r /\ q \in Resembles[p] \intersect Resembles[r]
FallbackRemains == due # "none" => Fresh # {} \/ \E q \in AskedOfModel : UsesSeveral(q)

\* The interview examines every intent before it returns to one: each question
\* so far covered a new intent, until none was left.  The one way off this
\* course is a question of the model's that resembles the first ready question
\* of an intent it does not mention, and leaves that intent uncovered and
\* without the question made for it.
Strays(q) == \E i \in Intents : q \in Resembles[Pool[i][1]] /\ i \notin IntentsOf[q]
IntentsAdvance ==
    \/ Cardinality(Covered) = Cardinality(Intents)
    \/ Cardinality(Covered) = Len(asked)
    \/ \E q \in AskedOfModel : Strays(q)
=============================================================================
