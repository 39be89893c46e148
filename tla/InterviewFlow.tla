---------------------------- MODULE InterviewFlow ----------------------------
(***************************************************************************)
(* One interview session: its row, its turns and the usage events of their *)
(* evaluations, written by any number of requests and jobs at a time       *)
(* (services/interview_flow_service.py, interview_session_service.py,      *)
(* evaluation_service.py, improvement_generation_service.py, and the       *)
(* interview graph of agents/).                                            *)
(*                                                                         *)
(* An answer takes many commits: the answer, the reservation, one after    *)
(* each agent, the evaluation, the charge, and the completion or the next  *)
(* turn.  Each is a step, and so is a load whose result a later commit     *)
(* uses.  A language model is a choice: what it decides, or that it fails. *)
(*                                                                         *)
(* Left out: texts (questions, evidence, the plan, scores), the records of *)
(* agent runs, other users (get_owned_session sees their sessions as       *)
(* missing), current_main_question (only displayed), the title and what    *)
(* else update_interview_session writes (no step here reads it).           *)
(* reserve_usage, commit_usage and release_usage are atomic (UsageQuota);  *)
(* the quota of interview_start is its job's (BackgroundJobs).             *)
(***************************************************************************)
EXTENDS Integers, Sequences, FiniteSets

CONSTANTS
    Planned,     \* planned_main_questions
    MaxFollowUps,\* follow-ups of a main question: 2 in the code, 1 in small instances
    Processes,   \* requests and job threads
    AnswersTo,   \* the texts a candidate may give to each turn
    None,
    MaxCrashes   \* bound: processes that die in the middle

MaxTurns == Planned * (MaxFollowUps + 1)
Answers == UNION {AnswersTo[i] : i \in 1..MaxTurns}

ASSUME InterviewAssumption ==
    /\ Planned \in Nat \ {0}
    /\ MaxFollowUps \in 1..2
    /\ MaxCrashes \in Nat
    /\ DOMAIN AnswersTo = 1..MaxTurns
    /\ None \notin Answers

VARIABLES
    session,  \* the row of interview_sessions
    turns,    \* the rows of interview_turns by sequence_number
    usage,    \* the usage event "interview-turn:<turn>"
    proc,     \* where each process is, and what it remembers
    crashes

vars == <<session, turns, usage, proc, crashes>>

Session == [status : {"draft", "in_progress", "completed", "cancelled", "deleted"},
            improvement : {"pending", "generating", "completed", "failed"}]

Turn == [main : 1..Planned,
         follow : 0..MaxFollowUps,
         answer : Answers \union {None},
         score : Answers \union {None}]  \* the answer that has been evaluated

Decisions == {"follow_up", "next_main_question", "complete"}

Local == [at : {"idle", "start", "record", "recorded", "lost", "reserve", "count",
                "evaluate", "decide", "charge", "advance", "complete", "place", "insert",
                "commit", "release", "claim", "generate", "cancel"},
          turn : 0..MaxTurns,            \* turn_id
          main : 0..Planned,
          answer : Answers \union {None},
          scored : BOOLEAN,              \* existing_evaluation is not None
          held : BOOLEAN,                \* evaluation_reservation is not None
          count : Nat,                   \* follow_up_count
          goal : Decisions \union {"none"},
          follow : 0..MaxFollowUps,      \* of the next turn
          seq : 0..(MaxTurns + 1)]       \* of the next turn

Idle == [at |-> "idle", turn |-> 0, main |-> 0, answer |-> None, scored |-> FALSE,
         held |-> FALSE, count |-> 0, goal |-> "none", follow |-> 0, seq |-> 0]

Exists == session.status # "deleted"
Positions(t) == 1..Len(t)
Turns == Positions(turns)
Key(t) == [main |-> t.main, follow |-> t.follow]
NewTurn(m, f) == [main |-> m, follow |-> f, answer |-> None, score |-> None]

At(p, s) == proc[p].at = s
Become(p, l) == proc' = [proc EXCEPT ![p] = l]
Goto(p, s) == Become(p, [proc[p] EXCEPT !.at = s])
Leave(p) == Become(p, Idle)

-----------------------------------------------------------------------------
(* start_interview_flow.                                                   *)

StartLoad(p) ==
    /\ At(p, "idle")
    /\ session.status = "draft"
    /\ turns = <<>>
    /\ Goto(p, "start")
    /\ UNCHANGED <<session, turns, usage, crashes>>

\* One commit: the conditional UPDATE and the first turn.
StartCommit(p) ==
    /\ At(p, "start")
    /\ IF session.status = "draft"
       THEN /\ session' = [session EXCEPT !.status = "in_progress"]
            /\ turns' = Append(turns, NewTurn(1, 0))
       ELSE UNCHANGED <<session, turns>>
    /\ Leave(p)
    /\ UNCHANGED <<usage, crashes>>

\* An agent fails before.
StartFailed(p) ==
    /\ At(p, "start")
    /\ Leave(p)
    /\ UNCHANGED <<session, turns, usage, crashes>>

-----------------------------------------------------------------------------
(* answer_interview_turn: the answer.                                      *)

\* The copy in hand of a turn that has an answer: with an evaluation there
\* is nothing to reserve.
Answered(i) ==
    [Idle EXCEPT !.at = IF turns[i].score = None THEN "reserve" ELSE "count",
                 !.turn = i, !.main = turns[i].main, !.answer = turns[i].answer,
                 !.scored = turns[i].score # None]

\* Only the last turn is accepted.
AnswerLoad(p, i, a) ==
    /\ At(p, "idle")
    /\ session.status = "in_progress"
    /\ i = Len(turns)
    /\ \/ /\ turns[i].answer = None
          /\ Become(p, [Idle EXCEPT !.at = "record", !.turn = i, !.answer = a])
       \/ /\ turns[i].answer = a
          /\ Become(p, Answered(i))
    /\ UNCHANGED <<session, turns, usage, crashes>>

\* The conditional UPDATE, and its commit.
Record(p) ==
    LET i == proc[p].turn
    IN  /\ At(p, "record") /\ Exists
        /\ IF turns[i].answer = None
           THEN turns' = [turns EXCEPT ![i].answer = proc[p].answer] /\ Goto(p, "recorded")
           ELSE UNCHANGED turns /\ Goto(p, "lost")
        /\ UNCHANGED <<session, usage, crashes>>

ReloadWon(p) ==
    /\ At(p, "recorded") /\ Exists
    /\ Become(p, Answered(proc[p].turn))
    /\ UNCHANGED <<session, turns, usage, crashes>>

\* The turn was answered meanwhile: the same answer is taken for a retry.
SameAnswer(i, a) == Len(turns) = i /\ turns[i].answer = a
ReloadLost(p) ==
    LET i == proc[p].turn
        a == proc[p].answer
    IN  /\ At(p, "lost") /\ Exists
        /\ Become(p, IF SameAnswer(i, a) THEN Answered(i) ELSE Idle)
        /\ UNCHANGED <<session, turns, usage, crashes>>

\* reserve_usage: a reservation of another request, and a full day, refuse.
Reserve(p) ==
    LET i == proc[p].turn
    IN  /\ At(p, "reserve")
        /\ usage[i] # "reserved"
        /\ usage' = [usage EXCEPT ![i] = IF @ = "succeeded" THEN @ ELSE "reserved"]
        /\ Become(p, [proc[p] EXCEPT !.at = "count", !.held = TRUE])
        /\ UNCHANGED <<session, turns, crashes>>

ReserveRefused(p) ==
    /\ At(p, "reserve")
    /\ usage[proc[p].turn] # "succeeded"
    /\ Leave(p)
    /\ UNCHANGED <<session, turns, usage, crashes>>

FollowUps(m) == {i \in Turns : turns[i].main = m /\ turns[i].follow > 0}
FollowUpCount(m) == Cardinality(FollowUps(m))

Count(p) ==
    /\ At(p, "count") /\ Exists
    /\ Become(p, [proc[p] EXCEPT !.at = IF proc[p].scored THEN "decide" ELSE "evaluate",
                                 !.answer = IF proc[p].scored THEN None ELSE @,
                                 !.scored = FALSE,
                                 !.count = FollowUpCount(proc[p].main)])
    /\ UNCHANGED <<session, turns, usage, crashes>>

-----------------------------------------------------------------------------
(* The interview graph.                                                    *)

\* persist_turn_evaluation: an evaluation stored meanwhile is kept and used.
Evaluable(t) == t.answer # None /\ t.score = None
Evaluate(p) ==
    LET i == proc[p].turn
    IN  /\ At(p, "evaluate") /\ Exists
        /\ turns' = IF Evaluable(turns[i])
                    THEN [turns EXCEPT ![i].score = proc[p].answer] ELSE turns
        /\ Become(p, [proc[p] EXCEPT !.at = "decide", !.answer = None])
        /\ UNCHANGED <<session, usage, crashes>>

\* SupervisorAgent.decide: the model's action a, corrected.
UncheckedClamp(a, m, n) == \* mutant of Clamp: an early "complete" is taken
    IF a = "follow_up" /\ n >= MaxFollowUps
    THEN IF m >= Planned THEN "complete" ELSE "next_main_question"
    ELSE IF a = "next_main_question" /\ m >= Planned THEN "complete"
    ELSE a
Clamp(a, m, n) ==
    IF a = "follow_up" /\ n < MaxFollowUps THEN "follow_up"
    ELSE IF m >= Planned THEN "complete"
    ELSE "next_main_question"

\* The decision, and the question unless it is "complete".
Decide(p) ==
    /\ At(p, "decide") /\ Exists
    /\ \E a \in Decisions :
          Become(p, [proc[p] EXCEPT !.at = "charge", !.count = 0, !.goal = Clamp(a, proc[p].main, proc[p].count)])
    /\ UNCHANGED <<session, turns, usage, crashes>>

\* An agent fails, or the evaluation is refused: the failure is recorded and
\* the reservation settled by what the turn holds then.
SettleAlways(t) == "commit" \* mutant of Settlement: a failure is charged as well
Settlement(t) == IF t.score # None THEN "commit" ELSE "release"
GraphFailed(p) ==
    LET l == proc[p]
    IN  /\ l.at \in {"evaluate", "decide"} /\ Exists
        /\ Become(p, IF l.held
                     THEN [Idle EXCEPT !.at = Settlement(turns[l.turn]), !.turn = l.turn]
                     ELSE Idle)
        /\ UNCHANGED <<session, turns, usage, crashes>>

\* commit_usage raises for an event that is neither reserved nor succeeded.
Charged(i) == [usage EXCEPT ![i] = IF @ = "reserved" THEN "succeeded" ELSE @]

SettleFailed(p) ==
    LET i == proc[p].turn
    IN  /\ \/ At(p, "commit") /\ usage' = Charged(i)
           \/ At(p, "release")
              /\ usage' = [usage EXCEPT ![i] = IF @ = "reserved" THEN "returned" ELSE @]
        /\ Leave(p)
        /\ UNCHANGED <<session, turns, crashes>>

-----------------------------------------------------------------------------
(* answer_interview_turn: what the decision leads to.                      *)

Charge(p) ==
    LET i == proc[p].turn
    IN  /\ At(p, "charge")
        /\ IF proc[p].held
           THEN /\ usage' = Charged(i)
                /\ IF usage[i] \in {"reserved", "succeeded"}
                   THEN Become(p, [proc[p] EXCEPT !.at = "advance", !.held = FALSE])
                   ELSE Leave(p)
           ELSE Goto(p, "advance") /\ UNCHANGED usage
        /\ UNCHANGED <<session, turns, crashes>>

Advance(p) ==
    LET l == proc[p]
    IN  /\ l.at = "advance" /\ Exists
        /\ Become(p, IF session.status # "in_progress" THEN Idle
                     ELSE IF l.goal = "complete"
                     THEN [Idle EXCEPT !.at = "complete"]
                     ELSE [l EXCEPT !.at = "place", !.turn = 0])
        /\ UNCHANGED <<session, turns, usage, crashes>>

\* An UPDATE by primary key: the status may have changed since.
Complete(p) ==
    /\ At(p, "complete") /\ Exists
    /\ session' = [session EXCEPT !.status = "completed"]
    /\ Goto(p, "claim")
    /\ UNCHANGED <<turns, usage, crashes>>

\* create_interview_turn reads what it needs for the row.
NextMain(l) == IF l.goal = "next_main_question" THEN l.main + 1 ELSE l.main
PlacedIn(t, m, f) == \E i \in Positions(t) : t[i].main = m /\ t[i].follow = f
Placed(m, f) == PlacedIn(turns, m, f)
Place(p) ==
    LET l == proc[p]
        m == NextMain(l)
        f == IF l.goal = "follow_up" THEN FollowUpCount(m) + 1 ELSE 0
    IN  /\ l.at = "place" /\ Exists
        /\ m <= Planned
        /\ f <= MaxFollowUps
        /\ l.goal = "next_main_question" => ~Placed(m, 0)
        /\ Become(p, [l EXCEPT !.at = "insert", !.follow = f, !.seq = Len(turns) + 1])
        /\ UNCHANGED <<session, turns, usage, crashes>>

\* One of these conditions fails, or the question repeats an earlier one.
PlaceRefused(p) ==
    /\ At(p, "place")
    /\ Leave(p)
    /\ UNCHANGED <<session, turns, usage, crashes>>

\* The INSERT and its commit, whatever the status is by now;
\* uq_interview_turns_session_sequence and uq_interview_turns_question_follow_up
\* refuse.
Unconstrained(m, f, s) == TRUE \* mutant of Storable: the unique constraints are missing
Storable(m, f, s) == s = Len(turns) + 1 /\ ~Placed(m, f)
Insert(p) ==
    LET l == proc[p]
        m == NextMain(l)
    IN  /\ l.at = "insert" /\ Exists
        /\ IF Storable(m, l.follow, l.seq)
           THEN turns' = Append(turns, NewTurn(m, l.follow))
           ELSE UNCHANGED turns
        /\ Leave(p)
        /\ UNCHANGED <<session, usage, crashes>>

-----------------------------------------------------------------------------
(* generate_improvements_for_session, after a completion or on request.    *)

Claimable == {"pending", "failed"}
ClaimFrom(p, s) ==
    /\ At(p, s)
    /\ session.status = "completed"
    /\ session.improvement \in Claimable
    /\ session' = [session EXCEPT !.improvement = "generating"]
    /\ Goto(p, "generate")
    /\ UNCHANGED <<turns, usage, crashes>>
Claim(p) == ClaimFrom(p, "claim")
GenerateAgain(p) == ClaimFrom(p, "idle")

\* Generated already, being generated, or no longer completed.
ClaimRefused(p) ==
    /\ At(p, "claim") /\ Exists
    /\ session.status # "completed" \/ session.improvement \notin Claimable
    /\ Leave(p)
    /\ UNCHANGED <<session, turns, usage, crashes>>

\* _persist_output and _mark_failed, each an UPDATE by primary key.
Generate(p) ==
    /\ At(p, "generate") /\ Exists
    /\ \E s \in {"completed", "failed"} : session' = [session EXCEPT !.improvement = s]
    /\ Leave(p)
    /\ UNCHANGED <<turns, usage, crashes>>

-----------------------------------------------------------------------------
(* Cancellation and deletion.                                              *)

\* "已完成的会话不能取消"; a cancelled one stays as it is.
CancelLoad(p) ==
    /\ At(p, "idle")
    /\ session.status \in {"draft", "in_progress"}
    /\ Goto(p, "cancel")
    /\ UNCHANGED <<session, turns, usage, crashes>>

Cancel(p) ==
    /\ At(p, "cancel") /\ Exists
    /\ session' = [session EXCEPT !.status = "cancelled"]
    /\ Leave(p)
    /\ UNCHANGED <<turns, usage, crashes>>

\* The turns go with the session, the usage events stay.
Delete(p) ==
    /\ At(p, "idle") /\ Exists
    /\ session' = [status |-> "deleted", improvement |-> "pending"]
    /\ turns' = <<>>
    /\ UNCHANGED <<usage, proc, crashes>>

\* A process finds the session gone: what it has reserved is left to its age.
Gone(p) ==
    /\ ~Exists
    /\ proc[p].at \notin {"idle", "reserve", "charge", "commit", "release"}
    /\ Leave(p)
    /\ UNCHANGED <<session, turns, usage, crashes>>

-----------------------------------------------------------------------------

Crash(p) ==
    /\ ~At(p, "idle")
    /\ crashes < MaxCrashes
    /\ crashes' = crashes + 1
    /\ Leave(p)
    /\ UNCHANGED <<session, turns, usage>>

\* A later request of the user returns a reservation of the same day that is
\* older than 30 minutes, whoever holds it.
Age(i) ==
    /\ usage[i] = "reserved"
    /\ usage' = [usage EXCEPT ![i] = "returned"]
    /\ UNCHANGED <<session, turns, proc, crashes>>

Init ==
    /\ session = [status |-> "draft", improvement |-> "pending"]
    /\ turns = <<>>
    /\ usage = [i \in 1..MaxTurns |-> "absent"]
    /\ proc = [p \in Processes |-> Idle]
    /\ crashes = 0

Step(p) ==
    \/ StartCommit(p) \/ StartFailed(p)
    \/ Record(p) \/ ReloadWon(p) \/ ReloadLost(p)
    \/ Reserve(p) \/ ReserveRefused(p) \/ Count(p)
    \/ Evaluate(p) \/ Decide(p) \/ GraphFailed(p) \/ SettleFailed(p)
    \/ Charge(p) \/ Advance(p) \/ Complete(p)
    \/ Place(p) \/ PlaceRefused(p) \/ Insert(p)
    \/ Claim(p) \/ ClaimRefused(p) \/ Generate(p)
    \/ Cancel(p) \/ Gone(p)

Request(p) ==
    \/ StartLoad(p) \/ GenerateAgain(p) \/ CancelLoad(p) \/ Delete(p)
    \/ \E i \in Turns : \E a \in AnswersTo[i] : AnswerLoad(p, i, a)

Next ==
    \/ \E p \in Processes : Step(p) \/ Request(p) \/ Crash(p)
    \/ \E i \in 1..MaxTurns : Age(i)

Spec == Init /\ [][Next]_vars

\* A request that has begun goes on unless its process dies: nothing waits for
\* another one.  No request has to come.
Fairness == \A p \in Processes : WF_vars(Step(p))
FairSpec == Spec /\ Fairness

-----------------------------------------------------------------------------
(* Invariants.                                                             *)

TypeOK ==
    /\ session \in Session
    /\ turns \in Seq(Turn)
    /\ Len(turns) <= MaxTurns
    /\ usage \in [1..MaxTurns -> {"absent", "reserved", "succeeded", "returned"}]
    /\ proc \in [Processes -> Local]
    /\ crashes \in 0..MaxCrashes

\* Questions are asked once each, at most two follow-ups a main question, and
\* numbered without a gap in the order of their main questions, although the
\* number of the next is computed from a count that others may change before
\* it is stored (create_interview_turn, uq_interview_turns_*).
Numbered(t) ==
    \A i \in Positions(t) :
        /\ \A j \in Positions(t) : Key(t[j]) = Key(t[i]) => j = i
        /\ IF t[i].follow > 0
           THEN \E j \in 1..(i - 1) : t[j].main = t[i].main /\ t[j].follow = t[i].follow - 1
           ELSE t[i].main > 1 =>
                  \E j \in 1..(i - 1) : t[j].main = t[i].main - 1 /\ t[j].follow = 0
QuestionsNumbered == Numbered(turns)

\* A charge for an evaluation has an evaluation to show for it, also when the
\* request failed later, when its reservation had timed out and another one
\* holds the event, or when the process died (the two settlements of
\* answer_interview_turn).
ChargedForEvaluation ==
    \A i \in Turns : usage[i] = "succeeded" => turns[i].score # None

MainScored(t, m) == \E i \in Positions(t) : t[i].main = m /\ t[i].score # None

\* What a process in local state l knows of the turns t of an existing session.
OwnAnswer == {"recorded", "reserve", "count", "evaluate"}
Evaluated == {"decide", "charge", "advance", "commit"}
LocalInv(t, l) ==
    /\ l.at \in {"record", "lost", "release"} \union OwnAnswer \union Evaluated =>
          l.turn \in Positions(t)
    /\ l.at \in {"record", "lost"} \union OwnAnswer => l.answer # None
    /\ l.at = "lost" => t[l.turn].answer # None
    /\ l.at \in OwnAnswer => t[l.turn].answer = l.answer
    /\ l.at \in {"reserve", "count", "evaluate", "decide", "charge", "advance"} =>
          l.main = t[l.turn].main
    /\ l.at \in Evaluated \/ (l.at \in {"reserve", "count"} /\ l.scored) => t[l.turn].score # None
    /\ l.at \in {"charge", "advance", "place", "insert"} => l.goal # "none"
    /\ l.goal = "complete" => l.main = Planned
    /\ l.goal = "next_main_question" => l.main < Planned
    /\ l.at = "complete" => MainScored(t, Planned)
    /\ l.at \in {"place", "insert"} => l.goal # "complete" /\ MainScored(t, l.main)
    /\ l.at = "insert" =>
          /\ l.goal = "follow_up" => l.follow > 0 /\ PlacedIn(t, l.main, l.follow - 1)
          /\ l.goal = "next_main_question" => l.follow = 0

\* One process at most generates the improvements of a completed session.
OneGenerator ==
    \A p \in Processes : At(p, "generate") =>
        /\ Exists => session.improvement = "generating"
        /\ \A q \in Processes \ {p} : ~At(q, "generate")

\* The rows of the session agree with its status and with its events.
RowInv ==
    /\ session.status = "draft" => turns = <<>>
    /\ session.status = "completed" => MainScored(turns, Planned)
    /\ \A i \in 1..MaxTurns : i > Len(turns) => usage[i] = "absent"

\* The strengthening that is inductive: a deleted session has no turns, and
\* what is known of an existing one.
IInv ==
    /\ TypeOK
    /\ QuestionsNumbered
    /\ ChargedForEvaluation
    /\ OneGenerator
    /\ IF Exists THEN RowInv /\ \A p \in Processes : LocalInv(turns, proc[p])
       ELSE turns = <<>>

Script == INSTANCE InterviewScript WITH
    finished <- (session.status = "completed"), improvement <- session.improvement

\* Every step of the requests and jobs of a session, in any interleaving, is a
\* step of InterviewScript or changes nothing of it.
ImplementsScript == Script!Spec

\* "改进任务正在生成，请稍后重试": a generation that keeps others out ends, so that
\* one may try again later (improvement_generation_service.py:263).
GenerationEnds == session.improvement = "generating" ~> session.improvement # "generating"
=============================================================================
