--------------------------- MODULE InterviewScript ---------------------------
(***************************************************************************)
(* What one interview session promises whatever requests overlap: which    *)
(* question may be asked after which, that an answer and the evaluation of *)
(* just that answer are final, when the interview may finish, and that its *)
(* improvement tasks are generated by one generator at a time and stored   *)
(* once.  InterviewFlow is shown to implement it.                          *)
(***************************************************************************)
EXTENDS Integers, Sequences

CONSTANTS Planned,      \* main questions of the session's mode
          MaxFollowUps, \* follow-ups of a main question
          Answers, None

VARIABLES turns,        \* questions in their order, with answer and evaluated answer
          finished,     \* the session is completed
          improvement   \* pending, generating, completed, failed

Turns == 1..Len(turns)
Asked(m, f) == \E i \in Turns : turns[i].main = m /\ turns[i].follow = f
Evaluated(m) == \E i \in Turns : turns[i].main = m /\ turns[i].score # None

Init == /\ turns = <<>>
        /\ finished = FALSE
        /\ improvement = "pending"

\* The first question opens the interview; any other needs an evaluated one
\* of the main question that it follows, and the numbers have no gap.
MayFollow(m, f) ==
    IF f > 0 THEN Asked(m, f - 1) /\ Evaluated(m)
    ELSE IF m > 1 THEN Evaluated(m - 1) ELSE turns = <<>>

Ask(m, f) ==
    /\ ~Asked(m, f)
    /\ MayFollow(m, f)
    /\ turns' = Append(turns, [main |-> m, follow |-> f, answer |-> None, score |-> None])
    /\ UNCHANGED <<finished, improvement>>

Answer(i, a) ==
    /\ turns[i].answer = None
    /\ turns' = [turns EXCEPT ![i].answer = a]
    /\ UNCHANGED <<finished, improvement>>

Evaluate(i) ==
    /\ turns[i].answer # None
    /\ turns[i].score = None
    /\ turns' = [turns EXCEPT ![i].score = turns[i].answer]
    /\ UNCHANGED <<finished, improvement>>

Finish == /\ Evaluated(Planned)
          /\ finished' = TRUE
          /\ UNCHANGED <<turns, improvement>>

\* A cancellation; one that was decided on an earlier state withdraws a
\* session that has finished.
Cancel == /\ finished' = FALSE
          /\ UNCHANGED <<turns, improvement>>

Claim == /\ finished
         /\ improvement \in {"pending", "failed"}
         /\ improvement' = "generating"
         /\ UNCHANGED <<turns, finished>>

Generated == /\ improvement = "generating"
             /\ improvement' \in {"completed", "failed"}
             /\ UNCHANGED <<turns, finished>>

Delete == /\ turns' = <<>>
          /\ finished' = FALSE
          /\ improvement' = "pending"

Next == \/ \E m \in 1..Planned, f \in 0..MaxFollowUps : Ask(m, f)
        \/ \E i \in Turns : Evaluate(i) \/ \E a \in Answers : Answer(i, a)
        \/ Finish \/ Cancel \/ Claim \/ Generated \/ Delete

Spec == Init /\ [][Next]_<<turns, finished, improvement>>
=============================================================================
