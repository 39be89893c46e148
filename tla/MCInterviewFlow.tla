--------------------------- MODULE MCInterviewFlow ---------------------------
(* Values and symmetry for the small instances of InterviewFlow. *)
EXTENDS InterviewFlow, TLC

CONSTANTS a1, a2, a3

\* Requests that differ in their answers meet at the first turn.
TwoForTheFirst == [i \in 1..MaxTurns |-> IF i = 1 THEN {a1, a2} ELSE {a3}]

\* Requests are alike, and so are the answers to the first turn.
Alike == Permutations(Processes) \union Permutations({a1, a2})
=============================================================================
