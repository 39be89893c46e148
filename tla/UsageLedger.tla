---------------------------- MODULE UsageLedger ----------------------------
(***************************************************************************)
(* What the daily quota promises for one user and one usage type: every    *)
(* idempotency key holds at most one unit of one day, a unit is either     *)
(* reserved or spent, a spent one stays so, and no day holds more than the *)
(* limit.  UsageQuota, the locking protocol of services/usage_service.py,  *)
(* is shown to implement it.                                               *)
(***************************************************************************)
EXTENDS Integers, FiniteSets

CONSTANTS Keys, Days, Limit,
          Exempt   \* TRUE: the user is quota-exempt, the limit does not apply

VARIABLES held,    \* held[d]: keys that reserve a unit of day d
          spent    \* spent[d]: keys that have spent a unit of day d

Active(d) == held[d] \union spent[d]
Free(k) == \A d \in Days : k \notin Active(d)

Init == /\ held = [d \in Days |-> {}]
        /\ spent = [d \in Days |-> {}]

Reserve(k, d) ==
    /\ Free(k)
    /\ Exempt \/ Cardinality(Active(d)) < Limit
    /\ held' = [held EXCEPT ![d] = @ \union {k}]
    /\ UNCHANGED spent

Spend(k, d) ==
    /\ k \in held[d]
    /\ held' = [held EXCEPT ![d] = @ \ {k}]
    /\ spent' = [spent EXCEPT ![d] = @ \union {k}]

\* A reservation is given back by its holder, or several at once by their age.
Return(S, d) ==
    /\ S \subseteq held[d]
    /\ held' = [held EXCEPT ![d] = @ \ S]
    /\ UNCHANGED spent

Next == \E d \in Days :
           \/ \E k \in Keys : Reserve(k, d) \/ Spend(k, d)
           \/ \E S \in SUBSET Keys : Return(S, d)

Spec == Init /\ [][Next]_<<held, spent>>
=============================================================================
