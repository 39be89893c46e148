----------------------------- MODULE RateLimit -----------------------------
(***************************************************************************)
(* The fixed-window counters of one scope and subject.  A request reads    *)
(* the clock when it arrives and counts itself later, in one transaction:  *)
(* expired buckets go, its own is inserted or incremented below the limit. *)
(***************************************************************************)
EXTENDS Integers, FiniteSets

CONSTANTS Requests, Window, Limit,
          MaxTime                   \* bound of the clock

ASSUME RateAssumption ==
    /\ Window \in Nat \ {0} /\ Limit \in Nat \ {0}
    /\ MaxTime \in Nat

VARIABLES
    clock,
    buckets,   \* attempts by the start of the window, 0 for no row
    seen,      \* the time each request has read, -1 before it arrives
    outcome,   \* "none", "admitted", "refused"
    admitted   \* by window: admitted before it ended, a history of the above

rateVars == <<clock, buckets, seen, outcome, admitted>>

Starts == {t \in 0..MaxTime : t % Window = 0}
StartOf(t) == t - (t % Window)

Tick == /\ clock < MaxTime
        /\ clock' = clock + 1
        /\ UNCHANGED <<buckets, seen, outcome, admitted>>

Arrive(r) ==
    /\ seen[r] = -1
    /\ seen' = [seen EXCEPT ![r] = clock]
    /\ UNCHANGED <<clock, buckets, outcome, admitted>>

ExpiredEarly(w, now) == w + Window <= now + 1               \* mutant of Expired
Expired(w, now) == w + Window <= now

\* The row counts only if a row of a past window was not removed meanwhile.
Enforce(r) ==
    LET w == StartOf(seen[r])
        attempts == IF Expired(w, seen[r]) THEN 0 ELSE buckets[w]
        passes == attempts < Limit
    IN  /\ seen[r] >= 0 /\ outcome[r] = "none"
        /\ buckets' = [v \in Starts |->
                          IF v = w THEN IF passes THEN attempts + 1 ELSE attempts
                          ELSE IF Expired(v, seen[r]) THEN 0 ELSE buckets[v]]
        /\ outcome' = [outcome EXCEPT ![r] = IF passes THEN "admitted" ELSE "refused"]
        /\ admitted' = IF passes /\ clock < w + Window
                       THEN [admitted EXCEPT ![w] = @ + 1] ELSE admitted
        /\ UNCHANGED <<clock, seen>>

RateInit ==
    /\ clock = 0
    /\ buckets = [w \in Starts |-> 0]
    /\ seen = [r \in Requests |-> -1]
    /\ outcome = [r \in Requests |-> "none"]
    /\ admitted = [w \in Starts |-> 0]

RateNext == Tick \/ \E r \in Requests : Arrive(r) \/ Enforce(r)

RateSpec == RateInit /\ [][RateNext]_rateVars

-----------------------------------------------------------------------------
RateTypeOK ==
    /\ clock \in 0..MaxTime
    /\ buckets \in [Starts -> 0..Limit]
    /\ seen \in [Requests -> -1..MaxTime]
    /\ outcome \in [Requests -> {"none", "admitted", "refused"}]
    /\ admitted \in [Starts -> Nat]

\* In no order of requests that read the clock in one window and count
\* themselves in another are more than the limit admitted within a window: no
\* one's clean-up resets a counter that is still in use.  (A request that is
\* counted only after its window has ended may find its row removed.)
WithinRate == \A w \in Starts : admitted[w] <= Limit
=============================================================================
