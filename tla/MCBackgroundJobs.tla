-------------------------- MODULE MCBackgroundJobs --------------------------
(* Small values for the constants of BackgroundJobs. *)
EXTENDS BackgroundJobs, TLC

CONSTANTS r1, r2, r3, q1, q2, t1, t2, w1, w2

\* One metered request; the same idempotency key sent with two task types
\* that meter the same usage type, and a request with a key of its own.
OneMetered == r1 :> q1
SharedKey == (r1 :> q1) @@ (r2 :> q1) @@ (r3 :> q2)

\* One slot, or two in processes of their own.
OneSlot == t1 :> w1
TwoProcesses == (t1 :> w1) @@ (t2 :> w2)

\* Jobs are alike, and so are the requests that share a key.
Alike == {f @@ g : f \in Permutations(Jobs), g \in Permutations({r1, r2})}
=============================================================================
