---------------------------- MODULE MCUsageQuota ----------------------------
(* Small instances of UsageQuota: three keys at most, visited in their     *)
(* order.                                                                  *)
EXTENDS UsageQuota, TLC

CONSTANTS k1, k2, k3

\* Sessions are alike.
Alike == Permutations(Procs)

InTheirOrder == [k \in Keys |-> CASE k = k1 -> 1 [] k = k2 -> 2 [] OTHER -> 3]
=============================================================================
