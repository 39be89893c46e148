---------------------------- MODULE OrderedLists ----------------------------
(***************************************************************************)
(* Lists as the code builds them: sorted by a tuple of numbers, the least  *)
(* of a sort, filtered in their order, cut and added up.  They stand for   *)
(* SetToSortSeq, SelectSeq and FoldSeq, which take operators, where        *)
(* something is proved: here keys are functions and filters are sets.      *)
(***************************************************************************)
EXTENDS Integers, Sequences, FiniteSets

\* a comes before b when the first of their parts that differ is smaller.
Precedes(a, b) == \E i \in DOMAIN a : a[i] < b[i] /\ \A j \in 1..(i - 1) : a[j] = b[j]

\* The elements of a finite set by the key that each of them has, no two the same: the first
\* of them, and all in order.
Least(key) == CHOOSE c \in DOMAIN key : \A d \in DOMAIN key \ {c} : Precedes(key[c], key[d])
Before(key, c) == {d \in DOMAIN key : Precedes(key[d], key[c])}
Sorted(key) ==
    [n \in 1..Cardinality(DOMAIN key) |->
        CHOOSE c \in DOMAIN key : Cardinality(Before(key, c)) = n - 1]

Ascending(S) == Sorted([n \in S |-> <<n>>])

\* The elements of a list that are in a set, in their order; the first n of them.
Within(s, S) ==
    LET at == Ascending({i \in DOMAIN s : s[i] \in S})
    IN  [n \in DOMAIN at |-> s[at[n]]]
Take(s, n) == SubSeq(s, 1, IF Len(s) < n THEN Len(s) ELSE n)

Total(s) ==
    LET sum[n \in 0..Len(s)] == IF n = 0 THEN 0 ELSE sum[n - 1] + s[n]
    IN  sum[Len(s)]

Smaller(m, n) == IF m < n THEN m ELSE n
Larger(m, n) == IF m < n THEN n ELSE m
=============================================================================
