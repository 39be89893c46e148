----------------------- MODULE InterviewAgentsProofs -----------------------
(***************************************************************************)
(* Proofs about what surrounds an interview: the search for evidence       *)
(* (EvidenceRetrieval), the choice of questions (QuestionPlanning) and the *)
(* context given to the model (InterviewContext), for every set of files,  *)
(* texts and questions, every budget, every pool of ready questions as     *)
(* PoolAssumption has it, and whatever the models write. First what the    *)
(* ordered lists they share are: sorting, least elements and totals.       *)
(***************************************************************************)
EXTENDS EvidenceRetrieval, QuestionPlanning, InterviewContext, FiniteSetTheorems,
        SequenceTheorems, WellFoundedInduction, TLAPS

(* Ordered lists.                                                          *)

Below == {pair \in Nat \X Nat : pair[1] < pair[2]}

LEMMA BelowWellFounded == IsWellFoundedOn(Below, Nat)
  BY NatLessThanWellFounded DEF OpToRel, Below

LEMMA LeastNumber ==
    ASSUME NEW S \in SUBSET Nat, S # {}
    PROVE  \E m \in S : \A k \in S : m <= k
  <1>1. PICK m \in S : \A k \in S : ~(<<k, m>> \in Below)
    BY BelowWellFounded, WFMin
  <1>2. ASSUME NEW k \in S, k < m
        PROVE  FALSE
    <2>1. <<k, m>> \in Below
      BY <1>2 DEF Below
    <2>. QED
      BY <1>1, <2>1
  <1>. QED
    BY <1>2

LEMMA Counting ==
    ASSUME NEW n \in Nat, NEW P, 0 \in P, \A k \in 1..n : k - 1 \in P => k \in P
    PROVE  0..n \subseteq P
  <1>. SUFFICES ASSUME (0..n) \ P # {} PROVE FALSE
    OBVIOUS
  <1>1. PICK m \in (0..n) \ P : \A k \in (0..n) \ P : m <= k
    <2>. DEFINE S == (0..n) \ P
    <2>1. S \in SUBSET Nat /\ S # {}
      OBVIOUS
    <2>. HIDE DEF S
    <2>2. \E m \in S : \A k \in S : m <= k
      BY <2>1, LeastNumber
    <2>. QED
      BY <2>2 DEF S
  <1>2. m \in 1..n /\ m - 1 \in 0..n /\ m \notin P
    BY <1>1
  <1>3. m - 1 \in P
    BY <1>1, <1>2
  <1>. QED
    BY <1>2, <1>3

Steps(n, X) == [(1..n) \X X -> X]
Runs(n, X, x0, step, g) ==
    /\ g \in [0..n -> X]
    /\ g[0] = x0
    /\ \A k \in 1..n : g[k] = step[<<k, g[k - 1]>>]

\* A function that is defined by what each value makes of the one before it exists.
LEMMA Recursion ==
    ASSUME NEW n \in Nat, NEW X, NEW x0 \in X, NEW step \in Steps(n, X)
    PROVE  \E g : Runs(n, X, x0, step, g)
  <1>. DEFINE P == {m \in 0..n : \E g : Runs(m, X, x0, step, g)}
  <1>1. 0 \in P
    <2>. DEFINE h == [k \in 0..0 |-> x0]
    <2>1. h \in [0..0 -> X] /\ h[0] = x0
      OBVIOUS
    <2>. HIDE DEF h
    <2>2. Runs(0, X, x0, step, h)
      BY <2>1 DEF Runs
    <2>. QED
      BY <2>2
  <1>2. ASSUME NEW m \in 1..n, m - 1 \in P
        PROVE  m \in P
    <2>1. PICK g : Runs(m - 1, X, x0, step, g)
      BY <1>2
    <2>. DEFINE h == [k \in 0..m |-> IF k = m THEN step[<<m, g[m - 1]>>] ELSE g[k]]
    <2>2. /\ g \in [0..(m - 1) -> X] /\ g[0] = x0
          /\ \A k \in 1..(m - 1) : g[k] = step[<<k, g[k - 1]>>]
          /\ step[<<m, g[m - 1]>>] \in X
      BY <2>1 DEF Runs, Steps
    <2>3. h \in [0..m -> X]
      BY <2>2
    <2>4. \A k \in 0..(m - 1) : h[k] = g[k]
      OBVIOUS
    <2>5. h[m] = step[<<m, g[m - 1]>>]
      OBVIOUS
    <2>. HIDE DEF h
    <2>6. h[0] = x0
      BY <2>2, <2>4
    <2>7. ASSUME NEW k \in 1..m
          PROVE  h[k] = step[<<k, h[k - 1]>>]
      <3>1. CASE k = m
        BY <2>4, <2>5, <3>1
      <3>2. CASE k # m
        <4>1. k \in 1..(m - 1) /\ k - 1 \in 0..(m - 1) /\ k \in 0..(m - 1)
          BY <3>2
        <4>. QED
          BY <2>2, <2>4, <4>1
      <3>. QED
        BY <3>1, <3>2
    <2>8. Runs(m, X, x0, step, h)
      BY <2>3, <2>6, <2>7 DEF Runs
    <2>. QED
      BY <2>8
  <1>. HIDE DEF P
  <1>3. 0..n \subseteq P
    BY <1>1, <1>2, Counting
  <1>4. n \in P
    BY <1>3
  <1>. QED
    BY <1>4 DEF P

------------------------------------------------------------------------------
(* The order of keys.                                                      *)

LEMMA PrecedesOrder ==
    ASSUME NEW n \in Nat, NEW a \in [1..n -> Int], NEW b \in [1..n -> Int],
           NEW c \in [1..n -> Int]
    PROVE  /\ ~Precedes(a, a)
           /\ Precedes(a, b) /\ Precedes(b, c) => Precedes(a, c)
           /\ a # b => Precedes(a, b) \/ Precedes(b, a)
  <1>1. ~Precedes(a, a)
    BY DEF Precedes
  <1>2. ASSUME Precedes(a, b), Precedes(b, c)
        PROVE  Precedes(a, c)
    <2>1. PICK i \in 1..n : a[i] < b[i] /\ \A j \in 1..(i - 1) : a[j] = b[j]
      BY <1>2 DEF Precedes
    <2>2. PICK k \in 1..n : b[k] < c[k] /\ \A j \in 1..(k - 1) : b[j] = c[j]
      BY <1>2 DEF Precedes
    <2>3. CASE i <= k
      <3>1. a[i] < c[i]
        BY <2>1, <2>2, <2>3
      <3>2. \A j \in 1..(i - 1) : a[j] = c[j]
        BY <2>1, <2>2, <2>3
      <3>. QED
        BY <3>1, <3>2 DEF Precedes
    <2>4. CASE k < i
      <3>1. a[k] < c[k]
        BY <2>1, <2>2, <2>4
      <3>2. \A j \in 1..(k - 1) : a[j] = c[j]
        BY <2>1, <2>2, <2>4
      <3>. QED
        BY <3>1, <3>2 DEF Precedes
    <2>. QED
      BY <2>3, <2>4
  <1>3. ASSUME a # b
        PROVE  Precedes(a, b) \/ Precedes(b, a)
    <2>. DEFINE S == {i \in 1..n : a[i] # b[i]}
    <2>1. S \in SUBSET Nat /\ S # {}
      <3>1. \E i \in 1..n : a[i] # b[i]
        <4>. SUFFICES ASSUME \A i \in 1..n : a[i] = b[i] PROVE a = b
          BY <1>3
        <4>. QED
          OBVIOUS
      <3>2. PICK i \in 1..n : a[i] # b[i]
        BY <3>1
      <3>3. i \in S /\ S \in SUBSET Nat
        BY <3>2
      <3>. HIDE DEF S
      <3>. QED
        BY <3>3
    <2>2. PICK i \in S : \A j \in S : i <= j
      <3>. HIDE DEF S
      <3>. QED
        BY <2>1, LeastNumber
    <2>3. i \in 1..n /\ a[i] # b[i] /\ \A j \in 1..(i - 1) : a[j] = b[j]
      BY <2>2
    <2>4. a[i] < b[i] \/ b[i] < a[i]
      BY <2>3
    <2>. QED
      BY <2>3, <2>4 DEF Precedes
  <1>. QED
    BY <1>1, <1>2, <1>3

Keys(n, D) == [D -> [1..n -> Int]]
Distinct(key) == \A c, d \in DOMAIN key : key[c] = key[d] => c = d

\* In a set with different keys each number below its size is the number of those before some
\* element, and of one only.
LEMMA Positions ==
    ASSUME NEW n \in Nat, NEW D, IsFiniteSet(D), NEW key \in Keys(n, D), Distinct(key)
    PROVE  /\ Cardinality(D) \in Nat
           /\ \A c \in D : /\ Before(key, c) \subseteq D /\ IsFiniteSet(Before(key, c))
                           /\ Cardinality(Before(key, c)) \in 0..(Cardinality(D) - 1)
           /\ \A c, d \in D : Cardinality(Before(key, c)) < Cardinality(Before(key, d))
                              <=> Precedes(key[c], key[d])
           /\ \A i \in 0..(Cardinality(D) - 1) : \E c \in D : Cardinality(Before(key, c)) = i
  <1>. USE DEF Keys
  <1>. DEFINE B(c) == Before(key, c)
              N == Cardinality(D)
  <1>1. N \in Nat /\ DOMAIN key = D
    BY FS_CardinalityType
  <1>2. ASSUME NEW c \in D
        PROVE  /\ B(c) \subseteq D /\ IsFiniteSet(B(c)) /\ c \notin B(c)
               /\ Cardinality(B(c)) \in 0..(N - 1)
    <2>1. B(c) \subseteq D /\ c \notin B(c)
      BY PrecedesOrder DEF Before
    <2>2. IsFiniteSet(B(c)) /\ Cardinality(B(c)) <= N /\ (Cardinality(B(c)) = N => B(c) = D)
      BY <2>1, FS_Subset
    <2>3. Cardinality(B(c)) \in Nat
      BY <2>2, FS_CardinalityType
    <2>. QED
      BY <1>1, <2>1, <2>2, <2>3
  <1>3. ASSUME NEW c \in D, NEW d \in D, Precedes(key[c], key[d])
        PROVE  Cardinality(B(c)) < Cardinality(B(d))
    <2>1. B(c) \subseteq B(d)
      BY <1>3, PrecedesOrder DEF Before
    <2>2. c \in B(d) /\ c \notin B(c)
      BY <1>1, <1>2, <1>3 DEF Before
    <2>3. /\ Cardinality(B(c)) <= Cardinality(B(d))
          /\ Cardinality(B(c)) = Cardinality(B(d)) => B(c) = B(d)
      BY <1>2, <2>1, FS_Subset
    <2>4. Cardinality(B(c)) \in Nat /\ Cardinality(B(d)) \in Nat
      BY <1>2
    <2>. QED
      BY <2>2, <2>3, <2>4
  <1>4. ASSUME NEW c \in D, NEW d \in D, Cardinality(B(c)) < Cardinality(B(d))
        PROVE  Precedes(key[c], key[d])
    <2>1. Cardinality(B(c)) \in Nat /\ Cardinality(B(d)) \in Nat
      BY <1>2
    <2>2. c # d
      BY <1>4, <2>1
    <2>3. ~Precedes(key[d], key[c])
      BY <1>3, <1>4, <2>1
    <2>4. key[c] # key[d]
      BY <1>1, <2>2 DEF Distinct
    <2>. QED
      BY <2>3, <2>4, PrecedesOrder
  <1>5. \A i \in 0..(N - 1) : \E c \in D : Cardinality(B(c)) = i
    <2>. DEFINE f == [c \in D |-> Cardinality(B(c))]
                T == 0..(N - 1)
    <2>1. f \in [D -> T]
      BY <1>2
    <2>2. \A c, d \in D : c # d => f[c] # f[d]
      <3>1. SUFFICES ASSUME NEW c \in D, NEW d \in D, c # d PROVE f[c] # f[d]
        OBVIOUS
      <3>2. Precedes(key[c], key[d]) \/ Precedes(key[d], key[c])
        BY <1>1, <3>1, PrecedesOrder DEF Distinct
      <3>3. Cardinality(B(c)) \in Nat /\ Cardinality(B(d)) \in Nat
        BY <1>2
      <3>. QED
        BY <1>3, <3>2, <3>3
    <2>3. f \in Injection(D, T)
      BY <2>1, <2>2 DEF Injection, IsInjective
    <2>4. IsFiniteSet(T) /\ Cardinality(T) = N
      <3>1. /\ IsFiniteSet(0..(N - 1))
            /\ Cardinality(0..(N - 1)) = IF 0 > N - 1 THEN 0 ELSE (N - 1) - 0 + 1
        BY <1>1, FS_Interval
      <3>. QED
        BY <1>1, <3>1
    <2>5. f \in Surjection(D, T)
      BY <2>3, <2>4, FS_Injection
    <2>. QED
      BY <2>5 DEF Surjection
  <1>. QED
    BY <1>1, <1>2, <1>3, <1>4, <1>5

LEMMA SortedIs ==
    ASSUME NEW n \in Nat, NEW D, IsFiniteSet(D), NEW key \in Keys(n, D), Distinct(key)
    PROVE  /\ Cardinality(D) \in Nat
           /\ Sorted(key) \in [1..Cardinality(D) -> D]
           /\ \A c \in D : \E i \in 1..Cardinality(D) : Sorted(key)[i] = c
           /\ \A i, j \in 1..Cardinality(D) :
                 i < j <=> Precedes(key[Sorted(key)[i]], key[Sorted(key)[j]])
  <1>. DEFINE N == Cardinality(D)
              B(c) == Cardinality(Before(key, c))
  <1>0. key \in [D -> [1..n -> Int]]
    BY DEF Keys
  <1>1. N \in Nat /\ DOMAIN key = D
    BY <1>0, Positions
  <1>2. ASSUME NEW i \in 1..N
        PROVE  Sorted(key)[i] \in D /\ B(Sorted(key)[i]) = i - 1
    <2>1. \E c \in D : B(c) = i - 1
      <3>1. i - 1 \in 0..(N - 1)
        BY <1>1
      <3>. QED
        BY <3>1, Positions
    <2>2. Sorted(key)[i] = CHOOSE c \in D : B(c) = i - 1
      BY <1>1 DEF Sorted
    <2>. QED
      BY <2>1, <2>2
  <1>3. Sorted(key) \in [1..N -> D]
    BY <1>1, <1>2 DEF Sorted
  <1>4. ASSUME NEW c \in D
        PROVE  \E i \in 1..N : Sorted(key)[i] = c
    <2>1. B(c) \in 0..(N - 1)
      BY Positions
    <2>. DEFINE i == B(c) + 1
    <2>2. i \in 1..N /\ i - 1 = B(c)
      BY <1>1, <2>1
    <2>. HIDE DEF i
    <2>3. Sorted(key)[i] \in D /\ B(Sorted(key)[i]) = B(c)
      BY <1>2, <2>2
    <2>4. ~Precedes(key[Sorted(key)[i]], key[c]) /\ ~Precedes(key[c], key[Sorted(key)[i]])
      <3>1. \A d, e \in D : B(d) < B(e) <=> Precedes(key[d], key[e])
        BY Positions
      <3>. QED
        BY <2>1, <2>3, <3>1
    <2>5. key[Sorted(key)[i]] = key[c]
      BY <1>0, <2>3, <2>4, PrecedesOrder, ZenonT(30)
    <2>. DEFINE e == Sorted(key)[i]
    <2>6. e \in D /\ key[e] = key[c]
      BY <2>3, <2>5
    <2>. HIDE DEF e
    <2>7. e = c
      BY <1>1, <2>6 DEF Distinct
    <2>. QED
      BY <2>2, <2>7 DEF e
  <1>5. ASSUME NEW i \in 1..N, NEW j \in 1..N
        PROVE  i < j <=> Precedes(key[Sorted(key)[i]], key[Sorted(key)[j]])
    <2>1. \A d, e \in D : B(d) < B(e) <=> Precedes(key[d], key[e])
      BY Positions
    <2>2. B(Sorted(key)[i]) = i - 1 /\ B(Sorted(key)[j]) = j - 1
          /\ Sorted(key)[i] \in D /\ Sorted(key)[j] \in D
      BY <1>2
    <2>3. i < j <=> B(Sorted(key)[i]) < B(Sorted(key)[j])
      BY <1>1, <2>2
    <2>. QED
      BY <2>1, <2>2, <2>3
  <1>. QED
    BY <1>1, <1>3, <1>4, <1>5

LEMMA LeastIs ==
    ASSUME NEW n \in Nat, NEW D, IsFiniteSet(D), D # {}, NEW key \in Keys(n, D),
           Distinct(key)
    PROVE  Least(key) \in D /\ \A d \in D \ {Least(key)} : Precedes(key[Least(key)], key[d])
  <1>0. key \in [D -> [1..n -> Int]]
    BY DEF Keys
  <1>1. Cardinality(D) \in Nat /\ Cardinality(D) # 0
    BY FS_CardinalityType, FS_EmptySet
  <1>2. 0 \in 0..(Cardinality(D) - 1)
    BY <1>1
  <1>3. PICK c \in D : Cardinality(Before(key, c)) = 0
    BY <1>2, Positions
  <1>4. Before(key, c) = {}
    BY <1>3, Positions, FS_EmptySet
  <1>5. \A d \in D \ {c} : Precedes(key[c], key[d])
    <2>1. ASSUME NEW d \in D \ {c} PROVE Precedes(key[c], key[d])
      <3>1. ~Precedes(key[d], key[c])
        BY <1>0, <1>4 DEF Before
      <3>2. key[d] # key[c]
        BY <1>0 DEF Distinct
      <3>. QED
        BY <1>0, <3>1, <3>2, PrecedesOrder
    <2>. QED
      BY <2>1
  <1>6. \E e \in DOMAIN key : \A d \in DOMAIN key \ {e} : Precedes(key[e], key[d])
    BY <1>0, <1>5
  <1>. QED
    BY <1>0, <1>6 DEF Least

------------------------------------------------------------------------------
(* Lists.                                                                  *)

LEMMA NumbersFinite == ASSUME NEW n \in Nat PROVE IsFiniteSet(1..n) /\ Cardinality(1..n) = n
  <1>1. IsFiniteSet(1..n) /\ Cardinality(1..n) = IF 1 > n THEN 0 ELSE n - 1 + 1
    BY FS_Interval
  <1>. QED
    BY <1>1

LEMMA AscendingIs ==
    ASSUME NEW S \in SUBSET Int, IsFiniteSet(S)
    PROVE  /\ Cardinality(S) \in Nat
           /\ Ascending(S) \in [1..Cardinality(S) -> S]
           /\ \A c \in S : \E i \in 1..Cardinality(S) : Ascending(S)[i] = c
           /\ \A i, j \in 1..Cardinality(S) : i < j <=> Ascending(S)[i] < Ascending(S)[j]
  <1>. DEFINE key == [n \in S |-> <<n>>]
  <1>1. key \in Keys(1, S) /\ Distinct(key)
    <2>1. \A n \in S : <<n>> \in [1..1 -> Int] /\ <<n>>[1] = n
      OBVIOUS
    <2>2. \A n \in S : key[n] = <<n>> /\ DOMAIN key = S
      OBVIOUS
    <2>3. Distinct(key)
      BY <2>1, <2>2 DEF Distinct
    <2>. QED
      BY <2>1, <2>3 DEF Keys
  <1>2. \A c, d \in S : Precedes(key[c], key[d]) <=> c < d
    <2>1. SUFFICES ASSUME NEW c \in S, NEW d \in S PROVE Precedes(<<c>>, <<d>>) <=> c < d
      OBVIOUS
    <2>2. DOMAIN <<c>> = 1..1 /\ <<c>>[1] = c /\ <<d>>[1] = d
      OBVIOUS
    <2>3. ASSUME Precedes(<<c>>, <<d>>)
          PROVE  c < d
      BY <2>2, <2>3 DEF Precedes
    <2>4. ASSUME c < d
          PROVE  Precedes(<<c>>, <<d>>)
      <3>1. 1 \in DOMAIN <<c>> /\ <<c>>[1] < <<d>>[1] /\ \A j \in 1..(1 - 1) : <<c>>[j] = <<d>>[j]
        BY <2>2, <2>4
      <3>. QED
        BY <3>1 DEF Precedes
    <2>. QED
      BY <2>3, <2>4
  <1>3. Ascending(S) = Sorted(key)
    BY DEF Ascending
  <1>. HIDE DEF key
  <1>4. /\ Cardinality(S) \in Nat
        /\ Sorted(key) \in [1..Cardinality(S) -> S]
        /\ \A c \in S : \E i \in 1..Cardinality(S) : Sorted(key)[i] = c
        /\ \A i, j \in 1..Cardinality(S) :
              i < j <=> Precedes(key[Sorted(key)[i]], key[Sorted(key)[j]])
    BY <1>1, SortedIs
  <1>. QED
    BY <1>2, <1>3, <1>4

LEMMA WithinIs ==
    ASSUME NEW T, NEW s \in Seq(T), NEW S
    PROVE  /\ Within(s, S) \in Seq(T \intersect S)
           /\ ToSet(Within(s, S)) = ToSet(s) \intersect S
  <1>. DEFINE I == {i \in DOMAIN s : s[i] \in S}
              at == Ascending(I)
              m == Cardinality(I)
  <1>1. I \in SUBSET Int /\ IsFiniteSet(I) /\ I \subseteq DOMAIN s
    <2>1. DOMAIN s = 1..Len(s) /\ Len(s) \in Nat
      OBVIOUS
    <2>2. I \subseteq 1..Len(s) /\ I \in SUBSET Int
      BY <2>1
    <2>. HIDE DEF I
    <2>3. IsFiniteSet(I)
      BY <2>1, <2>2, NumbersFinite, FS_Subset
    <2>. QED
      BY <2>1, <2>2, <2>3
  <1>2. \A i \in I : s[i] \in T \intersect S
    OBVIOUS
  <1>3. \A i \in DOMAIN s : s[i] \in S => i \in I
    OBVIOUS
  <1>4. Within(s, S) = [n \in DOMAIN at |-> s[at[n]]]
    BY DEF Within
  <1>. HIDE DEF I
  <1>5. m \in Nat /\ at \in [1..m -> I] /\ \A i \in I : \E k \in 1..m : at[k] = i
    BY <1>1, AscendingIs
  <1>. HIDE DEF at, m
  <1>6. Within(s, S) \in [1..m -> T \intersect S] /\ \A k \in 1..m : Within(s, S)[k] = s[at[k]]
    BY <1>2, <1>4, <1>5
  <1>7. Within(s, S) \in Seq(T \intersect S) /\ DOMAIN Within(s, S) = 1..m
    BY <1>5, <1>6
  <1>8. ASSUME NEW x \in ToSet(s) \intersect S
        PROVE  x \in ToSet(Within(s, S))
    <2>1. PICK i \in DOMAIN s : s[i] = x /\ i \in I
      BY <1>3 DEF ToSet
    <2>2. PICK k \in 1..m : at[k] = i
      BY <1>5, <2>1
    <2>. QED
      BY <1>6, <1>7, <2>1, <2>2 DEF ToSet
  <1>9. ASSUME NEW x \in ToSet(Within(s, S))
        PROVE  x \in ToSet(s) \intersect S
    <2>1. PICK k \in 1..m : Within(s, S)[k] = x
      BY <1>7 DEF ToSet
    <2>2. at[k] \in DOMAIN s /\ x = s[at[k]] /\ x \in S
      BY <1>1, <1>2, <1>5, <1>6, <2>1
    <2>. QED
      BY <2>2 DEF ToSet
  <1>. QED
    BY <1>7, <1>8, <1>9

LEMMA TakeIs ==
    ASSUME NEW T, NEW s \in Seq(T), NEW n \in Nat
    PROVE  /\ Take(s, n) \in Seq(T)
           /\ Len(Take(s, n)) = (IF Len(s) < n THEN Len(s) ELSE n)
           /\ \A i \in DOMAIN Take(s, n) : i \in DOMAIN s /\ Take(s, n)[i] = s[i]
           /\ ToSet(Take(s, n)) \subseteq ToSet(s)
  <1>1. /\ Take(s, n) \in Seq(T)
        /\ Len(Take(s, n)) = (IF Len(s) < n THEN Len(s) ELSE n)
        /\ \A i \in DOMAIN Take(s, n) : i \in DOMAIN s /\ Take(s, n)[i] = s[i]
    BY DEF Take
  <1>. QED
    BY <1>1 DEF ToSet

LEMMA TotalIs ==
    ASSUME NEW s \in Seq(Int)
    PROVE  \E sum \in [0..Len(s) -> Int] :
              /\ sum[0] = 0
              /\ \A n \in 1..Len(s) : sum[n] = sum[n - 1] + s[n]
              /\ Total(s) = sum[Len(s)]
  <1>. DEFINE M == Len(s)
              step == [p \in (1..M) \X Int |-> p[2] + s[p[1]]]
              Body(f) == [n \in 0..M |-> IF n = 0 THEN 0 ELSE f[n - 1] + s[n]]
              f == CHOOSE f : f = Body(f)
  <1>1. Total(s) = f[M]
    BY DEF Total
  <1>2. M \in Nat /\ \A k \in 1..M : s[k] \in Int
    OBVIOUS
  <1>. HIDE DEF M
  <1>3. step \in Steps(M, Int) /\ \A k \in 1..M, x \in Int : step[<<k, x>>] = x + s[k]
    BY <1>2 DEF Steps
  <1>. HIDE DEF step
  <1>4. \E g : Runs(M, Int, 0, step, g)
    BY <1>2, <1>3, Recursion
  <1>41. PICK g \in [0..M -> Int] : g[0] = 0 /\ \A k \in 1..M : g[k] = step[<<k, g[k - 1]>>]
    BY <1>4 DEF Runs
  <1>5. \A k \in 1..M : k - 1 \in 0..M
    BY <1>2
  <1>6. \A k \in 1..M : g[k] = g[k - 1] + s[k]
    BY <1>3, <1>41, <1>5
  <1>7. g = Body(g)
    BY <1>2, <1>41, <1>6
  <1>8. f = Body(f)
    BY <1>7
  <1>. HIDE DEF f
  <1>9. f[0] = 0 /\ \A n \in 1..M : f[n] = f[n - 1] + s[n]
    BY <1>2, <1>8
  <1>10. 0..M \subseteq {n \in 0..M : f[n] \in Int}
    <2>. DEFINE P == {n \in 0..M : f[n] \in Int}
    <2>1. 0 \in P
      BY <1>2, <1>9
    <2>2. ASSUME NEW k \in 1..M, k - 1 \in P
          PROVE  k \in P
      <3>1. f[k - 1] \in Int /\ s[k] \in Int /\ f[k] = f[k - 1] + s[k] /\ k \in 0..M
        BY <1>2, <1>9, <2>2
      <3>. QED
        BY <3>1
    <2>. HIDE DEF P
    <2>3. 0..M \subseteq P
      BY <1>2, <2>1, <2>2, Counting
    <2>. QED
      BY <2>3 DEF P
  <1>11. f \in [0..M -> Int]
    BY <1>8, <1>10
  <1>. QED
    BY <1>1, <1>9, <1>11 DEF M

-----------------------------------------------------------------------------
(* QuestionPlanning.                                                       *)

Askable == Written \union PoolTexts
AtMost == (main - 1) * (1 + MaxFollowUps) + follow + 1

\* The counters keep within the plan, and each question covered a new intent
\* unless one has strayed.
PlanningInv ==
    /\ PlanningTypeOK
    /\ IntentsAdvance

-----------------------------------------------------------------------------
(* The choice of a question.                                               *)

\* First returns an element of the sequence that is in the set.
LEMMA FirstIn ==
    ASSUME NEW T, NEW s \in Seq(T), NEW S, ToSet(s) \intersect S # {}
    PROVE  /\ First(s, S) \in S
           /\ First(s, S) \in ToSet(s)
           /\ 1 \in DOMAIN s
           /\ s[1] \in S => First(s, S) = s[1]
  <1>. DEFINE K == {k \in DOMAIN s : s[k] \in S}
  <1>1. DOMAIN s = 1..Len(s) /\ Len(s) \in Nat
    OBVIOUS
  <1>2. K \subseteq Nat /\ K # {}
    BY <1>1 DEF ToSet
  <1>3. PICK least \in K : \A j \in K : ~(<<j, least>> \in Below)
    <2>. HIDE DEF K
    <2>. QED
      BY <1>2, BelowWellFounded, WFMin
  <1>4. \E n \in DOMAIN s : s[n] \in S /\ \A j \in 1..(n - 1) : s[j] \notin S
    <2>1. least \in DOMAIN s /\ s[least] \in S
      BY <1>3
    <2>2. ASSUME NEW j \in 1..(least - 1), s[j] \in S PROVE FALSE
      <3>1. j \in K /\ j \in Nat /\ least \in Nat /\ j < least
        BY <1>1, <2>1, <2>2
      <3>. QED
        BY <1>3, <3>1 DEF Below
    <2>. QED
      BY <2>1, <2>2
  <1>5. PICK n \in DOMAIN s :
            /\ s[n] \in S /\ \A j \in 1..(n - 1) : s[j] \notin S
            /\ First(s, S) = s[n]
    BY <1>4 DEF First
  <1>6. 1 \in DOMAIN s
    BY <1>1, <1>5
  <1>7. s[1] \in S => n = 1
    BY <1>1, <1>5
  <1>. QED
    BY <1>5, <1>6, <1>7 DEF ToSet

LEMMA Product ==
    ASSUME NEW m \in Nat, NEW n \in Nat, m <= n, NEW k \in Nat
    PROVE  m * k <= n * k /\ m * k \in Nat
  <1>1. PICK d \in Nat : n = m + d
    BY n - m \in Nat
  <1>2. n * k = m * k + d * k
    BY <1>1
  <1>3. d * k \in Nat /\ m * k \in Nat
    OBVIOUS
  <1>. QED
    BY <1>2, <1>3

LEMMA SomeIntent == Intents # {}
  <1>1. Planned * (1 + MaxFollowUps) >= 1
    <2>1. Planned \in Nat /\ 1 <= Planned /\ MaxFollowUps \in Nat
      BY PlanningAssumption
    <2>2. 1 * (1 + MaxFollowUps) <= Planned * (1 + MaxFollowUps)
      BY <2>1, Product
    <2>. QED
      BY <2>1, <2>2
  <1>2. PoolTexts # {}
    BY <1>1, PoolAssumption, PlanningAssumption, FS_EmptySet, FS_CardinalityType
  <1>. QED
    BY <1>2 DEF PoolTexts

\* The target is an intent, and one that is not covered while there is one.
LEMMA TargetOpen ==
    ASSUME NEW mentioned \in SUBSET Intents
    PROVE  /\ Target(mentioned) \in Intents
           /\ Intents \ Covered # {} => Target(mentioned) \notin Covered
  <1>. DEFINE open == Intents \ Covered
              named == IF due = "follow_up" THEN open \intersect mentioned ELSE {}
  <1>1. Priority \in Seq(Intents) /\ ToSet(Priority) = Intents
    BY PlanningAssumption DEF Priority
  <1>2. CASE open = {}
    <2>1. Target(mentioned) = Priority[1]
      BY <1>2 DEF Target
    <2>2. 1 \in DOMAIN Priority
      BY <1>1, SomeIntent, FirstIn
    <2>. QED
      BY <1>1, <1>2, <2>1, <2>2
  <1>3. CASE open # {}
    <2>. DEFINE S == IF named # {} THEN named ELSE open
    <2>1. S # {} /\ S \subseteq open
      BY <1>3
    <2>2. Target(mentioned) = First(Priority, S)
      BY <1>3 DEF Target
    <2>3. First(Priority, S) \in S
      <3>1. ToSet(Priority) \intersect S # {}
        BY <1>1, <2>1
      <3>. HIDE DEF S
      <3>. QED
        BY <1>1, <3>1, FirstIn
    <2>. QED
      BY <2>1, <2>2, <2>3
  <1>. QED
    BY <1>2, <1>3

\* While a ready question is fresh, the fallback is one; and it is the first
\* of the target if that is fresh.
LEMMA FallbackChosen ==
    ASSUME Fresh # {}, NEW target \in Intents
    PROVE  /\ Fallback(target) \in Fresh
           /\ ~Duplicate(Pool[target][1]) => Fallback(target) = Pool[target][1]
  <1>. DEFINE s == <<target>> \o FollowUpPriority
              S == {j \in Intents : FreshOf(j) # {}}
              i == First(s, S)
  <1>1. s \in Seq(Intents) /\ s[1] = target /\ ToSet(s) = Intents
    <2>1. FollowUpPriority \in Seq(Intents) /\ ToSet(FollowUpPriority) = Intents
      BY PlanningAssumption
    <2>2. s \in Seq(Intents) /\ s[1] = target /\ Len(s) = 1 + Len(FollowUpPriority)
      BY <2>1
    <2>3. \A k \in DOMAIN FollowUpPriority : k + 1 \in DOMAIN s /\ s[k + 1] = FollowUpPriority[k]
      BY <2>1
    <2>4. Intents \subseteq ToSet(s)
      BY <2>1, <2>3 DEF ToSet
    <2>5. ToSet(s) \subseteq Intents
      BY <2>2 DEF ToSet
    <2>. QED
      BY <2>2, <2>4, <2>5
  <1>2. S # {}
    BY DEF Fresh, FreshOf, PoolTexts
  <1>3. /\ i \in S
        /\ target \in S => i = target
    <2>1. ToSet(s) \intersect S # {}
      BY <1>1, <1>2
    <2>. HIDE DEF s, S
    <2>. QED
      BY <1>1, <2>1, FirstIn
  <1>4. Fallback(target) = First(Pool[i], FreshOf(i))
    BY DEF Fallback
  <1>. HIDE DEF i
  <1>5. i \in Intents /\ Pool[i] \in Seq(PoolTexts) /\ FreshOf(i) # {}
    BY <1>3, PlanningAssumption
  <1>6. /\ First(Pool[i], FreshOf(i)) \in FreshOf(i)
        /\ 1 \in DOMAIN Pool[i]
        /\ Pool[i][1] \in FreshOf(i) => First(Pool[i], FreshOf(i)) = Pool[i][1]
    <2>1. ToSet(Pool[i]) \intersect FreshOf(i) # {}
      BY <1>5 DEF FreshOf
    <2>. QED
      BY <1>5, <2>1, FirstIn
  <1>7. FreshOf(i) \subseteq Fresh
    BY <1>5 DEF Fresh, FreshOf, PoolTexts
  <1>8. ASSUME ~Duplicate(Pool[target][1])
        PROVE  Fallback(target) = Pool[target][1]
    <2>1. Pool[target] \in Seq(PoolTexts) /\ Pool[target] # <<>>
      BY PlanningAssumption, PoolAssumption
    <2>2. 1 \in DOMAIN Pool[target]
      BY <2>1
    <2>3. Pool[target][1] \in FreshOf(target)
      BY <1>8, <2>2 DEF FreshOf, ToSet
    <2>4. i = target
      BY <1>3, <2>3
    <2>. QED
      BY <1>4, <1>6, <2>3, <2>4
  <1>. QED
    BY <1>4, <1>6, <1>7, <1>8

\* The first ready question of an intent that is not covered is fresh: one
\* that resembles it has strayed or would have covered the intent.
LEMMA FirstIsFresh ==
    ASSUME PlanningTypeOK, NEW t \in Intents \ Covered, \A q \in AskedOfModel : ~Strays(q)
    PROVE  ~Duplicate(Pool[t][1]) /\ IntentsOf[Pool[t][1]] = {t}
  <1>1. Pool[t] \in Seq(PoolTexts) /\ Pool[t] # <<>>
    BY PlanningAssumption, PoolAssumption
  <1>2. Pool[t][1] \in PoolTexts
    BY <1>1
  <1>3. IntentsOf[Pool[t][1]] = {t}
    BY PoolAssumption
  <1>4. ASSUME NEW q \in AskedSet, q \in Resembles[Pool[t][1]]
        PROVE  FALSE
    <2>1. t \notin IntentsOf[q]
      BY DEF Covered
    <2>2. CASE q \in PoolTexts
      BY <1>2, <1>3, <1>4, <2>1, <2>2, PoolAssumption
    <2>3. CASE q \notin PoolTexts
      BY <1>4, <2>1, <2>3 DEF AskedOfModel, Strays
    <2>. QED
      BY <2>2, <2>3
  <1>. QED
    BY <1>3, <1>4 DEF Duplicate

-----------------------------------------------------------------------------
(* The steps.                                                              *)

\* A question that mentions one intent, an open one if there is any, is one
\* more question and one more intent; one that has strayed stays asked.
LEMMA AskKeeps ==
    ASSUME PlanningInv, due # "none", NEW q \in Askable, Ask(q),
           \/ \E a \in AskedOfModel : Strays(a)
           \/ Intents \ Covered # {} => \E t \in Intents \ Covered : IntentsOf[q] = {t}
    PROVE  PlanningInv'
  <1>1. asked \in Seq(Askable) /\ Len(asked) \in Nat
    BY DEF PlanningInv, PlanningTypeOK, Askable
  <1>2. /\ asked' \in Seq(Askable) /\ Len(asked') = Len(asked) + 1
        /\ AskedSet' = AskedSet \union {q}
    <2>1. asked' = Append(asked, q)
      BY DEF Ask
    <2>2. DOMAIN asked' = DOMAIN asked \union {Len(asked) + 1}
      BY <1>1, <2>1
    <2>3. \A k \in DOMAIN asked : asked'[k] = asked[k]
      BY <1>1, <2>1
    <2>5. asked'[Len(asked) + 1] = q
      BY <1>1, <2>1
    <2>. QED
      BY <1>1, <2>1, <2>2, <2>3, <2>5 DEF AskedSet
  <1>3. Covered' = Covered \union IntentsOf[q]
    BY <1>2 DEF Covered
  <1>4. PlanningTypeOK'
    BY <1>1, <1>2 DEF PlanningInv, PlanningTypeOK, Askable, Ask
  <1>5. IntentsAdvance'
    <2>1. Covered \subseteq Intents /\ IntentsOf[q] \subseteq Intents
      BY <1>1, PlanningAssumption DEF Covered, AskedSet, Askable
    <2>2. IsFiniteSet(Covered) /\ IsFiniteSet(Intents)
      BY <2>1, PlanningAssumption, FS_Subset
    <2>3. CASE Intents \ Covered = {}
      <3>1. Covered' = Intents
        BY <1>3, <2>1, <2>3
      <3>. QED
        BY <3>1 DEF IntentsAdvance
    <2>4. CASE \E a \in AskedOfModel : Strays(a)
      <3>1. \A a : Strays(a)' <=> Strays(a)
        BY DEF Strays
      <3>. QED
        BY <1>2, <2>4, <3>1 DEF IntentsAdvance, AskedOfModel
    <2>5. CASE Intents \ Covered # {} /\ ~\E a \in AskedOfModel : Strays(a)
      <3>1. PICK t \in Intents \ Covered : IntentsOf[q] = {t}
        BY <2>5
      <3>2. Cardinality(Covered') = Cardinality(Covered) + 1
        BY <1>3, <2>2, <3>1, FS_AddElement
      <3>3. Cardinality(Covered) # Cardinality(Intents)
        BY <2>1, <2>2, <2>5, FS_Subset
      <3>. QED
        BY <1>2, <2>5, <3>2, <3>3 DEF PlanningInv, IntentsAdvance
    <2>. QED
      BY <2>3, <2>4, <2>5
  <1>. QED
    BY <1>4, <1>5 DEF PlanningInv

LEMMA AskWrittenKeeps ==
    ASSUME PlanningInv, NEW q \in Written, NEW mentioned \in SUBSET Intents,
           AskWritten(q, mentioned)
    PROVE  PlanningInv'
  <1>1. due # "none" /\ Ask(q) /\ IntentsOf[q] = {Target(mentioned)}
    BY DEF AskWritten, Usable
  <1>2. /\ Target(mentioned) \in Intents
        /\ Intents \ Covered # {} => Target(mentioned) \notin Covered
    BY TargetOpen
  <1>. QED
    BY <1>1, <1>2, AskKeeps DEF Askable

LEMMA AskFallbackKeeps ==
    ASSUME PlanningInv, NEW mentioned \in SUBSET Intents, AskFallback(mentioned)
    PROVE  PlanningInv'
  <1>. DEFINE t == Target(mentioned)
  <1>1. due # "none" /\ Fresh # {} /\ Ask(Fallback(t))
    BY DEF AskFallback
  <1>2. /\ t \in Intents
        /\ Intents \ Covered # {} => t \notin Covered
    BY TargetOpen
  <1>. HIDE DEF t
  <1>3. Fallback(t) \in Askable
    BY <1>1, <1>2, FallbackChosen DEF Fresh, Askable
  <1>4. \/ \E a \in AskedOfModel : Strays(a)
        \/ Intents \ Covered # {} => IntentsOf[Fallback(t)] = {t}
    BY <1>1, <1>2, FallbackChosen, FirstIsFresh DEF PlanningInv
  <1>. QED
    BY <1>1, <1>2, <1>3, <1>4, AskKeeps

LEMMA DecideNextKeeps ==
    ASSUME PlanningInv, NEW action, DecideNext(action)
    PROVE  PlanningInv'
  <1>. DEFINE d == Decided(action)
  <1>1. /\ main \in 1..Planned /\ follow \in 0..MaxFollowUps
        /\ asked \in Seq(Askable) /\ Len(asked) \in Nat
        /\ Planned \in Nat /\ MaxFollowUps \in Nat
        /\ Len(asked) <= AtMost
    BY PlanningAssumption DEF PlanningInv, PlanningTypeOK, DecideNext, Askable, AtMost
  <1>2. /\ d \in {"follow_up", "main_question"}
        /\ d = "follow_up" => follow < MaxFollowUps
        /\ d = "main_question" => main < Planned
    BY <1>1 DEF DecideNext, Decided
  <1>3. /\ due' = d /\ UNCHANGED asked
        /\ d = "main_question" => main' = main + 1 /\ follow' = 0
        /\ d = "follow_up" => main' = main /\ follow' = follow + 1
    BY <1>2 DEF DecideNext
  <1>4. IntentsAdvance'
    BY <1>3 DEF PlanningInv, IntentsAdvance, Covered, AskedSet, AskedOfModel,
       Strays
  <1>. HIDE DEF d
  <1>5. main' \in 1..Planned /\ follow' \in 0..MaxFollowUps
    BY <1>1, <1>2, <1>3
  <1>6. Len(asked) + 1 <= AtMost'
    <2>1. CASE d = "follow_up"
      BY <1>1, <1>3, <2>1 DEF AtMost
    <2>2. CASE d = "main_question"
      <3>1. AtMost' = main * (1 + MaxFollowUps) + 1
        BY <1>1, <1>3, <2>2 DEF AtMost
      <3>2. main * (1 + MaxFollowUps) = (main - 1) * (1 + MaxFollowUps) + 1 + MaxFollowUps
        BY <1>1
      <3>3. main * (1 + MaxFollowUps) \in Nat /\ (main - 1) * (1 + MaxFollowUps) \in Nat
        BY <1>1, Product
      <3>. QED
        BY <1>1, <3>1, <3>2, <3>3 DEF AtMost
    <2>. QED
      BY <1>2, <2>1, <2>2
  <1>. QED
    BY <1>1, <1>2, <1>3, <1>4, <1>5, <1>6 DEF PlanningInv, PlanningTypeOK, Askable, AtMost

LEMMA PlanningInitInv == PlanningInit => PlanningInv
  <1>. SUFFICES ASSUME PlanningInit PROVE PlanningInv
    OBVIOUS
  <1>1. /\ asked = <<>> /\ main = 1 /\ follow = 0 /\ due = "main_question"
        /\ Planned \in Nat \ {0} /\ MaxFollowUps \in Nat
    BY PlanningAssumption DEF PlanningInit
  <1>2. Covered = {}
    BY <1>1 DEF Covered, AskedSet
  <1>3. IntentsAdvance
    BY <1>1, <1>2, FS_EmptySet DEF IntentsAdvance
  <1>4. (main - 1) * (1 + MaxFollowUps) = 0
    BY <1>1
  <1>5. PlanningTypeOK
    BY <1>1, <1>4 DEF PlanningTypeOK
  <1>. QED
    BY <1>3, <1>5 DEF PlanningInv

LEMMA PlanningNextKeeps == PlanningInv /\ [PlanningNext]_planningVars => PlanningInv'
  <1>. SUFFICES ASSUME PlanningInv, [PlanningNext]_planningVars PROVE PlanningInv'
    OBVIOUS
  <1>1. CASE PlanningNext
    BY <1>1, AskWrittenKeeps, AskFallbackKeeps, DecideNextKeeps DEF PlanningNext
  <1>2. CASE UNCHANGED planningVars
    BY <1>2 DEF planningVars, PlanningInv, PlanningTypeOK, IntentsAdvance, Covered, AskedSet,
       AskedOfModel, Strays
  <1>. QED
    BY <1>1, <1>2

\* The counters keep within the plan, and the intents advance as far as the
\* model's questions let them.
THEOREM PlanningInvariance == PlanningSpec => []PlanningInv
  <1>. QED
    BY PlanningInitInv, PlanningNextKeeps, PTL DEF PlanningSpec

\* Each question covers a new intent until all are covered (select_target_intent,
\* question_rejection_reason and build_fallback_question together), for whatever the
\* model writes: where it does not, an asked question has strayed, that is, resembles
\* the first ready question of an intent it does not mention, and is named as the cause.
THEOREM IntentsInTurn == PlanningSpec => []IntentsAdvance
  <1>1. PlanningInv => IntentsAdvance
    BY DEF PlanningInv
  <1>. QED
    BY <1>1, PlanningInvariance, PTL

-----------------------------------------------------------------------------
(* The pool.                                                               *)

\* A question that has been asked makes at most one ready question a
\* duplicate unless it resembles several, so that more of them than questions
\* asked leave a fresh one.
LEMMA AskedUsesOne ==
    ASSUME PlanningTypeOK, \A q \in AskedOfModel : ~UsesSeveral(q)
    PROVE  Cardinality(PoolTexts \ Fresh) <= Len(asked)
  <1>. DEFINE D == PoolTexts \ Fresh
              f == [p \in D |-> CHOOSE k \in DOMAIN asked : asked[k] \in Resembles[p]]
  <1>1. DOMAIN asked = 1..Len(asked) /\ Len(asked) \in Nat /\ asked \in Seq(Askable)
    BY DEF PlanningTypeOK, Askable
  <1>2. ASSUME NEW p \in D
        PROVE  f[p] \in 1..Len(asked) /\ asked[f[p]] \in Resembles[p]
    <2>1. \E k \in DOMAIN asked : asked[k] \in Resembles[p]
      BY DEF Fresh, Duplicate, AskedSet
    <2>. QED
      BY <1>1, <2>1
  <1>3. ASSUME NEW p \in D, NEW r \in D, f[p] = f[r]
        PROVE  p = r
    <2>. DEFINE q == asked[f[p]]
    <2>. HIDE DEF f
    <2>1. q \in Resembles[p] /\ q \in Resembles[r]
      BY <1>2, <1>3
    <2>2. q \in AskedSet
      BY <1>1, <1>2 DEF AskedSet
    <2>. HIDE DEF q
    <2>3. p \in PoolTexts /\ r \in PoolTexts
      OBVIOUS
    <2>. QED
      BY <2>1, <2>2, <2>3, PoolAssumption DEF AskedOfModel, UsesSeveral
  <1>4. f \in Injection(D, 1..Len(asked))
    <2>1. f \in [D -> 1..Len(asked)]
      BY <1>2
    <2>. HIDE DEF f, D
    <2>. QED
      BY <1>3, <2>1 DEF Injection, IsInjective
  <1>. HIDE DEF f, D
  <1>5. IsFiniteSet(1..Len(asked)) /\ Cardinality(1..Len(asked)) = Len(asked)
    BY <1>1, FS_Interval
  <1>6. Cardinality(D) <= Len(asked)
    BY <1>4, <1>5, FS_Injection
  <1>. QED
    BY <1>6 DEF D

LEMMA FreshRemains == PlanningInv => FallbackRemains
  <1>. SUFFICES ASSUME PlanningInv, due # "none", Fresh = {},
                       \A q \in AskedOfModel : ~UsesSeveral(q)
                PROVE  FALSE
    BY DEF FallbackRemains
  <1>1. /\ main \in 1..Planned /\ follow \in 0..MaxFollowUps
        /\ Planned \in Nat /\ MaxFollowUps \in Nat /\ Len(asked) \in Nat
        /\ Len(asked) + 1 <= (main - 1) * (1 + MaxFollowUps) + follow + 1
    BY PlanningAssumption DEF PlanningInv, PlanningTypeOK
  <1>2. Len(asked) + 1 <= Planned * (1 + MaxFollowUps)
    <2>1. main * (1 + MaxFollowUps) = (main - 1) * (1 + MaxFollowUps) + 1 + MaxFollowUps
      BY <1>1
    <2>2. /\ main * (1 + MaxFollowUps) <= Planned * (1 + MaxFollowUps)
          /\ main * (1 + MaxFollowUps) \in Nat /\ Planned * (1 + MaxFollowUps) \in Nat
          /\ (main - 1) * (1 + MaxFollowUps) \in Nat
      BY <1>1, Product
    <2>. QED
      BY <1>1, <2>1, <2>2
  <1>3. Cardinality(PoolTexts) <= Len(asked)
    <2>1. PoolTexts \ Fresh = PoolTexts
      OBVIOUS
    <2>. QED
      BY <2>1, AskedUsesOne DEF PlanningInv
  <1>4. Cardinality(PoolTexts) \in Nat /\ Planned * (1 + MaxFollowUps) \in Nat
    BY <1>1, Product, PlanningAssumption, FS_CardinalityType
  <1>. QED
    BY <1>1, <1>2, <1>3, <1>4, PoolAssumption

\* build_fallback_question finds a ready question whenever one is due, unless an asked
\* question resembles two of them: the limits of the supervisor's decision keep an
\* interview within the pool, for whatever the model writes and decides.
THEOREM PoolLasts == PlanningSpec => []FallbackRemains
  <1>. QED
    BY PlanningInvariance, FreshRemains, PTL

-----------------------------------------------------------------------------
(* EvidenceRetrieval.                                                      *)

Chunks == {c \in [file : Nat, index : Nat, text : Texts, dist : Nat, cat : {Category[f] : f \in Files}] :
              Key(c) \in Sources /\ c.cat = Category[c.file]}

\* No two chunks of the same source.
Single(S) == \A c, d \in S : Key(c) = Key(d) => c = d

LEMMA ChunkIs ==
    ASSUME NEW c \in Chunks
    PROVE  /\ c.file \in Files /\ c.file \in Nat /\ c.index \in Nat /\ c.text \in Texts
           /\ c.dist \in Nat /\ c.cat = Category[c.file] /\ Key(c) = <<c.file, c.index>>
           /\ Key(c) \in Sources
           /\ TextOf[c.text].cover \in Nat /\ NameOf[c.file].cover \in Nat
  <1>1. /\ c.file \in Nat /\ c.index \in Nat /\ c.text \in Texts
        /\ c.dist \in Nat /\ c.cat = Category[c.file] /\ Key(c) = <<c.file, c.index>>
        /\ Key(c) \in Sources
    BY DEF Chunks, Key
  <1>2. c.file \in Files
    <2>1. <<c.file, c.index>>[1] = c.file
      OBVIOUS
    <2>. QED
      BY <1>1, <2>1 DEF Files
  <1>. QED
    BY <1>1, <1>2, RetrievalAssumption

LEMMA SourceIs ==
    ASSUME NEW s \in Sources
    PROVE  s[1] \in Nat /\ s[2] \in Nat /\ s = <<s[1], s[2]>> /\ s[1] \in Files
  BY RetrievalAssumption DEF Files

LEMMA SingleFinite ==
    ASSUME NEW S \in SUBSET Chunks, Single(S)
    PROVE  IsFiniteSet(S)
  <1>. DEFINE f == [c \in S |-> Key(c)]
  <1>1. f \in Injection(S, Sources)
    BY ChunkIs DEF Injection, IsInjective, Single
  <1>. QED
    BY <1>1, FS_Injection, RetrievalAssumption

Listings == {r \in Seq(Chunks) : \A i, j \in DOMAIN r : Key(r[i]) = Key(r[j]) => i = j}

\* What the store returns for a query.
LEMMA NearestIs ==
    ASSUME NEW v \in 0..MaxVariants, NEW k \in Nat, RetrievalTypeOK
    PROVE  Nearest(v, k) \in Listings
  <1>. DEFINE S == {Chunk(s, v) : s \in DOMAIN store}
              key == [c \in S |-> <<c.dist, c.file, c.index>>]
  <1>1. ASSUME NEW s \in DOMAIN store
        PROVE  Chunk(s, v) \in Chunks /\ Key(Chunk(s, v)) = s
    <2>1. s \in Sources /\ store[s] \in TextsOf[s]
      BY DEF RetrievalTypeOK
    <2>2. store[s] \in Texts
      BY <2>1 DEF Texts
    <2>3. s[1] \in Nat /\ s[2] \in Nat /\ s = <<s[1], s[2]>> /\ s[1] \in Files
      BY <2>1, SourceIs
    <2>4. DistanceOf[store[s]][v] \in Nat
      BY <2>2, RetrievalAssumption
    <2>. QED
      BY <2>1, <2>2, <2>3, <2>4 DEF Chunk, Chunks, Key
  <1>2. S \in SUBSET Chunks /\ Single(S)
    BY <1>1 DEF Single
  <1>. HIDE DEF S
  <1>3. IsFiniteSet(S)
    BY <1>2, SingleFinite
  <1>4. key \in Keys(3, S)
    <2>1. \A c \in S : <<c.dist, c.file, c.index>> \in [1..3 -> Int]
      BY <1>2, ChunkIs
    <2>. QED
      BY <2>1 DEF Keys
  <1>5. Distinct(key)
    <2>1. SUFFICES ASSUME NEW c \in S, NEW d \in S, key[c] = key[d] PROVE c = d
      BY DEF Distinct
    <2>2. <<c.dist, c.file, c.index>> = <<d.dist, d.file, d.index>>
      BY <2>1
    <2>3. c.file = d.file /\ c.index = d.index
      BY <2>2
    <2>. QED
      BY <1>2, <2>3, ChunkIs DEF Single
  <1>6. Nearest(v, k) = Take(Sorted(key), k)
    BY DEF Nearest, S
  <1>. HIDE DEF key
  <1>7. /\ Cardinality(S) \in Nat /\ Sorted(key) \in [1..Cardinality(S) -> S]
        /\ \A i, j \in 1..Cardinality(S) :
              i < j <=> Precedes(key[Sorted(key)[i]], key[Sorted(key)[j]])
    BY <1>3, <1>4, <1>5, SortedIs
  <1>8. Sorted(key) \in Seq(S) /\ DOMAIN Sorted(key) = 1..Cardinality(S)
    BY <1>7
  <1>9. \A i, j \in DOMAIN Sorted(key) : Key(Sorted(key)[i]) = Key(Sorted(key)[j]) => i = j
    <2>1. SUFFICES ASSUME NEW i \in 1..Cardinality(S), NEW j \in 1..Cardinality(S), i # j,
                          Key(Sorted(key)[i]) = Key(Sorted(key)[j])
                   PROVE  FALSE
      BY <1>8
    <2>2. Sorted(key)[i] = Sorted(key)[j] /\ Sorted(key)[i] \in S
      BY <1>2, <1>7, <2>1 DEF Single
    <2>3. ~Precedes(key[Sorted(key)[i]], key[Sorted(key)[i]])
      <3>1. key[Sorted(key)[i]] \in [1..3 -> Int]
        BY <1>4, <2>2 DEF Keys
      <3>. QED
        BY <3>1, PrecedesOrder
    <2>4. ~(i < j) /\ ~(j < i)
      BY <1>7, <2>2, <2>3
    <2>. QED
      BY <1>7, <2>1, <2>4
  <1>. DEFINE sorted == Sorted(key)
  <1>. HIDE DEF sorted
  <1>10. /\ Take(sorted, k) \in Seq(S)
         /\ \A i \in DOMAIN Take(sorted, k) : i \in DOMAIN sorted /\ Take(sorted, k)[i] = sorted[i]
    BY <1>8, TakeIs DEF sorted
  <1>11. Take(sorted, k) \in Seq(Chunks)
    BY <1>2, <1>10
  <1>. QED
    BY <1>6, <1>9, <1>10, <1>11 DEF Listings, sorted

\* Where a source is in a result list.
LEMMA RankIs ==
    ASSUME NEW route \in Listings, NEW k \in KeysIn(route)
    PROVE  /\ RankOf(route, k) \in DOMAIN route /\ RankOf(route, k) \in Nat \ {0}
           /\ Hit(route, k) \in Chunks /\ Key(Hit(route, k)) = k
           /\ k \in Sources
  <1>1. route \in Seq(Chunks)
    BY DEF Listings
  <1>2. \E i \in DOMAIN route : Key(route[i]) = k
    BY DEF KeysIn, ToSet
  <1>3. RankOf(route, k) \in DOMAIN route /\ Key(route[RankOf(route, k)]) = k
    BY <1>2 DEF RankOf
  <1>4. \A i \in DOMAIN route : route[i] \in Chunks /\ i \in Nat \ {0}
    BY <1>1
  <1>5. Hit(route, k) \in Chunks /\ Key(Hit(route, k)) = k
    BY <1>3, <1>4 DEF Hit
  <1>6. k \in Sources
    BY <1>5, ChunkIs
  <1>. QED
    BY <1>3, <1>4, <1>5, <1>6

LEMMA RoutesWithIs ==
    ASSUME NEW routing \in Seq(Listings), NEW k \in UNION {KeysIn(routing[r]) : r \in DOMAIN routing}
    PROVE  /\ RoutesWith(routing, k) # {} /\ RoutesWith(routing, k) \subseteq DOMAIN routing
           /\ RoutesWith(routing, k) \in SUBSET Nat /\ IsFiniteSet(RoutesWith(routing, k))
           /\ k \in Sources
           /\ \A r \in RoutesWith(routing, k) :
                 /\ RankOf(routing[r], k) \in Nat \ {0}
                 /\ Hit(routing[r], k) \in Chunks /\ Key(Hit(routing[r], k)) = k
  <1>. DEFINE R == RoutesWith(routing, k)
  <1>1. DOMAIN routing = 1..Len(routing) /\ Len(routing) \in Nat
        /\ \A r \in DOMAIN routing : routing[r] \in Listings
    OBVIOUS
  <1>2. PICK r \in DOMAIN routing : k \in KeysIn(routing[r])
    OBVIOUS
  <1>3. r \in R /\ R \subseteq DOMAIN routing /\ \A x \in R : k \in KeysIn(routing[x])
    BY <1>2 DEF RoutesWith
  <1>. HIDE DEF R
  <1>4. R \subseteq 1..Len(routing) /\ R \in SUBSET Nat
    BY <1>1, <1>3
  <1>5. IsFiniteSet(R)
    BY <1>1, <1>4, NumbersFinite, FS_Subset
  <1>6. \A x \in R : /\ RankOf(routing[x], k) \in Nat \ {0} /\ k \in Sources
                     /\ Hit(routing[x], k) \in Chunks /\ Key(Hit(routing[x], k)) = k
    BY <1>1, <1>3, RankIs
  <1>. QED
    BY <1>3, <1>4, <1>5, <1>6 DEF R

LEMMA PairKeys ==
    ASSUME NEW D \in SUBSET Int, NEW a, \A r \in D : a[r] \in Int
    PROVE  [r \in D |-> <<a[r], r>>] \in Keys(2, D) /\ Distinct([r \in D |-> <<a[r], r>>])
  <1>. DEFINE key == [r \in D |-> <<a[r], r>>]
  <1>1. \A r \in D : <<a[r], r>> \in [1..2 -> Int]
    OBVIOUS
  <1>2. key \in Keys(2, D)
    BY <1>1 DEF Keys
  <1>3. Distinct(key)
    <2>1. SUFFICES ASSUME NEW c \in D, NEW d \in D, key[c] = key[d] PROVE c = d
      BY DEF Distinct
    <2>2. <<a[c], c>> = <<a[d], d>>
      BY <2>1
    <2>. QED
      BY <2>2
  <1>. QED
    BY <1>2, <1>3

\* What stands for a source, and where the fusion puts it.
LEMMA BestHitIs ==
    ASSUME NEW routing \in Seq(Listings), NEW k \in UNION {KeysIn(routing[r]) : r \in DOMAIN routing}
    PROVE  /\ BestHit(routing, k) \in Chunks /\ Key(BestHit(routing, k)) = k
           /\ BestRank(routing, k) \in Int /\ FusionScore(routing, k) \in Int
           /\ k \in Sources
  <1>. DEFINE R == RoutesWith(routing, k)
              near == [r \in R |-> Hit(routing[r], k).dist]
              rank == [r \in R |-> RankOf(routing[r], k)]
              nearKey == [r \in R |-> <<near[r], r>>]
              rankKey == [r \in R |-> <<rank[r], r>>]
              score == [r \in DOMAIN routing |-> IF r \in R
                            THEN 1000000000 \div (RRF + RankOf(routing[r], k)) ELSE 0]
  <1>1. /\ R # {} /\ R \subseteq DOMAIN routing /\ R \in SUBSET Nat /\ IsFiniteSet(R)
        /\ k \in Sources
        /\ \A r \in R : /\ RankOf(routing[r], k) \in Nat \ {0}
                        /\ Hit(routing[r], k) \in Chunks /\ Key(Hit(routing[r], k)) = k
    BY RoutesWithIs
  <1>2. BestHit(routing, k) = Hit(routing[Least(nearKey)], k)
    <2>1. nearKey = [r \in R |-> <<Hit(routing[r], k).dist, r>>]
      OBVIOUS
    <2>. HIDE DEF nearKey
    <2>. QED
      BY <2>1 DEF BestHit
  <1>3. BestRank(routing, k) = RankOf(routing[Least(rankKey)], k)
    <2>1. rankKey = [r \in R |-> <<RankOf(routing[r], k), r>>]
      OBVIOUS
    <2>. HIDE DEF rankKey
    <2>. QED
      BY <2>1 DEF BestRank
  <1>4. FusionScore(routing, k) = Total(score)
    BY DEF FusionScore
  <1>. HIDE DEF R
  <1>5. (\A r \in R : near[r] \in Int) /\ (\A r \in R : rank[r] \in Int)
    BY <1>1, ChunkIs
  <1>6. /\ nearKey \in Keys(2, R) /\ Distinct(nearKey)
        /\ rankKey \in Keys(2, R) /\ Distinct(rankKey)
    <2>. HIDE DEF near, rank
    <2>1. R \in SUBSET Int
      BY <1>1
    <2>2. nearKey \in Keys(2, R) /\ Distinct(nearKey)
      BY <1>5, <2>1, PairKeys
    <2>3. rankKey \in Keys(2, R) /\ Distinct(rankKey)
      BY <1>5, <2>1, PairKeys
    <2>. QED
      BY <2>2, <2>3
  <1>7. score \in Seq(Int)
    <2>1. DOMAIN routing = 1..Len(routing) /\ Len(routing) \in Nat
      OBVIOUS
    <2>2. \A r \in R : 1000000000 \div (RRF + RankOf(routing[r], k)) \in Int
      <3>1. SUFFICES ASSUME NEW r \in R
                     PROVE  1000000000 \div (RRF + RankOf(routing[r], k)) \in Int
        OBVIOUS
      <3>2. RRF + RankOf(routing[r], k) \in Nat \ {0}
        BY <1>1 DEF RRF
      <3>. QED
        BY <3>2
    <2>. QED
      BY <2>1, <2>2
  <1>. HIDE DEF nearKey, rankKey, score
  <1>8. Least(nearKey) \in R /\ Least(rankKey) \in R
    BY <1>1, <1>6, LeastIs
  <1>9. Total(score) \in Int
    <2>1. PICK sum \in [0..Len(score) -> Int] : Total(score) = sum[Len(score)]
      BY <1>7, TotalIs
    <2>2. Len(score) \in 0..Len(score)
      BY <1>7
    <2>. QED
      BY <2>1, <2>2
  <1>. QED
    BY <1>1, <1>2, <1>3, <1>4, <1>8, <1>9

\* The fused list has chunks of the routes, no source twice.
LEMMA FusedIs ==
    ASSUME NEW routing \in Seq(Listings), NEW max \in Nat
    PROVE  Fused(routing, max) \in Listings
  <1>. DEFINE D == UNION {KeysIn(routing[r]) : r \in DOMAIN routing}
              key == [k \in D |-> <<0 - FusionScore(routing, k), BestHit(routing, k).dist,
                                    BestRank(routing, k), k[1], k[2]>>]
              sorted == Sorted(key)
              order == Take(sorted, max)
  <1>1. \A k \in D : /\ BestHit(routing, k) \in Chunks /\ Key(BestHit(routing, k)) = k
                     /\ BestRank(routing, k) \in Int /\ FusionScore(routing, k) \in Int
                     /\ k \in Sources
    BY BestHitIs
  <1>2. Fused(routing, max) = [n \in DOMAIN order |-> BestHit(routing, order[n])]
    BY DEF Fused
  <1>. HIDE DEF D
  <1>3. IsFiniteSet(D)
    BY <1>1, RetrievalAssumption, FS_Subset
  <1>4. key \in Keys(5, D)
    <2>1. ASSUME NEW k \in D
          PROVE  <<0 - FusionScore(routing, k), BestHit(routing, k).dist,
                   BestRank(routing, k), k[1], k[2]>> \in [1..5 -> Int]
      <3>1. BestHit(routing, k).dist \in Int /\ k[1] \in Int /\ k[2] \in Int
            /\ BestRank(routing, k) \in Int /\ 0 - FusionScore(routing, k) \in Int
        BY <1>1, ChunkIs, SourceIs
      <3>. QED
        BY <3>1
    <2>. QED
      BY <2>1 DEF Keys
  <1>5. Distinct(key)
    <2>1. SUFFICES ASSUME NEW c \in D, NEW d \in D, key[c] = key[d] PROVE c = d
      BY DEF Distinct
    <2>2. key[c][4] = c[1] /\ key[c][5] = c[2] /\ key[d][4] = d[1] /\ key[d][5] = d[2]
      OBVIOUS
    <2>3. c[1] = d[1] /\ c[2] = d[2]
      BY <2>1, <2>2
    <2>. QED
      BY <1>1, <2>3, SourceIs
  <1>. HIDE DEF key
  <1>6. /\ Cardinality(D) \in Nat /\ Sorted(key) \in [1..Cardinality(D) -> D]
        /\ \A i, j \in 1..Cardinality(D) :
              i < j <=> Precedes(key[Sorted(key)[i]], key[Sorted(key)[j]])
    BY <1>3, <1>4, <1>5, SortedIs
  <1>7. sorted \in Seq(D) /\ DOMAIN sorted = 1..Cardinality(D)
    BY <1>6
  <1>8. \A i, j \in DOMAIN sorted : sorted[i] = sorted[j] => i = j
    <2>1. SUFFICES ASSUME NEW i \in 1..Cardinality(D), NEW j \in 1..Cardinality(D), i # j,
                          sorted[i] = sorted[j]
                   PROVE  FALSE
      BY <1>7
    <2>2. sorted[i] \in D
      BY <1>6
    <2>3. ~Precedes(key[sorted[i]], key[sorted[i]])
      <3>1. key[sorted[i]] \in [1..5 -> Int]
        BY <1>4, <2>2 DEF Keys
      <3>. QED
        BY <3>1, PrecedesOrder
    <2>4. ~(i < j) /\ ~(j < i)
      BY <1>6, <2>1, <2>3
    <2>. QED
      BY <1>6, <2>1, <2>4
  <1>. HIDE DEF sorted
  <1>9. /\ order \in Seq(D)
        /\ \A i \in DOMAIN order : i \in DOMAIN sorted /\ order[i] = sorted[i]
    BY <1>7, TakeIs
  <1>. HIDE DEF order
  <1>10. DOMAIN order = 1..Len(order) /\ Len(order) \in Nat /\ \A n \in DOMAIN order : order[n] \in D
    BY <1>9
  <1>11. Fused(routing, max) \in Seq(Chunks) /\ DOMAIN Fused(routing, max) = DOMAIN order
    BY <1>1, <1>2, <1>10
  <1>12. \A n \in DOMAIN order : Key(Fused(routing, max)[n]) = order[n]
    BY <1>1, <1>2, <1>10
  <1>. QED
    BY <1>8, <1>9, <1>11, <1>12 DEF Listings

\* The names of the code's tables are not strings to the provers.
Facet == SUBSET (STRING \union {"upload_parse", "words"})

LEMMA ListFinite ==
    ASSUME NEW T, NEW s \in Seq(T)
    PROVE  /\ ToSet(s) \subseteq T /\ IsFiniteSet(ToSet(s))
           /\ Cardinality(ToSet(s)) \in Nat /\ Cardinality(ToSet(s)) <= Len(s)
  <1>. DEFINE M == Len(s)
              I == 1..M
              f == [i \in I |-> s[i]]
              R == ToSet(s)
  <1>1. M \in Nat /\ f \in [I -> T] /\ R = {f[i] : i \in I} /\ \A i \in I : s[i] \in T
    BY DEF ToSet
  <1>2. IsFiniteSet(I) /\ Cardinality(I) = M
    <2>. HIDE DEF M
    <2>. QED
      BY <1>1, NumbersFinite
  <1>. HIDE DEF f, R, I, M
  <1>3. f \in Surjection(I, R)
    BY <1>1 DEF Surjection
  <1>4. IsFiniteSet(R) /\ Cardinality(R) <= Cardinality(I)
    BY <1>2, <1>3, FS_Surjection
  <1>5. Cardinality(R) \in Nat
    BY <1>4, FS_CardinalityType
  <1>6. R \subseteq T
    BY <1>1
  <1>. QED
    BY <1>2, <1>4, <1>5, <1>6 DEF R, M

LEMMA FacetsAre ==
    ASSUME NEW q \in Questions
    PROVE  Facets(q) \in Seq(Facet) /\ Len(Facets(q)) \in 1..MaxFacets
  <1>1. q.concepts \in Seq(STRING) /\ q.clauses \in Seq(SUBSET STRING)
    BY RetrievalAssumption
  <1>2. Kept(q) \in Seq(STRING)
    <2>. DEFINE S == ToSet(q.concepts) \ UNION {
            IF "vector_store" \in ToSet(q.concepts) THEN {"storage_index"} ELSE {},
            IF "embedding" \in ToSet(q.concepts) THEN {"chunk_embedding"} ELSE {},
            IF q.narrows THEN {"job_requirement"} ELSE {}}
    <2>1. Kept(q) = Within(q.concepts, S)
      BY DEF Kept
    <2>. HIDE DEF S
    <2>2. Within(q.concepts, S) \in Seq(STRING \intersect S)
      BY <1>1, WithinIs
    <2>. QED
      BY <2>1, <2>2
  <1>3. ASSUME NEW s \in Seq(STRING)
        PROVE  Singles(s) \in Seq(Facet)
    BY <1>3 DEF Singles, Facet
  <1>4. ProcessFacets(q) \in Seq(Facet)
    <2>. DEFINE kept == ToSet(Kept(q))
                last == IF "isolation" \in kept THEN {"isolation"}
                        ELSE {"storage_index", "vector_store"}
                parts == <<{"upload_parse"}, kept \intersect {"chunk_embedding", "embedding"},
                           kept \intersect last>>
                S == (SUBSET kept) \ {{}}
    <2>1. ProcessFacets(q) = IF q.process /\ "upload_parse" \in kept THEN Within(parts, S) ELSE <<>>
      BY DEF ProcessFacets
    <2>2. parts \in Seq(Facet)
      <3>1. kept \subseteq STRING
        BY <1>2, ListFinite
      <3>. HIDE DEF kept, last
      <3>2. {"upload_parse"} \in Facet
        BY DEF Facet
      <3>3. /\ kept \intersect {"chunk_embedding", "embedding"} \in Facet
            /\ kept \intersect last \in Facet
        BY <3>1 DEF Facet
      <3>. QED
        BY <3>2, <3>3
    <2>. HIDE DEF parts, S
    <2>3. Within(parts, S) \in Seq(Facet \intersect S)
      BY <2>2, WithinIs
    <2>4. Within(parts, S) \in Seq(Facet)
      BY <2>3
    <2>. QED
      BY <2>1, <2>4
  <1>5. ClauseFacets(q) \in Seq(Facet)
    <2>. DEFINE M == Mentions(q)
                key == [m \in M |-> m]
                found == Sorted(key)
                names == [n \in DOMAIN found |-> Kept(q)[found[n][2]]]
    <2>1. ClauseFacets(q) = Take(Singles(names), MaxFacets)
      BY DEF ClauseFacets
    <2>2. /\ DOMAIN q.clauses = 1..Len(q.clauses) /\ Len(q.clauses) \in Nat
          /\ DOMAIN Kept(q) = 1..Len(Kept(q)) /\ Len(Kept(q)) \in Nat
      BY <1>1, <1>2
    <2>. DEFINE A == DOMAIN q.clauses
                B == DOMAIN Kept(q)
    <2>3. M \subseteq A \X B
      BY DEF Mentions
    <2>4. IsFiniteSet(A) /\ IsFiniteSet(B)
      BY <2>2, NumbersFinite
    <2>5. A \in SUBSET Nat /\ B \in SUBSET Nat
      BY <2>2
    <2>. HIDE DEF M, A, B
    <2>6. IsFiniteSet(M)
      <3>1. IsFiniteSet(A \X B)
        BY <2>4, FS_Product
      <3>. QED
        BY <2>3, <3>1, FS_Subset
    <2>7. \A m \in M : m \in [1..2 -> Int] /\ m[2] \in B
      <3>1. SUFFICES ASSUME NEW m \in M PROVE m \in [1..2 -> Int] /\ m[2] \in B
        OBVIOUS
      <3>2. m = <<m[1], m[2]>> /\ m[1] \in A /\ m[2] \in B
        BY <2>3
      <3>. QED
        BY <2>5, <3>2
    <2>8. key \in Keys(2, M) /\ Distinct(key)
      BY <2>7 DEF Keys, Distinct
    <2>. HIDE DEF key
    <2>9. Cardinality(M) \in Nat /\ Sorted(key) \in [1..Cardinality(M) -> M]
      BY <2>6, <2>8, SortedIs
    <2>. DEFINE N == Cardinality(M)
    <2>10. N \in Nat /\ found \in [1..N -> M]
      BY <2>9
    <2>. HIDE DEF N, found
    <2>11. \A b \in B : Kept(q)[b] \in STRING
      BY <1>2 DEF B
    <2>12. names \in Seq(STRING)
      BY <2>7, <2>10, <2>11
    <2>. HIDE DEF names
    <2>13. Singles(names) \in Seq(Facet) /\ MaxFacets \in Nat
      BY <1>3, <2>12 DEF MaxFacets
    <2>. QED
      BY <2>1, <2>13, TakeIs
  <1>. DEFINE first == IF ProcessFacets(q) # <<>> THEN ProcessFacets(q) ELSE ClauseFacets(q)
              S == ToSet(Kept(q)) \ UNION ToSet(first)
              rest == Within(Kept(q), S)
              both == first \o Singles(rest)
              all == Take(both, MaxFacets)
  <1>6. Facets(q) = IF all = <<>> THEN <<{"words"}>> ELSE all
    BY DEF Facets
  <1>7. first \in Seq(Facet)
    BY <1>4, <1>5
  <1>. HIDE DEF first, S
  <1>8. rest \in Seq(STRING \intersect S)
    BY <1>2, WithinIs
  <1>9. rest \in Seq(STRING)
    BY <1>8
  <1>. HIDE DEF rest
  <1>10. both \in Seq(Facet)
    BY <1>3, <1>7, <1>9
  <1>. HIDE DEF both
  <1>11. all \in Seq(Facet) /\ Len(all) <= MaxFacets
    <2>1. MaxFacets \in Nat
      BY DEF MaxFacets
    <2>2. all \in Seq(Facet) /\ Len(all) = (IF Len(both) < MaxFacets THEN Len(both) ELSE MaxFacets)
      BY <1>10, <2>1, TakeIs
    <2>. QED
      BY <1>10, <2>1, <2>2
  <1>. HIDE DEF all
  <1>12. CASE all = <<>>
    <2>1. <<{"words"}>> \in Seq(Facet) /\ Len(<<{"words"}>>) = 1
      BY DEF Facet
    <2>. QED
      BY <1>6, <1>12, <2>1 DEF MaxFacets
  <1>13. CASE all # <<>>
    <2>. DEFINE m == Len(all)
    <2>1. m \in Nat /\ m # 0 /\ m <= 3
      BY <1>11, <1>13 DEF MaxFacets
    <2>. HIDE DEF m
    <2>2. m \in 1..3
      BY <2>1
    <2>. QED
      BY <1>6, <1>11, <1>13, <2>2 DEF m, MaxFacets
  <1>. QED
    BY <1>12, <1>13

LEMMA VariantsAre ==
    ASSUME NEW q \in Questions, NEW groups
    PROVE  Variants(q, groups) \in 0..MaxVariants
  <1>. DEFINE n == Cardinality(Projects(q, groups))
              worded == IF Facets(q) = <<{"words"}>> /\ ~q.wordy THEN {} ELSE ToSet(Facets(q))
  <1>1. Variants(q, groups) = IF n >= 2 \/ Cardinality(worded) >= MaxVariants THEN MaxVariants
                              ELSE Cardinality(worded)
    BY DEF Variants
  <1>2. Cardinality(worded) \in Nat
    <2>1. Cardinality(ToSet(Facets(q))) \in Nat
      BY FacetsAre, ListFinite
    <2>2. Cardinality({}) \in Nat
      BY FS_EmptySet
    <2>. QED
      BY <2>1, <2>2
  <1>. HIDE DEF worded, n
  <1>. QED
    BY <1>1, <1>2 DEF MaxVariants

LEMMA PoolIs ==
    ASSUME NEW k \in TopKs
    PROVE  /\ k \in Nat \ {0} /\ PoolSize(k) \in Nat
           /\ Smaller(MaxCandidates, Larger(PoolSize(k) + k, 2 * PoolSize(k))) \in Nat
  <1>1. k \in Nat \ {0} /\ Multiplier \in Nat /\ MaxCandidates \in Nat
    BY RetrievalAssumption
  <1>2. k * Multiplier \in Nat
    BY <1>1
  <1>3. PoolSize(k) \in Nat
    BY <1>1, <1>2 DEF PoolSize, Smaller
  <1>. QED
    BY <1>1, <1>3 DEF Smaller, Larger

LEMMA RouteSet ==
    ASSUME NEW route \in Listings
    PROVE  ToSet(route) \in SUBSET Chunks /\ Single(ToSet(route))
  <1>1. route \in Seq(Chunks) /\ \A i, j \in DOMAIN route : Key(route[i]) = Key(route[j]) => i = j
    BY DEF Listings
  <1>2. ToSet(route) \in SUBSET Chunks
    BY <1>1, ListFinite
  <1>. QED
    BY <1>1, <1>2 DEF Single, ToSet

\* The best ranked of a set of chunks is one of them.
LEMMA TopRankedIs ==
    ASSUME NEW P \in SUBSET Chunks, Single(P), P # {}, NEW taken
    PROVE  TopRanked(P, taken) \in P
  <1>. DEFINE key == [c \in P |-> RankKey(c, Score(c, taken))]
  <1>1. ASSUME NEW c \in P
        PROVE  0 - Score(c, taken) \in Int
    <2>1. TextOf[c.text].cover \in Nat /\ NameOf[c.file].cover \in Nat /\ c.dist \in Nat
      BY ChunkIs
    <2>2. Lexical(c) \in Int
      BY <2>1 DEF Lexical
    <2>3. Combined(c) \in Int
      BY <2>1, <2>2 DEF Combined, HardReject
    <2>4. Score(c, taken) \in Int
      BY <2>3 DEF Score, NearDuplicatePenalty
    <2>. QED
      BY <2>4
  <1>2. \A c \in P : key[c] = <<0 - Score(c, taken), c.dist, c.file, c.index>>
    BY DEF RankKey
  <1>3. key \in Keys(4, P)
    <2>1. \A c \in P : <<0 - Score(c, taken), c.dist, c.file, c.index>> \in [1..4 -> Int]
      <3>1. SUFFICES ASSUME NEW c \in P
                     PROVE  <<0 - Score(c, taken), c.dist, c.file, c.index>> \in [1..4 -> Int]
        OBVIOUS
      <3>2. 0 - Score(c, taken) \in Int /\ c.dist \in Int /\ c.file \in Int /\ c.index \in Int
        BY <1>1, ChunkIs
      <3>. QED
        BY <3>2
    <2>. QED
      BY <1>2, <2>1 DEF Keys
  <1>4. Distinct(key)
    <2>1. SUFFICES ASSUME NEW c \in P, NEW d \in P, key[c] = key[d] PROVE c = d
      BY DEF Distinct
    <2>2. <<0 - Score(c, taken), c.dist, c.file, c.index>>
            = <<0 - Score(d, taken), d.dist, d.file, d.index>>
      BY <1>2, <2>1
    <2>3. c.file = d.file /\ c.index = d.index
      BY <2>2
    <2>. QED
      BY <2>3, ChunkIs DEF Single
  <1>5. TopRanked(P, taken) = Least(key)
    BY DEF TopRanked
  <1>. HIDE DEF key
  <1>6. IsFiniteSet(P)
    BY SingleFinite
  <1>. QED
    BY <1>3, <1>4, <1>5, <1>6, LeastIs

\* The ranking lists chunks that are near enough.
LEMMA RankedOfIs ==
    ASSUME NEW U \in SUBSET Chunks, Single(U), NEW topK \in Nat
    PROVE  RankedOf(U, topK) \in Seq(U)
  <1>. DEFINE Q == Seq(U)
              Next1(s) == IF U \subseteq ToSet(s) THEN s
                          ELSE Append(s, TopRanked(U \ ToSet(s), ToSet(s)))
              step == [p \in (1..topK) \X Q |-> Next1(p[2])]
              Body(f) == [n \in 0..topK |-> IF n = 0 THEN <<>> ELSE Next1(f[n - 1])]
              f == CHOOSE f : f = Body(f)
  <1>1. RankedOf(U, topK) = f[topK]
    BY DEF RankedOf
  <1>2. \A s \in Q : Next1(s) \in Q
    <2>1. SUFFICES ASSUME NEW s \in Q, ~(U \subseteq ToSet(s))
                   PROVE  TopRanked(U \ ToSet(s), ToSet(s)) \in U
      OBVIOUS
    <2>. DEFINE P == U \ ToSet(s)
    <2>2. P \in SUBSET Chunks /\ Single(P) /\ P \subseteq U
      BY DEF Single
    <2>3. P # {}
      BY <2>1
    <2>. HIDE DEF P
    <2>4. TopRanked(P, ToSet(s)) \in P
      BY <2>2, <2>3, TopRankedIs
    <2>. QED
      BY <2>2, <2>4 DEF P
  <1>3. <<>> \in Q
    OBVIOUS
  <1>. HIDE DEF Q, Next1
  <1>4. step \in Steps(topK, Q) /\ \A k \in 1..topK, x \in Q : step[<<k, x>>] = Next1(x)
    BY <1>2 DEF Steps
  <1>. HIDE DEF step
  <1>5. \E g : Runs(topK, Q, <<>>, step, g)
    BY <1>3, <1>4, Recursion
  <1>6. PICK g \in [0..topK -> Q] :
                g[0] = <<>> /\ \A k \in 1..topK : g[k] = step[<<k, g[k - 1]>>]
    BY <1>5 DEF Runs
  <1>7. \A k \in 1..topK : k - 1 \in 0..topK
    OBVIOUS
  <1>8. \A k \in 1..topK : g[k] = Next1(g[k - 1])
    BY <1>4, <1>6, <1>7
  <1>9. g = Body(g)
    BY <1>6, <1>8
  <1>10. f = Body(f)
    BY <1>9
  <1>. HIDE DEF f
  <1>11. f[0] = <<>> /\ \A n \in 1..topK : f[n] = Next1(f[n - 1])
    BY <1>10
  <1>. DEFINE P == {n \in 0..topK : f[n] \in Q}
  <1>12. 0 \in P
    BY <1>3, <1>11
  <1>13. ASSUME NEW k \in 1..topK, k - 1 \in P
         PROVE  k \in P
    BY <1>2, <1>11, <1>13
  <1>. HIDE DEF P
  <1>14. 0..topK \subseteq P
    BY <1>12, <1>13, Counting
  <1>15. topK \in P
    BY <1>14
  <1>. QED
    BY <1>1, <1>15 DEF P, Q

LEMMA RankedIs ==
    ASSUME NEW S \in SUBSET Chunks, Single(S), NEW topK \in Nat
    PROVE  Ranked(S, topK) \in Seq({c \in S : c.dist <= HardReject})
  <1>. DEFINE T == {c \in S : c.dist <= HardReject}
              U == Deduplicated(T)
  <1>1. U \subseteq T /\ T \subseteq S
    BY DEF Deduplicated
  <1>2. Ranked(S, topK) = RankedOf(U, topK)
    BY DEF Ranked
  <1>. HIDE DEF U, T
  <1>3. U \in SUBSET Chunks /\ Single(U)
    BY <1>1 DEF Single
  <1>4. RankedOf(U, topK) \in Seq(U)
    BY <1>3, RankedOfIs
  <1>5. Seq(U) \subseteq Seq(T)
    BY <1>1
  <1>. QED
    BY <1>2, <1>4, <1>5 DEF T

LEMMA FacetNumbers ==
    ASSUME NEW q, q.facets \in Seq(Facet), NEW c
    PROVE  /\ FacetsOf(q, c) \subseteq DOMAIN q.facets /\ IsFiniteSet(DOMAIN q.facets)
           /\ Len(q.facets) \in Nat /\ Cardinality(DOMAIN q.facets) = Len(q.facets)
           /\ Required(q) \subseteq DOMAIN q.facets
  <1>1. DOMAIN q.facets = 1..Len(q.facets) /\ Len(q.facets) \in Nat
    OBVIOUS
  <1>2. IsFiniteSet(DOMAIN q.facets) /\ Cardinality(DOMAIN q.facets) = Len(q.facets)
    BY <1>1, NumbersFinite
  <1>. QED
    BY <1>1, <1>2 DEF FacetsOf, Required

LEMMA SetScoreIs ==
    ASSUME NEW q, q.facets \in Seq(Facet), NEW c, NEW rank \in Int, NEW n \in Nat, NEW chosen
    PROVE  SetScore(q, c, rank, n, chosen) \in Int
  <1>. DEFINE m == Len(q.facets)
              open == Required(q) \ CoveredBy(q, chosen)
              gain == Cardinality(FacetsOf(q, c) \intersect open)
              missing == q.projects \ UNION {ProjectsOf(q, d) : d \in chosen}
              file == IF \A d \in chosen : d.file # c.file THEN 10 * n * m ELSE 0
              project == IF missing = {} \/ ProjectsOf(q, c) \intersect missing # {}
                         THEN 5 * n * m ELSE 0
  <1>1. SetScore(q, c, rank, n, chosen) = 55 * (n - rank) * m + 30 * gain * n + file + project
    BY DEF SetScore
  <1>2. m \in Int
    BY FacetNumbers
  <1>3. gain \in Int
    <2>1. FacetsOf(q, c) \subseteq DOMAIN q.facets /\ IsFiniteSet(DOMAIN q.facets)
      BY FacetNumbers
    <2>. DEFINE F == FacetsOf(q, c) \intersect open
    <2>2. F \subseteq DOMAIN q.facets
      BY <2>1
    <2>. HIDE DEF F
    <2>3. IsFiniteSet(F)
      BY <2>1, <2>2, FS_Subset
    <2>4. Cardinality(F) \in Nat
      BY <2>3, FS_CardinalityType
    <2>. QED
      BY <2>4 DEF F
  <1>. HIDE DEF m, gain
  <1>4. /\ 55 * (n - rank) * m \in Int /\ 30 * gain * n \in Int
        /\ 10 * n * m \in Int /\ 5 * n * m \in Int
    BY <1>2, <1>3
  <1>5. file \in Int /\ project \in Int
    BY <1>4
  <1>. HIDE DEF file, project
  <1>. QED
    BY <1>1, <1>4, <1>5

\* The best of a set of candidates is one of them.
LEMMA BestOfIs ==
    ASSUME NEW q, q.facets \in Seq(Facet), NEW pool \in Seq(Chunks),
           NEW P \in SUBSET ToSet(pool), P # {}, NEW n \in Nat, NEW chosen
    PROVE  BestOf(q, P, pool, n, chosen) \in P
  <1>. DEFINE key == [c \in P |-> <<0 - SetScore(q, c, RankIn(pool, c), n, chosen),
                                   RankIn(pool, c)>>]
  <1>1. ASSUME NEW c \in P
        PROVE  RankIn(pool, c) + 1 \in DOMAIN pool /\ pool[RankIn(pool, c) + 1] = c
               /\ RankIn(pool, c) \in Int
    <2>. DEFINE i == CHOOSE i \in DOMAIN pool : pool[i] = c
    <2>1. \E j \in DOMAIN pool : pool[j] = c
      BY DEF ToSet
    <2>2. i \in DOMAIN pool /\ pool[i] = c
      BY <2>1
    <2>3. RankIn(pool, c) = i - 1
      BY DEF RankIn
    <2>. HIDE DEF i
    <2>4. i \in Int /\ (i - 1) + 1 = i
      BY <2>2
    <2>. QED
      BY <2>2, <2>3, <2>4
  <1>2. \A c \in P : 0 - SetScore(q, c, RankIn(pool, c), n, chosen) \in Int
    <2>1. SUFFICES ASSUME NEW c \in P
                   PROVE  SetScore(q, c, RankIn(pool, c), n, chosen) \in Int
      OBVIOUS
    <2>. QED
      BY <1>1, SetScoreIs
  <1>3. key \in Keys(2, P)
    <2>1. SUFFICES ASSUME NEW c \in P
                   PROVE  <<0 - SetScore(q, c, RankIn(pool, c), n, chosen), RankIn(pool, c)>>
                             \in [1..2 -> Int]
      BY DEF Keys
    <2>. QED
      BY <1>1, <1>2
  <1>4. Distinct(key)
    <2>1. SUFFICES ASSUME NEW c \in P, NEW d \in P, key[c] = key[d] PROVE c = d
      BY DEF Distinct
    <2>2. RankIn(pool, c) = RankIn(pool, d)
      BY <2>1
    <2>. QED
      BY <1>1, <2>2
  <1>5. BestOf(q, P, pool, n, chosen) = Least(key)
    BY DEF BestOf
  <1>. HIDE DEF key
  <1>6. IsFiniteSet(P)
    BY ListFinite, FS_Subset
  <1>. QED
    BY <1>3, <1>4, <1>5, <1>6, LeastIs

\* The candidates one of which is next, and the list with that one.
Wanted(q, E, s) == Preferred(q, E \ ToSet(s), ToSet(s))
Chosen(q, E, pool, s) == Extended(q, Wanted(q, E, s), pool, Cardinality(E), s)

\* A choice adds nothing, or one of the preferred candidates that were not chosen yet.
LEMMA ChosenIs ==
    ASSUME NEW q, q.facets \in Seq(Facet), NEW pool \in Seq(Chunks),
           NEW E \in SUBSET ToSet(pool), NEW s \in Seq(E)
    PROVE  /\ Chosen(q, E, pool, s) \in Seq(E) /\ Wanted(q, E, s) \subseteq E
           /\ \/ Wanted(q, E, s) = {} /\ Chosen(q, E, pool, s) = s
              \/ \E c \in Wanted(q, E, s) :
                    /\ Chosen(q, E, pool, s) = Append(s, c)
                    /\ ToSet(Chosen(q, E, pool, s)) = ToSet(s) \union {c}
  <1>. DEFINE P == Wanted(q, E, s)
              t == Chosen(q, E, pool, s)
              n == Cardinality(E)
  <1>1. t = IF P = {} THEN s ELSE Append(s, BestOf(q, P, pool, n, ToSet(s)))
    BY DEF Chosen, Extended
  <1>2. P \subseteq E
    BY DEF Wanted, Preferred
  <1>3. n \in Nat
    <2>1. IsFiniteSet(E)
      BY ListFinite, FS_Subset
    <2>. QED
      BY <2>1, FS_CardinalityType
  <1>. HIDE DEF P, n, t
  <1>4. CASE P = {}
    BY <1>1, <1>2, <1>4 DEF P, t
  <1>5. CASE P # {}
    <2>1. BestOf(q, P, pool, n, ToSet(s)) \in P
      BY <1>2, <1>3, <1>5, BestOfIs
    <2>2. PICK c \in P : t = Append(s, c)
      BY <1>1, <1>5, <2>1
    <2>3. c \in E
      BY <1>2
    <2>4. t \in Seq(E)
      BY <2>2, <2>3
    <2>5. ToSet(t) = ToSet(s) \union {c}
      <3>1. /\ Len(t) = Len(s) + 1 /\ Len(s) \in Nat /\ t[Len(s) + 1] = c
            /\ DOMAIN t = 1..(Len(s) + 1) /\ DOMAIN s = 1..Len(s)
            /\ \A i \in 1..Len(s) : t[i] = s[i]
        BY <2>2, <2>3
      <3>. QED
        BY <3>1, SMTT(30) DEF ToSet
    <2>. QED
      BY <1>2, <2>2, <2>4, <2>5 DEF P, t
  <1>. QED
    BY <1>4, <1>5

LEMMA ChoiceRuns ==
    ASSUME NEW q, q.facets \in Seq(Facet), NEW pool \in Seq(Chunks),
           NEW E \in SUBSET ToSet(pool), NEW topK \in Nat
    PROVE  \E g : /\ \A k \in 0..topK : g[k] \in Seq(E)
                  /\ g[0] = <<>>
                  /\ \A k \in 1..topK : g[k] = Chosen(q, E, pool, g[k - 1])
                  /\ ChosenFrom(q, E, pool, topK) = g[topK]
  <1>. DEFINE Q == Seq(E)
              Next1(s) == Chosen(q, E, pool, s)
              step == [p \in (1..topK) \X Q |-> Next1(p[2])]
              Body(f) == [k \in 0..topK |-> IF k = 0 THEN <<>> ELSE Next1(f[k - 1])]
              f == CHOOSE f : f = Body(f)
  <1>1. ChosenFrom(q, E, pool, topK) = f[topK]
    BY DEF ChosenFrom, Chosen, Wanted
  <1>2. \A s \in Q : Next1(s) \in Q
    BY ChosenIs
  <1>3. <<>> \in Q
    OBVIOUS
  <1>. HIDE DEF Q, Next1
  <1>4. step \in Steps(topK, Q) /\ \A k \in 1..topK, x \in Q : step[<<k, x>>] = Next1(x)
    BY <1>2 DEF Steps
  <1>. HIDE DEF step
  <1>5. \E g : Runs(topK, Q, <<>>, step, g)
    BY <1>3, <1>4, Recursion
  <1>6. PICK g \in [0..topK -> Q] :
                g[0] = <<>> /\ \A k \in 1..topK : g[k] = step[<<k, g[k - 1]>>]
    BY <1>5 DEF Runs
  <1>7. \A k \in 1..topK : k - 1 \in 0..topK
    OBVIOUS
  <1>8. \A k \in 1..topK : g[k] = Next1(g[k - 1])
    BY <1>4, <1>6, <1>7
  <1>9. g = Body(g)
    BY <1>6, <1>8
  <1>10. f = Body(f)
    BY <1>9
  <1>. HIDE DEF f
  <1>11. f[0] = <<>> /\ \A n \in 1..topK : f[n] = Next1(f[n - 1])
    BY <1>10
  <1>. DEFINE P == {n \in 0..topK : f[n] \in Q}
  <1>12. 0 \in P
    BY <1>3, <1>11
  <1>13. ASSUME NEW k \in 1..topK, k - 1 \in P
         PROVE  k \in P
    BY <1>2, <1>11, <1>13
  <1>. HIDE DEF P
  <1>14. 0..topK \subseteq P
    BY <1>12, <1>13, Counting
  <1>15. \A k \in 0..topK : f[k] \in Q
    BY <1>14 DEF P
  <1>. QED
    BY <1>1, <1>11, <1>15 DEF Q, Next1

\* What is chosen are candidates, and no more of them than asked for.
LEMMA ChosenFromIs ==
    ASSUME NEW q, q.facets \in Seq(Facet), NEW pool \in Seq(Chunks),
           NEW E \in SUBSET ToSet(pool), NEW topK \in Nat
    PROVE  /\ ChosenFrom(q, E, pool, topK) \in Seq(E)
           /\ Len(ChosenFrom(q, E, pool, topK)) <= topK
  <1>1. PICK g : /\ \A k \in 0..topK : g[k] \in Seq(E)
                 /\ g[0] = <<>>
                 /\ \A k \in 1..topK : g[k] = Chosen(q, E, pool, g[k - 1])
                 /\ ChosenFrom(q, E, pool, topK) = g[topK]
    BY ChoiceRuns
  <1>. DEFINE P == {k \in 0..topK : Len(g[k]) <= k}
  <1>2. 0 \in P
    BY <1>1
  <1>3. ASSUME NEW k \in 1..topK, k - 1 \in P
        PROVE  k \in P
    <2>1. k - 1 \in 0..topK /\ Len(g[k - 1]) <= k - 1
      BY <1>3
    <2>2. PICK s \in Seq(E) : s = g[k - 1]
      BY <1>1, <2>1
    <2>3. g[k] = Chosen(q, E, pool, s) /\ Len(s) <= k - 1 /\ Len(s) \in Nat
      BY <1>1, <2>1, <2>2
    <2>4. \/ g[k] = s
          \/ \E c \in E : g[k] = Append(s, c)
      BY <2>3, ChosenIs
    <2>5. Len(g[k]) = Len(s) \/ Len(g[k]) = Len(s) + 1
      BY <2>3, <2>4
    <2>6. Len(g[k]) <= k
      BY <2>3, <2>5
    <2>. QED
      BY <2>6
  <1>. HIDE DEF P
  <1>4. 0..topK \subseteq P
    BY <1>2, <1>3, Counting
  <1>5. Len(g[topK]) <= topK /\ g[topK] \in Seq(E)
    BY <1>1, <1>4 DEF P
  <1>. QED
    BY <1>1, <1>5

\* The critical facets that some candidate supports and no chosen one.
Lost(q, E, chosen) == (CoveredBy(q, E) \intersect Required(q)) \ CoveredBy(q, chosen)

\* While a facet is lost and no two candidates are alike, the next choice supports one more.
LEMMA ChoiceGains ==
    ASSUME NEW q, q.facets \in Seq(Facet), NEW pool \in Seq(Chunks),
           NEW E \in SUBSET ToSet(pool), NEW s \in Seq(E),
           \A c, d \in E : c # d => ~Alike(c, d),
           NEW i \in Lost(q, E, ToSet(s))
    PROVE  \E j \in Lost(q, E, ToSet(s)) : j \notin Lost(q, E, ToSet(Chosen(q, E, pool, s)))
  <1>. DEFINE chosen == ToSet(s)
              left == E \ chosen
              fresh == {c \in left : ~Redundant(c, chosen)}
              open == Required(q) \ CoveredBy(q, chosen)
              Gains(c) == FacetsOf(q, c) \intersect open # {}
              facetGain == \E c \in fresh : Gains(c)
              missing == q.projects \ UNION {ProjectsOf(q, c) : c \in chosen}
              NewProject(c) == ProjectsOf(q, c) \intersect missing # {}
              projectGain == /\ q.intent = "comparison"
                             /\ \E c \in fresh : NewProject(c) /\ (facetGain => Gains(c))
              P == Wanted(q, E, s)
  <1>1. P = {c \in fresh : (facetGain => Gains(c)) /\ (projectGain => NewProject(c))}
    BY DEF Wanted, Preferred
  <1>2. chosen \subseteq E
    BY DEF ToSet
  <1>3. PICK c \in E : i \in FacetsOf(q, c)
    BY DEF Lost, CoveredBy
  <1>4. i \in open /\ i \notin CoveredBy(q, chosen)
    BY DEF Lost
  <1>5. c \notin chosen
    BY <1>3, <1>4 DEF CoveredBy
  <1>6. c \in fresh
    BY <1>2, <1>5 DEF Redundant
  <1>7. facetGain
    BY <1>3, <1>4, <1>6
  <1>8. P # {}
    <2>1. CASE projectGain
      <3>1. PICK d \in fresh : NewProject(d) /\ (facetGain => Gains(d))
        BY <2>1
      <3>2. d \in P
        BY <1>1, <3>1
      <3>. QED
        BY <3>2
    <2>2. CASE ~projectGain
      <3>1. c \in P
        BY <1>1, <1>3, <1>4, <1>6, <2>2
      <3>. QED
        BY <3>1
    <2>. QED
      BY <2>1, <2>2
  <1>9. \A d \in P : Gains(d) /\ d \in E
    BY <1>1, <1>7
  <1>. DEFINE t == Chosen(q, E, pool, s)
  <1>10. \E d \in P : ToSet(t) = chosen \union {d}
    <2>1. \/ Wanted(q, E, s) = {} /\ Chosen(q, E, pool, s) = s
          \/ \E d \in Wanted(q, E, s) :
                /\ Chosen(q, E, pool, s) = Append(s, d)
                /\ ToSet(Chosen(q, E, pool, s)) = ToSet(s) \union {d}
      BY ChosenIs
    <2>. QED
      BY <1>8, <2>1
  <1>11. PICK d \in P : ToSet(t) = chosen \union {d}
    BY <1>10
  <1>12. PICK j \in open : j \in FacetsOf(q, d)
    BY <1>9, <1>11
  <1>13. d \in E
    BY <1>9, <1>11
  <1>14. j \in Lost(q, E, chosen)
    BY <1>12, <1>13 DEF Lost, CoveredBy
  <1>15. j \in CoveredBy(q, ToSet(t))
    BY <1>11, <1>12 DEF CoveredBy
  <1>. QED
    BY <1>14, <1>15 DEF Lost

\* What was not lost is not lost by another choice.
LEMMA ChoiceKeeps ==
    ASSUME NEW q, q.facets \in Seq(Facet), NEW pool \in Seq(Chunks),
           NEW E \in SUBSET ToSet(pool), NEW s \in Seq(E)
    PROVE  Lost(q, E, ToSet(Chosen(q, E, pool, s))) \subseteq Lost(q, E, ToSet(s))
  <1>. DEFINE t == Chosen(q, E, pool, s)
  <1>1. \/ Wanted(q, E, s) = {} /\ Chosen(q, E, pool, s) = s
        \/ \E c \in Wanted(q, E, s) :
              /\ Chosen(q, E, pool, s) = Append(s, c)
              /\ ToSet(Chosen(q, E, pool, s)) = ToSet(s) \union {c}
    BY ChosenIs
  <1>2. ToSet(s) \subseteq ToSet(t)
    BY <1>1
  <1>3. CoveredBy(q, ToSet(s)) \subseteq CoveredBy(q, ToSet(t))
    BY <1>2 DEF CoveredBy
  <1>. QED
    BY <1>3 DEF Lost

\* With room for all the facets none that a candidate supports is lost.
LEMMA NoneIsLost ==
    ASSUME NEW q, q.facets \in Seq(Facet), NEW pool \in Seq(Chunks),
           NEW E \in SUBSET ToSet(pool), NEW topK \in Nat, Len(q.facets) <= topK,
           \A c, d \in E : c # d => ~Alike(c, d)
    PROVE  CoveredBy(q, E) \intersect Required(q)
              \subseteq CoveredBy(q, ToSet(ChosenFrom(q, E, pool, topK)))
  <1>1. PICK g : /\ \A k \in 0..topK : g[k] \in Seq(E)
                 /\ g[0] = <<>>
                 /\ \A k \in 1..topK : g[k] = Chosen(q, E, pool, g[k - 1])
                 /\ ChosenFrom(q, E, pool, topK) = g[topK]
    BY ChoiceRuns
  <1>. DEFINE M == Len(q.facets)
              L(k) == Lost(q, E, ToSet(g[k]))
              P == {k \in 0..topK : L(k) = {} \/ Cardinality(L(k)) + k <= M}
  <1>2. /\ IsFiniteSet(DOMAIN q.facets) /\ M \in Nat /\ Cardinality(DOMAIN q.facets) = M
        /\ Required(q) \subseteq DOMAIN q.facets
    BY FacetNumbers
  <1>3. \A k : /\ L(k) \subseteq DOMAIN q.facets /\ IsFiniteSet(L(k))
               /\ Cardinality(L(k)) \in Nat /\ Cardinality(L(k)) <= M
    <2>1. SUFFICES ASSUME NEW k
                   PROVE  /\ L(k) \subseteq DOMAIN q.facets /\ IsFiniteSet(L(k))
                          /\ Cardinality(L(k)) \in Nat /\ Cardinality(L(k)) <= M
      OBVIOUS
    <2>2. L(k) \subseteq DOMAIN q.facets
      BY <1>2 DEF Lost
    <2>. DEFINE T == L(k)
    <2>. HIDE DEF T, M
    <2>3. IsFiniteSet(T) /\ Cardinality(T) <= Cardinality(DOMAIN q.facets)
      BY <1>2, <2>2, FS_Subset DEF T
    <2>4. Cardinality(T) \in Nat
      BY <2>3, FS_CardinalityType
    <2>. QED
      BY <1>2, <2>2, <2>3, <2>4 DEF T
  <1>4. 0 \in P
    <2>. HIDE DEF L, M
    <2>. QED
      BY <1>3
  <1>5. ASSUME NEW k \in 1..topK, k - 1 \in P
        PROVE  k \in P
    <2>1. k - 1 \in 0..topK /\ k \in 0..topK
      BY <1>5
    <2>2. PICK s \in Seq(E) : s = g[k - 1]
      BY <1>1, <2>1
    <2>. DEFINE A == Lost(q, E, ToSet(s))
                B == Lost(q, E, ToSet(Chosen(q, E, pool, s)))
    <2>3. L(k - 1) = A /\ L(k) = B
      BY <1>1, <2>2
    <2>4. B \subseteq A
      BY ChoiceKeeps
    <2>5. A # {} => \E j \in A : j \notin B
      BY ChoiceGains
    <2>6. /\ IsFiniteSet(A) /\ IsFiniteSet(B)
          /\ Cardinality(A) \in Nat /\ Cardinality(B) \in Nat
      BY <1>3, <2>3
    <2>7. A = {} \/ Cardinality(A) + (k - 1) <= M
      BY <1>5, <2>3
    <2>. HIDE DEF A, B, L, M, P
    <2>8. A # {} => Cardinality(B) < Cardinality(A)
      <3>1. SUFFICES ASSUME A # {} PROVE Cardinality(B) < Cardinality(A)
        OBVIOUS
      <3>2. /\ Cardinality(B) <= Cardinality(A)
            /\ Cardinality(B) = Cardinality(A) => B = A
        BY <2>4, <2>6, FS_Subset
      <3>. QED
        BY <2>5, <2>6, <3>1, <3>2
    <2>9. B = {} \/ Cardinality(B) + k <= M
      BY <1>2, <2>4, <2>6, <2>7, <2>8
    <2>. QED
      BY <2>1, <2>3, <2>9 DEF P
  <1>. HIDE DEF P
  <1>6. 0..topK \subseteq P
    BY <1>4, <1>5, Counting
  <1>7. L(topK) = {} \/ Cardinality(L(topK)) + topK <= M
    BY <1>6 DEF P
  <1>8. L(topK) = {}
    <2>. DEFINE T == L(topK)
    <2>1. IsFiniteSet(T) /\ Cardinality(T) \in Nat /\ (T = {} \/ Cardinality(T) + topK <= M)
      BY <1>3, <1>7
    <2>. HIDE DEF T
    <2>2. Cardinality(T) = 0 => T = {}
      BY <2>1, FS_EmptySet
    <2>3. M <= topK /\ M \in Nat
      BY <1>2
    <2>. HIDE DEF M
    <2>4. T = {}
      BY <2>1, <2>2, <2>3
    <2>. QED
      BY <2>4 DEF T
  <1>. QED
    BY <1>1, <1>8 DEF Lost

\* What a request is, whatever it asks.
Requested ==
    /\ ask.kind \in {"agent", "interview", "resume"}
    /\ ask.question \in Questions /\ ask.topK \in TopKs

\* The queries that were made, and when there is a result to go on with.
Searching ==
    /\ routes \in Seq(Listings)
    /\ phase = "search" => Len(routes) < 1 + Wordings
    /\ phase \in {"rows", "resumes"} /\ ask.kind # "interview" => routes = <<>>
    /\ phase = "rows" /\ ask.kind = "interview" => routes # <<>>
    /\ phase = "resumes" => ask.kind = "resume"
    /\ phase \in {"expand", "decide"} => routes # <<>>

\* A description reads the rows of its projects and of resumes only.
CopyRead ==
    ask.kind = "resume" => \A f \in copy : f \in ask.selected \/ Category[f] = "resume"

\* Nothing is answered before it is decided, and nothing recalled before the answer.
Unanswered ==
    /\ phase \notin {"recall", "done"} => answer = NoAnswer
    /\ phase # "done" => recalled = {}
    /\ phase = "recall" => ask.kind = "resume"

\* What was decided is what the selection makes of candidates that passed.
Passed(c) ==
    /\ Trusted(c) /\ c.dist <= HardReject
    /\ ~TextOf[c.text].missing /\ ~TextOf[c.text].stuffed
AnswerHolds ==
    /\ answer.asked.facets = Facets(ask.question)
    /\ answer.pool \in Seq(Chunks)
    /\ \A c \in ToSet(answer.pool) : Passed(c)
    /\ answer.accepted = EvidenceSet(answer.asked, answer.pool, ask.topK)
    /\ answer.sufficient /\ ask.kind # "resume" => Complete(answer.asked, answer.accepted)

RetrievalInv ==
    /\ RetrievalTypeOK
    /\ Requested
    /\ Searching
    /\ CopyRead
    /\ Unanswered
    /\ phase = "recall" \/ answer # NoAnswer => AnswerHolds
    /\ \A s \in recalled : ask.kind = "resume" /\ Recallable(s)

\* The decision over chunks of different sources.
LEMMA DecisionIs ==
    ASSUME NEW q, q.facets \in Seq(Facet), NEW S \in SUBSET Chunks, Single(S), NEW topK \in Nat
    PROVE  /\ Decision(q, S, topK).asked = q
           /\ Decision(q, S, topK).pool \in Seq(Chunks)
           /\ \A c \in ToSet(Decision(q, S, topK).pool) :
                 /\ c \in S /\ c.dist <= HardReject
                 /\ ~TextOf[c.text].missing /\ ~TextOf[c.text].stuffed
           /\ Decision(q, S, topK).accepted = EvidenceSet(q, Decision(q, S, topK).pool, topK)
           /\ Decision(q, S, topK).sufficient = Complete(q, Decision(q, S, topK).accepted)
           /\ DOMAIN Decision(q, S, topK) = {"asked", "pool", "accepted", "sufficient"}
  <1>. DEFINE ranked == Ranked(S, 3 * topK)
              A == {c \in ToSet(ranked) : Accepted(q, c, ToSet(ranked))}
              pool == Within(ranked, A)
              T == {c \in S : c.dist <= HardReject}
  <1>1. Decision(q, S, topK) = Answered(q, pool, EvidenceSet(q, pool, topK))
    BY DEF Decision, Judged, Selected
  <1>2. ranked \in Seq(T)
    <2>1. 3 * topK \in Nat
      OBVIOUS
    <2>. QED
      BY <2>1, RankedIs
  <1>3. \A c \in A : ~TextOf[c.text].missing /\ ~TextOf[c.text].stuffed
    BY DEF Accepted, NotRejected
  <1>. HIDE DEF ranked, A
  <1>4. pool \in Seq(T \intersect A) /\ ToSet(pool) = ToSet(ranked) \intersect A
    BY <1>2, WithinIs
  <1>5. T \subseteq Chunks /\ T \subseteq S
    OBVIOUS
  <1>6. \A c \in ToSet(pool) : c \in T /\ c \in A
    BY <1>4, ListFinite
  <1>7. pool \in Seq(Chunks)
    <2>1. Seq(T \intersect A) \subseteq Seq(Chunks)
      BY <1>5
    <2>. QED
      BY <1>4, <2>1
  <1>. HIDE DEF pool
  <1>8. /\ Decision(q, S, topK).asked = q /\ Decision(q, S, topK).pool = pool
        /\ Decision(q, S, topK).accepted = EvidenceSet(q, pool, topK)
        /\ Decision(q, S, topK).sufficient = Complete(q, EvidenceSet(q, pool, topK))
        /\ DOMAIN Decision(q, S, topK) = {"asked", "pool", "accepted", "sufficient"}
    BY <1>1 DEF Answered
  <1>. QED
    BY <1>3, <1>6, <1>7, <1>8

\* The accepted are of the pool, and no more than asked for.
LEMMA EvidenceSetIs ==
    ASSUME NEW q, q.facets \in Seq(Facet), NEW pool \in Seq(Chunks), NEW topK \in Nat
    PROVE  /\ EvidenceSet(q, pool, topK) \in Seq(Chunks)
           /\ ToSet(EvidenceSet(q, pool, topK)) \subseteq ToSet(pool)
           /\ Len(EvidenceSet(q, pool, topK)) <= topK
  <1>. DEFINE E == {c \in ToSet(pool) : Eligible(q, c)}
  <1>1. EvidenceSet(q, pool, topK) = ChosenFrom(q, E, pool, topK)
    BY DEF EvidenceSet
  <1>2. E \in SUBSET ToSet(pool)
    OBVIOUS
  <1>. HIDE DEF E
  <1>3. EvidenceSet(q, pool, topK) \in Seq(E) /\ Len(EvidenceSet(q, pool, topK)) <= topK
    BY <1>1, <1>2, ChosenFromIs
  <1>4. ToSet(EvidenceSet(q, pool, topK)) \subseteq ToSet(pool)
    BY <1>2, <1>3, ListFinite
  <1>5. E \subseteq Chunks
    BY <1>2, ListFinite
  <1>. QED
    BY <1>3, <1>4, <1>5

LEMMA WordingsAre ==
    ASSUME Requested
    PROVE  Wordings \in 0..MaxVariants /\ Wordings \in Nat
  <1>1. Wordings \in 0..MaxVariants
    BY VariantsAre DEF Requested, Wordings, MaxVariants
  <1>. QED
    BY <1>1 DEF MaxVariants

\* One more query.
LEMMA SearchKeeps ==
    ASSUME RetrievalTypeOK, Requested, Searching, phase = "search", NEW k \in Nat, Search(k)
    PROVE  /\ routes' \in Seq(Listings) /\ Len(routes') = Len(routes) + 1
           /\ Len(routes') <= 1 + Wordings /\ Len(routes') <= 1 + MaxVariants
           /\ routes' # <<>>
  <1>. DEFINE m == Len(routes)
              w == Wordings
  <1>1. routes \in Seq(Listings) /\ m \in Nat /\ m < 1 + w
    BY DEF Searching
  <1>2. w \in Nat /\ w <= MaxVariants
    BY WordingsAre DEF MaxVariants
  <1>. HIDE DEF m, w
  <1>3. m \in 0..MaxVariants
    BY <1>1, <1>2 DEF MaxVariants
  <1>4. Nearest(m, k) \in Listings
    BY <1>3, NearestIs
  <1>5. routes' = Append(routes, Nearest(m, k))
    BY DEF Search, m
  <1>6. routes' \in Seq(Listings) /\ Len(routes') = m + 1 /\ routes' # <<>>
    BY <1>1, <1>4, <1>5 DEF m
  <1>7. m + 1 <= 1 + w /\ m + 1 <= 1 + MaxVariants
    BY <1>1, <1>2 DEF MaxVariants
  <1>. QED
    BY <1>6, <1>7 DEF m, w

\* What is decided on are chunks of different sources.
LEMMA CandidatesAre ==
    ASSUME Requested, routes \in Seq(Listings), routes # <<>>
    PROVE  Candidates \in Listings
  <1>1. Len(routes) # 0 /\ routes[1] \in Listings
    <2>1. Len(routes) \in Nat \ {0}
      BY EmptySeq
    <2>. QED
      BY <2>1
  <1>2. MaxCandidates \in Nat
    BY RetrievalAssumption
  <1>3. Fused(routes, MaxCandidates) \in Listings
    BY <1>2, FusedIs
  <1>. QED
    BY <1>1, <1>3 DEF Candidates

LEMMA RetrievalInitInv == RetrievalInit => RetrievalInv
  <1>. SUFFICES ASSUME RetrievalInit PROVE RetrievalInv
    OBVIOUS
  <1>1. PICK S \in SUBSET Sources : store \in {st \in [S -> Texts] : \A s \in S : st[s] \in TextsOf[s]}
    BY DEF RetrievalInit
  <1>2. DOMAIN store \subseteq Sources /\ \A s \in DOMAIN store : store[s] \in TextsOf[s]
    BY <1>1
  <1>3. Requested
    BY DEF RetrievalInit, Requested
  <1>4. routes = <<>> /\ copy = {} /\ answer = NoAnswer /\ recalled = {} /\ changes = 0
    BY DEF RetrievalInit
  <1>5. phase = IF ask.kind = "interview" THEN "search" ELSE "rows"
    BY DEF RetrievalInit
  <1>6. rows \subseteq Files
    BY DEF RetrievalInit
  <1>7. RetrievalTypeOK
    <2>1. Len(routes) <= 1 + MaxVariants /\ changes \in 0..MaxChanges
      BY <1>4, RetrievalAssumption DEF MaxVariants
    <2>. QED
      BY <1>2, <1>4, <1>5, <1>6, <2>1 DEF RetrievalTypeOK
  <1>8. Searching
    <2>1. Len(routes) < 1 + Wordings
      BY <1>3, <1>4, WordingsAre
    <2>. QED
      BY <1>4, <1>5, <2>1 DEF Searching
  <1>. QED
    BY <1>3, <1>4, <1>5, <1>7, <1>8 DEF RetrievalInv, CopyRead, Unanswered

LEMMA LoadKeeps ==
    ASSUME RetrievalInv, LoadRows \/ LoadProjects \/ LoadResumes
    PROVE  RetrievalInv'
  <1>0. phase \in {"rows", "resumes"} /\ ask.kind # "interview" /\ routes = <<>>
        /\ UNCHANGED <<store, rows, ask, routes, answer, recalled, changes>>
    BY DEF RetrievalInv, Searching, LoadRows, LoadProjects, LoadResumes
  <1>1. answer = NoAnswer /\ recalled = {}
    BY <1>0 DEF RetrievalInv, Unanswered
  <1>2. copy' \subseteq Files
    BY DEF RetrievalInv, RetrievalTypeOK, LoadRows, LoadProjects, LoadResumes
  <1>3. /\ phase' \in {"resumes", "search", "done"}
        /\ phase' = "resumes" => ask.kind = "resume"
    BY DEF LoadRows, LoadProjects, LoadResumes
  <1>4. Requested'
    BY <1>0 DEF RetrievalInv, Requested
  <1>5. RetrievalTypeOK'
    BY <1>0, <1>2, <1>3 DEF RetrievalInv, RetrievalTypeOK
  <1>6. CopyRead'
    BY DEF RetrievalInv, CopyRead, LoadRows, LoadProjects, LoadResumes
  <1>7. Searching'
    <2>1. Wordings' \in Nat
      <3>1. Wordings' \in 0..MaxVariants
        BY <1>4, VariantsAre DEF Requested, Wordings, MaxVariants
      <3>. QED
        BY <3>1 DEF MaxVariants
    <2>2. Len(routes') < 1 + Wordings'
      <3>1. Len(routes') = 0
        BY <1>0
      <3>2. PICK w \in Nat : w = Wordings'
        BY <2>1
      <3>3. 0 < 1 + w
        OBVIOUS
      <3>. QED
        BY <3>1, <3>2, <3>3
    <2>. QED
      BY <1>0, <1>3, <2>2 DEF RetrievalInv, Searching
  <1>8. Unanswered'
    BY <1>0, <1>1, <1>3 DEF Unanswered
  <1>9. phase' # "recall" /\ answer' = NoAnswer /\ recalled' = {}
    BY <1>0, <1>1, <1>3
  <1>. QED
    BY <1>4, <1>5, <1>6, <1>7, <1>8, <1>9 DEF RetrievalInv

LEMMA SearchesKeep ==
    ASSUME RetrievalInv, SearchRoute \/ SearchOnce
    PROVE  RetrievalInv'
  <1>0. /\ phase = "search" /\ Search(PoolSize(ask.topK))
        /\ UNCHANGED <<store, rows, ask, copy, answer, recalled, changes>>
    BY DEF SearchRoute, SearchOnce, Search
  <1>1. RetrievalTypeOK /\ Requested /\ Searching /\ answer = NoAnswer /\ recalled = {}
    BY <1>0 DEF RetrievalInv, Unanswered
  <1>2. PoolSize(ask.topK) \in Nat
    BY <1>1, PoolIs DEF Requested
  <1>3. /\ routes' \in Seq(Listings) /\ Len(routes') = Len(routes) + 1
        /\ Len(routes') <= 1 + Wordings /\ Len(routes') <= 1 + MaxVariants
        /\ routes' # <<>>
    BY <1>0, <1>1, <1>2, SearchKeeps
  <1>4. Wordings' = Wordings /\ Wordings \in Nat
    <2>1. Wordings' = Wordings
      BY <1>0 DEF Wordings, Groups
    <2>. QED
      BY <1>1, <2>1, WordingsAre
  <1>5. /\ phase' \in {"search", "expand", "rows", "decide"}
        /\ phase' = "rows" => ask.kind = "interview"
        /\ phase' = "search" => Len(routes') # 1 + Wordings
    BY DEF SearchRoute, SearchOnce, Searched
  <1>6. Requested'
    BY <1>0, <1>1 DEF Requested
  <1>7. RetrievalTypeOK'
    BY <1>0, <1>1, <1>3, <1>5 DEF RetrievalTypeOK
  <1>8. CopyRead'
    BY <1>0 DEF RetrievalInv, CopyRead
  <1>9. Searching'
    <2>1. phase' = "search" => Len(routes') < 1 + Wordings'
      <3>. DEFINE m == Len(routes')
      <3>1. m \in Nat
        BY <1>3
      <3>. HIDE DEF m
      <3>2. phase' = "search" => m < 1 + Wordings
        BY <1>3, <1>4, <1>5, <3>1 DEF m
      <3>. QED
        BY <1>4, <3>2 DEF m
    <2>. QED
      BY <1>0, <1>3, <1>5, <2>1 DEF Searching
  <1>10. Unanswered'
    BY <1>0, <1>1, <1>5 DEF Unanswered
  <1>11. phase' # "recall" /\ answer' = NoAnswer /\ recalled' = {}
    BY <1>0, <1>1, <1>5
  <1>. QED
    BY <1>6, <1>7, <1>8, <1>9, <1>10, <1>11 DEF RetrievalInv

LEMMA ExpandKeeps ==
    ASSUME RetrievalInv, Expand
    PROVE  RetrievalInv'
  <1>. DEFINE n == PoolSize(ask.topK)
              k == Smaller(MaxCandidates, Larger(n + ask.topK, 2 * n))
  <1>0. /\ phase = "expand" /\ routes' = <<Nearest(0, k)>> /\ phase' = Searched
        /\ UNCHANGED <<store, rows, ask, copy, answer, recalled, changes>>
    BY DEF Expand
  <1>1. RetrievalTypeOK /\ Requested /\ Searching /\ answer = NoAnswer /\ recalled = {}
    BY <1>0 DEF RetrievalInv, Unanswered
  <1>2. k \in Nat
    BY <1>1, PoolIs DEF Requested
  <1>. HIDE DEF k
  <1>3. Nearest(0, k) \in Listings
    <2>1. 0 \in 0..MaxVariants
      BY DEF MaxVariants
    <2>. QED
      BY <1>1, <1>2, <2>1, NearestIs
  <1>4. routes' \in Seq(Listings) /\ Len(routes') = 1 /\ routes' # <<>>
    BY <1>0, <1>3
  <1>5. phase' \in {"rows", "decide"} /\ (phase' = "rows" => ask.kind = "interview")
    BY <1>0 DEF Searched
  <1>6. Requested'
    BY <1>0, <1>1 DEF Requested
  <1>7. RetrievalTypeOK'
    <2>1. Len(routes') <= 1 + MaxVariants
      BY <1>4 DEF MaxVariants
    <2>. QED
      BY <1>0, <1>1, <1>5, <2>1 DEF RetrievalTypeOK
  <1>8. CopyRead'
    BY <1>0 DEF RetrievalInv, CopyRead
  <1>9. Searching'
    BY <1>0, <1>4, <1>5 DEF Searching
  <1>10. Unanswered'
    BY <1>0, <1>1, <1>5 DEF Unanswered
  <1>11. phase' # "recall" /\ answer' = NoAnswer /\ recalled' = {}
    BY <1>0, <1>1, <1>5
  <1>. QED
    BY <1>6, <1>7, <1>8, <1>9, <1>10, <1>11 DEF RetrievalInv

LEMMA ReadRowsKeeps ==
    ASSUME RetrievalInv, ReadRows
    PROVE  RetrievalInv'
  <1>0. /\ phase = "rows" /\ ask.kind = "interview" /\ copy' = rows /\ phase' = "decide"
        /\ UNCHANGED <<store, rows, ask, routes, answer, recalled, changes>>
    BY DEF ReadRows
  <1>1. answer = NoAnswer /\ recalled = {}
    BY <1>0 DEF RetrievalInv, Unanswered
  <1>2. Requested'
    BY <1>0 DEF RetrievalInv, Requested
  <1>3. RetrievalTypeOK'
    BY <1>0 DEF RetrievalInv, RetrievalTypeOK
  <1>4. CopyRead'
    BY <1>0 DEF CopyRead
  <1>5. Searching'
    BY <1>0 DEF RetrievalInv, Searching
  <1>6. Unanswered'
    BY <1>0, <1>1 DEF Unanswered
  <1>. QED
    BY <1>0, <1>1, <1>2, <1>3, <1>4, <1>5, <1>6 DEF RetrievalInv

LEMMA DecideKeeps ==
    ASSUME RetrievalInv, Decide
    PROVE  RetrievalInv'
  <1>. DEFINE q == Asked
              S == TrustedCandidates
              d == Decision(q, S, ask.topK)
  <1>0. /\ phase = "decide" /\ answer' = ForMode(d)
        /\ phase' = IF ask.kind = "resume" THEN "recall" ELSE "done"
        /\ UNCHANGED <<store, rows, ask, routes, copy, recalled, changes>>
    BY DEF Decide
  <1>1. Requested /\ routes \in Seq(Listings) /\ routes # <<>> /\ recalled = {}
    BY <1>0 DEF RetrievalInv, Unanswered, Searching
  <1>2. q.facets = Facets(ask.question) /\ q.facets \in Seq(Facet)
    BY <1>1, FacetsAre DEF Requested, Asked, Analysis
  <1>3. S \in SUBSET Chunks /\ Single(S) /\ \A c \in S : Trusted(c)
    <2>1. Candidates \in Listings
      BY <1>1, CandidatesAre
    <2>2. ToSet(Candidates) \in SUBSET Chunks /\ Single(ToSet(Candidates))
      BY <2>1, RouteSet
    <2>. QED
      BY <2>2 DEF TrustedCandidates, Single
  <1>4. ask.topK \in Nat
    BY <1>1, PoolIs DEF Requested
  <1>. HIDE DEF q, S
  <1>5. /\ d.asked = q /\ d.pool \in Seq(Chunks)
        /\ \A c \in ToSet(d.pool) : /\ c \in S /\ c.dist <= HardReject
                                    /\ ~TextOf[c.text].missing /\ ~TextOf[c.text].stuffed
        /\ d.accepted = EvidenceSet(q, d.pool, ask.topK)
        /\ d.sufficient = Complete(q, d.accepted)
        /\ DOMAIN d = {"asked", "pool", "accepted", "sufficient"}
    BY <1>2, <1>3, <1>4, DecisionIs
  <1>6. \A c \in ToSet(d.pool) : Passed(c)
    BY <1>3, <1>5 DEF Passed
  <1>. HIDE DEF d
  <1>7. /\ answer'.asked = q /\ answer'.pool = d.pool /\ answer'.accepted = d.accepted
        /\ answer'.sufficient => d.sufficient
    BY <1>0, <1>5 DEF ForMode
  <1>8. AnswerHolds'
    <2>1. \A c \in ToSet(d.pool) : Passed(c)'
      BY <1>0, <1>6 DEF Passed, Trusted
    <2>. QED
      BY <1>0, <1>2, <1>5, <1>7, <2>1 DEF AnswerHolds
  <1>9. Requested'
    BY <1>0, <1>1 DEF Requested
  <1>10. RetrievalTypeOK'
    BY <1>0 DEF RetrievalInv, RetrievalTypeOK
  <1>11. CopyRead'
    BY <1>0 DEF RetrievalInv, CopyRead
  <1>12. Searching'
    BY <1>0 DEF RetrievalInv, Searching
  <1>13. Unanswered'
    BY <1>0, <1>1 DEF Unanswered
  <1>. QED
    BY <1>0, <1>1, <1>8, <1>9, <1>10, <1>11, <1>12, <1>13 DEF RetrievalInv

LEMMA RecallKeeps ==
    ASSUME RetrievalInv, Recall
    PROVE  RetrievalInv'
  <1>0. /\ phase = "recall" /\ phase' = "done"
        /\ recalled' = {s \in ask.turns : Recallable(s)}
        /\ answer' = [answer EXCEPT !.sufficient =
                         \/ \E c \in ToSet(answer.accepted) : c.cat = "project"
                         \/ \E s \in recalled' : Category[s[1]] = "project"]
        /\ UNCHANGED <<store, rows, ask, routes, copy, changes>>
    BY DEF Recall
  <1>1. ask.kind = "resume"
    BY <1>0 DEF RetrievalInv, Unanswered
  <1>2. answer'.asked = answer.asked /\ answer'.pool = answer.pool
        /\ answer'.accepted = answer.accepted
    BY <1>0
  <1>3. AnswerHolds'
    <2>1. \A c : Passed(c)' <=> Passed(c)
      BY <1>0 DEF Passed, Trusted
    <2>2. AnswerHolds
      BY <1>0 DEF RetrievalInv
    <2>. QED
      BY <1>0, <1>1, <1>2, <2>1, <2>2 DEF AnswerHolds
  <1>4. \A s \in recalled' : ask'.kind = "resume" /\ Recallable(s)'
    BY <1>0, <1>1, <1>2 DEF Recallable
  <1>5. Requested'
    BY <1>0 DEF RetrievalInv, Requested
  <1>6. RetrievalTypeOK'
    BY <1>0 DEF RetrievalInv, RetrievalTypeOK
  <1>7. CopyRead'
    BY <1>0 DEF RetrievalInv, CopyRead
  <1>8. Searching'
    BY <1>0 DEF RetrievalInv, Searching
  <1>9. Unanswered'
    BY <1>0 DEF Unanswered
  <1>. QED
    BY <1>3, <1>4, <1>5, <1>6, <1>7, <1>8, <1>9 DEF RetrievalInv

\* All but the type is about what a request has read and found.
LEMMA AskKeepsInv ==
    ASSUME RetrievalInv, RetrievalTypeOK',
           UNCHANGED <<ask, phase, routes, copy, answer, recalled>>
    PROVE  RetrievalInv'
  <1>1. Requested' /\ CopyRead' /\ Unanswered'
    BY DEF RetrievalInv, Requested, CopyRead, Unanswered
  <1>2. Wordings' = Wordings
    BY DEF Wordings, Groups
  <1>3. Searching'
    BY <1>2 DEF RetrievalInv, Searching
  <1>4. (phase' = "recall" \/ answer' # NoAnswer) => AnswerHolds'
    <2>1. \A c : Passed(c)' <=> Passed(c)
      BY DEF Passed, Trusted
    <2>2. (phase = "recall" \/ answer # NoAnswer) => AnswerHolds
      BY DEF RetrievalInv
    <2>. QED
      BY <2>1, <2>2 DEF AnswerHolds
  <1>5. \A s \in recalled' : ask'.kind = "resume" /\ Recallable(s)'
    BY DEF RetrievalInv, Recallable
  <1>. QED
    BY <1>1, <1>3, <1>4, <1>5 DEF RetrievalInv

\* The other requests of the user change the store and the rows, and nothing that was read.
LEMMA ChangeKeeps ==
    ASSUME RetrievalInv,
           \/ \E f \in Files : DropVectors(f) \/ DropRow(f) \/ Upload(f)
           \/ \E s \in Sources : \E t \in TextsOf[s] : Index(s, t)
    PROVE  RetrievalInv'
  <1>0. /\ phase # "done" /\ changes < MaxChanges /\ changes' = changes + 1
        /\ UNCHANGED <<ask, phase, routes, copy, answer, recalled>>
    BY DEF DropVectors, DropRow, Upload, Index, Change
  <1>1. rows' \subseteq Files
    BY DEF RetrievalInv, RetrievalTypeOK, DropVectors, DropRow, Upload, Index
  <1>2. DOMAIN store' \subseteq Sources /\ \A s \in DOMAIN store' : store'[s] \in TextsOf[s]
    <2>0. DOMAIN store \subseteq Sources /\ \A s \in DOMAIN store : store[s] \in TextsOf[s]
      BY DEF RetrievalInv, RetrievalTypeOK
    <2>1. CASE \E f \in Files : DropVectors(f) \/ DropRow(f) \/ Upload(f)
      <3>1. PICK f \in Files : DropVectors(f) \/ DropRow(f) \/ Upload(f)
        BY <2>1
      <3>2. CASE DropVectors(f)
        <4>1. store' = [r \in {s \in DOMAIN store : s[1] # f} |-> store[r]]
          BY <3>2 DEF DropVectors, Restrict
        <4>. QED
          BY <2>0, <4>1
      <3>3. CASE DropRow(f) \/ Upload(f)
        <4>1. store' = store
          BY <3>3 DEF DropRow, Upload
        <4>. QED
          BY <2>0, <4>1
      <3>. QED
        BY <3>1, <3>2, <3>3
    <2>2. CASE \E s \in Sources : \E t \in TextsOf[s] : Index(s, t)
      <3>0. PICK s \in Sources : \E t \in TextsOf[s] : Index(s, t)
        BY <2>2
      <3>1. PICK t \in TextsOf[s] : Index(s, t)
        BY <3>0
      <3>2. store' = [r \in DOMAIN store \union {s} |-> IF r = s THEN t ELSE store[r]]
        BY <3>1 DEF Index
      <3>. QED
        BY <2>0, <3>2
    <2>. QED
      BY <2>1, <2>2
  <1>3. changes' \in 0..MaxChanges
    BY <1>0, RetrievalAssumption DEF RetrievalInv, RetrievalTypeOK
  <1>4. RetrievalTypeOK'
    BY <1>0, <1>1, <1>2, <1>3 DEF RetrievalInv, RetrievalTypeOK
  <1>. QED
    BY <1>0, <1>4, AskKeepsInv

LEMMA RetrievalNextKeeps == RetrievalInv /\ [RetrievalNext]_retrievalVars => RetrievalInv'
  <1>. SUFFICES ASSUME RetrievalInv, [RetrievalNext]_retrievalVars PROVE RetrievalInv'
    OBVIOUS
  <1>1. CASE UNCHANGED retrievalVars
    <2>1. RetrievalTypeOK'
      BY <1>1 DEF retrievalVars, RetrievalInv, RetrievalTypeOK
    <2>2. UNCHANGED <<ask, phase, routes, copy, answer, recalled>>
      BY <1>1 DEF retrievalVars
    <2>. QED
      BY <2>1, <2>2, AskKeepsInv
  <1>2. CASE LoadRows \/ LoadProjects \/ LoadResumes
    BY <1>2, LoadKeeps
  <1>3. CASE SearchRoute \/ SearchOnce
    BY <1>3, SearchesKeep
  <1>4. CASE Expand
    BY <1>4, ExpandKeeps
  <1>5. CASE ReadRows
    BY <1>5, ReadRowsKeeps
  <1>6. CASE Decide
    BY <1>6, DecideKeeps
  <1>7. CASE Recall
    BY <1>7, RecallKeeps
  <1>8. CASE \/ \E f \in Files : DropVectors(f) \/ DropRow(f) \/ Upload(f)
             \/ \E s \in Sources : \E t \in TextsOf[s] : Index(s, t)
    BY <1>8, ChangeKeeps
  <1>. QED
    BY <1>1, <1>2, <1>3, <1>4, <1>5, <1>6, <1>7, <1>8 DEF RetrievalNext

\* The invariant holds for every store, every question and every order of the requests.
THEOREM RetrievalInvariance == RetrievalSpec => []RetrievalInv
  <1>1. RetrievalInit => RetrievalInv
    BY RetrievalInitInv
  <1>2. RetrievalInv /\ [RetrievalNext]_retrievalVars => RetrievalInv'
    BY RetrievalNextKeeps
  <1>. QED
    BY <1>1, <1>2, PTL DEF RetrievalSpec

\* The accepted evidence, once there is an answer.
LEMMA AcceptedAre ==
    ASSUME RetrievalInv, answer # NoAnswer
    PROVE  /\ answer.asked.facets \in Seq(Facet)
           /\ Evidence \subseteq ToSet(answer.pool) /\ Evidence \subseteq Chunks
           /\ Len(answer.accepted) <= ask.topK
           /\ \A c \in Evidence : Passed(c)
  <1>1. Requested /\ AnswerHolds
    BY DEF RetrievalInv
  <1>2. /\ answer.asked.facets \in Seq(Facet) /\ answer.pool \in Seq(Chunks)
        /\ answer.accepted = EvidenceSet(answer.asked, answer.pool, ask.topK)
        /\ ask.topK \in Nat
    BY <1>1, FacetsAre, PoolIs DEF Requested, AnswerHolds
  <1>3. /\ Evidence \subseteq ToSet(answer.pool)
        /\ Len(answer.accepted) <= ask.topK
    BY <1>2, EvidenceSetIs DEF Evidence
  <1>4. ToSet(answer.pool) \subseteq Chunks
    BY <1>2, ListFinite
  <1>. QED
    BY <1>1, <1>2, <1>3, <1>4 DEF AnswerHolds

\* EvidenceIsTrusted: what reaches the prompt, whatever is deleted, uploaded and indexed
\* between the queries of a retrieval.
THEOREM RetrievalTrusted == RetrievalSpec => []EvidenceIsTrusted
  <1>1. RetrievalInv => EvidenceIsTrusted
    <2>. SUFFICES ASSUME RetrievalInv PROVE EvidenceIsTrusted
      OBVIOUS
    <2>1. ASSUME NEW s \in recalled
          PROVE  /\ s[1] \in copy /\ (Category[s[1]] = "project" => s[1] \in ask.selected)
                 /\ \A c \in Evidence : s # <<c.file, c.index>>
      <3>1. ask.kind = "resume" /\ Recallable(s)
        BY DEF RetrievalInv
      <3>2. s[1] \in copy /\ \A c \in Evidence : s # <<c.file, c.index>>
        BY <3>1 DEF Recallable, Evidence
      <3>3. Category[s[1]] = "project" => s[1] \in ask.selected
        BY <3>1, <3>2 DEF RetrievalInv, CopyRead
      <3>. QED
        BY <3>2, <3>3
    <2>2. CASE answer = NoAnswer
      <3>1. Evidence = {} /\ answer.accepted = <<>>
        BY <2>2 DEF Evidence, NoAnswer, ToSet
      <3>2. Len(answer.accepted) <= ask.topK
        BY <3>1, PoolIs DEF RetrievalInv, Requested
      <3>. QED
        BY <2>1, <3>1, <3>2 DEF EvidenceIsTrusted
    <2>3. CASE answer # NoAnswer
      <3>1. /\ Evidence \subseteq Chunks /\ Len(answer.accepted) <= ask.topK
            /\ \A c \in Evidence : Passed(c)
        BY <2>3, AcceptedAre
      <3>2. ASSUME NEW c \in Evidence
            PROVE  /\ c.file \in copy /\ Category[c.file] \in {"project", "resume"}
                   /\ (ask.selected # {} /\ Category[c.file] = "project" => c.file \in ask.selected)
                   /\ c.dist <= HardReject
                   /\ ~TextOf[c.text].missing /\ ~TextOf[c.text].stuffed
        <4>1. c.cat = Category[c.file]
          BY <3>1, ChunkIs
        <4>. QED
          BY <3>1, <4>1 DEF Passed, Trusted
      <3>. QED
        BY <2>1, <3>1, <3>2 DEF EvidenceIsTrusted
    <2>. QED
      BY <2>2, <2>3
  <1>. QED
    BY <1>1, RetrievalInvariance, PTL

\* SufficientIsComplete: sufficient evidence has a text for every critical facet, of every
\* question and every selection.
THEOREM RetrievalComplete == RetrievalSpec => []SufficientIsComplete
  <1>1. RetrievalInv => SufficientIsComplete
    <2>. SUFFICES ASSUME RetrievalInv, answer.sufficient, ask.kind # "resume"
                  PROVE  /\ Evidence # {}
                         /\ \A i \in Required(answer.asked) : \E c \in Evidence :
                               answer.asked.facets[i] \intersect TextOf[c.text].concepts # {}
      BY DEF SufficientIsComplete
    <2>1. answer # NoAnswer
      BY DEF NoAnswer
    <2>2. Complete(answer.asked, answer.accepted) /\ AnswerHolds /\ Requested
      BY <2>1 DEF RetrievalInv, AnswerHolds
    <2>3. answer.accepted \in Seq(Chunks)
      BY <2>2, FacetsAre, PoolIs, EvidenceSetIs DEF AnswerHolds, Requested
    <2>4. answer.accepted[1] \in Evidence
      <3>1. Len(answer.accepted) \in Nat \ {0}
        BY <2>2, <2>3, EmptySeq DEF Complete
      <3>2. 1 \in DOMAIN answer.accepted
        BY <2>3, <3>1
      <3>. QED
        BY <3>2 DEF Evidence, ToSet
    <2>5. ASSUME NEW i \in Required(answer.asked)
          PROVE  \E c \in Evidence :
                    answer.asked.facets[i] \intersect TextOf[c.text].concepts # {}
      <3>1. i \in CoveredBy(answer.asked, Evidence)
        BY <2>2 DEF Complete, Evidence
      <3>. QED
        BY <3>1 DEF CoveredBy, FacetsOf
    <2>. QED
      BY <2>4, <2>5
  <1>. QED
    BY <1>1, RetrievalInvariance, PTL

\* NoFacetLost: the greedy choice keeps every facet that some candidate supports, when there
\* is room for all and no text repeats another.
THEOREM RetrievalKeepsFacets == RetrievalSpec => []NoFacetLost
  <1>1. RetrievalInv => NoFacetLost
    <2>. DEFINE q == answer.asked
                E == {c \in ToSet(answer.pool) : Eligible(q, c)}
    <2>. SUFFICES ASSUME RetrievalInv, phase = "done", answer.pool # <<>>,
                         Len(q.facets) <= ask.topK, \A c, d \in E : c # d => ~Alike(c, d)
                  PROVE  CoveredBy(q, E) \intersect Required(q) \subseteq CoveredBy(q, Evidence)
      BY DEF NoFacetLost
    <2>1. answer # NoAnswer
      BY DEF NoAnswer
    <2>2. /\ q.facets \in Seq(Facet) /\ answer.pool \in Seq(Chunks) /\ ask.topK \in Nat
          /\ answer.accepted = EvidenceSet(q, answer.pool, ask.topK)
      BY <2>1, AcceptedAre, PoolIs DEF RetrievalInv, AnswerHolds, Requested
    <2>3. answer.accepted = ChosenFrom(q, E, answer.pool, ask.topK)
      BY <2>2 DEF EvidenceSet
    <2>4. E \in SUBSET ToSet(answer.pool)
      OBVIOUS
    <2>. HIDE DEF q, E
    <2>5. CoveredBy(q, E) \intersect Required(q)
             \subseteq CoveredBy(q, ToSet(ChosenFrom(q, E, answer.pool, ask.topK)))
      BY <2>2, <2>4, NoneIsLost
    <2>. QED
      BY <2>3, <2>5 DEF Evidence
  <1>. QED
    BY <1>1, RetrievalInvariance, PTL

-----------------------------------------------------------------------------
(* InterviewContext.                                                       *)

\* Adding up one number more.
LEMMA TotalAppend ==
    ASSUME NEW s \in Seq(Int), NEW x \in Int
    PROVE  /\ Total(s) \in Int
           /\ Total(Append(s, x)) = Total(s) + x
  <1>. DEFINE t == Append(s, x)
              M == Len(s)
  <1>1. t \in Seq(Int) /\ Len(t) = M + 1 /\ M \in Nat /\ t[M + 1] = x
        /\ \A n \in 1..M : t[n] = s[n]
    OBVIOUS
  <1>2. PICK f \in [0..Len(s) -> Int] :
              /\ f[0] = 0
              /\ \A n \in 1..Len(s) : f[n] = f[n - 1] + s[n]
              /\ Total(s) = f[Len(s)]
    BY TotalIs
  <1>3. PICK g \in [0..Len(t) -> Int] :
              /\ g[0] = 0
              /\ \A n \in 1..Len(t) : g[n] = g[n - 1] + t[n]
              /\ Total(t) = g[Len(t)]
    BY <1>1, TotalIs
  <1>. HIDE DEF t, M
  <1>31. /\ g \in [0..(M + 1) -> Int] /\ g[0] = 0 /\ Total(t) = g[M + 1]
         /\ \A n \in 1..(M + 1) : g[n] = g[n - 1] + t[n]
    BY <1>1, <1>3
  <1>32. /\ f \in [0..M -> Int] /\ f[0] = 0 /\ Total(s) = f[M]
         /\ \A n \in 1..M : f[n] = f[n - 1] + s[n]
    BY <1>2 DEF M
  <1>. DEFINE P == {n \in 0..M : g[n] = f[n]}
  <1>4. 0 \in P
    BY <1>1, <1>31, <1>32
  <1>5. ASSUME NEW k \in 1..M, k - 1 \in P
        PROVE  k \in P
    <2>0. k \in 1..(M + 1) /\ k \in 1..M
      BY <1>1
    <2>1. g[k] = g[k - 1] + t[k]
      BY <1>31, <2>0
    <2>11. f[k] = f[k - 1] + s[k]
      BY <1>32, <2>0
    <2>12. t[k] = s[k]
      BY <1>1, <2>0
    <2>2. g[k - 1] = f[k - 1] /\ k \in 0..M
      BY <1>5
    <2>. QED
      BY <2>1, <2>11, <2>12, <2>2
  <1>. HIDE DEF P
  <1>6. 0..M \subseteq P
    BY <1>1, <1>4, <1>5, Counting
  <1>7. g[M] = f[M]
    BY <1>1, <1>6 DEF P
  <1>8. g[M + 1] = g[M] + x
    <2>1. M + 1 \in 1..(M + 1) /\ (M + 1) - 1 = M
      BY <1>1
    <2>2. g[M + 1] = g[(M + 1) - 1] + t[M + 1]
      BY <1>31, <2>1
    <2>. QED
      BY <1>1, <2>1, <2>2
  <1>9. f[M] \in Int
    BY <1>1, <1>32
  <1>. QED
    BY <1>31, <1>32, <1>7, <1>8, <1>9 DEF t

LEMMA TotalNone == Total(<<>>) = 0
  <1>1. <<>> \in Seq(Int) /\ Len(<<>>) = 0
    OBVIOUS
  <1>2. PICK f \in [0..Len(<<>>) -> Int] : f[0] = 0 /\ Total(<<>>) = f[Len(<<>>)]
    BY <1>1, TotalIs
  <1>. QED
    BY <1>1, <1>2

\* What may be kept of some items: their positions, and the characters of all of them.
Keepings == [at : Seq(Nat), size : Nat]

\* What is kept of the first k items.
KeptOf(k, kept) ==
    /\ kept \in Keepings
    /\ \A j \in DOMAIN kept.at : kept.at[j] \in 1..k
    /\ Len(kept.at) <= k
    /\ Len(kept.at) = k => \A j \in 1..k : kept.at[j] = j
    /\ kept.at # <<>> => Length + Frame + kept.size <= Budget

LEMMA KeepingOne ==
    ASSUME NEW k \in Nat \ {0}, NEW kept, KeptOf(k - 1, kept), NEW n \in Nat,
           Length \in Int, Frame \in Int, Budget \in Int
    PROVE  /\ KeptOf(k, kept)
           /\ ~(Length + Frame + kept.size + n > Budget) =>
                 KeptOf(k, [at |-> Append(kept.at, k), size |-> kept.size + n])
  <1>. DEFINE s == kept.at
              m == Len(s)
              t == Append(s, k)
  <1>1. /\ kept \in Keepings /\ s \in Seq(Nat) /\ kept.size \in Nat /\ m \in Nat
        /\ (\A j \in DOMAIN s : s[j] \in 1..(k - 1)) /\ m <= k - 1
        /\ m = k - 1 => \A j \in 1..(k - 1) : s[j] = j
        /\ s # <<>> => Length + Frame + kept.size <= Budget
    BY DEF KeptOf, Keepings
  <1>2. KeptOf(k, kept)
    <2>1. \A j \in DOMAIN s : s[j] \in 1..k
      BY <1>1
    <2>2. m <= k /\ m # k
      BY <1>1
    <2>. QED
      BY <1>1, <2>1, <2>2 DEF KeptOf
  <1>3. ASSUME ~(Length + Frame + kept.size + n > Budget)
        PROVE  KeptOf(k, [at |-> t, size |-> kept.size + n])
    <2>1. /\ t \in Seq(Nat) /\ Len(t) = m + 1 /\ t[m + 1] = k
          /\ DOMAIN t = 1..(m + 1) /\ \A j \in 1..m : t[j] = s[j]
          /\ DOMAIN s = 1..m
      BY <1>1
    <2>. HIDE DEF t, s, m
    <2>2. \A j \in DOMAIN t : t[j] \in 1..k
      BY <1>1, <2>1
    <2>3. Len(t) <= k
      BY <1>1, <2>1
    <2>4. Len(t) = k => \A j \in 1..k : t[j] = j
      BY <1>1, <2>1
    <2>5. kept.size + n \in Nat
      BY <1>1
    <2>6. Length + Frame + (kept.size + n) <= Budget
      BY <1>1, <1>3
    <2>. QED
      BY <2>1, <2>2, <2>3, <2>4, <2>5, <2>6 DEF KeptOf, Keepings
  <1>. QED
    BY <1>2, <1>3

\* Fitting keeps items within the budget, in their order.
LEMMA FittingIs ==
    ASSUME NEW sizes \in Seq(Nat), Length \in Int
    PROVE  KeptOf(Len(sizes), Fitting(sizes))
  <1>. DEFINE N == Len(sizes)
              Next1(k, kept) ==
                  IF Length + Frame + kept.size + sizes[k] > Budget THEN kept
                  ELSE [at |-> Append(kept.at, k), size |-> kept.size + sizes[k]]
              none == [at |-> <<>>, size |-> 0]
              step == [p \in (1..N) \X Keepings |-> Next1(p[1], p[2])]
              Body(f) == [k \in 0..N |-> IF k = 0 THEN none ELSE Next1(k, f[k - 1])]
              f == CHOOSE f : f = Body(f)
  <1>1. Fitting(sizes) = f[N]
    BY DEF Fitting
  <1>2. N \in Nat /\ (\A k \in 1..N : sizes[k] \in Nat) /\ Frame \in Int /\ Budget \in Int
    BY ContextAssumption
  <1>. HIDE DEF N
  <1>3. none \in Keepings
    BY DEF Keepings
  <1>4. \A k \in 1..N, kept \in Keepings : Next1(k, kept) \in Keepings
    BY <1>2 DEF Keepings
  <1>5. \A kept : \A k \in 1..N : KeptOf(k - 1, kept) => KeptOf(k, Next1(k, kept))
    <2>1. SUFFICES ASSUME NEW k \in 1..N, NEW kept, KeptOf(k - 1, kept)
                   PROVE  KeptOf(k, Next1(k, kept))
      OBVIOUS
    <2>2. k \in Nat \ {0} /\ sizes[k] \in Nat
      BY <1>2
    <2>. QED
      BY <1>2, <2>1, <2>2, KeepingOne
  <1>51. KeptOf(0, none)
    BY DEF KeptOf, Keepings
  <1>. HIDE DEF Next1, none
  <1>6. step \in Steps(N, Keepings)
        /\ \A k \in 1..N, x \in Keepings : step[<<k, x>>] = Next1(k, x)
    BY <1>4 DEF Steps
  <1>. HIDE DEF step
  <1>7. \E g : Runs(N, Keepings, none, step, g)
    BY <1>2, <1>3, <1>6, Recursion
  <1>8. PICK g \in [0..N -> Keepings] :
                g[0] = none /\ \A k \in 1..N : g[k] = step[<<k, g[k - 1]>>]
    BY <1>7 DEF Runs
  <1>9. \A k \in 1..N : k - 1 \in 0..N
    BY <1>2
  <1>10. \A k \in 1..N : g[k] = Next1(k, g[k - 1])
    BY <1>6, <1>8, <1>9
  <1>11. g = Body(g)
    BY <1>8, <1>10
  <1>12. f = Body(f)
    BY <1>11
  <1>. HIDE DEF f
  <1>13. f[0] = none /\ \A k \in 1..N : f[k] = Next1(k, f[k - 1])
    BY <1>2, <1>12
  <1>. DEFINE P == {k \in 0..N : KeptOf(k, f[k])}
  <1>14. 0 \in P
    BY <1>2, <1>13, <1>51
  <1>15. ASSUME NEW k \in 1..N, k - 1 \in P
         PROVE  k \in P
    BY <1>5, <1>13, <1>15
  <1>. HIDE DEF P
  <1>16. 0..N \subseteq P
    BY <1>2, <1>14, <1>15, Counting
  <1>17. N \in P
    BY <1>2, <1>16
  <1>. QED
    BY <1>1, <1>17 DEF P, N

\* What is listed in a context: positions of the evidence or of a section's items, references.
Showable == Nat \union (Types \X Nat)
Section == [size : Nat, forced : BOOLEAN]

UserSet == {i \in InBudget : IsUsers(given[i])}
JobSet == {i \in InBudget : ~IsUsers(given[i])}

\* What has been put together is of the right kind and within the budget, but for what
\* goes beyond it; while nothing was left out, all of the evidence is in its section.
Assembled ==
    /\ sections \in Seq(Section)
    /\ Beyond \in Nat
    /\ Length <= Larger(Budget, mandatory) + Beyond
    /\ shown \in Seq(Seq(Showable)) /\ omitted \in Nat
FirstShown ==
    Len(shown) >= 1 => /\ ToSet(shown[1]) \subseteq UserSet
                       /\ omitted = 0 => UserSet \subseteq ToSet(shown[1])
SecondShown ==
    Len(shown) >= 2 => \A r \in ToSet(shown[2]) : \E i \in ToSet(shown[1]) : Ref(i) = r
ThirdShown == Len(shown) >= 3 /\ omitted = 0 => JobSet \subseteq ToSet(shown[3])

ContextInv ==
    /\ given \in Payloads /\ mandatory \in Nat /\ further \in Furthers
    /\ Assembled
    /\ FirstShown /\ SecondShown /\ ThirdShown
    /\ result.sources \subseteq UserSources

LEMMA GivenIs ==
    ASSUME given \in Payloads
    PROVE  /\ given \in Seq(Offered) /\ Len(given) \in Nat /\ DOMAIN given = 1..Len(given)
           /\ \A i \in DOMAIN given : given[i].type \in Types /\ SizeOf[Safe[given[i].text]] \in Nat
           /\ InBudget \subseteq 1..Len(given) /\ InBudget \subseteq Nat
           /\ IsFiniteSet(UserSet) /\ UserSet \in SUBSET Int
           /\ IsFiniteSet(JobSet) /\ JobSet \in SUBSET Int
  <1>. DEFINE M == Len(given)
  <1>1. given \in Seq(Offered)
    BY ContextAssumption
  <1>2. M \in Nat /\ DOMAIN given = 1..M
    BY <1>1
  <1>3. \A i \in DOMAIN given : given[i].type \in Types /\ SizeOf[Safe[given[i].text]] \in Nat
    <2>1. \A i \in DOMAIN given : given[i] \in Offered
      BY <1>1
    <2>. QED
      BY <2>1, ContextAssumption
  <1>. HIDE DEF M
  <1>4. InBudget \subseteq 1..M /\ InBudget \subseteq Nat
    BY <1>2 DEF InBudget
  <1>5. IsFiniteSet(1..M)
    BY <1>2, NumbersFinite
  <1>6. UserSet \subseteq 1..M /\ JobSet \subseteq 1..M
    BY <1>4 DEF UserSet, JobSet
  <1>7. IsFiniteSet(UserSet) /\ IsFiniteSet(JobSet)
    BY <1>5, <1>6, FS_Subset
  <1>8. UserSet \in SUBSET Int /\ JobSet \in SUBSET Int
    BY <1>2, <1>6
  <1>. QED
    BY <1>1, <1>2, <1>3, <1>4, <1>7, <1>8 DEF M

LEMMA AscendingList ==
    ASSUME NEW S \in SUBSET Int, IsFiniteSet(S)
    PROVE  Ascending(S) \in Seq(S) /\ ToSet(Ascending(S)) = S
  <1>. DEFINE m == Cardinality(S)
              s == Ascending(S)
  <1>1. m \in Nat /\ s \in [1..m -> S] /\ \A c \in S : \E i \in 1..m : s[i] = c
    BY AscendingIs
  <1>. HIDE DEF m, s
  <1>2. s \in Seq(S) /\ DOMAIN s = 1..m
    BY <1>1
  <1>. QED
    BY <1>1, <1>2 DEF ToSet, s

\* Items of the evidence, as they are offered to a section.
LEMMA OfferedItems ==
    ASSUME given \in Payloads, NEW S \in SUBSET InBudget
    PROVE  /\ Ascending(S) \in Seq(Showable) /\ ToSet(Ascending(S)) = S
           /\ ItemSizes(Ascending(S)) \in Seq(Nat)
           /\ Len(ItemSizes(Ascending(S))) = Len(Ascending(S))
  <1>. DEFINE M == Len(given)
              s == Ascending(S)
  <1>1. /\ M \in Nat /\ S \subseteq 1..M /\ DOMAIN given = 1..M
        /\ \A i \in DOMAIN given : SizeOf[Safe[given[i].text]] \in Nat
    BY GivenIs
  <1>. HIDE DEF M
  <1>2. IsFiniteSet(S) /\ S \in SUBSET Int
    <2>1. IsFiniteSet(1..M)
      BY <1>1, NumbersFinite
    <2>2. IsFiniteSet(S)
      BY <1>1, <2>1, FS_Subset
    <2>3. S \in SUBSET Int
      BY <1>1
    <2>. QED
      BY <2>2, <2>3
  <1>3. s \in Seq(S) /\ ToSet(s) = S
    BY <1>2, AscendingList
  <1>. HIDE DEF s
  <1>4. s \in Seq(Showable)
    <2>1. S \subseteq Showable
      BY <1>1 DEF Showable
    <2>. QED
      BY <1>3, <2>1
  <1>5. \A k \in DOMAIN s : SizeOf[Safe[given[s[k]].text]] \in Nat
    <2>1. \A k \in DOMAIN s : s[k] \in S
      BY <1>3
    <2>. QED
      BY <1>1, <2>1
  <1>6. DOMAIN s = 1..Len(s) /\ Len(s) \in Nat
    BY <1>3
  <1>7. ItemSizes(s) \in Seq(Nat) /\ Len(ItemSizes(s)) = Len(s)
    BY <1>5, <1>6 DEF ItemSizes
  <1>. QED
    BY <1>3, <1>4, <1>7 DEF s

LEMMA LengthIs ==
    ASSUME sections \in Seq(Section), mandatory \in Nat
    PROVE  Length \in Int
  <1>. DEFINE s == [k \in DOMAIN sections |-> Frame + sections[k].size]
  <1>1. s \in Seq(Int)
    <2>1. DOMAIN sections = 1..Len(sections) /\ Len(sections) \in Nat
      OBVIOUS
    <2>2. \A k \in DOMAIN sections : sections[k].size \in Nat
      <3>1. \A k \in DOMAIN sections : sections[k] \in Section
        OBVIOUS
      <3>. QED
        BY <3>1 DEF Section
    <2>3. Frame \in Int
      BY ContextAssumption
    <2>. QED
      BY <2>1, <2>2, <2>3
  <1>2. Length = mandatory + Total(s)
    BY DEF Length
  <1>. HIDE DEF s
  <1>3. Total(s) \in Int
    <2>1. 0 \in Int
      OBVIOUS
    <2>. QED
      BY <1>1, <2>1, TotalAppend
  <1>. QED
    BY <1>2, <1>3

LEMMA ListIs ==
    ASSUME NEW T, NEW m \in Nat, NEW s, s = [k \in 1..m |-> s[k]], \A k \in 1..m : s[k] \in T
    PROVE  s \in Seq(T) /\ Len(s) = m
  OBVIOUS

\* One section more.
LEMMA SectionAdded ==
    ASSUME sections \in Seq(Section), mandatory \in Nat, NEW x \in Section,
           sections' = sections \o <<x>>, mandatory' = mandatory
    PROVE  /\ sections' \in Seq(Section)
           /\ Length' = Length + Frame + x.size
           /\ Beyond' = Beyond + (IF x.forced THEN Frame + x.size ELSE 0)
  <1>. DEFINE m == Len(sections)
              s == [k \in DOMAIN sections |-> Frame + sections[k].size]
              b == [k \in DOMAIN sections |->
                       IF sections[k].forced THEN Frame + sections[k].size ELSE 0]
              more == IF x.forced THEN Frame + x.size ELSE 0
  <1>1. /\ sections' \in Seq(Section) /\ m \in Nat
        /\ DOMAIN sections = 1..m /\ DOMAIN sections' = 1..(m + 1)
        /\ sections'[m + 1] = x /\ \A k \in 1..m : sections'[k] = sections[k]
    OBVIOUS
  <1>2. Frame \in Int /\ x.size \in Int /\ \A k \in DOMAIN sections : sections[k].size \in Int
    <2>1. \A k \in DOMAIN sections : sections[k] \in Section
      OBVIOUS
    <2>2. (\A k \in DOMAIN sections : sections[k].size \in Int) /\ x.size \in Int
      BY <2>1 DEF Section
    <2>3. Frame \in Int
      BY ContextAssumption
    <2>. QED
      BY <2>2, <2>3
  <1>. HIDE DEF m
  <1>3. s \in Seq(Int) /\ b \in Seq(Int) /\ Len(s) = m /\ Len(b) = m
    <2>1. DOMAIN s = 1..m /\ DOMAIN b = 1..m
      BY <1>1
    <2>2. \A k \in 1..m : s[k] \in Int /\ b[k] \in Int
      <3>. SUFFICES ASSUME NEW k \in 1..m
                    PROVE  s[k] \in Int /\ b[k] \in Int
        OBVIOUS
      <3>1. k \in DOMAIN sections
        BY <1>1
      <3>2. Frame + sections[k].size \in Int
        BY <1>2, <3>1
      <3>3. s[k] = Frame + sections[k].size
        BY <3>1
      <3>4. b[k] \in {0, Frame + sections[k].size}
        BY <3>1
      <3>. QED
        BY <3>2, <3>3, <3>4
    <2>3. s = [k \in 1..m |-> s[k]] /\ b = [k \in 1..m |-> b[k]]
      BY <2>1
    <2>. HIDE DEF s, b
    <2>4. s \in Seq(Int) /\ Len(s) = m
      BY <1>1, <2>2, <2>3, ListIs
    <2>5. b \in Seq(Int) /\ Len(b) = m
      BY <1>1, <2>2, <2>3, ListIs
    <2>. QED
      BY <2>4, <2>5
  <1>4. Frame + x.size \in Int /\ more \in Int
    BY <1>2
  <1>. DEFINE t == [k \in DOMAIN sections' |-> Frame + sections'[k].size]
              c == [k \in DOMAIN sections' |->
                       IF sections'[k].forced THEN Frame + sections'[k].size ELSE 0]
  <1>5. t = Append(s, Frame + x.size)
    BY <1>1, <1>3
  <1>6. c = Append(b, more)
    BY <1>1, <1>3
  <1>7. Length = mandatory + Total(s) /\ Beyond = Total(b)
    BY DEF Length, Beyond
  <1>8. Length' = mandatory + Total(t) /\ Beyond' = Total(c)
    BY DEF Length, Beyond
  <1>. HIDE DEF s, b, t, c, more
  <1>9. Total(s) \in Int /\ Total(t) = Total(s) + (Frame + x.size)
    BY <1>3, <1>4, <1>5, TotalAppend
  <1>10. Total(c) = Total(b) + more
    BY <1>3, <1>4, <1>6, TotalAppend
  <1>. QED
    BY <1>1, <1>2, <1>7, <1>8, <1>9, <1>10 DEF more

\* A section is added within the budget, or beyond it for the placeholder that is preserved.
LEMMA SectionsKeep ==
    ASSUME mandatory \in Nat, sections \in Seq(Section), Beyond \in Nat,
           Length <= Larger(Budget, mandatory) + Beyond, mandatory' = mandatory,
           NEW x \in Section, sections' = sections \o <<x>>,
           x.forced \/ Length + Frame + x.size <= Budget
    PROVE  /\ sections' \in Seq(Section) /\ Beyond' \in Nat
           /\ Length' <= Larger(Budget, mandatory') + Beyond'
  <1>. DEFINE long == Length
              over == Beyond
              most == Larger(Budget, mandatory)
              size == x.size
  <1>1. /\ sections' \in Seq(Section) /\ Length' = long + Frame + size
        /\ Beyond' = over + (IF x.forced THEN Frame + size ELSE 0)
    BY SectionAdded
  <1>2. /\ Frame \in Nat /\ Budget \in Nat /\ size \in Nat /\ long \in Int /\ over \in Nat
        /\ most \in Nat /\ Budget <= most /\ long <= most + over
    <2>1. Frame \in Nat /\ Budget \in Nat /\ size \in Nat
      BY ContextAssumption DEF Section
    <2>2. long \in Int
      BY LengthIs
    <2>3. most \in Nat /\ Budget <= most
      BY <2>1 DEF Larger
    <2>. QED
      BY <2>1, <2>2, <2>3
  <1>3. Larger(Budget, mandatory') = most
    OBVIOUS
  <1>4. x.forced \/ long + Frame + size <= Budget
    OBVIOUS
  <1>. HIDE DEF long, over, most, size
  <1>5. CASE x.forced
    <2>1. Beyond' = over + (Frame + size)
      BY <1>1, <1>5
    <2>2. over + (Frame + size) \in Nat /\ long + Frame + size <= most + (over + (Frame + size))
      BY <1>2
    <2>. QED
      BY <1>1, <1>3, <2>1, <2>2
  <1>6. CASE ~x.forced
    <2>1. Beyond' = over
      BY <1>1, <1>2, <1>6
    <2>2. long + Frame + size <= most + over
      BY <1>2, <1>4, <1>6
    <2>. QED
      BY <1>1, <1>2, <1>3, <2>1, <2>2
  <1>. QED
    BY <1>5, <1>6

LEMMA AddItemsKeeps ==
    ASSUME mandatory \in Nat, Assembled, NEW items \in Seq(Showable), NEW sizes \in Seq(Nat),
           Len(sizes) = Len(items), NEW placeholder \in Nat, NEW preserved \in BOOLEAN,
           AddItems(items, sizes, placeholder, preserved)
    PROVE  /\ Assembled' /\ (omitted' = 0 => omitted = 0)
           /\ UNCHANGED <<given, mandatory, further, attempt, result>>
           /\ \E new \in Seq(Showable) :
                 /\ shown' = Append(shown, new)
                 /\ ToSet(new) \subseteq ToSet(items)
                 /\ omitted' = 0 => ToSet(items) \subseteq ToSet(new)
  <1>. DEFINE kept == Fitting(sizes)
              m == Len(items)
              n == Len(kept.at)
              new == [k \in DOMAIN kept.at |-> items[kept.at[k]]]
              fits == Length + Frame + placeholder <= Budget
              forced == preserved /\ items = <<>>
  <1>1. /\ omitted' = omitted + m - n
        /\ shown' = Append(shown, new)
        /\ sections' = sections \o
               IF kept.at # <<>>
               THEN <<[size |-> kept.size, forced |-> FALSE]>>
               ELSE IF placeholder > 0 /\ (fits \/ forced)
                    THEN <<[size |-> placeholder, forced |-> ~fits]>> ELSE <<>>
        /\ UNCHANGED <<given, mandatory, further, attempt, result>>
    BY DEF AddItems
  <1>2. /\ sections \in Seq(Section) /\ Beyond \in Nat /\ omitted \in Nat
        /\ Length <= Larger(Budget, mandatory) + Beyond /\ shown \in Seq(Seq(Showable))
    BY DEF Assembled
  <1>3. Length \in Int
    BY <1>2, LengthIs
  <1>4. KeptOf(m, kept) /\ m \in Nat /\ DOMAIN items = 1..m
    BY <1>3, FittingIs
  <1>. HIDE DEF kept, m
  <1>5. /\ kept.at \in Seq(Nat) /\ kept.size \in Nat /\ n \in Nat /\ n <= m
        /\ DOMAIN kept.at = 1..n /\ (\A j \in 1..n : kept.at[j] \in 1..m)
        /\ n = m => \A j \in 1..m : kept.at[j] = j
        /\ kept.at # <<>> => Length + Frame + kept.size <= Budget
    BY <1>4 DEF KeptOf, Keepings
  <1>. HIDE DEF n
  <1>6. DOMAIN new = 1..n /\ \A j \in 1..n : new[j] = items[kept.at[j]] /\ new[j] \in Showable
    BY <1>4, <1>5
  <1>7. new \in Seq(Showable)
    <2>1. new = [k \in 1..n |-> new[k]]
      BY <1>5
    <2>. HIDE DEF new
    <2>. QED
      BY <1>5, <1>6, <2>1, ListIs
  <1>. HIDE DEF new
  <1>8. ToSet(new) \subseteq ToSet(items)
    <2>1. SUFFICES ASSUME NEW j \in 1..n PROVE new[j] \in ToSet(items)
      BY <1>6 DEF ToSet
    <2>2. kept.at[j] \in DOMAIN items /\ new[j] = items[kept.at[j]]
      BY <1>4, <1>5, <1>6
    <2>. QED
      BY <2>2 DEF ToSet
  <1>9. omitted' \in Nat /\ (omitted' = 0 => omitted = 0 /\ n = m)
    BY <1>1, <1>2, <1>4, <1>5
  <1>10. omitted' = 0 => ToSet(items) \subseteq ToSet(new)
    <2>1. SUFFICES ASSUME n = m PROVE ToSet(items) \subseteq ToSet(new)
      BY <1>9
    <2>2. \A j \in 1..m : new[j] = items[j] /\ j \in DOMAIN new
      BY <1>5, <1>6, <2>1
    <2>. QED
      BY <1>4, <2>2 DEF ToSet
  <1>11. shown' \in Seq(Seq(Showable))
    BY <1>1, <1>2, <1>7
  <1>12. /\ sections' \in Seq(Section) /\ Beyond' \in Nat
         /\ Length' <= Larger(Budget, mandatory') + Beyond'
    <2>1. CASE kept.at # <<>>
      <3>. DEFINE x == [size |-> kept.size, forced |-> FALSE]
      <3>1. sections' = sections \o <<x>>
        BY <1>1, <2>1
      <3>2. x \in Section /\ x.size = kept.size
        BY <1>5 DEF Section
      <3>. HIDE DEF x
      <3>3. Length + Frame + x.size <= Budget
        BY <1>5, <2>1, <3>2
      <3>. QED
        BY <1>1, <1>2, <3>1, <3>2, <3>3, SectionsKeep
    <2>2. CASE kept.at = <<>> /\ placeholder > 0 /\ (fits \/ forced)
      <3>. DEFINE x == [size |-> placeholder, forced |-> ~fits]
      <3>1. sections' = sections \o <<x>>
        BY <1>1, <2>2
      <3>2. x \in Section /\ x.size = placeholder /\ (x.forced <=> ~fits)
        BY DEF Section
      <3>. HIDE DEF x
      <3>3. x.forced \/ Length + Frame + x.size <= Budget
        BY <3>2
      <3>. QED
        BY <1>1, <1>2, <3>1, <3>2, <3>3, SectionsKeep
    <2>3. CASE kept.at = <<>> /\ ~(placeholder > 0 /\ (fits \/ forced))
      <3>1. sections' = sections
        <4>1. sections' = sections \o <<>>
          BY <1>1, <2>3
        <4>2. sections \o <<>> = sections
          BY <1>2, ConcatEmptySeq
        <4>. QED
          BY <4>1, <4>2
      <3>2. Length' = Length /\ Beyond' = Beyond
        BY <1>1, <3>1 DEF Length, Beyond
      <3>. QED
        BY <1>1, <1>2, <3>1, <3>2
    <2>. QED
      BY <2>1, <2>2, <2>3
  <1>13. Assembled'
    BY <1>9, <1>11, <1>12 DEF Assembled
  <1>. QED
    BY <1>1, <1>7, <1>8, <1>9, <1>10, <1>13

LEMMA GivenKept ==
    ASSUME UNCHANGED given
    PROVE  /\ UserSet' = UserSet /\ JobSet' = JobSet /\ UserSources' = UserSources
           /\ InBudget' = InBudget /\ \A i : Ref(i)' = Ref(i)
  <1>1. InBudget' = InBudget
    BY DEF InBudget, IsKept, Same
  <1>2. UserSet' = UserSet /\ JobSet' = JobSet
    BY <1>1 DEF UserSet, JobSet
  <1>3. UserSources' = UserSources
    BY DEF UserSources
  <1>4. \A i : Ref(i)' = Ref(i)
    BY DEF Ref, Number, IsKept, Same
  <1>. QED
    BY <1>1, <1>2, <1>3, <1>4

LEMMA RefIs ==
    ASSUME given \in Payloads, NEW i \in InBudget
    PROVE  Ref(i) \in Types \X Nat /\ Ref(i)[1] = given[i].type
  <1>1. i \in DOMAIN given /\ i \in Nat /\ given[i].type \in Types
    BY GivenIs DEF InBudget
  <1>2. Number(i) \in Nat
    <2>. DEFINE N == {j \in 1..i : IsKept(j) /\ given[j].type = given[i].type}
    <2>1. N \subseteq 1..i
      OBVIOUS
    <2>2. Number(i) = Cardinality(N)
      BY DEF Number
    <2>. HIDE DEF N
    <2>3. IsFiniteSet(1..i)
      BY <1>1, NumbersFinite
    <2>4. IsFiniteSet(N)
      BY <2>1, <2>3, FS_Subset
    <2>. QED
      BY <2>2, <2>4, FS_CardinalityType
  <1>3. Ref(i) = <<given[i].type, Number(i)>>
    BY DEF Ref
  <1>. QED
    BY <1>1, <1>2, <1>3

LEMMA Appended ==
    ASSUME NEW T, NEW s \in Seq(T), NEW x \in T, NEW t, t = Append(s, x)
    PROVE  /\ Len(t) = Len(s) + 1 /\ Len(s) \in Nat /\ t[Len(s) + 1] = x
           /\ \A i \in 1..Len(s) : t[i] = s[i]
  OBVIOUS

LEMMA AddEvidenceKeeps ==
    ASSUME ContextInv, AddEvidence
    PROVE  ContextInv'
  <1>0. given \in Payloads /\ mandatory \in Nat /\ further \in Furthers /\ Assembled
        /\ result.sources \subseteq UserSources
    BY DEF ContextInv
  <1>1. UserSet \subseteq InBudget /\ UserItems = Ascending(UserSet)
    BY DEF UserSet, UserItems
  <1>2. /\ UserItems \in Seq(Showable) /\ ToSet(UserItems) = UserSet
        /\ ItemSizes(UserItems) \in Seq(Nat) /\ Len(ItemSizes(UserItems)) = Len(UserItems)
    BY <1>0, <1>1, OfferedItems
  <1>3. shown = <<>> /\ AddItems(UserItems, ItemSizes(UserItems), NoteSize, TRUE)
    BY DEF AddEvidence
  <1>4. NoteSize \in Nat /\ TRUE \in BOOLEAN
    BY ContextAssumption
  <1>5. /\ Assembled' /\ (omitted' = 0 => omitted = 0)
        /\ UNCHANGED <<given, mandatory, further, attempt, result>>
        /\ \E new \in Seq(Showable) :
              /\ shown' = Append(shown, new)
              /\ ToSet(new) \subseteq ToSet(UserItems)
              /\ omitted' = 0 => ToSet(UserItems) \subseteq ToSet(new)
    BY <1>0, <1>2, <1>3, <1>4, AddItemsKeeps
  <1>6. PICK new \in Seq(Showable) :
              /\ shown' = Append(shown, new)
              /\ ToSet(new) \subseteq UserSet
              /\ omitted' = 0 => UserSet \subseteq ToSet(new)
    BY <1>2, <1>5
  <1>7. Len(shown') = 1 /\ shown'[1] = new
    BY <1>3, <1>6
  <1>8. UserSet' = UserSet /\ UserSources' = UserSources
    BY <1>5, GivenKept
  <1>9. FirstShown' /\ SecondShown' /\ ThirdShown'
    BY <1>6, <1>7, <1>8 DEF FirstShown, SecondShown, ThirdShown
  <1>. QED
    BY <1>0, <1>5, <1>8, <1>9 DEF ContextInv

LEMMA AddRefsKeeps ==
    ASSUME ContextInv, AddRefs
    PROVE  ContextInv'
  <1>. DEFINE first == shown[1]
              items == [k \in DOMAIN first |-> Ref(first[k])]
              sizes == [k \in DOMAIN first |-> RefSize]
  <1>0. given \in Payloads /\ mandatory \in Nat /\ further \in Furthers /\ Assembled
        /\ result.sources \subseteq UserSources
    BY DEF ContextInv
  <1>1. Len(shown) = 1 /\ AddItems(items, sizes, NoteSize, TRUE)
    BY DEF AddRefs
  <1>2. shown \in Seq(Seq(Showable))
    BY <1>0 DEF Assembled
  <1>3. first \in Seq(Showable) /\ ToSet(first) \subseteq UserSet
        /\ (omitted = 0 => UserSet \subseteq ToSet(first))
    <2>1. 1 \in DOMAIN shown /\ Len(shown) >= 1
      BY <1>1, <1>2
    <2>2. first \in Seq(Showable)
      BY <1>2, <2>1
    <2>3. FirstShown
      BY DEF ContextInv
    <2>. QED
      BY <2>1, <2>2, <2>3 DEF FirstShown
  <1>4. \A k \in DOMAIN first : Ref(first[k]) \in Showable
    <2>1. SUFFICES ASSUME NEW k \in DOMAIN first PROVE Ref(first[k]) \in Showable
      OBVIOUS
    <2>2. first[k] \in InBudget
      BY <1>3 DEF UserSet, ToSet
    <2>3. Ref(first[k]) \in Types \X Nat
      BY <1>0, <2>2, RefIs
    <2>. QED
      BY <2>3 DEF Showable
  <1>. DEFINE m == Len(first)
  <1>5. m \in Nat /\ DOMAIN first = 1..m
    BY <1>3
  <1>6. RefSize \in Nat /\ NoteSize \in Nat /\ TRUE \in BOOLEAN
    BY ContextAssumption
  <1>. HIDE DEF m, first
  <1>7. items \in Seq(Showable) /\ Len(items) = m
    <2>1. items = [k \in 1..m |-> items[k]] /\ \A k \in 1..m : items[k] \in Showable
      BY <1>4, <1>5
    <2>. HIDE DEF items
    <2>. QED
      BY <1>5, <2>1, ListIs
  <1>8. sizes \in Seq(Nat) /\ Len(sizes) = m
    <2>1. sizes = [k \in 1..m |-> sizes[k]] /\ \A k \in 1..m : sizes[k] \in Nat
      BY <1>5, <1>6
    <2>. HIDE DEF sizes
    <2>. QED
      BY <1>5, <2>1, ListIs
  <1>9. \A r \in ToSet(items) : \E i \in ToSet(first) : Ref(i) = r
    BY DEF ToSet
  <1>. HIDE DEF items, sizes
  <1>10. /\ Assembled' /\ (omitted' = 0 => omitted = 0)
         /\ UNCHANGED <<given, mandatory, further, attempt, result>>
         /\ \E new \in Seq(Showable) :
               /\ shown' = Append(shown, new)
               /\ ToSet(new) \subseteq ToSet(items)
               /\ omitted' = 0 => ToSet(items) \subseteq ToSet(new)
    BY <1>0, <1>1, <1>6, <1>7, <1>8, AddItemsKeeps
  <1>11. PICK new \in Seq(Showable) :
               shown' = Append(shown, new) /\ ToSet(new) \subseteq ToSet(items)
    BY <1>10
  <1>12. Len(shown') = 2 /\ shown'[1] = first /\ shown'[2] = new
    <2>1. new \in Seq(Showable) /\ shown' = Append(shown, new)
      BY <1>11
    <2>2. /\ Len(shown') = Len(shown) + 1 /\ shown'[Len(shown) + 1] = new
          /\ \A i \in 1..Len(shown) : shown'[i] = shown[i]
      BY <1>2, <2>1, Appended
    <2>3. 1 \in 1..Len(shown) /\ Len(shown) + 1 = 2
      BY <1>1
    <2>. QED
      BY <2>2, <2>3 DEF first
  <1>13. UserSet' = UserSet /\ UserSources' = UserSources /\ \A i : Ref(i)' = Ref(i)
    BY <1>10, GivenKept
  <1>14. FirstShown'
    BY <1>3, <1>10, <1>12, <1>13 DEF FirstShown
  <1>15. SecondShown'
    BY <1>9, <1>11, <1>12, <1>13 DEF SecondShown
  <1>16. ThirdShown'
    BY <1>12 DEF ThirdShown
  <1>. QED
    BY <1>0, <1>10, <1>13, <1>14, <1>15, <1>16 DEF ContextInv

\* A later section leaves the first two, and the third if there is one.
LEMMA LaterKeeps ==
    ASSUME ContextInv, Len(shown) >= 2, NEW items \in Seq(Showable), NEW sizes \in Seq(Nat),
           Len(sizes) = Len(items), NEW placeholder \in Nat, NEW preserved \in BOOLEAN,
           AddItems(items, sizes, placeholder, preserved),
           Len(shown) = 2 => ToSet(items) = JobSet
    PROVE  ContextInv'
  <1>0. given \in Payloads /\ mandatory \in Nat /\ further \in Furthers /\ Assembled
        /\ result.sources \subseteq UserSources /\ shown \in Seq(Seq(Showable))
    BY DEF ContextInv, Assembled
  <1>1. /\ Assembled' /\ (omitted' = 0 => omitted = 0)
        /\ UNCHANGED <<given, mandatory, further, attempt, result>>
        /\ \E new \in Seq(Showable) :
              /\ shown' = Append(shown, new)
              /\ ToSet(new) \subseteq ToSet(items)
              /\ omitted' = 0 => ToSet(items) \subseteq ToSet(new)
    BY <1>0, AddItemsKeeps
  <1>2. PICK new \in Seq(Showable) :
              /\ shown' = Append(shown, new)
              /\ omitted' = 0 => ToSet(items) \subseteq ToSet(new)
    BY <1>1
  <1>. DEFINE m == Len(shown)
  <1>3. /\ Len(shown') = m + 1 /\ m \in Nat /\ m >= 2 /\ shown'[m + 1] = new
        /\ \A i \in 1..m : shown'[i] = shown[i]
    BY <1>0, <1>2, Appended
  <1>4. UserSet' = UserSet /\ JobSet' = JobSet /\ UserSources' = UserSources
        /\ \A i : Ref(i)' = Ref(i)
    BY <1>1, GivenKept
  <1>5. FirstShown /\ SecondShown /\ ThirdShown /\ (m = 2 => ToSet(items) = JobSet)
    BY DEF ContextInv
  <1>6. shown'[1] = shown[1] /\ shown'[2] = shown[2] /\ m >= 1 /\ (m >= 3 => shown'[3] = shown[3])
        /\ (m = 2 => shown'[3] = new)
    <2>. HIDE DEF m
    <2>. QED
      BY <1>3
  <1>7. FirstShown'
    BY <1>1, <1>4, <1>5, <1>6 DEF FirstShown
  <1>8. SecondShown'
    BY <1>3, <1>4, <1>5, <1>6 DEF SecondShown
  <1>9. ThirdShown'
    <2>1. CASE m = 2
      BY <1>2, <1>4, <1>5, <1>6, <2>1 DEF ThirdShown
    <2>2. CASE m >= 3
      BY <1>1, <1>4, <1>5, <1>6, <2>2 DEF ThirdShown
    <2>. QED
      <3>. HIDE DEF m
      <3>. QED
        BY <1>3, <2>1, <2>2
  <1>. QED
    BY <1>0, <1>1, <1>4, <1>7, <1>8, <1>9 DEF ContextInv

LEMMA AddRequirementsKeeps ==
    ASSUME ContextInv, AddRequirements
    PROVE  ContextInv'
  <1>1. JobSet \subseteq InBudget /\ JobItems = Ascending(JobSet) /\ given \in Payloads
    BY DEF JobSet, JobItems, ContextInv
  <1>2. /\ JobItems \in Seq(Showable) /\ ToSet(JobItems) = JobSet
        /\ ItemSizes(JobItems) \in Seq(Nat) /\ Len(ItemSizes(JobItems)) = Len(JobItems)
    BY <1>1, OfferedItems
  <1>3. Len(shown) = 2 /\ AddItems(JobItems, ItemSizes(JobItems), NoteSize, TRUE)
    BY DEF AddRequirements
  <1>4. NoteSize \in Nat /\ TRUE \in BOOLEAN /\ Len(shown) >= 2
    BY <1>3, ContextAssumption
  <1>. QED
    BY <1>2, <1>3, <1>4, LaterKeeps

LEMMA AddOptionalKeeps ==
    ASSUME ContextInv, AddOptional
    PROVE  ContextInv'
  <1>. DEFINE s == further[Len(shown) - 2]
              m == Len(s.sizes)
              items == [k \in DOMAIN s.sizes |-> k]
  <1>1. Len(shown) \in 3..(2 + Len(further)) /\ AddItems(items, s.sizes, s.placeholder, FALSE)
    BY DEF AddOptional
  <1>2. further \in Seq(Parts)
    BY ContextAssumption DEF ContextInv
  <1>3. Len(shown) \in Nat
    BY DEF ContextInv, Assembled
  <1>4. Len(shown) - 2 \in 1..Len(further) /\ Len(shown) >= 2 /\ Len(shown) # 2
    <2>. DEFINE a == Len(shown)
                b == Len(further)
    <2>1. a \in Nat /\ b \in Nat /\ a \in 3..(2 + b)
      BY <1>1, <1>2, <1>3
    <2>. HIDE DEF a, b
    <2>2. a - 2 \in 1..b /\ a >= 2 /\ a # 2
      BY <2>1
    <2>. QED
      BY <2>2 DEF a, b
  <1>5. s \in Parts
    BY <1>2, <1>4
  <1>. HIDE DEF s
  <1>6. s.sizes \in Seq(Nat) /\ s.placeholder \in Nat
    BY <1>5, ContextAssumption
  <1>7. m \in Nat /\ DOMAIN s.sizes = 1..m
    BY <1>6
  <1>. HIDE DEF m
  <1>8. items \in Seq(Showable) /\ Len(items) = m
    <2>1. items = [k \in 1..m |-> items[k]] /\ \A k \in 1..m : items[k] \in Showable
      BY <1>7 DEF Showable
    <2>. HIDE DEF items
    <2>. QED
      BY <1>7, <2>1, ListIs
  <1>. HIDE DEF items
  <1>9. FALSE \in BOOLEAN /\ Len(s.sizes) = Len(items)
    BY <1>8 DEF m
  <1>. QED
    BY <1>1, <1>4, <1>6, <1>8, <1>9, LaterKeeps

LEMMA ContextInitInv == ContextInit => ContextInv
  <1>. SUFFICES ASSUME ContextInit PROVE ContextInv
    OBVIOUS
  <1>1. /\ given \in Payloads /\ mandatory \in Nat /\ further \in Furthers
        /\ sections = <<>> /\ shown = <<>> /\ omitted = 0 /\ result = NoResult
    BY ContextAssumption DEF ContextInit
  <1>2. Length = mandatory /\ Beyond = 0
    <2>1. [k \in DOMAIN sections |-> Frame + sections[k].size] = <<>>
      BY <1>1
    <2>2. [k \in DOMAIN sections |->
             IF sections[k].forced THEN Frame + sections[k].size ELSE 0] = <<>>
      BY <1>1
    <2>3. Length = mandatory + Total(<<>>) /\ Beyond = Total(<<>>)
      BY <2>1, <2>2 DEF Length, Beyond
    <2>. QED
      BY <1>1, <2>3, TotalNone
  <1>3. Length <= Larger(Budget, mandatory) + Beyond
    BY <1>1, <1>2, ContextAssumption DEF Larger
  <1>4. Assembled
    BY <1>1, <1>2, <1>3 DEF Assembled
  <1>5. FirstShown /\ SecondShown /\ ThirdShown
    BY <1>1 DEF FirstShown, SecondShown, ThirdShown
  <1>6. result.sources \subseteq UserSources
    BY <1>1 DEF NoResult
  <1>. QED
    BY <1>1, <1>4, <1>5, <1>6 DEF ContextInv

\* An attempt changes the result only, and accepts only sources of the user.
LEMMA AttemptKeeps ==
    ASSUME ContextInv, NEW ok \in BOOLEAN, NEW sources, ok => sources \subseteq UserSources,
           Attempt(ok, sources)
    PROVE  ContextInv'
  <1>1. UNCHANGED <<given, mandatory, further, sections, shown, omitted>>
    BY DEF Attempt
  <1>2. result'.sources \subseteq UserSources
    <2>1. CASE ok
      BY <2>1 DEF Attempt
    <2>2. CASE ~ok /\ attempt = 1
      BY <2>2 DEF Attempt, ContextInv
    <2>3. CASE ~ok /\ attempt # 1
      <3>1. result' = [NoResult EXCEPT !.status = "failed"]
        BY <2>3 DEF Attempt
      <3>2. result'.sources = {}
        BY <3>1 DEF NoResult
      <3>. QED
        BY <3>2
    <2>. QED
      BY <2>1, <2>2, <2>3
  <1>3. UserSet' = UserSet /\ JobSet' = JobSet /\ UserSources' = UserSources
        /\ \A i : Ref(i)' = Ref(i)
    BY <1>1, GivenKept
  <1>4. Assembled'
    BY <1>1 DEF ContextInv, Assembled, Length, Beyond
  <1>5. FirstShown' /\ SecondShown' /\ ThirdShown'
    BY <1>1, <1>3 DEF ContextInv, FirstShown, SecondShown, ThirdShown
  <1>. QED
    BY <1>1, <1>2, <1>3, <1>4, <1>5 DEF ContextInv

LEMMA ContextNextKeeps == ContextInv /\ [ContextNext]_contextVars => ContextInv'
  <1>. SUFFICES ASSUME ContextInv, [ContextNext]_contextVars PROVE ContextInv'
    OBVIOUS
  <1>1. CASE AddEvidence
    BY <1>1, AddEvidenceKeeps
  <1>2. CASE AddRefs
    BY <1>2, AddRefsKeeps
  <1>3. CASE AddRequirements
    BY <1>3, AddRequirementsKeeps
  <1>4. CASE AddOptional
    BY <1>4, AddOptionalKeeps
  <1>5. CASE \E cites \in SUBSET Citable : Answer(cites)
    <2>1. PICK cites \in SUBSET Citable : Answer(cites)
      BY <1>5
    <2>2. PICK sources : sources = {SourceOf(c) : c \in cites}
      OBVIOUS
    <2>3. PICK ok \in BOOLEAN : ok = (sources \subseteq Allowed)
      OBVIOUS
    <2>4. Attempt(ok, sources)
      BY <2>1, <2>2, <2>3 DEF Answer
    <2>5. ok => sources \subseteq UserSources
      BY <2>3 DEF Allowed
    <2>. QED
      BY <2>4, <2>5, AttemptKeeps
  <1>6. CASE Unusable
    BY <1>6, AttemptKeeps DEF Unusable
  <1>7. CASE UNCHANGED contextVars
    <2>1. UNCHANGED <<given, mandatory, further, sections, shown, omitted, attempt, result>>
      BY <1>7 DEF contextVars
    <2>2. UserSet' = UserSet /\ JobSet' = JobSet /\ UserSources' = UserSources
          /\ \A i : Ref(i)' = Ref(i)
      BY <2>1, GivenKept
    <2>3. Assembled'
      BY <2>1 DEF ContextInv, Assembled, Length, Beyond
    <2>4. FirstShown' /\ SecondShown' /\ ThirdShown'
      BY <2>1, <2>2 DEF ContextInv, FirstShown, SecondShown, ThirdShown
    <2>. QED
      BY <2>1, <2>2, <2>3, <2>4 DEF ContextInv
  <1>. QED
    BY <1>1, <1>2, <1>3, <1>4, <1>5, <1>6, <1>7 DEF ContextNext

\* The invariant of the context holds for all evidence, all sizes and every budget.
THEOREM ContextInvariance == ContextSpec => []ContextInv
  <1>1. ContextInit => ContextInv
    BY ContextInitInv
  <1>2. ContextInv /\ [ContextNext]_contextVars => ContextInv'
    BY ContextNextKeeps
  <1>. QED
    BY <1>1, <1>2, PTL DEF ContextSpec

\* Of what is left of the evidence, the first of the same text stands for all of them.
LEMMA Represented ==
    ASSUME given \in Payloads, NEW i \in DOMAIN given, Safe[given[i].text] # Blank
    PROVE  \E j \in InBudget : /\ Safe[given[j].text] = Safe[given[i].text]
                               /\ IsUsers(given[j]) <=> IsUsers(given[i])
  <1>. DEFINE S == {j \in 1..i : Same(j, i)}
  <1>1. DOMAIN given = 1..Len(given) /\ Len(given) \in Nat /\ i \in 1..Len(given)
    BY GivenIs
  <1>2. i \in S /\ S \in SUBSET Nat
    <2>1. i \in Nat /\ i \in 1..i
      BY <1>1
    <2>2. Same(i, i)
      BY DEF Same
    <2>. QED
      BY <2>1, <2>2
  <1>3. PICK j \in S : \A k \in S : j <= k
    <2>. HIDE DEF S
    <2>. QED
      BY <1>2, LeastNumber
  <1>4. j \in 1..i /\ Same(j, i) /\ j \in 1..Len(given)
    BY <1>1, <1>3
  <1>5. ASSUME NEW k \in 1..(j - 1), Same(j, k)
        PROVE  FALSE
    <2>1. Same(k, i)
      BY <1>4, <1>5 DEF Same
    <2>2. k \in 1..i /\ k < j
      BY <1>1, <1>4
    <2>3. k \in S
      BY <2>1, <2>2
    <2>. QED
      BY <1>3, <1>4, <2>2, <2>3
  <1>6. Safe[given[j].text] = Safe[given[i].text] /\ (IsUsers(given[j]) <=> IsUsers(given[i]))
    BY <1>4 DEF Same
  <1>7. j \in InBudget
    BY <1>1, <1>4, <1>5, <1>6 DEF InBudget, IsKept
  <1>. QED
    BY <1>6, <1>7

\* ContextAccounts: a context that calls itself complete has all the evidence, and only the
\* mandatory sections and preserved placeholders go beyond the budget.
THEOREM ContextAccounted == ContextSpec => []ContextAccounts
  <1>1. ContextInv => ContextAccounts
    <2>. SUFFICES ASSUME ContextInv PROVE ContextAccounts
      OBVIOUS
    <2>1. Length <= Larger(Budget, mandatory) + Beyond
      BY DEF ContextInv, Assembled
    <2>2. ASSUME Len(shown) >= 3, ~Truncated, NEW i \in DOMAIN given,
                 Safe[given[i].text] # Blank
          PROVE  \E j \in ToSet(shown[IF IsUsers(given[i]) THEN 1 ELSE 3]) :
                    Safe[given[j].text] = Safe[given[i].text]
      <3>1. omitted = 0 /\ given \in Payloads
        BY <2>2 DEF Truncated, ContextInv, Assembled
      <3>2. Len(shown) >= 1
        <4>1. Len(shown) \in Nat
          BY DEF ContextInv, Assembled
        <4>. QED
          BY <2>2, <4>1
      <3>3. UserSet \subseteq ToSet(shown[1]) /\ JobSet \subseteq ToSet(shown[3])
        BY <2>2, <3>1, <3>2 DEF ContextInv, FirstShown, ThirdShown
      <3>4. PICK j \in InBudget : /\ Safe[given[j].text] = Safe[given[i].text]
                                  /\ IsUsers(given[j]) <=> IsUsers(given[i])
        BY <2>2, <3>1, Represented
      <3>5. CASE IsUsers(given[i])
        <4>1. j \in ToSet(shown[1])
          BY <3>3, <3>4, <3>5 DEF UserSet
        <4>. QED
          BY <3>4, <3>5, <4>1
      <3>6. CASE ~IsUsers(given[i])
        <4>1. j \in ToSet(shown[3])
          BY <3>3, <3>4, <3>6 DEF JobSet
        <4>. QED
          BY <3>4, <3>6, <4>1
      <3>. QED
        BY <3>5, <3>6
    <2>. QED
      BY <2>1, <2>2 DEF ContextAccounts
  <1>. QED
    BY <1>1, ContextInvariance, PTL

\* ConfirmedIsShown: a confirmed reference is in the context and of the user, and so is what
\* an accepted answer cites.
THEOREM ContextConfirmed == ContextSpec => []ConfirmedIsShown
  <1>1. ContextInv => ConfirmedIsShown
    <2>. SUFFICES ASSUME ContextInv PROVE ConfirmedIsShown
      OBVIOUS
    <2>1. ASSUME Len(shown) >= 2, NEW r \in ToSet(shown[2])
          PROVE  (\E i \in ToSet(shown[1]) : Ref(i) = r) /\ SourceOf(r) \in UserSources
      <3>1. PICK i \in ToSet(shown[1]) : Ref(i) = r
        BY <2>1 DEF ContextInv, SecondShown
      <3>2. Len(shown) >= 1
        <4>1. Len(shown) \in Nat
          BY DEF ContextInv, Assembled
        <4>. QED
          BY <2>1, <4>1
      <3>3. i \in UserSet /\ given \in Payloads
        BY <3>1, <3>2 DEF ContextInv, FirstShown
      <3>4. i \in InBudget /\ IsUsers(given[i])
        BY <3>3 DEF UserSet
      <3>5. PICK j \in InBudget : Ref(j) = r /\ SourceOf(r) = given[j].source
        <4>. DEFINE other == CHOOSE j \in InBudget : Ref(j) = r
        <4>1. \E j \in InBudget : Ref(j) = r
          BY <3>1, <3>4
        <4>2. other \in InBudget /\ Ref(other) = r
          BY <4>1
        <4>3. SourceOf(r) = given[other].source
          BY <4>1 DEF SourceOf
        <4>. QED
          BY <4>2, <4>3
      <3>6. given[j].type = given[i].type
        BY <3>1, <3>3, <3>4, <3>5, RefIs
      <3>7. IsUsers(given[j]) /\ j \in DOMAIN given
        BY <3>4, <3>6 DEF IsUsers, InBudget
      <3>8. SourceOf(r) \in UserSources
        BY <3>5, <3>7 DEF UserSources
      <3>. QED
        BY <3>1, <3>8
    <2>2. result.sources \subseteq UserSources
      BY DEF ContextInv
    <2>. QED
      BY <2>1, <2>2 DEF ConfirmedIsShown
  <1>. QED
    BY <1>1, ContextInvariance, PTL
=============================================================================
