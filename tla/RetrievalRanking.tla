-------------------------- MODULE RetrievalRanking --------------------------
(***************************************************************************)
(* The deterministic part of retrieval as operators: fusing the routes of  *)
(* several queries (vector_store.py), ranking (retrieval_ranking.py),      *)
(* accepting candidates (retrieval_confidence.py) and choosing a set of    *)
(* evidence (evidence_set_selector.py).                                    *)
(*                                                                         *)
(* A text stands for the content of a chunk by what the code tells from    *)
(* it; the words that decide are in TextOf, those of file names in NameOf. *)
(* Distances, coverages and similarities are in hundredths.  Left out: the *)
(* confidence value and the statistics, which nothing decides on, and the  *)
(* character similarity of SequenceMatcher next to that of the terms.      *)
(***************************************************************************)
EXTENDS QueryAnalysis

CONSTANTS
    TextOf,           \* [terms, concepts, projects, cover, exact, numbers, missing,
                      \*  negates, stuffed, specific, technical, shared]
    NameOf,           \* [cover, group, technical], by file
    HighConfidence    \* EVIDENCE_MAX_DISTANCE

HardReject == 115          \* HARD_REJECT_DISTANCE
AdaptiveExpansion == 110   \* ADAPTIVE_EXPANSION_DISTANCE
Borderline == 7            \* BORDERLINE_MIN_LEXICAL
Strong == 18               \* STRONG_LEXICAL
RRF == 60                  \* RRF_K

\* A chunk is [file, index, text, dist, cat]; q is the Analysis of a question.
Key(c) == <<c.file, c.index>>

-----------------------------------------------------------------------------
(* fuse_candidate_routes: reciprocal rank fusion of result lists.          *)

KeysIn(route) == {Key(c) : c \in ToSet(route)}
RoutesWith(routes, k) == {r \in DOMAIN routes : k \in KeysIn(routes[r])}
RankOf(route, k) == CHOOSE i \in DOMAIN route : Key(route[i]) = k
Hit(route, k) == route[RankOf(route, k)]

\* The nearest of its hits, the first of those, stands for a source; its best rank and its
\* score are over all of them.
BestHit(routes, k) ==
    Hit(routes[Least([r \in RoutesWith(routes, k) |-> <<Hit(routes[r], k).dist, r>>])], k)
BestRank(routes, k) ==
    RankOf(routes[Least([r \in RoutesWith(routes, k) |-> <<RankOf(routes[r], k), r>>])], k)
FusionScore(routes, k) ==
    Total([r \in DOMAIN routes |-> IF r \in RoutesWith(routes, k)
                                   THEN 1000000000 \div (RRF + RankOf(routes[r], k)) ELSE 0])

Fused(routes, max) ==
    LET order == Take(Sorted([k \in UNION {KeysIn(routes[r]) : r \in DOMAIN routes} |->
                                 <<0 - FusionScore(routes, k), BestHit(routes, k).dist,
                                   BestRank(routes, k), k[1], k[2]>>]), max)
    IN  [n \in DOMAIN order |-> BestHit(routes, order[n])]

-----------------------------------------------------------------------------
(* rerank_chunks.                                                          *)

Lexical(c) == \* in ten-thousandths
    LET n == 75 * TextOf[c.text].cover + (IF TextOf[c.text].exact THEN 1500 ELSE 0)
               + 10 * NameOf[c.file].cover
    IN  IF n > 10000 THEN 10000 ELSE n

\* 70% semantic and 30% lexical, over the common denominator 115 * 1000000.
Combined(c) == 700000 * (HardReject - c.dist) + 3450 * Lexical(c)
NearDuplicatePenalty == 13800000

Adjacent(c, d) == c.file = d.file /\ c.index - d.index \in {-1, 0, 1}

\* The terms of two texts overlap in at least p hundredths of their union.
Overlap(c, d, p) ==
    LET a == TextOf[c.text].terms
        b == TextOf[d.text].terms
    IN  IF a \union b = {} THEN c.text = d.text
        ELSE 100 * Cardinality(a \intersect b) >= p * Cardinality(a \union b)

RankKey(c, score) == <<0 - score, c.dist, c.file, c.index>>

\* Of chunks with the same content only the best is kept.
Deduplicated(S) ==
    {c \in S : ~\E d \in S : d.text = c.text
                  /\ Precedes(RankKey(d, Combined(d)), RankKey(c, Combined(c)))}

\* One after the other the best is taken, where a near duplicate of a
\* neighbour that was taken already loses 0.12.
Penalised(c, taken) == \E d \in taken : Adjacent(c, d) /\ Overlap(c, d, 75)
Score(c, taken) == Combined(c) - (IF Penalised(c, taken) THEN NearDuplicatePenalty ELSE 0)
TopRanked(P, taken) == Least([c \in P |-> RankKey(c, Score(c, taken))])

RankedOf(unique, topK) ==
    LET taken[n \in 0..topK] ==
            IF n = 0 THEN <<>>
            ELSE IF unique \subseteq ToSet(taken[n-1]) THEN taken[n-1]
            ELSE Append(taken[n-1], TopRanked(unique \ ToSet(taken[n-1]), ToSet(taken[n-1])))
    IN  taken[topK]

Ranked(S, topK) == RankedOf(Deduplicated({c \in S : c.dist <= HardReject}), topK)

-----------------------------------------------------------------------------
(* decide_retrieval_evidence: which ranked candidates are accepted.        *)

NumericConcepts == {"accuracy", "latency", "user_count", "performance", "billing"}

\* The facets, by their number, with a concept the text mentions.
FacetsOf(q, c) == {i \in DOMAIN q.facets : q.facets[i] \intersect TextOf[c.text].concepts # {}}
ProjectsOf(q, c) == q.projects \intersect (TextOf[c.text].projects \union {NameOf[c.file].group})

TechnicalSupported(q, c) ==
    \/ ~q.technical
    \/ TextOf[c.text].technical
    \/ NameOf[c.file].technical /\ TextOf[c.text].cover >= Borderline
    \/ TextOf[c.text].cover >= 50
    \/ FacetsOf(q, c) # {} /\ TextOf[c.text].specific

NotRejected(q, c) ==
    /\ \/ TextOf[c.text].numbers
       \/ /\ q.intent \in {"multi_part", "multi_hop", "comparison"}
          /\ \E i \in FacetsOf(q, c) : q.facets[i] \intersect NumericConcepts = {}
    /\ ~TextOf[c.text].missing
    /\ TextOf[c.text].specific
    /\ TechnicalSupported(q, c)
    /\ ~TextOf[c.text].stuffed

HighlyConfident(q, c) ==
    /\ c.dist <= HighConfidence
    /\ \/ c.dist <= 35
       \/ Lexical(c) >= 100 * Borderline
       \/ TextOf[c.text].exact
       \/ q.technical

\* has_independent_support: two different texts of some coverage.
IndependentSupport(S) ==
    Cardinality({c.text : c \in {d \in S : TextOf[d.text].cover >= Borderline
                                           /\ ~TextOf[d.text].stuffed}}) >= 2

Supported(q, c, S) ==
    LET t == TextOf[c.text]
    IN  /\ ~(t.negates /\ q.experience)
        /\ \/ t.negates /\ t.cover >= Borderline
           \/ FacetsOf(q, c) # {} /\ c.dist <= AdaptiveExpansion
           \/ q.intent = "comparison" /\ ProjectsOf(q, c) # {} /\ c.dist <= AdaptiveExpansion
           \/ Lexical(c) >= 100 * Strong
           \/ q.existence /\ t.cover >= 14
           \/ ~q.existence /\ IndependentSupport(S) /\ t.cover >= Borderline
           \/ NameOf[c.file].cover >= 25 /\ t.cover >= Borderline

Accepted(q, c, S) == NotRejected(q, c) /\ (HighlyConfident(q, c) \/ Supported(q, c, S))

-----------------------------------------------------------------------------
(* select_evidence_set.                                                    *)

Required(q) == IF q.critical THEN DOMAIN q.facets ELSE {}

ProjectConsistent(q, c) ==
    \/ q.projects = {}
    \/ q.projects \intersect (IF c.cat = "resume" THEN TextOf[c.text].projects
                              ELSE {NameOf[c.file].group}) # {}

Eligible(q, c) ==
    /\ ProjectConsistent(q, c)
    /\ c.cat = "resume" => q.projects = {} \/ q.resume
    /\ ~(q.intent = "comparison" /\ TextOf[c.text].shared)
    /\ q.critical => FacetsOf(q, c) # {}

Alike(c, d) == c.text = d.text \/ Overlap(c, d, 95) \/ (Adjacent(c, d) /\ Overlap(c, d, 62))
Redundant(c, S) == \E d \in S : Alike(c, d)

CoveredBy(q, S) == UNION {FacetsOf(q, c) : c \in S}

\* The choice prefers a chunk with a facet still missing, then, comparing,
\* one of a project still missing, then the best score; a chunk that repeats
\* a chosen one is dropped.
AnyEligible(q, P, chosen) == P                              \* mutant of Preferred
Preferred(q, P, chosen) ==
    LET fresh == {c \in P : ~Redundant(c, chosen)}
        open == Required(q) \ CoveredBy(q, chosen)
        Gains(c) == FacetsOf(q, c) \intersect open # {}
        facetGain == \E c \in fresh : Gains(c)
        missing == q.projects \ UNION {ProjectsOf(q, c) : c \in chosen}
        NewProject(c) == ProjectsOf(q, c) \intersect missing # {}
        projectGain == /\ q.intent = "comparison"
                       /\ \E c \in fresh : NewProject(c) /\ (facetGain => Gains(c))
    IN  {c \in fresh : (facetGain => Gains(c)) /\ (projectGain => NewProject(c))}

\* 0.55 relevance, 0.30 facets, 0.10 new file, 0.05 project, over the common
\* denominator 100 * n * m.
SetScore(q, c, rank, n, chosen) ==
    LET m == Len(q.facets)
        open == Required(q) \ CoveredBy(q, chosen)
        missing == q.projects \ UNION {ProjectsOf(q, d) : d \in chosen}
    IN  55 * (n - rank) * m + 30 * Cardinality(FacetsOf(q, c) \intersect open) * n
        + (IF \A d \in chosen : d.file # c.file THEN 10 * n * m ELSE 0)
        + (IF missing = {} \/ ProjectsOf(q, c) \intersect missing # {} THEN 5 * n * m ELSE 0)

\* pool is the sequence of accepted candidates in the order of their rank.
RankIn(pool, c) == (CHOOSE i \in DOMAIN pool : pool[i] = c) - 1

BestOf(q, P, pool, n, chosen) ==
    Least([c \in P |-> <<0 - SetScore(q, c, RankIn(pool, c), n, chosen), RankIn(pool, c)>>])

Extended(q, P, pool, n, chosen) ==
    IF P = {} THEN chosen ELSE Append(chosen, BestOf(q, P, pool, n, ToSet(chosen)))

ChosenFrom(q, eligible, pool, topK) ==
    LET chosen[k \in 0..topK] ==
            IF k = 0 THEN <<>>
            ELSE Extended(q, Preferred(q, eligible \ ToSet(chosen[k-1]), ToSet(chosen[k-1])),
                          pool, Cardinality(eligible), chosen[k-1])
    IN  chosen[topK]

EvidenceSet(q, pool, topK) == ChosenFrom(q, {c \in ToSet(pool) : Eligible(q, c)}, pool, topK)

\* The decision: what reaches the prompt, and whether it answers everything.
CompleteIfAny(q, chosen) == chosen # <<>>                   \* mutant of Complete
Complete(q, chosen) == chosen # <<>> /\ Required(q) \subseteq CoveredBy(q, ToSet(chosen))

Answered(q, pool, chosen) ==
    [asked |-> q, pool |-> pool, accepted |-> chosen, sufficient |-> Complete(q, chosen)]
Selected(q, pool, topK) == Answered(q, pool, EvidenceSet(q, pool, topK))
Judged(q, ranked, topK) ==
    Selected(q, Within(ranked, {c \in ToSet(ranked) : Accepted(q, c, ToSet(ranked))}), topK)
Decision(q, S, topK) == Judged(q, Ranked(S, 3 * topK), topK)

=============================================================================
