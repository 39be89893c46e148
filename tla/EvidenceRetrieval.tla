------------------------- MODULE EvidenceRetrieval -------------------------
(***************************************************************************)
(* One retrieval of evidence, search_trusted_evidence for the agents,      *)
(* retrieve_interview_evidence for an interview or                         *)
(* retrieve_resume_evidence for a project description, while other         *)
(* requests of the user delete, upload and index files.                    *)
(*                                                                         *)
(* Each query of the vector store and of the user's file rows is a step:   *)
(* the agents and the description read the rows before they search, the    *)
(* interview after.  What is decided on what was read, RetrievalRanking    *)
(* computes.  Left out: the profile and the target job a context also      *)
(* carries; search errors, which leave no candidates.                      *)
(***************************************************************************)
EXTENDS RetrievalRanking

CONSTANTS
    Sources,        \* <<file, index>> of the chunks there may be, files numbered in order
    TextsOf,        \* the texts that may be indexed, by source
    Category,       \* of each file
    Questions,      \* what may be asked
    Earlier,        \* the sources the turns of the interview may have kept
    DistanceOf,     \* of a text to the question and to each of its variants
    TopKs,
    Multiplier,     \* RETRIEVAL_CANDIDATE_MULTIPLIER
    MaxCandidates,  \* RETRIEVAL_MAX_CANDIDATES
    MaxChanges      \* bound: changes of the files during the retrieval

Files == {s[1] : s \in Sources}
Texts == UNION {TextsOf[s] : s \in Sources}

ASSUME RetrievalAssumption ==
    /\ Sources \subseteq Nat \X Nat /\ IsFiniteSet(Sources)
    /\ \A t \in Texts : /\ TextOf[t].cover \in Nat
                        /\ \A v \in 0..MaxVariants : DistanceOf[t][v] \in Nat
    /\ \A f \in Files : NameOf[f].cover \in Nat
    /\ \A q \in Questions : q.concepts \in Seq(STRING) /\ q.clauses \in Seq(SUBSET STRING)
    /\ {Multiplier, MaxCandidates} \subseteq Nat \ {0}
    /\ TopKs \subseteq 1..MaxCandidates
    /\ Earlier \subseteq SUBSET Sources
    /\ MaxChanges \in Nat

VARIABLES
    store,    \* the vector store: the text indexed for each source
    rows,     \* the files that have a row
    ask,      \* the request: [kind, question, topK, selected, deep, turns]
    phase,
    routes,   \* the results of the queries so far
    copy,     \* the rows the request has read
    answer,
    recalled, \* the sources the description takes from the interview's turns
    changes

retrievalVars == <<store, rows, ask, phase, routes, copy, answer, recalled, changes>>

NoAnswer == [asked |-> <<>>, pool |-> <<>>, accepted |-> <<>>, sufficient |-> FALSE]

\* candidate_pool_size.
PoolSize(k) == Smaller(k * Multiplier, MaxCandidates)

\* The projects of the files whose names are known: the agents' question is
\* analysed once, with all the user's files, an interview's twice.  The query
\* of a description has no variants.
Groups(files) == {NameOf[f].group : f \in files}
Wordings ==
    IF ask.kind = "resume" THEN 0
    ELSE Variants(ask.question, IF ask.kind = "interview" THEN {} ELSE Groups(copy))
Chunk(s, v) == [file |-> s[1], index |-> s[2], text |-> store[s],
                dist |-> DistanceOf[store[s]][v], cat |-> Category[s[1]]]

\* collection.query: the nearest k chunks of the user.
Nearest(v, k) ==
    Take(Sorted([c \in {Chunk(s, v) : s \in DOMAIN store} |-> <<c.dist, c.file, c.index>>]), k)

-----------------------------------------------------------------------------
\* The agents load the rows first, and stop if there are none.
LoadRows ==
    /\ phase = "rows" /\ ask.kind = "agent"
    /\ copy' = rows
    /\ phase' = IF rows = {} THEN "done" ELSE "search"
    /\ UNCHANGED <<store, rows, ask, routes, answer, recalled, changes>>

\* The description stops (404) unless every selected project has a row; the
\* rows of the resumes are read later.
LoadProjects ==
    /\ phase = "rows" /\ ask.kind = "resume"
    /\ IF ask.selected \subseteq rows
       THEN copy' = ask.selected /\ phase' = "resumes"
       ELSE phase' = "done" /\ UNCHANGED copy
    /\ UNCHANGED <<store, rows, ask, routes, answer, recalled, changes>>

LoadResumes ==
    /\ phase = "resumes"
    /\ copy' = copy \union {f \in rows : Category[f] = "resume"}
    /\ phase' = "search"
    /\ UNCHANGED <<store, rows, ask, routes, answer, recalled, changes>>

Search(k) ==
    /\ routes' = Append(routes, Nearest(Len(routes), k))
    /\ UNCHANGED <<store, rows, ask, copy, answer, recalled, changes>>

Searched == IF ask.kind = "interview" THEN "rows" ELSE "decide"

\* search_multi_query_candidates: the question, then its variants, unless the
\* question itself found nothing.
SearchRoute ==
    /\ phase = "search" /\ Wordings > 0
    /\ Search(PoolSize(ask.topK))
    /\ phase' = IF Len(routes') = 1 + Wordings \/ routes'[1] = <<>> THEN Searched ELSE "search"

\* search_evidence_candidates without variants: one query, and a second one
\* when the first filled its pool and left the boundary open.
BoundaryOpen(found) ==
    LET size == PoolSize(ask.topK)
        useful == {i \in DOMAIN found : found[i].dist <= HardReject
                                        /\ found[i].cat \in {"project", "resume"}}
    IN  /\ Len(found) = size
        /\ size < MaxCandidates
        /\ \/ Cardinality(useful) < ask.topK
           \/ found[Len(found)].dist <= AdaptiveExpansion

SearchOnce ==
    /\ phase = "search" /\ Wordings = 0
    /\ Search(PoolSize(ask.topK))
    /\ phase' = IF BoundaryOpen(routes'[1]) THEN "expand" ELSE Searched

Expand ==
    LET n == PoolSize(ask.topK)
        k == Smaller(MaxCandidates, Larger(n + ask.topK, 2 * n))
    IN  /\ phase = "expand"
        /\ routes' = <<Nearest(0, k)>>
        /\ phase' = Searched
        /\ UNCHANGED <<store, rows, ask, copy, answer, recalled, changes>>

\* _filter_owned_file_chunks reads the rows of the candidates' files.
ReadRows ==
    /\ phase = "rows" /\ ask.kind = "interview"
    /\ copy' = rows
    /\ phase' = "decide"
    /\ UNCHANGED <<store, rows, ask, routes, answer, recalled, changes>>

Candidates == IF Wordings = 0 THEN routes[1] ELSE Fused(routes, MaxCandidates)

\* Only chunks of rows of the user, of a project or resume, and of the
\* projects selected for the interview, are candidates.
AnyRow(c) == c.cat \in {"project", "resume"}                \* mutant of Trusted
Trusted(c) ==
    /\ c.file \in copy
    /\ c.cat \in {"project", "resume"}
    /\ c.cat = "project" /\ ask.selected # {} => c.file \in ask.selected
TrustedCandidates == {c \in ToSet(Candidates) : Trusted(c)}

\* The analysis that is decided by.
Asked == Analysis(ask.question,
                  Groups(IF ask.kind = "interview" THEN {c.file : c \in TrustedCandidates} ELSE copy))

\* A deep dive needs evidence of a project.
ForMode(d) ==
    [d EXCEPT !.sufficient = @ /\ (ask.deep => \E c \in ToSet(d.accepted) : c.cat = "project")]

Decide ==
    /\ phase = "decide"
    /\ answer' = ForMode(Decision(Asked, TrustedCandidates, ask.topK))
    /\ phase' = IF ask.kind = "resume" THEN "recall" ELSE "done"
    /\ UNCHANGED <<store, rows, ask, routes, copy, recalled, changes>>

\* The description adds what the turns of the interview kept, if it is of one
\* of its files and not found already; any evidence of a project will do.
Recallable(s) == s[1] \in copy /\ \A c \in ToSet(answer.accepted) : s # <<c.file, c.index>>

Recall ==
    /\ phase = "recall"
    /\ recalled' = {s \in ask.turns : Recallable(s)}
    /\ answer' = [answer EXCEPT !.sufficient =
                     \/ \E c \in ToSet(answer.accepted) : c.cat = "project"
                     \/ \E s \in recalled' : Category[s[1]] = "project"]
    /\ phase' = "done"
    /\ UNCHANGED <<store, rows, ask, routes, copy, changes>>

-----------------------------------------------------------------------------
(* Other requests: an upload commits the row, and the index follows; a     *)
(* deletion removes the vectors, and the row follows.                      *)

Change ==
    /\ changes < MaxChanges /\ phase # "done"
    /\ changes' = changes + 1
    /\ UNCHANGED <<ask, phase, routes, copy, answer, recalled>>

DropVectors(f) ==
    /\ Change
    /\ \E s \in DOMAIN store : s[1] = f
    /\ store' = Restrict(store, {s \in DOMAIN store : s[1] # f})
    /\ UNCHANGED rows

DropRow(f) ==
    /\ Change
    /\ f \in rows /\ \A s \in DOMAIN store : s[1] # f
    /\ rows' = rows \ {f}
    /\ UNCHANGED store

Upload(f) ==
    /\ Change
    /\ f \notin rows /\ \A s \in DOMAIN store : s[1] # f
    /\ rows' = rows \union {f}
    /\ UNCHANGED store

Index(s, t) ==
    /\ Change
    /\ s[1] \in rows /\ s \notin DOMAIN store
    /\ store' = [r \in DOMAIN store \union {s} |-> IF r = s THEN t ELSE store[r]]
    /\ UNCHANGED rows

-----------------------------------------------------------------------------
\* A row may lack its vectors, and vectors that could not be removed a row.
RetrievalInit ==
    /\ \E S \in SUBSET Sources :
          store \in {st \in [S -> Texts] : \A s \in S : st[s] \in TextsOf[s]}
    /\ rows \in {Files, {f \in Files : Category[f] # "project"}, {}}
    /\ ask \in [kind : {"agent", "interview", "resume"}, question : Questions, topK : TopKs,
                selected : {{}} \union {{f} : f \in {g \in Files : Category[g] = "project"}},
                deep : BOOLEAN, turns : Earlier \union {{}}]
    /\ ask.kind = "agent" => ask.selected = {}
    /\ ask.kind = "resume" => ask.selected # {}
    /\ ask.kind # "interview" => ~ask.deep
    /\ ask.kind # "resume" => ask.turns = {}
    /\ phase = IF ask.kind = "interview" THEN "search" ELSE "rows"
    /\ routes = <<>>
    /\ copy = {}
    /\ answer = NoAnswer
    /\ recalled = {}
    /\ changes = 0

RetrievalNext ==
    \/ LoadRows \/ LoadProjects \/ LoadResumes
    \/ SearchRoute \/ SearchOnce \/ Expand \/ ReadRows \/ Decide \/ Recall
    \/ \E f \in Files : DropVectors(f) \/ DropRow(f) \/ Upload(f)
    \/ \E s \in Sources : \E t \in TextsOf[s] : Index(s, t)

RetrievalSpec == RetrievalInit /\ [][RetrievalNext]_retrievalVars

-----------------------------------------------------------------------------
(* Properties.                                                             *)

RetrievalTypeOK ==
    /\ DOMAIN store \subseteq Sources /\ \A s \in DOMAIN store : store[s] \in TextsOf[s]
    /\ rows \subseteq Files /\ copy \subseteq Files
    /\ phase \in {"rows", "resumes", "search", "expand", "decide", "recall", "done"}
    /\ Len(routes) <= 1 + MaxVariants
    /\ changes \in 0..MaxChanges

Evidence == ToSet(answer.accepted)

\* Whatever is deleted, uploaded and indexed meanwhile, what reaches the prompt
\* is of a file the user had a row for when the rows were read, and of the
\* selected projects; it is near enough, and never a text that only says the
\* information is missing or that repeats the question's words.  What a
\* description takes from an interview held earlier is of its own files too,
\* though those of the interview may be gone, and no source comes twice.
EvidenceIsTrusted ==
    /\ \A s \in recalled :
          /\ s[1] \in copy /\ Category[s[1]] = "project" => s[1] \in ask.selected
          /\ \A c \in Evidence : s # <<c.file, c.index>>
    /\ Len(answer.accepted) <= ask.topK
    /\ \A c \in Evidence :
          /\ c.file \in copy /\ Category[c.file] \in {"project", "resume"}
          /\ ask.selected # {} /\ Category[c.file] = "project" => c.file \in ask.selected
          /\ c.dist <= HardReject
          /\ ~TextOf[c.text].missing /\ ~TextOf[c.text].stuffed

\* Except for a description, evidence is called sufficient only if each
\* critical facet of the question has a text of its own among those chosen,
\* however strong one of them is.
SufficientIsComplete ==
    answer.sufficient /\ ask.kind # "resume" =>
        /\ Evidence # {}
        /\ \A i \in Required(answer.asked) : \E c \in Evidence :
              answer.asked.facets[i] \intersect TextOf[c.text].concepts # {}

\* When there is room for all facets and no text repeats another, no facet
\* that some acceptable candidate supports is lost to better ranked texts.
NoFacetLost ==
    LET pool == {c \in ToSet(answer.pool) : Eligible(answer.asked, c)}
    IN  /\ phase = "done" /\ answer.pool # <<>>
        /\ Len(answer.asked.facets) <= ask.topK
        /\ \A c, d \in pool : c # d => ~Alike(c, d)
        => CoveredBy(answer.asked, pool) \intersect Required(answer.asked)
               \subseteq CoveredBy(answer.asked, Evidence)

=============================================================================
