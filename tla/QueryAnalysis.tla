---------------------------- MODULE QueryAnalysis ----------------------------
(***************************************************************************)
(* retrieval_query_analysis.py: what is taken from the text of a question. *)
(*                                                                         *)
(* A question stands for what the patterns of the code find in its text:   *)
(* the concepts in the order of the alias tables, the concepts of each of  *)
(* its clauses, the cues, and the documents' names it mentions.            *)
(***************************************************************************)
EXTENDS OrderedLists, SequencesExt

MaxVariants == 2    \* MAX_QUERY_VARIANTS
MaxFacets == 3      \* MAX_REQUIRED_FACETS

-----------------------------------------------------------------------------
(* _build_facets.                                                          *)

\* The more special of two concepts that share an alias gives way.
Kept(q) ==
    LET all == ToSet(q.concepts)
    IN  Within(q.concepts, all \ UNION {
            IF "vector_store" \in all THEN {"storage_index"} ELSE {},
            IF "embedding" \in all THEN {"chunk_embedding"} ELSE {},
            IF q.narrows THEN {"job_requirement"} ELSE {}})

Singles(s) == [i \in DOMAIN s |-> {s[i]}]

\* Upload, embedding and storage are the parts of a question about a process.
ProcessFacets(q) ==
    LET kept == ToSet(Kept(q))
        last == IF "isolation" \in kept THEN {"isolation"} ELSE {"storage_index", "vector_store"}
    IN  IF q.process /\ "upload_parse" \in kept
        THEN Within(<<{"upload_parse"}, kept \intersect {"chunk_embedding", "embedding"},
                      kept \intersect last>>, (SUBSET kept) \ {{}})
        ELSE <<>>

\* What the clauses mention, clause by clause: <<clause, position in Kept>>.
Mentions(q) == {m \in (DOMAIN q.clauses) \X (DOMAIN Kept(q)) : Kept(q)[m[2]] \in q.clauses[m[1]]}

ClauseFacets(q) ==
    LET found == Sorted([m \in Mentions(q) |-> m])
    IN  Take(Singles([n \in DOMAIN found |-> Kept(q)[found[n][2]]]), MaxFacets)

\* A facet is a set of concepts.  A question without any has one facet of its
\* plain words, which is not critical.
Facets(q) ==
    LET first == IF ProcessFacets(q) # <<>> THEN ProcessFacets(q) ELSE ClauseFacets(q)
        rest == Within(Kept(q), ToSet(Kept(q)) \ UNION ToSet(first))
        all == Take(first \o Singles(rest), MaxFacets)
    IN  IF all = <<>> THEN <<{"words"}>> ELSE all

-----------------------------------------------------------------------------
(* _primary_intent of _intent_labels, _project_constraints,                *)
(* _build_variants.                                                        *)

Intent(q) ==
    LET steps == q.steps /\ Len(Facets(q)) >= 2
        labels == (q.cues \ {"multi_part"})
                  \union (IF steps THEN {"multi_hop"} ELSE q.cues \intersect {"multi_part"})
        order == <<"comparison", "multi_hop", "multi_part", "evidence_check", "numeric",
                   "negative", "existence">>
        found == Within(order, labels)
    IN  IF found = <<>> THEN "fact" ELSE found[1]

\* The projects a question names, of the files that are trusted.
Projects(q, groups) == q.mentions \intersect groups

\* Other wordings to search with: the terms of each facet, but not twice.
Variants(q, groups) ==
    LET n == Cardinality(Projects(q, groups))
        worded == IF Facets(q) = <<{"words"}>> /\ ~q.wordy THEN {} ELSE ToSet(Facets(q))
    IN  IF n >= 2 \/ Cardinality(worded) >= MaxVariants THEN MaxVariants
        ELSE Cardinality(worded)

Analysis(q, groups) ==
    [facets |-> Facets(q), critical |-> Facets(q) # <<{"words"}>>,
     projects |-> Projects(q, groups), intent |-> Intent(q),
     existence |-> q.existence, experience |-> q.experience,
     technical |-> q.technical, resume |-> q.resume]

=============================================================================
