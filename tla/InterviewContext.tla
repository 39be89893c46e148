-------------------------- MODULE InterviewContext --------------------------
(***************************************************************************)
(* The context an agent is given, and what its answer may refer to: the    *)
(* evidence is sanitised and stripped of duplicates, its sections are put  *)
(* together in the order of their priority within a budget of characters,  *)
(* and the model has two attempts at an answer whose references hold.      *)
(*                                                                         *)
(* A text is a model value with a length; how the guard rewrites it is     *)
(* given.  A section costs its frame and its items or its placeholder.     *)
(***************************************************************************)
EXTENDS OrderedLists, SequencesExt

CONSTANTS
    Payloads,      \* what there may be: sequences of [type, source, text]
    Safe,          \* the text the guard leaves, normalised; Blank if nothing is
    Blank,
    SizeOf,        \* the characters of a text
    Exchanges,     \* characters of the mandatory sections: exchange and goal
    Furthers,      \* the sections after the evidence: none for an evaluation, else
                   \* sequences of [sizes, placeholder], 0 for no placeholder
    Budget, Frame, RefSize, NoteSize

Types == {"profile", "project", "resume", "jd"}
Offered == UNION {ToSet(p) : p \in Payloads}
Parts == UNION {ToSet(f) : f \in Furthers}

ASSUME ContextAssumption ==
    /\ Payloads \subseteq Seq(Offered)
    /\ \A item \in Offered : item.type \in Types /\ SizeOf[Safe[item.text]] \in Nat
    /\ Exchanges \subseteq Nat
    /\ Furthers \subseteq Seq(Parts)
    /\ \A part \in Parts : part.sizes \in Seq(Nat) /\ part.placeholder \in Nat
    /\ {Budget, Frame, RefSize, NoteSize} \subseteq Nat \ {0}

IsUsers(item) == item.type # "jd"

VARIABLES
    given,      \* the evidence of the request: profile, project, resume, jd
    mandatory,  \* characters of the mandatory sections
    further,    \* the sections after the evidence
    sections,   \* those added so far: [size, forced]
    shown,      \* the items that went into each that was tried, by position
    omitted,    \* omitted_items
    attempt,    \* of the model, 1 and 2
    result      \* status, and the sources an accepted answer cites

contextVars == <<given, mandatory, further, sections, shown, omitted, attempt, result>>

NoResult == [status |-> "none", sources |-> {}]

-----------------------------------------------------------------------------
(* The evidence: _deduplicate_evidence.                                    *)

\* A user's item is never dropped for a job requirement of the same words.
Same(i, j) ==
    /\ Safe[given[i].text] = Safe[given[j].text]
    /\ IsUsers(given[i]) <=> IsUsers(given[j])
IsKept(i) == Safe[given[i].text] # Blank /\ \A j \in 1..(i - 1) : ~Same(i, j)

Number(i) == Cardinality({j \in 1..i : IsKept(j) /\ given[j].type = given[i].type})
Ref(i) == <<given[i].type, Number(i)>>
InBudget == {i \in DOMAIN given : IsKept(i)}

\* reference_map.
SourceOf(ref) ==
    IF \E i \in InBudget : Ref(i) = ref
    THEN given[CHOOSE i \in InBudget : Ref(i) = ref].source
    ELSE ref

UserItems == Ascending({i \in InBudget : IsUsers(given[i])})
JobItems == Ascending({i \in InBudget : ~IsUsers(given[i])})

-----------------------------------------------------------------------------
(* The budget: _BudgetedSections.                                          *)

\* _serialized_length, which measures the payload with truncated and
\* omitted_items at their first values; build writes their last ones and
\* mandatory_over_budget besides, characters that no check counts.
Length == mandatory + Total([k \in DOMAIN sections |-> Frame + sections[k].size])

\* Each item that still fits is kept, also after one that did not: the kept
\* positions and their characters.
FittingUnframed(sizes) ==                                   \* mutant of Fitting
    LET kept[k \in 0..Len(sizes)] ==
            IF k = 0 THEN [at |-> <<>>, size |-> 0]
            ELSE IF Length + kept[k - 1].size + sizes[k] > Budget THEN kept[k - 1]
            ELSE [at |-> Append(kept[k - 1].at, k), size |-> kept[k - 1].size + sizes[k]]
    IN  kept[Len(sizes)]
Fitting(sizes) ==
    LET kept[k \in 0..Len(sizes)] ==
            IF k = 0 THEN [at |-> <<>>, size |-> 0]
            ELSE IF Length + Frame + kept[k - 1].size + sizes[k] > Budget THEN kept[k - 1]
            ELSE [at |-> Append(kept[k - 1].at, k), size |-> kept[k - 1].size + sizes[k]]
    IN  kept[Len(sizes)]

\* add_items.  A placeholder (none: 0) stands for a section without items; one
\* that is preserved is added even beyond the budget if there were no items.
AddItems(items, sizes, placeholder, preserved) ==
    LET kept == Fitting(sizes)
        fits == Length + Frame + placeholder <= Budget
        forced == preserved /\ items = <<>>
    IN  /\ omitted' = omitted + Len(items) - Len(kept.at)
        /\ shown' = Append(shown, [k \in DOMAIN kept.at |-> items[kept.at[k]]])
        /\ sections' = sections \o
               IF kept.at # <<>>
               THEN <<[size |-> kept.size, forced |-> FALSE]>>
               ELSE IF placeholder > 0 /\ (fits \/ forced)
                    THEN <<[size |-> placeholder, forced |-> ~fits]>> ELSE <<>>
        /\ UNCHANGED <<given, mandatory, further, attempt, result>>

ItemSizes(items) == [k \in DOMAIN items |-> SizeOf[Safe[given[items[k]].text]]]

AddEvidence ==
    /\ shown = <<>>
    /\ AddItems(UserItems, ItemSizes(UserItems), NoteSize, TRUE)

\* confirmed_fact_refs: the references of the evidence that was kept.
AddRefs ==
    /\ Len(shown) = 1
    /\ AddItems([k \in DOMAIN shown[1] |-> Ref(shown[1][k])],
                [k \in DOMAIN shown[1] |-> RefSize], NoteSize, TRUE)

AddRequirements ==
    /\ Len(shown) = 2
    /\ AddItems(JobItems, ItemSizes(JobItems), NoteSize, TRUE)

\* Evaluation, asked questions, history and plan, by priority.
AddOptional ==
    /\ Len(shown) \in 3..(2 + Len(further))
    /\ LET s == further[Len(shown) - 2] IN
           AddItems([k \in DOMAIN s.sizes |-> k], s.sizes, s.placeholder, FALSE)

Built == Len(shown) = 3 + Len(further)
Truncated == omitted > 0 \/ Length > Budget

-----------------------------------------------------------------------------
(* The answer: invoke_structured with the validation of evaluate.          *)

UserSources == {given[i].source : i \in {j \in DOMAIN given : IsUsers(given[j])}}
AnySource == {given[i].source : i \in DOMAIN given}         \* mutant of Allowed
Allowed == UserSources
Citable == {Ref(i) : i \in InBudget} \union {given[i].source : i \in DOMAIN given}

Attempt(ok, sources) ==
    /\ Built /\ result = NoResult
    /\ IF ok THEN result' = [status |-> "accepted", sources |-> sources]
       ELSE IF attempt = 1 THEN UNCHANGED result
       ELSE result' = [NoResult EXCEPT !.status = "failed"]
    /\ attempt' = IF ok THEN attempt ELSE 2
    /\ UNCHANGED <<given, mandatory, further, sections, shown, omitted>>

\* An answer that has the structure asked for cites references or sources.
Answer(cites) ==
    LET sources == {SourceOf(c) : c \in cites}
    IN  Attempt(sources \subseteq Allowed, sources)

\* No structure, a failed call, suspicious text, or facts that were added.
Unusable == Attempt(FALSE, {})

-----------------------------------------------------------------------------
ContextInit ==
    /\ given \in Payloads
    /\ mandatory \in Exchanges
    /\ further \in Furthers
    /\ sections = <<>> /\ shown = <<>>
    /\ omitted = 0
    /\ attempt = 1
    /\ result = NoResult

ContextNext ==
    \/ AddEvidence \/ AddRefs \/ AddRequirements \/ AddOptional
    \/ \E cites \in SUBSET Citable : Answer(cites)
    \/ Unusable

ContextSpec == ContextInit /\ [][ContextNext]_contextVars

-----------------------------------------------------------------------------
(* Properties.                                                             *)

\* The characters of the placeholders that were added beyond the budget.
Beyond == Total([k \in DOMAIN sections |->
                     IF sections[k].forced THEN Frame + sections[k].size ELSE 0])

\* What the context says of itself is true: it calls itself complete only if
\* every item it was offered is in it, and it exceeds its budget only by what
\* is mandatory or by placeholders, never by an item of evidence or history.
ContextAccounts ==
    /\ Len(shown) >= 3 /\ ~Truncated =>
          \A i \in {j \in DOMAIN given : Safe[given[j].text] # Blank} :
              \E j \in ToSet(shown[IF IsUsers(given[i]) THEN 1 ELSE 3]) :
                  Safe[given[j].text] = Safe[given[i].text]
    /\ Length <= Larger(Budget, mandatory) + Beyond

\* What the agent may rely on as a fact is in front of it: a confirmed
\* reference is one of the evidence shown and stands for a source of the user,
\* and so does all that an accepted answer cites.
ConfirmedIsShown ==
    /\ Len(shown) >= 2 =>
          \A r \in ToSet(shown[2]) :
              /\ \E i \in ToSet(shown[1]) : Ref(i) = r
              /\ SourceOf(r) \in UserSources
    /\ result.sources \subseteq UserSources
=============================================================================
