---------------------------- MODULE MCRetrieval ----------------------------
(* Two files of projects and resumes and one job description, a few texts  *)
(* on two subjects, and the kinds of question that are told apart.         *)
EXTENDS EvidenceRetrieval

Plain == [terms |-> {}, concepts |-> {}, projects |-> {}, cover |-> 0, exact |-> FALSE,
          numbers |-> TRUE, missing |-> FALSE, negates |-> FALSE, stuffed |-> FALSE,
          specific |-> TRUE, technical |-> TRUE, shared |-> FALSE]

SmallTextOf == [
    api |-> [Plain EXCEPT !.terms = {1, 2, 3}, !.concepts = {"rest_api", "words"}, !.cover = 40],
    apiToo |-> [Plain EXCEPT !.terms = {1, 2, 3, 4}, !.concepts = {"rest_api"}, !.cover = 20],
    quota |-> [Plain EXCEPT !.terms = {5, 6}, !.concepts = {"billing"}, !.cover = 10,
                            !.projects = {"o"}],
    unsaid |-> [Plain EXCEPT !.terms = {5, 7}, !.concepts = {"billing"}, !.cover = 10,
                             !.missing = TRUE],
    far |-> [Plain EXCEPT !.terms = {8}, !.cover = 60]]

SmallDistanceOf == [
    api |-> [v \in 0..2 |-> 60],
    apiToo |-> [v \in 0..2 |-> 50 + 40 * v],
    quota |-> [v \in 0..2 |-> 105 - 30 * v],
    unsaid |-> [v \in 0..2 |-> 70],
    far |-> [v \in 0..2 |-> 120]]

SmallNameOf == [f \in 1..3 |-> [cover |-> IF f = 1 THEN 30 ELSE 0, technical |-> FALSE,
                                group |-> <<"p", "o", "jd">>[f]]]
SmallCategory == [f \in 1..3 |-> <<"project", "resume", "jd">>[f]]
SmallTextsOf == (<<1, 0>> :> {"api", "apiToo"}) @@ (<<1, 1>> :> {"apiToo", "quota"})
                @@ (<<2, 0>> :> {"quota", "unsaid", "api"}) @@ (<<3, 0>> :> {"far"})
SmallSources == DOMAIN SmallTextsOf
SmallEarlier == {{<<1, 1>>, <<2, 0>>}}

Words == [concepts |-> <<>>, clauses |-> <<{}>>, cues |-> {}, mentions |-> {},
          narrows |-> FALSE, process |-> FALSE, steps |-> FALSE, wordy |-> FALSE,
          existence |-> FALSE, experience |-> FALSE, technical |-> FALSE, resume |-> FALSE]
SmallQuestions == {
    Words,
    [Words EXCEPT !.concepts = <<"rest_api", "billing">>, !.cues = {"multi_part"},
                  !.clauses = <<{"rest_api"}, {"billing"}>>],
    [Words EXCEPT !.concepts = <<"rest_api", "billing">>, !.cues = {"comparison"},
                  !.clauses = <<{"rest_api", "billing"}>>, !.mentions = {"p", "o"},
                  !.resume = TRUE]}
=============================================================================
