------------------------- MODULE MCInterviewAgents -------------------------
(* Three intents with two ready questions each, and a model that writes    *)
(* some that resemble one of them, both of an intent, or one of an intent  *)
(* they do not mention; evidence of a few types with texts of two lengths  *)
(* that the guard shortens, rewrites or empties.                           *)
EXTENDS QuestionPlanning, InterviewContext

SmallIntents == {"background", "decision", "result"}
SmallMain == <<"background", "result", "decision">>
SmallFollowUp == <<"decision", "result", "background">>
SmallPool == [i \in SmallIntents |-> CASE i = "background" -> <<"b1", "b2">>
                                       [] i = "decision" -> <<"d1", "d2">>
                                       [] i = "result" -> <<"r1", "r2">>]
SmallPoolTexts == {"b1", "b2", "d1", "d2", "r1", "r2"}
SmallWritten == {"likeB", "bothB", "likeR", "strayR", "ownD", "ownD2", "mixed", "vague"}
SmallIntentsOf == [q \in SmallWritten \union SmallPoolTexts |->
    CASE q \in {"b1", "b2", "likeB", "bothB"} -> {"background"}
      [] q \in {"d1", "d2", "ownD", "ownD2", "strayR"} -> {"decision"}
      [] q \in {"r1", "likeR"} -> {"result"}
      [] q = "mixed" -> {"background", "result"}
      [] q \in {"r2", "vague"} -> {}]
SmallResembles == [q \in SmallWritten \union SmallPoolTexts |->
    CASE q = "b1" -> {"b1", "likeB", "bothB"}
      [] q = "b2" -> {"b2", "bothB"}
      [] q = "likeB" -> {"b1", "likeB"}
      [] q = "bothB" -> {"b1", "b2", "bothB"}
      [] q = "r1" -> {"r1", "likeR", "strayR"}
      [] q = "likeR" -> {"r1", "likeR"}
      [] q = "strayR" -> {"r1", "strayR"}
      [] q \in {"ownD", "ownD2"} -> {"ownD", "ownD2"}
      [] OTHER -> {q}]

SmallTexts == {"short", "long", "shout", "unsafe"}
SmallSafe == [t \in SmallTexts |-> CASE t = "shout" -> "short" [] t = "unsafe" -> "blank" [] OTHER -> t]
SmallSizeOf == ("short" :> 2) @@ ("long" :> 5) @@ ("blank" :> 0)
E(type, n, text) == [type |-> type, source |-> <<"source", n>>, text |-> text]
SmallPayloads == {<<>>}
    \union {<<E("project", 1, t), E("jd", 2, u)>> : t, u \in SmallTexts}
    \union {<<E("project", 1, t), E("project", 2, u), E("resume", 3, "long"), E("jd", 4, u)>> : t, u \in SmallTexts}
SmallFurthers == {<<>>, <<[sizes |-> <<3>>, placeholder |-> 1], [sizes |-> <<4, 1>>, placeholder |-> 0],
                       [sizes |-> <<>>, placeholder |-> 1]>>}
=============================================================================
