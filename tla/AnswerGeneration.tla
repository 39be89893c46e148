-------------------------- MODULE AnswerGeneration --------------------------
(***************************************************************************)
(* An answer from the user's knowledge: a chat question, a job analysis or *)
(* a question to the agent, as a request that pays for itself or as a      *)
(* background job, whose attempts may overlap and find the record of an    *)
(* earlier one under the job's id.                                         *)
(*                                                                         *)
(* The steps are the nodes of the agent's graph; chat and analysis take    *)
(* those of a fixed route.  What retrieval and the model return is any of  *)
(* what they may; EvidenceRetrieval is the retrieval.                      *)
(***************************************************************************)
EXTENDS Integers

CONSTANT MaxTries     \* bound: attempts of a job that get to work

ASSUME AnswerAssumption == MaxTries \in Nat \ {0}

VARIABLES
    call,        \* [service, mode, tracked]: tracked by a job
    place,       \* of each try: where it is
    found,       \* what each try has: [route, local, web]
    record,      \* the row of history_records: what its answer was made of
    returned,    \* used_web_search of each try's result
    unit,        \* usage event of a request: "none", "reserved", "released", "succeeded"
    forgotten    \* history: the user deleted the record

answerVars == <<call, place, found, record, returned, unit, forgotten>>

Tries == 1..MaxTries
Routes == {"local", "web", "hybrid"}
AtWork == {"begin", "route", "local", "web", "write", "keep", "charge", "giveBack"}
Found == [route : Routes \union {"none"}, local : BOOLEAN, web : {"none", "empty", "found"}]
Nothing == [route |-> "none", local |-> FALSE, web |-> "none"]

\* The modes of an analysis are those without and with use_web_search.
Calls == {c \in [service : {"chat", "analysis", "agent"}, mode : Routes \union {"auto"}, tracked : BOOLEAN] :
             /\ c.service = "chat" => c.mode = "local" /\ ~c.tracked
             /\ c.service = "analysis" => c.mode \in {"local", "hybrid"}}

\* The deprecated POST /agent/ask reserves nothing; a job's unit is the queue's.
Metered == ~call.tracked /\ call.service # "agent"

MoveTry(t, p) == place' = [place EXCEPT ![t] = p]
GiveUp(t) == MoveTry(t, IF Metered THEN "giveBack" ELSE "failed")
Gathered(t, f) == found' = [found EXCEPT ![t] = f]

UsedWeb(f) == f.route \in {"web", "hybrid"}

\* The first try, or another after the lease of the one before has lapsed.
BeginTry(t) ==
    /\ place[t] = "waiting"
    /\ t > 1 => call.tracked /\ place[t - 1] # "waiting"
    /\ MoveTry(t, "begin")
    /\ UNCHANGED <<call, found, record, returned, unit, forgotten>>

\* The record of an earlier try is returned; a request reserves its unit.
LookUpRecord(t) ==
    /\ place[t] = "begin"
    /\ IF call.tracked /\ record # Nothing
       THEN /\ returned' = [returned EXCEPT ![t] = UsedWeb(record)]
            /\ MoveTry(t, "done")
            /\ UNCHANGED unit
       ELSE /\ UNCHANGED returned
            /\ \/ /\ MoveTry(t, "route")
                  /\ unit' = IF Metered THEN "reserved" ELSE unit
               \/ Metered /\ MoveTry(t, "failed") /\ UNCHANGED unit
    /\ UNCHANGED <<call, found, record, forgotten>>

\* select_route_node: the model, or keywords if it fails, choose in mode auto.
ChooseRoute(t) ==
    /\ place[t] = "route"
    /\ \E r \in IF call.mode = "auto" THEN Routes ELSE {call.mode} :
          /\ Gathered(t, [Nothing EXCEPT !.route = r])
          /\ MoveTry(t, IF r = "web" THEN "web" ELSE "local")
    /\ UNCHANGED <<call, record, returned, unit, forgotten>>

\* The agent goes on without evidence that does not suffice, the others stop.
Stops(outcome) == outcome = "error" \/ (outcome = "insufficient" /\ call.service # "agent")

RetrieveLocal(t) ==
    /\ place[t] = "local"
    /\ \E outcome \in {"error", "insufficient", "sufficient"} :
          IF Stops(outcome)
          THEN GiveUp(t) /\ UNCHANGED found
          ELSE /\ Gathered(t, [found[t] EXCEPT !.local = outcome = "sufficient"])
               /\ MoveTry(t, IF found[t].route = "hybrid" THEN "web" ELSE "write")
    /\ UNCHANGED <<call, record, returned, unit, forgotten>>

WebOutcomes == {"error", "empty", "found"}     \* of search_web

SearchWeb(t) ==
    /\ place[t] = "web"
    /\ \E outcome \in WebOutcomes :
          IF outcome = "error" THEN GiveUp(t) /\ UNCHANGED found
          ELSE Gathered(t, [found[t] EXCEPT !.web = outcome]) /\ MoveTry(t, "write")
    /\ UNCHANGED <<call, record, returned, unit, forgotten>>

\* generate_answer_node refuses to answer from nothing; the model may fail.
WriteAnswer(t) ==
    /\ place[t] = "write"
    /\ \/ (found[t].local \/ found[t].web = "found") /\ MoveTry(t, "keep")
       \/ GiveUp(t)
    /\ UNCHANGED <<call, found, record, returned, unit, forgotten>>

\* record_id is unique: the slower of two tries fails, and the job's next
\* attempt returns the record of the faster.  A request's id is fresh.
AlwaysFresh == TRUE                                         \* mutant of Insertable
Insertable == record = Nothing

KeepAnswer(t) ==
    /\ place[t] = "keep"
    /\ IF Insertable
       THEN /\ record' = found[t]
            /\ returned' = [returned EXCEPT ![t] = UsedWeb(found[t])]
            /\ MoveTry(t, IF Metered THEN "charge" ELSE "done")
       ELSE GiveUp(t) /\ UNCHANGED <<record, returned>>
    /\ UNCHANGED <<call, found, unit, forgotten>>

\* commit_usage raises if the reservation has timed out: the answer is kept.
ChargeAnswer(t) ==
    /\ place[t] = "charge"
    /\ IF unit = "reserved" THEN unit' = "succeeded" /\ MoveTry(t, "done")
       ELSE UNCHANGED unit /\ MoveTry(t, "failed")
    /\ UNCHANGED <<call, found, record, returned, forgotten>>

GiveBack(t) ==
    /\ place[t] = "giveBack"
    /\ unit' = IF unit = "reserved" THEN "released" ELSE unit
    /\ MoveTry(t, "failed")
    /\ UNCHANGED <<call, found, record, returned, forgotten>>

DieTrying(t) ==
    /\ place[t] \in AtWork
    /\ MoveTry(t, "dead")
    /\ UNCHANGED <<call, found, record, returned, unit, forgotten>>

\* Another request of the user releases a reservation that is too old.
TimeOut ==
    /\ unit = "reserved"
    /\ unit' = "released"
    /\ UNCHANGED <<call, place, found, record, returned, forgotten>>

\* DELETE /history/{record_id}.
Forget ==
    /\ record # Nothing
    /\ record' = Nothing /\ forgotten' = TRUE
    /\ UNCHANGED <<call, place, found, returned, unit>>

AnswerInit ==
    /\ call \in Calls
    /\ place = [t \in Tries |-> "waiting"]
    /\ found = [t \in Tries |-> Nothing]
    /\ record = Nothing
    /\ returned = [t \in Tries |-> FALSE]
    /\ unit = "none"
    /\ forgotten = FALSE

AnswerNext ==
    \/ TimeOut \/ Forget
    \/ \E t \in Tries :
          \/ BeginTry(t) \/ LookUpRecord(t) \/ ChooseRoute(t) \/ RetrieveLocal(t) \/ SearchWeb(t)
          \/ WriteAnswer(t) \/ KeepAnswer(t) \/ ChargeAnswer(t) \/ GiveBack(t) \/ DieTrying(t)

AnswerSpec == AnswerInit /\ [][AnswerNext]_answerVars

-----------------------------------------------------------------------------
AnswerTypeOK ==
    /\ call \in Calls
    /\ place \in [Tries -> {"waiting", "done", "failed", "dead"} \union AtWork]
    /\ found \in [Tries -> Found] /\ record \in Found
    /\ returned \in [Tries -> BOOLEAN]
    /\ unit \in {"none", "reserved", "released", "succeeded"}
    /\ forgotten \in BOOLEAN

\* Whatever tries of a job overlap, fail or die, there is one answer: all that
\* end well return the record that is kept, which was made from sufficient
\* evidence or, the agent's, from what the web gave, and says whether it
\* searched the web; and a request is charged only for an answer it has kept.
AnsweredOnce ==
    /\ record # Nothing =>
          /\ record.local \/ (call.service = "agent" /\ record.web = "found")
          /\ UsedWeb(record) <=> record.web # "none"
    /\ \A t \in Tries : place[t] = "done" /\ ~forgotten =>
          record # Nothing /\ returned[t] = UsedWeb(record)
    /\ unit = "succeeded" => record # Nothing \/ forgotten
=============================================================================
