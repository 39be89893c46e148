---------------------------- MODULE MCCompanions ----------------------------
(* The smaller machines, which share no state, in one run: the part that   *)
(* moves is chosen in the first state, the others rest in a default one.   *)
EXTENDS MCRetrieval, MCInterviewAgents, RateLimit, MaintenanceLock, JobPolling,
        ResumeGeneration, TargetJobs, AnswerGeneration

VARIABLE part
allVars == <<part, retrievalVars, planningVars, contextVars, rateVars, lockVars,
             pollingVars, generationVars, targetVars, answerVars>>

TwoWorkers == {"w1", "w2"}
TwoConnections == [p \in TwoWorkers |-> {<<p, 1>>, <<p, 2>>}]

RetrievalRests ==
    /\ store = <<>> /\ rows = {} /\ routes = <<>> /\ copy = {}
    /\ ask = [kind |-> "agent", question |-> Words, topK |-> 1, selected |-> {},
              deep |-> FALSE, turns |-> {}]
    /\ phase = "rows" /\ answer = NoAnswer /\ recalled = {} /\ changes = 0
ContextRests ==
    /\ given = <<>> /\ mandatory = 4 /\ further = <<>> /\ sections = <<>> /\ shown = <<>>
    /\ omitted = 0 /\ attempt = 1 /\ result = NoResult

AnswerRests == AnswerInit /\ call = [service |-> "chat", mode |-> "local", tracked |-> FALSE]

CompanionsInit ==
    /\ part \in {"retrieval", "planning", "context", "rate", "lock", "polling", "generation",
              "targets", "answer"}
    /\ IF part = "retrieval" THEN RetrievalInit ELSE RetrievalRests
    /\ IF part = "context" THEN ContextInit ELSE ContextRests
    /\ PlanningInit /\ RateInit /\ LockInit /\ PollingInit /\ GenerationInit
    /\ TargetInit
    /\ IF part = "answer" THEN AnswerInit ELSE AnswerRests

RetrievalRuns == part = "retrieval" /\ RetrievalNext
PlanningRuns == part = "planning" /\ PlanningNext
ContextRuns == part = "context" /\ ContextNext
RateRuns == part = "rate" /\ RateNext
LockRuns == part = "lock" /\ LockNext
PollingRuns == part = "polling" /\ PollingNext
GenerationRuns == part = "generation" /\ GenerationNext

TargetsRun == part = "targets" /\ TargetNext
AnswerRuns == part = "answer" /\ AnswerNext

CompanionsNext ==
    /\ UNCHANGED part
    /\ RetrievalRuns \/ UNCHANGED retrievalVars
    /\ PlanningRuns \/ UNCHANGED planningVars
    /\ ContextRuns \/ UNCHANGED contextVars
    /\ RateRuns \/ UNCHANGED rateVars
    /\ LockRuns \/ UNCHANGED lockVars
    /\ PollingRuns \/ UNCHANGED pollingVars
    /\ GenerationRuns \/ UNCHANGED generationVars
    /\ TargetsRun \/ UNCHANGED targetVars
    /\ AnswerRuns \/ UNCHANGED answerVars

CompanionsSpec == CompanionsInit /\ [][CompanionsNext]_allVars
=============================================================================
