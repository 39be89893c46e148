-------------------------- MODULE ResumeGeneration --------------------------
(***************************************************************************)
(* The generation of one resume project description by the attempts of its *)
(* background job.  The attempt reserves a unit under the job's key, asks  *)
(* the agent, commits the unit and then stores the description under the   *)
(* job's id, in transactions of their own.  A worker may die anywhere, and *)
(* a lease that lapses starts the next attempt beside a slow one.          *)
(***************************************************************************)
EXTENDS Integers

CONSTANTS MaxAttempts   \* BACKGROUND_JOB_MAX_ATTEMPTS

ASSUME GenerationAssumption == MaxAttempts \in Nat \ {0}

VARIABLES
    event,     \* the usage event: "none", "reserved", "released", "succeeded"
    aged,      \* its reservation is older than 30 minutes
    described,    \* a description with this source_job_id exists
    session,   \* the completed interview session exists
    at,        \* of each attempt: where it is
    jobOutcome,   \* of the job: "running", "succeeded", "failed"
    erased     \* history: the user deleted a description of this job

generationVars == <<event, aged, described, session, at, jobOutcome, erased>>

Attempts == 1..MaxAttempts
Running == {"begin", "generate", "settle", "refund", "store"}
Places == {"waiting", "done", "failed", "dead"} \union Running

Go(a, place) == at' = [at EXCEPT ![a] = place]
Latest(a) == a + 1 \in Attempts => at[a + 1] = "waiting"

\* claim_next_job, after a failure, a death or the lapse of the lease.
Start(a) ==
    /\ jobOutcome = "running" /\ at[a] = "waiting"
    /\ a > 1 => at[a - 1] # "waiting"
    /\ Go(a, "begin")
    /\ UNCHANGED <<event, aged, described, session, jobOutcome, erased>>

\* A description of an earlier attempt is returned; a session that is gone
\* refuses; an index or database that fails does as well.  reserve_usage has
\* released the reservation that is too old and takes it up anew.
Begin(a) ==
    /\ at[a] = "begin"
    /\ \/ /\ described /\ Go(a, "done") /\ UNCHANGED <<event, aged>>
       \/ /\ ~described /\ Go(a, "failed") /\ UNCHANGED <<event, aged>>
       \/ /\ ~described /\ session
          /\ event = "succeeded"
          /\ Go(a, "generate") /\ UNCHANGED <<event, aged>>
       \/ /\ ~described /\ session
          /\ event \in {"none", "released"} \/ (event = "reserved" /\ aged)
          /\ event' = "reserved" /\ aged' = FALSE
          /\ Go(a, "generate")
    /\ UNCHANGED <<described, session, jobOutcome, erased>>

Generate(a) ==
    /\ at[a] = "generate"
    /\ \/ Go(a, "settle")
       \/ Go(a, "refund")
    /\ UNCHANGED <<event, aged, described, session, jobOutcome, erased>>

\* release_usage knows the event, not who reserved it.
Refund(a) ==
    /\ at[a] = "refund"
    /\ event' = IF event = "reserved" THEN "released" ELSE event
    /\ aged' = (aged /\ event # "reserved")
    /\ Go(a, "failed")
    /\ UNCHANGED <<described, session, jobOutcome, erased>>

\* commit_usage raises if the event was released meanwhile.
SettlesAnyway(e) == TRUE                                    \* mutant of Settles
Settles(e) == e \in {"reserved", "succeeded"}

Settle(a) ==
    /\ at[a] = "settle"
    /\ IF Settles(event)
       THEN /\ event' = IF event = "reserved" THEN "succeeded" ELSE event
            /\ Go(a, "store")
       ELSE Go(a, "failed") /\ UNCHANGED event
    /\ aged' = (aged /\ event # "reserved")
    /\ UNCHANGED <<described, session, jobOutcome, erased>>

\* source_job_id is unique and the session a foreign key.
Store(a) ==
    /\ at[a] = "store"
    /\ \/ ~described /\ session /\ described' = TRUE /\ Go(a, "done")
       \/ Go(a, "failed") /\ UNCHANGED described
    /\ UNCHANGED <<event, aged, session, jobOutcome, erased>>

\* The latest attempt decides on the job; an older one has lost its lease.
Report(a) ==
    /\ Latest(a) /\ jobOutcome = "running"
    /\ \/ at[a] = "done" /\ jobOutcome' = "succeeded"
       \/ at[a] \in {"failed", "dead"} /\ a = MaxAttempts /\ jobOutcome' = "failed"
    /\ UNCHANGED <<event, aged, described, session, at, erased>>

Die(a) ==
    /\ at[a] \in Running
    /\ Go(a, "dead")
    /\ UNCHANGED <<event, aged, described, session, jobOutcome, erased>>

Age ==
    /\ event = "reserved" /\ ~aged
    /\ aged' = TRUE
    /\ UNCHANGED <<event, described, session, at, jobOutcome, erased>>

\* Another request of the user releases a reservation that is too old.
Expire ==
    /\ event = "reserved" /\ aged
    /\ event' = "released" /\ aged' = FALSE
    /\ UNCHANGED <<described, session, at, jobOutcome, erased>>

\* delete_resume_project_description.
Erase ==
    /\ described
    /\ described' = FALSE /\ erased' = TRUE
    /\ UNCHANGED <<event, aged, session, at, jobOutcome>>

DropSession ==
    /\ session
    /\ session' = FALSE
    /\ UNCHANGED <<event, aged, described, at, jobOutcome, erased>>

GenerationInit ==
    /\ event = "none" /\ aged = FALSE
    /\ described = FALSE /\ session = TRUE
    /\ at = [a \in Attempts |-> "waiting"]
    /\ jobOutcome = "running"
    /\ erased = FALSE

GenerationNext ==
    \/ Age \/ Expire \/ Erase \/ DropSession
    \/ \E a \in Attempts :
          \/ Start(a) \/ Begin(a) \/ Generate(a) \/ Refund(a)
          \/ Settle(a) \/ Store(a) \/ Report(a) \/ Die(a)

GenerationSpec == GenerationInit /\ [][GenerationNext]_generationVars

-----------------------------------------------------------------------------
GenerationTypeOK ==
    /\ event \in {"none", "reserved", "released", "succeeded"}
    /\ {aged, described, session, erased} \subseteq BOOLEAN
    /\ at \in [Attempts -> Places]
    /\ jobOutcome \in {"running", "succeeded", "failed"}

\* A description that is stored has been paid for, and so has the success of
\* its job, which leaves one that only the user can have removed: whatever
\* attempts overlap, give back each other's unit or die between two steps.
StoredIsCharged ==
    /\ described => event = "succeeded"
    /\ jobOutcome = "succeeded" => (described \/ erased) /\ event = "succeeded"
=============================================================================
