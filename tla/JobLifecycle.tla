---------------------------- MODULE JobLifecycle ----------------------------
(***************************************************************************)
(* The life of a background job as its clients are promised it: the state  *)
(* machine drawn in docs/BACKGROUND_JOBS.md and tabulated by               *)
(* LEGAL_TRANSITIONS in services/background_job_service.py.  A job is      *)
(* created queued, moves only along the table, and once terminal may only  *)
(* be purged with the job history.  BackgroundJobs is checked against this *)
(* specification.                                                          *)
(***************************************************************************)

CONSTANT Jobs

VARIABLE status   \* status[j]: column background_jobs.status, or its absence

Terminal == {"succeeded", "failed", "cancelled", "timed_out"}

\* "absent": the identifier has not been drawn yet; "deleted": the row was
\* removed by the history cleanup.  Identifiers are never drawn twice.
Statuses == {"absent", "queued", "retry_wait", "running", "cancel_requested",
             "deleted"} \union Terminal

\* The transition table of the service.
Legal == [s \in Statuses |->
            CASE s \in {"queued", "retry_wait"} -> {"running", "cancelled", "failed"}
              [] s = "running" -> {"succeeded", "failed", "cancel_requested",
                                   "timed_out", "retry_wait"}
              [] s = "cancel_requested" -> {"cancelled", "failed", "timed_out"}
              [] OTHER -> {}]

Init == status = [j \in Jobs |-> "absent"]

Create(j) ==
    /\ status[j] = "absent"
    /\ status' = [status EXCEPT ![j] = "queued"]

Move(j) ==
    \E s \in Legal[status[j]] : status' = [status EXCEPT ![j] = s]

\* One cleanup removes a set of terminal jobs in one statement.
Purge(S) ==
    /\ \A j \in S : status[j] \in Terminal
    /\ status' = [j \in Jobs |-> IF j \in S THEN "deleted" ELSE status[j]]

Next ==
    \/ \E j \in Jobs : Create(j)
    \/ \E j \in Jobs : Move(j)
    \/ \E S \in SUBSET Jobs : Purge(S)

Spec == Init /\ [][Next]_status
=============================================================================
