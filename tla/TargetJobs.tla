----------------------------- MODULE TargetJobs -----------------------------
(***************************************************************************)
(* The target jobs of one user, of which a partial unique index lets one   *)
(* be active.  An activation reads its job, deactivates what is active by  *)
(* one UPDATE and marks the job in its copy; the commit writes the mark if *)
(* it changes the copy.                                                    *)
(*                                                                         *)
(* The UPDATE selects its rows when it begins and waits for the locks of   *)
(* others; a row that is no longer active then is passed over.  On SQLite  *)
(* Select and Deactivate follow at once.  Titles and texts, which updates  *)
(* change, are left out.                                                   *)
(***************************************************************************)
EXTENDS Integers, FiniteSets

CONSTANTS JobIds, NoId, Activators

ASSUME TargetAssumption == NoId \notin JobIds /\ IsFiniteSet(JobIds)

VARIABLES
    targetJobs,   \* by id: "absent", "idle", "active" as committed
    activation,   \* the requests that make a job the active one
    expected      \* history: a job was made active, and none of what may end that has come

targetVars == <<targetJobs, activation, expected>>

Activation == [pc : {"none", "select", "deactivate", "commit"},
               target : JobIds \union {NoId},   \* NoId: the job is yet to be created
               copied : BOOLEAN,                \* the copy says that it is active
               seen : SUBSET JobIds,            \* the rows the UPDATE selected
               mine : SUBSET JobIds]            \* those it deactivated, locked
NoActivation == [pc |-> "none", target |-> NoId, copied |-> FALSE, seen |-> {}, mine |-> {}]

Active == {i \in JobIds : targetJobs[i] = "active"}
LockedByOthers(p) == UNION {activation[q].mine : q \in Activators \ {p}}
Proceed(p, a) == activation' = [activation EXCEPT ![p] = a]

\* get_owned_job, or a creation with is_active.
BeginActivation(p, i) ==
    /\ activation[p].pc = "none"
    /\ i # NoId => targetJobs[i] # "absent"
    /\ Proceed(p, [NoActivation EXCEPT !.pc = "select", !.target = i, !.copied = i \in Active])
    /\ UNCHANGED <<targetJobs, expected>>

\* deactivate_current_job.
Select(p) ==
    /\ activation[p].pc = "select"
    /\ Proceed(p, [activation[p] EXCEPT !.pc = "deactivate", !.seen = Active])
    /\ UNCHANGED <<targetJobs, expected>>

Deactivate(p) ==
    /\ activation[p].pc = "deactivate"
    /\ activation[p].seen \intersect LockedByOthers(p) = {}
    /\ Proceed(p, [activation[p] EXCEPT !.pc = "commit", !.mine = activation[p].seen \intersect Active])
    /\ UNCHANGED <<targetJobs, expected>>

\* The mark changes the copy if that said otherwise, or the UPDATE reset it.
Marks(a) == ~a.copied \/ a.target \in a.mine

\* ux_target_jobs_active_user.
NeverCollides(a) == FALSE                                   \* mutant of Collides
Collides(a) == Marks(a) /\ Active \ (a.mine \union {a.target}) # {}

\* The INSERT or the UPDATE of the job, which waits for the locks it needs;
\* a job that was deleted meanwhile fails it.
Activate(p, i) ==
    LET a == activation[p]
    IN  /\ a.pc = "commit"
        /\ IF a.target = NoId THEN targetJobs[i] = "absent"
           ELSE i = a.target /\ targetJobs[i] # "absent"
        /\ ({i} \union Active) \intersect LockedByOthers(p) = {}
        /\ ~Collides(a)
        /\ targetJobs' = [j \in JobIds |->
               IF j = i /\ Marks(a) THEN "active"
               ELSE IF j \in a.mine THEN "idle" ELSE targetJobs[j]]
        /\ expected' = (Marks(a) \/ (expected /\ a.mine = {}))
        /\ Proceed(p, NoActivation)

\* Refused by the index, deleted meanwhile, a deadlock or a death.
Rollback(p) ==
    /\ activation[p].pc # "none"
    /\ Proceed(p, NoActivation)
    /\ UNCHANGED <<targetJobs, expected>>

CreateIdle(i) ==
    /\ targetJobs[i] = "absent"
    /\ targetJobs' = [targetJobs EXCEPT ![i] = "idle"]
    /\ UNCHANGED <<activation, expected>>

DeleteJob(i) ==
    /\ targetJobs[i] # "absent"
    /\ \A p \in Activators : i \notin activation[p].mine
    /\ targetJobs' = [targetJobs EXCEPT ![i] = "absent"]
    /\ expected' = (expected /\ i \notin Active)
    /\ UNCHANGED activation

TargetInit ==
    /\ targetJobs = [i \in JobIds |-> "absent"]
    /\ activation = [p \in Activators |-> NoActivation]
    /\ expected = FALSE

TargetNext ==
    \/ \E i \in JobIds : CreateIdle(i) \/ DeleteJob(i)
    \/ \E p \in Activators :
          \/ Select(p) \/ Deactivate(p) \/ Rollback(p)
          \/ \E i \in JobIds : Activate(p, i)
          \/ \E i \in JobIds \union {NoId} : BeginActivation(p, i)

TargetSpec == TargetInit /\ [][TargetNext]_targetVars

-----------------------------------------------------------------------------
TargetTypeOK ==
    /\ targetJobs \in [JobIds -> {"absent", "idle", "active"}]
    /\ activation \in [Activators -> Activation]
    /\ expected \in BOOLEAN

\* Activations that overlap never leave two active jobs, and they leave one:
\* once a job is active, some job stays so until the active one is deleted, or
\* until a request activates a job it has read as active when another one is by
\* then.  (Its copy hides the change: it deactivates the other and writes nothing.)
ActiveKept ==
    /\ Cardinality(Active) <= 1
    /\ expected => Active # {}
=============================================================================
