----------------------------- MODULE FileStorage -----------------------------
(***************************************************************************)
(* The files of one user in three stores that share no transaction: rows   *)
(* and reservations in the database, uploads on disk, vectors in Chroma    *)
(* (services/upload_security.py, api/files.py, services/vector_store.py,   *)
(* data_retention_service.py, account_data_service.py, admin_service.py).  *)
(*                                                                         *)
(* A step is one commit, one change of the disk or of the index, or a read *)
(* that a later step uses.  Every file has size 1 and a batch the size of  *)
(* its number of files.  Left out: the checks of names, types and contents *)
(* (an upload is valid or fails), other users (rows, directories and       *)
(* vectors carry the user's identifier), the interview data that the same  *)
(* clean-ups delete, a commit whose outcome the client does not learn.     *)
(***************************************************************************)
EXTENDS Integers, FiniteSets

CONSTANTS
    Requests,         \* upload requests
    Workers,          \* threads that delete, clean up or rebuild
    Files,            \* file_id, a random UUID each
    Batch,            \* the files of a request
    Key,              \* its Idempotency-Key, or None
    ContentsOf,       \* content and category that it may carry
    None,
    MaxUnits,         \* max_user_storage_mb
    ReservationsHold  \* whether no upload is slower than its reservation of 15 minutes

Contents == UNION {ContentsOf[r] : r \in Requests}

ASSUME StorageAssumption ==
    /\ IsFiniteSet(Files)
    /\ Batch \in [Requests -> (SUBSET Files) \ {{}}]
    /\ \A r, s \in Requests : r # s => Batch[r] \intersect Batch[s] = {}
    /\ DOMAIN Key = Requests
    /\ \A r \in Requests : Key[r] # None => Cardinality(Batch[r]) = 1
    /\ DOMAIN ContentsOf = Requests
    /\ None \notin Contents
    /\ MaxUnits \in Nat
    /\ ReservationsHold \in BOOLEAN

VARIABLES
    account,     \* whether the row of users exists
    rows,        \* the rows of files
    status,      \* their status
    held,        \* the requests with a row of upload_reservations that has not expired
    parts,       \* the .part files on disk
    disk,        \* the files on disk under their final names
    vectors,     \* the files with vectors in the index
    req,         \* where each upload is, and what it remembers
    op,          \* the same of each worker
    doomed,      \* history: the files whose deletion has been begun
    lost,        \* history: the files on disk that nobody is left to remove
    unsettled    \* history: the last rebuild ended without storing its statuses

vars == <<account, rows, status, held, parts, disk, vectors, req, op,
          doomed, lost, unsettled>>

Statuses == {"uploaded", "indexed", "failed"}

Upload == [at : {"idle", "stage", "lookup", "lock", "count", "reserve", "move", "commit",
                 "clean", "release", "reread", "done"},
           content : Contents \union {None},
           used : Nat,             \* used_bytes
           conflict : BOOLEAN,     \* the commit raised IntegrityError, the upload has a key
           reply : SUBSET Files]   \* the records returned, none if it was refused

Operation == [at : {"idle", "vectors", "unlink", "rows", "wipe", "erase", "purge", "close",
                    "list", "read", "add", "save"},
              kind : {"delete", "cleanup", "own", "admin", "rebuild"},
              todo : SUBSET Files,
              item : SUBSET Files,   \* the file in hand, if any
              done : SUBSET Files,
              failed : SUBSET Files,
              loaded : [Files -> Statuses]]

Idle == [at |-> "idle", kind |-> "delete", todo |-> {}, item |-> {}, done |-> {},
         failed |-> {}, loaded |-> [f \in Files |-> "uploaded"]]

Owner(f) == CHOOSE r \in Requests : f \in Batch[r]

\* The rows that the unique index on (user_id, upload_idempotency_key_hash) finds for a key.
Stored(k) == {f \in rows : Key[Owner(f)] = k /\ k # None}

\* The files that reservations hold space for.
Reserved == UNION {Batch[r] : r \in held}

\* The row of users is locked FOR UPDATE from the lock to the end of the reservation.
UserLocked == \E r \in Requests : req[r].at \in {"count", "reserve"}

Init ==
    /\ account = TRUE
    /\ rows = {}
    /\ status = [f \in Files |-> "uploaded"]
    /\ held = {}
    /\ parts = {}
    /\ disk = {}
    /\ vectors = {}
    /\ req = [r \in Requests |->
                [at |-> "idle", content |-> None, used |-> 0, conflict |-> FALSE, reply |-> {}]]
    /\ op = [w \in Workers |-> Idle]
    /\ doomed = {}
    /\ lost = {}
    /\ unsettled = FALSE

------------------------------------------------------------------------------
(* upload_file.                                                            *)

Become(r, l) == req' = [req EXCEPT ![r] = l]
MoveTo(r, place) == Become(r, [req[r] EXCEPT !.at = place])

\* stage_upload writes one file of the request after the other.
Stage(r) == \E f \in Batch[r] \ parts, c \in ContentsOf[r] :
    /\ req[r].at \in {"idle", "stage"}
    /\ req[r].content \in {None, c}
    /\ parts' = parts \union {f}
    /\ Become(r, [req[r] EXCEPT !.content = c,
                          !.at = IF ~(Batch[r] \subseteq parts') THEN "stage"
                                    ELSE IF Key[r] = None THEN "lock" ELSE "lookup"])
    /\ UNCHANGED <<account, rows, status, held, disk, vectors, op, doomed, lost,
                   unsettled>>

\* A plausible bug: content_sha256 and category are not compared.
AnswerAnyContent(r) == Stored(Key[r])

\* The record found for a key is the answer if content and category are the same.
Answer(r) == {f \in Stored(Key[r]) : req[Owner(f)].content = req[r].content}

\* The lookup by key; another content is a conflict.
LookUp(r) ==
    /\ req[r].at = "lookup"
    /\ IF Stored(Key[r]) = {}
       THEN MoveTo(r, "lock")
       ELSE Become(r, [req[r] EXCEPT !.at = "clean", !.reply = Answer(r)])
    /\ UNCHANGED <<account, rows, status, held, parts, disk, vectors, op, doomed, lost,
                   unsettled>>

\* reserve_user_storage: the user's row is locked; one() raises when it is gone.
LockUser(r) ==
    /\ req[r].at = "lock"
    /\ ~UserLocked
    /\ MoveTo(r, IF account THEN "count" ELSE "clean")
    /\ UNCHANGED <<account, rows, status, held, parts, disk, vectors, op, doomed, lost,
                   unsettled>>

\* The rows are added up.  Expired reservations, which count nowhere, are deleted before.
CountUsed(r) ==
    /\ req[r].at = "count"
    /\ Become(r, [req[r] EXCEPT !.used = Cardinality(rows), !.at = "reserve"])
    /\ UNCHANGED <<account, rows, status, held, parts, disk, vectors, op, doomed, lost, unsettled>>

\* A plausible bug: reservations are forgotten.
FitsRows(r) == req[r].used + Cardinality(Batch[r]) <= MaxUnits

Fits(r) == req[r].used + Cardinality(Reserved) + Cardinality(Batch[r]) <= MaxUnits

\* The reservations are added up in a query of their own; insert and commit, or rollback.
Reserve(r) ==
    /\ req[r].at = "reserve"
    /\ held' = IF Fits(r) THEN held \union {r} ELSE held
    /\ Become(r, [req[r] EXCEPT !.at = IF Fits(r) THEN "move" ELSE "clean", !.used = 0])
    /\ UNCHANGED <<account, rows, status, parts, disk, vectors, op, doomed, lost, unsettled>>

\* move_staged_upload, one file after the other.
Move(r) == \E f \in Batch[r] \intersect parts :
    /\ req[r].at = "move"
    /\ parts' = parts \ {f}
    /\ disk' = disk \union {f}
    /\ MoveTo(r, IF Batch[r] \intersect parts' = {} THEN "commit" ELSE "move")
    /\ UNCHANGED <<account, rows, status, held, vectors, op, doomed, lost, unsettled>>

\* The INSERT takes a share lock on the user's row, which its foreign key refers to, and so
\* waits for a reservation in progress.
MayInsert(r) == ~UserLocked

\* Rows and reservation change in one commit.  A key in use or a user who is gone violates a
\* constraint.
Commit(r) ==
    /\ req[r].at = "commit"
    /\ MayInsert(r)
    /\ IF account /\ Stored(Key[r]) = {}
       THEN /\ rows' = rows \union Batch[r]
            /\ held' = held \ {r}
            /\ Become(r, [req[r] EXCEPT !.at = "done", !.reply = Batch[r]])
       ELSE /\ Become(r, [req[r] EXCEPT !.at = "clean", !.conflict = Key[r] # None])
            /\ UNCHANGED <<rows, held>>
    /\ UNCHANGED <<account, status, parts, disk, vectors, op, doomed, lost, unsettled>>

\* Whatever raises on the way (an invalid file, the disk, the database) is handled alike.
UploadFails(r) ==
    /\ req[r].at \in {"stage", "lookup", "lock", "count", "reserve", "move", "commit"}
    /\ Become(r, [req[r] EXCEPT !.at = "clean", !.used = 0])
    /\ UNCHANGED <<account, rows, status, held, parts, disk, vectors, op, doomed, lost,
                   unsettled>>

\* Plausible bugs: only temporary files are removed, or the file of the record found as well.
StagedParts(r) == Batch[r] \ disk
StagedOrFound(r) == Batch[r] \union Stored(Key[r])

\* staged_files, the files an upload cleans up.
Staged(r) == Batch[r]

\* _cleanup_staged_files removes both names of every file; safe_unlink ignores errors.
Clean(r) == \E kept \in SUBSET (Batch[r] \intersect (parts \union disk)) :
    /\ req[r].at = "clean"
    /\ parts' = parts \ (Staged(r) \ kept)
    /\ disk' = disk \ (Staged(r) \ kept)
    /\ lost' = lost \union kept
    /\ MoveTo(r, "release")
    /\ UNCHANGED <<account, rows, status, held, vectors, op, doomed, unsettled>>

\* release_storage_reservation ignores errors, too.
Release(r) == \E released \in {{r}, {}} :
    /\ req[r].at = "release"
    /\ held' = held \ released
    /\ Become(r, [req[r] EXCEPT !.at = IF req[r].conflict THEN "reread" ELSE "done",
                          !.conflict = FALSE])
    /\ UNCHANGED <<account, rows, status, parts, disk, vectors, op, doomed, lost, unsettled>>

\* The loser of a race for a key answers with the winner's record.
Reread(r) ==
    /\ req[r].at = "reread"
    /\ Become(r, [req[r] EXCEPT !.at = "done", !.reply = Answer(r)])
    /\ UNCHANGED <<account, rows, status, held, parts, disk, vectors, op, doomed, lost,
                   unsettled>>

\* 15 minutes pass.
Expire(r) ==
    /\ r \in held
    /\ ReservationsHold => req[r].at \notin {"move", "commit"}
    /\ held' = held \ {r}
    /\ UNCHANGED <<account, rows, status, parts, disk, vectors, req, op, doomed, lost,
                   unsettled>>

UploadStep(r) ==
    \/ Stage(r) \/ LookUp(r) \/ LockUser(r) \/ CountUsed(r) \/ Reserve(r) \/ Move(r)
    \/ Commit(r) \/ UploadFails(r) \/ Clean(r) \/ Release(r) \/ Reread(r)

------------------------------------------------------------------------------
(* delete_file, and cleanup_expired_data, which treats each of a set of old *)
(* files alike and deletes their rows in one commit.                        *)

Uploads == <<account, held, parts, req>>

SetTo(w, l) == op' = [op EXCEPT ![w] = l]
Go(w, place) == SetTo(w, [op[w] EXCEPT !.at = place])
Finish(w) == SetTo(w, Idle)

BeginDelete(w) == \E old \in (SUBSET rows) \ {{}} :
    /\ op[w].at = "idle"
    /\ SetTo(w, [op[w] EXCEPT !.at = "vectors", !.todo = old])
    /\ doomed' = doomed \union old
    /\ UNCHANGED <<rows, status, disk, vectors, lost, unsettled, Uploads>>

DropVectors(w) == \E f \in op[w].todo :
    /\ op[w].at = "vectors"
    /\ vectors' = vectors \ {f}
    /\ SetTo(w, [op[w] EXCEPT !.at = "unlink", !.todo = @ \ {f}, !.item = {f}])
    /\ UNCHANGED <<rows, status, disk, doomed, lost, unsettled, Uploads>>

NextFile(w) == IF op[w].todo = {} THEN "rows" ELSE "vectors"

Unlink(w) ==
    /\ op[w].at = "unlink"
    /\ disk' = disk \ op[w].item
    /\ SetTo(w, [op[w] EXCEPT !.at = NextFile(w), !.done = @ \union op[w].item, !.item = {}])
    /\ UNCHANGED <<rows, status, vectors, doomed, lost, unsettled, Uploads>>

\* A file whose vectors or whose name cannot be deleted keeps its row.
DeletionFails(w) ==
    \/ /\ op[w].at = "unlink"
       /\ SetTo(w, [op[w] EXCEPT !.at = NextFile(w), !.item = {}])
       /\ UNCHANGED <<rows, status, disk, vectors, doomed, lost, unsettled, Uploads>>
    \/ \E f \in op[w].todo :
       /\ op[w].at = "vectors"
       /\ SetTo(w, [op[w] EXCEPT !.at = IF op[w].todo = {f} THEN "rows" ELSE "vectors",
                           !.todo = @ \ {f}])
       /\ UNCHANGED <<rows, status, disk, vectors, doomed, lost, unsettled, Uploads>>

\* The commit, which may fail.
RemoveRows(w) == \E removed \in {op[w].done, {}} :
    /\ op[w].at = "rows"
    /\ rows' = rows \ removed
    /\ Finish(w)
    /\ UNCHANGED <<status, disk, vectors, doomed, lost, unsettled, Uploads>>

------------------------------------------------------------------------------
(* cleanup_user_business_data ("cleanup"), delete_own_account, which goes on *)
(* to delete the user ("own"), and delete_user_and_data ("admin").           *)

BeginCleanup(w) == \E kind \in {"cleanup", "own", "admin"} :
    /\ op[w].at = "idle"
    /\ account
    /\ SetTo(w, [op[w] EXCEPT !.at = "wipe", !.kind = kind, !.todo = rows])
    /\ doomed' = doomed \union rows
    /\ UNCHANGED <<rows, status, disk, vectors, lost, unsettled, Uploads>>

\* delete_user_vectors; when it fails nothing else is touched.
WipeVectors(w) ==
    /\ op[w].at = "wipe"
    /\ \/ vectors' = {} /\ Go(w, "erase")
       \/ UNCHANGED vectors /\ Finish(w)
    /\ UNCHANGED <<rows, status, disk, doomed, lost, unsettled, Uploads>>

\* The files listed at the beginning are removed; one that cannot be stops the clean-up.
EraseFiles(w) == \E kept \in SUBSET (op[w].todo \intersect disk) :
    /\ op[w].at = "erase"
    /\ disk' = disk \ (op[w].todo \ kept)
    /\ IF kept # {} THEN Finish(w)
       ELSE Go(w, IF op[w].kind = "admin" THEN "close" ELSE "purge")
    /\ UNCHANGED <<rows, status, vectors, doomed, lost, unsettled, Uploads>>

\* The rows whose user_id it is are deleted, listed or not.
Purge(w) ==
    /\ op[w].at = "purge"
    /\ rows' = {}
    /\ doomed' = doomed \union rows
    /\ lost' = lost \union (rows \intersect disk)
    /\ IF op[w].kind = "own" THEN Go(w, "close") ELSE Finish(w)
    /\ UNCHANGED <<status, disk, vectors, unsettled, Uploads>>

\* The row of users is deleted, and with it, by cascade, files and reservations.
CloseAccount(w) ==
    /\ op[w].at = "close"
    /\ ~UserLocked
    /\ account' = FALSE
    /\ rows' = {}
    /\ held' = {}
    /\ doomed' = doomed \union rows
    /\ lost' = lost \union (rows \intersect disk)
    /\ Finish(w)
    /\ UNCHANGED <<status, parts, disk, vectors, req, unsettled>>

\* The transaction of Purge or CloseAccount fails.
RemovalFails(w) ==
    /\ op[w].at \in {"purge", "close"}
    /\ Finish(w)
    /\ UNCHANGED <<rows, status, disk, vectors, doomed, lost, unsettled, Uploads>>

------------------------------------------------------------------------------
(* rebuild_vector_store, by a knowledge_rebuild job.                        *)

\* The user's vectors are deleted first.
BeginRebuild(w) ==
    /\ op[w].at = "idle"
    /\ account
    /\ vectors' = {}
    /\ SetTo(w, [op[w] EXCEPT !.at = "list", !.kind = "rebuild"])
    /\ UNCHANGED <<rows, status, disk, doomed, lost, unsettled, Uploads>>

\* The rows are loaded, with their statuses.
ListFiles(w) ==
    /\ op[w].at = "list"
    /\ IF rows = {}
       THEN Finish(w)
       ELSE SetTo(w, [op[w] EXCEPT !.at = "read", !.todo = rows, !.loaded = status])
    /\ unsettled' = (unsettled /\ rows # {})
    /\ UNCHANGED <<rows, status, disk, vectors, doomed, lost, Uploads>>

NextRead(w) == IF op[w].todo = {} THEN "save" ELSE "read"

\* load_document_text needs the file.
ReadFile(w) == \E f \in op[w].todo \intersect disk :
    /\ op[w].at = "read"
    /\ SetTo(w, [op[w] EXCEPT !.at = "add", !.todo = @ \ {f}, !.item = {f}])
    /\ UNCHANGED <<rows, status, disk, vectors, doomed, lost, unsettled, Uploads>>

\* collection.add, which leaves vectors with the same identifiers as they are.
AddVectors(w) == \E f \in op[w].item :
    /\ op[w].at = "add"
    /\ vectors' = vectors \union {f}
    /\ SetTo(w, [op[w] EXCEPT !.at = NextRead(w), !.item = {}, !.done = @ \union {f}])
    /\ UNCHANGED <<rows, status, disk, doomed, lost, unsettled, Uploads>>

\* Reading, splitting, embedding or adding fails: the file is marked and the next one taken.
IndexingFails(w) ==
    \/ \E f \in op[w].item :
       /\ op[w].at = "add"
       /\ SetTo(w, [op[w] EXCEPT !.at = NextRead(w), !.item = {}, !.failed = @ \union {f}])
       /\ UNCHANGED <<rows, status, disk, vectors, doomed, lost, unsettled, Uploads>>
    \/ \E f \in op[w].todo :
       /\ op[w].at = "read"
       /\ SetTo(w, [op[w] EXCEPT !.at = IF op[w].todo = {f} THEN "save" ELSE "read",
                           !.todo = @ \ {f}, !.failed = @ \union {f}])
       /\ UNCHANGED <<rows, status, disk, vectors, doomed, lost, unsettled, Uploads>>

\* A plausible bug: a file that cannot be indexed is not marked.
AlwaysIndexed(w, f) == "indexed"

Outcome(w, f) == IF f \in op[w].failed THEN "failed" ELSE "indexed"

Changed(w) == {f \in op[w].done \union op[w].failed : Outcome(w, f) # op[w].loaded[f]}

\* The flush updates the rows whose status changed.  Whether one that is gone raises depends
\* on the driver's row counts: here it is passed over.
SaveStatuses(w) ==
    /\ op[w].at = "save"
    /\ status' = [f \in Files |-> IF f \in Changed(w) THEN Outcome(w, f) ELSE status[f]]
    /\ unsettled' = FALSE
    /\ Finish(w)
    /\ UNCHANGED <<rows, disk, vectors, doomed, lost, Uploads>>

\* The commit fails, as it may when a row to update is gone (StaleDataError); so does the
\* rebuild when the rows or the embedding model cannot be loaded.
RebuildFails(w) ==
    /\ op[w].at \in {"list", "save"}
    /\ unsettled' = TRUE
    /\ Finish(w)
    /\ UNCHANGED <<rows, status, disk, vectors, doomed, lost, Uploads>>

WorkerStep(w) ==
    \/ BeginDelete(w) \/ DropVectors(w) \/ Unlink(w) \/ DeletionFails(w) \/ RemoveRows(w)
    \/ BeginCleanup(w) \/ WipeVectors(w) \/ EraseFiles(w) \/ Purge(w) \/ CloseAccount(w)
    \/ RemovalFails(w) \/ BeginRebuild(w) \/ ListFiles(w) \/ ReadFile(w) \/ AddVectors(w)
    \/ IndexingFails(w) \/ SaveStatuses(w) \/ RebuildFails(w)

------------------------------------------------------------------------------
(* A process dies.  Nothing takes up what an upload, a deletion or a rebuild *)
(* has left.                                                                 *)

UploadDies(r) ==
    /\ req[r].at \notin {"idle", "done"}
    /\ Become(r, [req[r] EXCEPT !.at = "done", !.used = 0, !.conflict = FALSE,
                          !.reply = {}])
    /\ lost' = lost \union (Batch[r] \intersect (parts \union disk))
    /\ UNCHANGED <<account, rows, status, held, parts, disk, vectors, op, doomed,
                   unsettled>>

WorkerDies(w) ==
    /\ op[w].at # "idle"
    /\ Finish(w)
    /\ unsettled' = (unsettled \/ op[w].kind = "rebuild")
    /\ UNCHANGED <<account, rows, status, held, parts, disk, vectors, req, doomed, lost>>

Next ==
    \/ \E r \in Requests : UploadStep(r) \/ Expire(r) \/ UploadDies(r)
    \/ \E w \in Workers : WorkerStep(w) \/ WorkerDies(w)

Spec == Init /\ [][Next]_vars

------------------------------------------------------------------------------
(* Invariants.                                                             *)

TypeOK ==
    /\ account \in BOOLEAN
    /\ rows \subseteq Files
    /\ status \in [Files -> Statuses]
    /\ held \subseteq Requests
    /\ parts \subseteq Files
    /\ disk \subseteq Files
    /\ vectors \subseteq Files
    /\ req \in [Requests -> Upload]
    /\ op \in [Workers -> Operation]
    /\ doomed \subseteq Files
    /\ lost \subseteq Files
    /\ unsettled \in BOOLEAN

\* Rows and unexpired reservations never exceed the user's space, whichever uploads race and
\* whatever dies: no upload can overlook another's reservation on its way to becoming a row
\* (reserve_user_storage, upload_file).
WithinStorage == Cardinality(rows) + Cardinality(Reserved) <= MaxUnits

\* A file on disk has a row, or an upload that will still store it or remove it, unless the
\* process died, the removal failed, or a clean-up deleted the row of a file it had not listed
\* (upload_file's compensation, delete_file).
NoOrphan == \A f \in (parts \union disk) \ (rows \union lost) :
    \E r \in Requests : f \in Batch[r] /\ req[r].at \notin {"idle", "release", "reread", "done"}

\* A row has its file under the final name until somebody begins to delete it: an upload that
\* loses a race or fails only removes files of its own (_cleanup_staged_files).
RowKeepsFile == rows \ disk \subseteq doomed

\* Two accepted uploads with one key carry the same content and are answered with the same
\* record, whichever stores it, as long as nobody begins to delete it (upload_file).
RetrySameFile == \A r, s \in Requests :
    /\ Key[r] = Key[s] /\ Key[r] # None
    /\ req[r].reply # {} /\ req[s].reply # {}
    /\ (req[r].reply \union req[s].reply) \intersect doomed = {}
    => req[r].reply = req[s].reply /\ req[r].content = req[s].content

\* After a rebuild that stored its statuses, a row that says indexed has vectors until somebody
\* begins to delete its file (rebuild_vector_store).  For one worker: rebuilds that overlap each
\* other or a deletion overwrite each other's vectors and statuses.
IndexedIsSearchable ==
    (~unsettled /\ \A w \in Workers : op[w].at = "idle" \/ op[w].kind # "rebuild")
    => \A f \in rows \ doomed : status[f] = "indexed" => f \in vectors

\* What an upload knows while others write the rows.
UploadInv(r) ==
    LET at == req[r].at
    IN  /\ Batch[r] \intersect rows # {} => at = "done"
        /\ at \in {"lookup", "lock", "count", "reserve"} => Batch[r] \subseteq parts
        /\ at = "move" => Batch[r] \subseteq parts \union disk
        /\ at = "commit" => Batch[r] \subseteq disk \ parts
        /\ ReservationsHold /\ account /\ at \in {"move", "commit"} => r \in held
        /\ at = "reserve" => Cardinality(rows) <= req[r].used
        /\ at \in {"idle", "stage", "lookup", "lock", "count", "reserve"} => r \notin held
        /\ at \notin {"clean", "release", "reread", "done"} => req[r].reply = {}

\* The record an upload with a key is answered with is the one stored for the key, and has its
\* content.
ReplyInv(r) ==
    req[r].reply # {} /\ Key[r] # None =>
        \E s \in Requests :
            /\ Key[s] = Key[r]
            /\ req[r].reply = Batch[s]
            /\ req[s].at = "done"
            /\ req[s].content = req[r].content
            /\ Batch[s] \subseteq rows \union doomed

\* What a worker is about to remove is stored and its deletion announced.
Ended(f) == \A r \in Requests : f \in Batch[r] => req[r].at = "done"

WorkerInv(w) ==
    /\ op[w].kind # "rebuild" =>
        \A f \in op[w].todo \union op[w].item \union op[w].done : f \in doomed /\ Ended(f)
    /\ op[w].kind # "rebuild" => op[w].done \intersect disk = {}
    /\ op[w].at = "idle" => op[w] = Idle
    /\ op[w].at \in {"list", "read", "add", "save"} <=> op[w].kind = "rebuild"

RowInv ==
    /\ rows \intersect parts = {}
    /\ rows \subseteq UNION {Batch[r] : r \in Requests}
    /\ \A r, s \in Requests :
        /\ req[r].at \in {"count", "reserve"} /\ req[s].at \in {"count", "reserve"} => r = s
        /\ Key[r] = Key[s] /\ Key[r] # None
           /\ Batch[r] \intersect rows # {} /\ Batch[s] \intersect rows # {} => r = s
    /\ ReservationsHold => WithinStorage

\* The inductive invariant.
IInv ==
    /\ TypeOK
    /\ RowInv
    /\ NoOrphan
    /\ RowKeepsFile
    /\ \A r \in Requests : UploadInv(r) /\ ReplyInv(r)
    /\ \A w \in Workers : WorkerInv(w)
=============================================================================
