-------------------------- MODULE FileStorageProofs --------------------------
(***************************************************************************)
(* Proofs about FileStorage for any number of uploads, workers, files and  *)
(* keys, and any limit.  A worker only removes what is stored and has been *)
(* announced (Shrinks); an upload only changes files of its own batch      *)
(* (OwnStep).  Each kind of step keeps what it does not change, and what   *)
(* is left is shown action by action.                                      *)
(***************************************************************************)
EXTENDS FileStorage, FiniteSetTheorems, TLAPS

LEMMA OwnerIs ==
    ASSUME NEW r \in Requests, NEW f \in Batch[r]
    PROVE  Owner(f) = r
  BY StorageAssumption DEF Owner

LEMMA FilesFinite ==
    ASSUME NEW S \in SUBSET Files
    PROVE  IsFiniteSet(S) /\ Cardinality(S) \in Nat
  BY StorageAssumption, FS_Subset, FS_CardinalityType

LEMMA CardinalityMonotone ==
    ASSUME NEW S \in SUBSET Files, NEW T \in SUBSET S
    PROVE  Cardinality(T) <= Cardinality(S)
  BY FilesFinite, FS_Subset

LEMMA ReservedFiles ==
    ASSUME NEW H \in SUBSET Requests
    PROVE  UNION {Batch[r] : r \in H} \in SUBSET Files
  BY StorageAssumption

\* A step that removes rows, reservations and announced files, and changes no upload.
Shrinks ==
    /\ req' = req
    /\ parts' = parts
    /\ account' => account
    /\ rows' \subseteq rows
    /\ held' \subseteq held
    /\ \A r \in held \ held' :
          ReservationsHold /\ account' => req[r].at \notin {"move", "commit"}
    /\ disk' \subseteq disk
    /\ \A f \in disk \ disk' : f \in doomed /\ Ended(f)
    /\ doomed \subseteq doomed'
    /\ lost \subseteq lost'
    /\ \A f \in rows \ rows' : f \in doomed' /\ f \notin disk' \ lost'

LEMMA ShrinksPreserves ==
    ASSUME IInv, TypeOK', Shrinks
    PROVE  RowInv' /\ NoOrphan' /\ RowKeepsFile' /\ \A r \in Requests : UploadInv(r)' /\ ReplyInv(r)'
  <1>. USE DEF Shrinks
  <1>1. rows \in SUBSET Files /\ held \in SUBSET Requests
    BY DEF IInv, TypeOK
  <1>2. rows' \in SUBSET rows /\ held' \in SUBSET held
    OBVIOUS
  <1>3. Cardinality(rows') <= Cardinality(rows) /\ Cardinality(rows') \in Nat
        /\ Cardinality(rows) \in Nat
    BY <1>1, <1>2, CardinalityMonotone, FilesFinite
  <1>4. Cardinality(Reserved') <= Cardinality(Reserved) /\ Cardinality(Reserved') \in Nat
        /\ Cardinality(Reserved) \in Nat
    <2>1. Reserved \in SUBSET Files /\ Reserved' \in SUBSET Reserved
      BY <1>1, <1>2, ReservedFiles DEF Reserved
    <2>. QED
      BY <2>1, CardinalityMonotone, FilesFinite
  <1>5. RowInv'
    BY <1>3, <1>4, StorageAssumption DEF IInv, RowInv, WithinStorage
  <1>6. NoOrphan'
    BY DEF IInv, NoOrphan, Ended, RowInv
  <1>7. RowKeepsFile'
    BY DEF IInv, RowKeepsFile
  <1>8. ASSUME NEW r \in Requests
        PROVE  UploadInv(r)' /\ ReplyInv(r)'
    <2>1. req[r] \in Upload
      BY DEF IInv, TypeOK
    <2>2. req[r].at # "done" => Batch[r] \intersect disk \subseteq disk'
      BY DEF Ended
    <2>3. UploadInv(r)'
      BY <1>3, <2>1, <2>2 DEF IInv, UploadInv, Upload
    <2>4. ReplyInv(r)'
      BY DEF IInv, ReplyInv
    <2>. QED
      BY <2>3, <2>4
  <1>. QED
    BY <1>5, <1>6, <1>7, <1>8

\* A step of upload r changes what belongs to r only.
OwnStep(r) ==
    /\ UNCHANGED <<account, op, doomed>>
    /\ req[r].at # "done"
    /\ \A s \in Requests \ {r} : req'[s] = req[s] /\ (s \in held' <=> s \in held)
    /\ \A f \in Files \ Batch[r] :
          /\ f \in parts' <=> f \in parts
          /\ f \in disk' <=> f \in disk
          /\ f \in rows' <=> f \in rows
    /\ lost \subseteq lost'
    /\ rows \subseteq rows'
    /\ rows' # rows => ~UserLocked

LEMMA OwnStepPreserves ==
    ASSUME IInv, TypeOK', NEW r \in Requests, OwnStep(r)
    PROVE  /\ \A w \in Workers : WorkerInv(w)'
           /\ \A s \in Requests \ {r} : UploadInv(s)' /\ ReplyInv(s)'
           /\ NoOrphan' <=> (Batch[r] \intersect (parts' \union disk') \subseteq rows' \union lost'
                              \/ req'[r].at \notin {"idle", "release", "reread", "done"})
           /\ (rows' \ disk') \intersect Batch[r] \subseteq doomed => RowKeepsFile'
  <1>. USE DEF OwnStep
  <1>1. \A s \in Requests \ {r} : Batch[s] \subseteq Files \ Batch[r]
    BY StorageAssumption
  <1>2. \A f \in Files : Ended(f) => Ended(f)' /\ f \notin Batch[r]
    BY DEF Ended
  <1>3. ASSUME NEW w \in Workers
        PROVE  WorkerInv(w)'
    <2>1. op[w] \in Operation /\ WorkerInv(w)
      BY DEF IInv, TypeOK
    <2>2. op[w].todo \union op[w].item \union op[w].done \subseteq Files
      BY <2>1 DEF Operation
    <2>. QED
      BY <1>2, <2>1, <2>2 DEF WorkerInv
  <1>4. ASSUME NEW s \in Requests \ {r}
        PROVE  UploadInv(s)' /\ ReplyInv(s)'
    <2>1. UploadInv(s) /\ ReplyInv(s) /\ req'[s] = req[s]
      BY DEF IInv
    <2>2. \A f \in Batch[s] : /\ f \in parts' <=> f \in parts
                              /\ f \in disk' <=> f \in disk
                              /\ f \in rows' <=> f \in rows
      BY <1>1
    <2>3. req[s].at = "reserve" => rows' = rows
      BY DEF UserLocked
    <2>4. UploadInv(s)'
      BY <2>1, <2>2, <2>3 DEF UploadInv
    <2>5. ReplyInv(s)'
      BY <2>1 DEF ReplyInv
    <2>. QED
      BY <2>4, <2>5
  <1>5. ASSUME NEW f \in Files \ Batch[r], f \in (parts' \union disk') \ (rows' \union lost')
        PROVE  \E s \in Requests : /\ f \in Batch[s]
                                   /\ req'[s].at \notin {"idle", "release", "reread", "done"}
    BY <1>5 DEF IInv, NoOrphan
  <1>6. parts' \union disk' \subseteq Files /\ rows' \subseteq Files
    BY DEF TypeOK
  <1>7. ASSUME Batch[r] \intersect (parts' \union disk') \subseteq rows' \union lost'
               \/ req'[r].at \notin {"idle", "release", "reread", "done"}
        PROVE  NoOrphan'
    BY <1>5, <1>6, <1>7 DEF NoOrphan
  <1>8. ASSUME NoOrphan'
        PROVE  Batch[r] \intersect (parts' \union disk') \subseteq rows' \union lost'
               \/ req'[r].at \notin {"idle", "release", "reread", "done"}
    BY <1>1, <1>8 DEF NoOrphan
  <1>9. (rows' \ disk') \intersect Batch[r] \subseteq doomed => RowKeepsFile'
    BY <1>6 DEF IInv, RowKeepsFile
  <1>. QED
    BY <1>3, <1>4, <1>7, <1>8, <1>9

------------------------------------------------------------------------------
(* Types.                                                                  *)

LEMMA BatchTypes ==
    ASSUME NEW r \in Requests
    PROVE  /\ Batch[r] \subseteq Files /\ Batch[r] # {}
           /\ ContentsOf[r] \subseteq Contents
           /\ IsFiniteSet(Batch[r]) /\ Cardinality(Batch[r]) \in Nat
  BY StorageAssumption, FilesFinite DEF Contents

LEMMA Became ==
    ASSUME TypeOK, NEW r \in Requests, NEW l \in Upload, Become(r, l)
    PROVE  /\ req' \in [Requests -> Upload]
           /\ req'[r] = l
           /\ \A s \in Requests \ {r} : req'[s] = req[s]
  BY DEF TypeOK, Become

LEMMA WasSet ==
    ASSUME TypeOK, NEW w \in Workers, NEW l \in Operation, SetTo(w, l)
    PROVE  /\ op' \in [Workers -> Operation]
           /\ op'[w] = l
           /\ \A v \in Workers \ {w} : op'[v] = op[v]
  BY DEF TypeOK, SetTo

LEMMA IdleTyped == Idle \in Operation
  BY DEF Idle, Operation, Statuses
------------------------------------------------------------------------------
(* Uploads.                                                                *)

Stays(r) == req'[r].at \notin {"idle", "release", "reread", "done"}

LEMMA OwnStepInvariant ==
    ASSUME IInv, TypeOK', NEW r \in Requests, OwnStep(r), RowInv', UploadInv(r)', ReplyInv(r)',
           Batch[r] \intersect (parts' \union disk') \subseteq rows' \union lost' \/ Stays(r),
           (rows' \ disk') \intersect Batch[r] \subseteq doomed
    PROVE  IInv'
  BY OwnStepPreserves DEF IInv, Stays

\* Rows unchanged and no new reservation: only parts and the lock matter.
LEMMA RowsKept ==
    ASSUME IInv, TypeOK', NEW r \in Requests, rows' = rows, held' \subseteq held,
           \A s \in Requests \ {r} : req'[s] = req[s],
           parts' \subseteq parts \union Batch[r], req[r].at # "done",
           req'[r].at \in {"count", "reserve"} =>
               req[r].at \in {"count", "reserve"} \/ ~UserLocked
    PROVE  RowInv'
  <1>1. Batch[r] \intersect rows = {}
    BY DEF IInv, UploadInv
  <1>2. parts' \intersect rows' = {}
    BY <1>1 DEF IInv, RowInv
  <1>3. Cardinality(Reserved') <= Cardinality(Reserved) /\ Cardinality(Reserved') \in Nat
        /\ Cardinality(Reserved) \in Nat /\ Cardinality(rows) \in Nat
    <2>1. Reserved \in SUBSET Files /\ Reserved' \in SUBSET Reserved
      BY ReservedFiles DEF Reserved, IInv, TypeOK
    <2>. QED
      BY <2>1, CardinalityMonotone, FilesFinite DEF IInv, TypeOK
  <1>4. (ReservationsHold => WithinStorage)'
    BY <1>3, StorageAssumption DEF IInv, RowInv, WithinStorage
  <1>5. ASSUME NEW s \in Requests, NEW t \in Requests,
               req'[s].at \in {"count", "reserve"}, req'[t].at \in {"count", "reserve"}
        PROVE  s = t
    BY <1>5 DEF IInv, RowInv, UserLocked
  <1>. QED
    BY <1>2, <1>4, <1>5 DEF IInv, RowInv

\* A step that changes nothing but what the upload remembers.
LEMMA MoveOn ==
    ASSUME IInv, NEW r \in Requests, NEW l \in Upload, Become(r, l), req[r].at # "done",
           UNCHANGED <<account, rows, status, held, parts, disk, vectors, op, doomed, lost,
                       unsettled>>,
           l.at \in {"count", "reserve"} => req[r].at \in {"count", "reserve"} \/ ~UserLocked,
           UploadInv(r)', ReplyInv(r)',
           Stays(r) \/ Batch[r] \intersect (parts \union disk) \subseteq rows \union lost
    PROVE  IInv'
  <1>1. req' \in [Requests -> Upload] /\ req'[r] = l
        /\ \A s \in Requests \ {r} : req'[s] = req[s]
    BY Became DEF IInv
  <1>2. TypeOK'
    BY <1>1 DEF IInv, TypeOK
  <1>3. RowInv'
    BY <1>1, <1>2, RowsKept
  <1>4. OwnStep(r)
    BY <1>1 DEF OwnStep
  <1>5. (rows' \ disk') \intersect Batch[r] \subseteq doomed
    BY DEF IInv, UploadInv
  <1>. QED
    BY <1>1, <1>2, <1>3, <1>4, <1>5, OwnStepInvariant

\* The record found for a key, if it has the same content.
LEMMA FoundRecord ==
    ASSUME IInv, NEW r \in Requests, Key[r] # None, req[r].at # "done",
           NEW found, found = Answer(r), found # {}
    PROVE  \E s \in Requests \ {r} :
              /\ Key[s] = Key[r]
              /\ found = Batch[s]
              /\ req[s].at = "done"
              /\ req[s].content = req[r].content
              /\ Batch[s] \subseteq rows
  <1>1. PICK f \in found : TRUE
    OBVIOUS
  <1>2. f \in rows /\ Key[Owner(f)] = Key[r] /\ req[Owner(f)].content = req[r].content
    BY <1>1 DEF Answer, Stored
  <1>3. PICK s \in Requests : f \in Batch[s]
    BY <1>2 DEF IInv, RowInv
  <1>4. Owner(f) = s
    BY <1>3, OwnerIs
  <1>5. Batch[s] = {f}
    <2>1. Cardinality(Batch[s]) = 1 /\ IsFiniteSet(Batch[s])
      BY <1>2, <1>4, StorageAssumption, BatchTypes
    <2>2. PICK x : Batch[s] = {x}
      BY <2>1, FS_Singleton
    <2>. QED
      BY <1>3, <2>2
  <1>6. found = {f}
    <2>1. ASSUME NEW g \in found
          PROVE  g = f
      <3>1. g \in rows /\ Key[Owner(g)] = Key[r]
        BY <2>1 DEF Answer, Stored
      <3>2. PICK t \in Requests : g \in Batch[t]
        BY <3>1 DEF IInv, RowInv
      <3>3. t = s
        BY <1>2, <1>3, <1>4, <3>1, <3>2, OwnerIs DEF IInv, RowInv
      <3>. QED
        BY <1>5, <3>2, <3>3
    <2>. QED
      BY <1>1, <2>1
  <1>7. req[s].at = "done" /\ s # r
    BY <1>2, <1>3 DEF IInv, UploadInv
  <1>. QED
    BY <1>2, <1>4, <1>5, <1>6, <1>7

LEMMA StageStep ==
    ASSUME IInv, NEW r \in Requests, Stage(r)
    PROVE  IInv'
  <1>1. PICK f \in Batch[r] \ parts, c \in ContentsOf[r] :
            /\ req[r].at \in {"idle", "stage"}
            /\ parts' = parts \union {f}
            /\ Become(r, [req[r] EXCEPT !.content = c,
                            !.at = IF ~(Batch[r] \subseteq parts') THEN "stage"
                                   ELSE IF Key[r] = None THEN "lock" ELSE "lookup"])
            /\ UNCHANGED <<account, rows, status, held, disk, vectors, op, doomed, lost,
                           unsettled>>
    BY DEF Stage
  <1>. DEFINE l == [req[r] EXCEPT !.content = c,
                      !.at = IF ~(Batch[r] \subseteq parts') THEN "stage"
                             ELSE IF Key[r] = None THEN "lock" ELSE "lookup"]
  <1>2. l \in Upload /\ req[r].at # "done"
    BY <1>1, BatchTypes DEF IInv, TypeOK, Upload
  <1>3. req' \in [Requests -> Upload] /\ req'[r] = l
        /\ \A s \in Requests \ {r} : req'[s] = req[s]
    BY <1>1, <1>2, Became DEF IInv
  <1>4. l.at \in {"stage", "lock", "lookup"} /\ l.reply = req[r].reply
        /\ (l.at # "stage" => Batch[r] \subseteq parts')
    BY <1>1, <1>2 DEF IInv, TypeOK, Upload
  <1>5. TypeOK'
    BY <1>1, <1>3, BatchTypes DEF IInv, TypeOK
  <1>6. RowInv'
    <2>1. req'[r].at \notin {"count", "reserve"} /\ req[r].at # "done"
          /\ (\A s \in Requests \ {r} : req'[s] = req[s])
      BY <1>2, <1>3, <1>4
    <2>2. rows' = rows /\ held' \subseteq held /\ parts' \subseteq parts \union Batch[r]
      BY <1>1
    <2>. QED
      BY <1>5, <2>1, <2>2, RowsKept
  <1>7. OwnStep(r)
    BY <1>1, <1>2, <1>3 DEF OwnStep
  <1>8. UploadInv(r)'
    BY <1>1, <1>2, <1>3, <1>4 DEF IInv, UploadInv
  <1>9. req[r].reply = {}
    BY <1>1 DEF IInv, UploadInv
  <1>10. ReplyInv(r)'
    BY <1>3, <1>4, <1>9 DEF ReplyInv
  <1>11. (rows' \ disk') \intersect Batch[r] \subseteq doomed
    BY <1>1, <1>2 DEF IInv, UploadInv
  <1>. QED
    BY <1>3, <1>4, <1>5, <1>6, <1>7, <1>8, <1>10, <1>11, OwnStepInvariant DEF Stays

LEMMA LookUpStep ==
    ASSUME IInv, NEW r \in Requests, LookUp(r)
    PROVE  IInv'
  <1>. DEFINE found == Answer(r)
  <1>1. req[r] \in Upload /\ req[r].at = "lookup" /\ req[r].reply = {} /\ r \notin held
        /\ Batch[r] \intersect rows = {} /\ Batch[r] \subseteq parts
    BY DEF LookUp, IInv, TypeOK, UploadInv
  <1>2. CASE Stored(Key[r]) = {}
    <2>. DEFINE l == [req[r] EXCEPT !.at = "lock"]
    <2>1. Become(r, l) /\ l \in Upload /\ l.at = "lock" /\ l.reply = {}
      BY <1>1, <1>2 DEF LookUp, MoveTo, Upload
    <2>2. req'[r] = l /\ UNCHANGED <<account, rows, held, parts, disk>>
      BY <2>1, Became DEF IInv, LookUp
    <2>3. UploadInv(r)' /\ ReplyInv(r)' /\ Stays(r)
      BY <1>1, <2>1, <2>2 DEF UploadInv, ReplyInv, Stays
    <2>. QED
      BY <1>1, <2>1, <2>3, MoveOn DEF LookUp
  <1>3. CASE Stored(Key[r]) # {}
    <2>. DEFINE l == [req[r] EXCEPT !.at = "clean", !.reply = found]
    <2>1. found \in SUBSET Files
      BY DEF Answer, Stored, IInv, TypeOK
    <2>2. Become(r, l) /\ l \in Upload /\ l.at = "clean" /\ l.reply = found
          /\ l.content = req[r].content
      BY <1>1, <1>3, <2>1 DEF LookUp, Upload
    <2>3. req'[r] = l /\ (\A s \in Requests \ {r} : req'[s] = req[s])
          /\ UNCHANGED <<account, rows, held, parts, disk, doomed>>
      BY <2>2, Became DEF IInv, LookUp
    <2>4. UploadInv(r)' /\ Stays(r)
      BY <1>1, <2>2, <2>3 DEF UploadInv, Stays
    <2>5. Key[r] # None
      BY <1>3 DEF Stored
    <2>6. ReplyInv(r)'
      <3>. SUFFICES ASSUME found # {} PROVE ReplyInv(r)'
        BY <2>2, <2>3 DEF ReplyInv
      <3>1. PICK s \in Requests \ {r} :
              /\ Key[s] = Key[r] /\ found = Batch[s] /\ req[s].at = "done"
              /\ req[s].content = req[r].content /\ Batch[s] \subseteq rows
        BY <1>1, <2>5, FoundRecord
      <3>. QED
        BY <2>2, <2>3, <3>1 DEF ReplyInv
    <2>. QED
      BY <1>1, <2>2, <2>4, <2>6, MoveOn DEF LookUp
  <1>. QED
    BY <1>2, <1>3

LEMMA LockUserStep ==
    ASSUME IInv, NEW r \in Requests, LockUser(r)
    PROVE  IInv'
  <1>. DEFINE l == [req[r] EXCEPT !.at = IF account THEN "count" ELSE "clean"]
  <1>1. req[r] \in Upload /\ req[r].at = "lock" /\ req[r].reply = {} /\ r \notin held
        /\ Batch[r] \intersect rows = {} /\ Batch[r] \subseteq parts
    BY DEF LockUser, IInv, TypeOK, UploadInv
  <1>2. Become(r, l) /\ l \in Upload /\ l.at \in {"count", "clean"} /\ l.reply = {}
    BY <1>1 DEF LockUser, MoveTo, Upload
  <1>3. req'[r] = l /\ UNCHANGED <<account, rows, held, parts, disk>>
    BY <1>2, Became DEF IInv, LockUser
  <1>4. UploadInv(r)' /\ ReplyInv(r)' /\ Stays(r)
    BY <1>1, <1>2, <1>3 DEF UploadInv, ReplyInv, Stays
  <1>. QED
    BY <1>1, <1>2, <1>4, MoveOn DEF LockUser

LEMMA CountUsedStep ==
    ASSUME IInv, NEW r \in Requests, CountUsed(r)
    PROVE  IInv'
  <1>. DEFINE l == [req[r] EXCEPT !.used = Cardinality(rows), !.at = "reserve"]
  <1>1. req[r] \in Upload /\ req[r].at = "count" /\ req[r].reply = {} /\ r \notin held
        /\ Batch[r] \intersect rows = {} /\ Batch[r] \subseteq parts
    BY DEF CountUsed, IInv, TypeOK, UploadInv
  <1>2. Cardinality(rows) \in Nat
    BY FilesFinite DEF IInv, TypeOK
  <1>3. Become(r, l) /\ l \in Upload /\ l.at = "reserve" /\ l.reply = {}
        /\ l.used = Cardinality(rows)
    BY <1>1, <1>2 DEF CountUsed, Upload
  <1>4. req'[r] = l /\ UNCHANGED <<account, rows, held, parts, disk>>
    BY <1>3, Became DEF IInv, CountUsed
  <1>5. UploadInv(r)' /\ ReplyInv(r)' /\ Stays(r)
    BY <1>1, <1>2, <1>3, <1>4 DEF UploadInv, ReplyInv, Stays
  <1>. QED
    BY <1>1, <1>3, <1>5, MoveOn DEF CountUsed

LEMMA UploadFailsStep ==
    ASSUME IInv, NEW r \in Requests, UploadFails(r)
    PROVE  IInv'
  <1>. DEFINE l == [req[r] EXCEPT !.at = "clean", !.used = 0]
  <1>1. req[r] \in Upload /\ req[r].at \notin {"idle", "clean", "release", "reread", "done"}
        /\ req[r].reply = {} /\ Batch[r] \intersect rows = {}
    BY DEF UploadFails, IInv, TypeOK, UploadInv
  <1>2. Become(r, l) /\ l \in Upload /\ l.at = "clean" /\ l.reply = {}
    BY <1>1 DEF UploadFails, Upload
  <1>3. req'[r] = l /\ UNCHANGED <<account, rows, held, parts, disk>>
    BY <1>2, Became DEF IInv, UploadFails
  <1>4. UploadInv(r)' /\ ReplyInv(r)' /\ Stays(r)
    BY <1>1, <1>2, <1>3 DEF IInv, UploadInv, ReplyInv, Stays
  <1>. QED
    BY <1>1, <1>2, <1>4, MoveOn DEF UploadFails

\* The space that one batch moves between reservations and rows.
LEMMA Reserving ==
    ASSUME NEW H \in SUBSET Requests, NEW r \in Requests
    PROVE  /\ Cardinality(UNION {Batch[s] : s \in H}) \in Nat
           /\ Cardinality(UNION {Batch[s] : s \in H \union {r}}) \in Nat
           /\ Cardinality(UNION {Batch[s] : s \in H \union {r}})
                 <= Cardinality(UNION {Batch[s] : s \in H}) + Cardinality(Batch[r])
  <1>. DEFINE B == UNION {Batch[s] : s \in H}
  <1>1. UNION {Batch[s] : s \in H \union {r}} = B \union Batch[r]
    OBVIOUS
  <1>2. B \in SUBSET Files /\ B \union Batch[r] \in SUBSET Files /\ Batch[r] \in SUBSET Files
    BY ReservedFiles, BatchTypes
  <1>3. IsFiniteSet(B) /\ IsFiniteSet(Batch[r]) /\ IsFiniteSet(B \intersect Batch[r])
    BY <1>2, FilesFinite, FS_Intersection
  <1>. HIDE DEF B
  <1>4. Cardinality(B \union Batch[r])
          = Cardinality(B) + Cardinality(Batch[r]) - Cardinality(B \intersect Batch[r])
    BY <1>3, FS_Union
  <1>5. Cardinality(B) \in Nat /\ Cardinality(B \union Batch[r]) \in Nat
        /\ Cardinality(Batch[r]) \in Nat /\ Cardinality(B \intersect Batch[r]) \in Nat
    BY <1>2, <1>3, FilesFinite, FS_CardinalityType
  <1>6. Cardinality(B \union Batch[r]) <= Cardinality(B) + Cardinality(Batch[r])
    BY <1>4, <1>5
  <1>. QED
    BY <1>1, <1>5, <1>6 DEF B

LEMMA Committing ==
    ASSUME NEW H \in SUBSET Requests, NEW r \in H, NEW R \in SUBSET Files
    PROVE  Cardinality(R \union Batch[r]) + Cardinality(UNION {Batch[s] : s \in H \ {r}})
             <= Cardinality(R) + Cardinality(UNION {Batch[s] : s \in H})
  <1>. DEFINE B == UNION {Batch[s] : s \in H}
              A == UNION {Batch[s] : s \in H \ {r}}
  <1>1. B = A \union Batch[r] /\ A \intersect Batch[r] = {}
    BY StorageAssumption
  <1>2. B \in SUBSET Files /\ A \in SUBSET Files /\ Batch[r] \in SUBSET Files
    BY ReservedFiles, BatchTypes
  <1>3. IsFiniteSet(A) /\ IsFiniteSet(B) /\ IsFiniteSet(Batch[r]) /\ IsFiniteSet(R)
        /\ IsFiniteSet(R \intersect Batch[r])
    BY <1>2, FilesFinite, FS_Intersection
  <1>4. Cardinality(B) = Cardinality(A) + Cardinality(Batch[r]) - Cardinality({})
    BY <1>1, <1>3, FS_Union
  <1>5. Cardinality(R \union Batch[r])
          = Cardinality(R) + Cardinality(Batch[r]) - Cardinality(R \intersect Batch[r])
    BY <1>3, FS_Union
  <1>6. Cardinality(A) \in Nat /\ Cardinality(B) \in Nat /\ Cardinality(Batch[r]) \in Nat
        /\ Cardinality(R) \in Nat /\ Cardinality(R \intersect Batch[r]) \in Nat
        /\ Cardinality({}) = 0
    BY <1>3, FS_CardinalityType, FS_EmptySet
  <1>. QED
    BY <1>4, <1>5, <1>6

LEMMA ReserveStep ==
    ASSUME IInv, NEW r \in Requests, Reserve(r)
    PROVE  IInv'
  <1>. DEFINE l == [req[r] EXCEPT !.at = IF Fits(r) THEN "move" ELSE "clean", !.used = 0]
  <1>1. req[r] \in Upload /\ req[r].at = "reserve" /\ req[r].reply = {} /\ r \notin held
        /\ Batch[r] \intersect rows = {} /\ Batch[r] \subseteq parts
        /\ Cardinality(rows) <= req[r].used
    BY DEF Reserve, IInv, TypeOK, UploadInv
  <1>2. Become(r, l) /\ l \in Upload /\ l.reply = {}
        /\ l.at = (IF Fits(r) THEN "move" ELSE "clean")
    BY <1>1 DEF Reserve, Upload
  <1>3. req' \in [Requests -> Upload] /\ req'[r] = l
        /\ (\A s \in Requests \ {r} : req'[s] = req[s])
    BY <1>2, Became DEF IInv
  <1>4. UNCHANGED <<account, rows, parts, disk, op, doomed, lost>>
    BY DEF Reserve
  <1>5. CASE Fits(r)
    <2>1. l.at = "move" /\ held' = held \union {r}
      BY <1>2, <1>5 DEF Reserve
    <2>2. TypeOK'
      BY <1>3, <2>1 DEF IInv, TypeOK, Reserve
    <2>3. OwnStep(r)
      BY <1>1, <1>3, <1>4, <2>1 DEF OwnStep
    <2>4. UploadInv(r)' /\ ReplyInv(r)' /\ Stays(r)
      BY <1>1, <1>2, <1>3, <1>4, <2>1 DEF UploadInv, ReplyInv, Stays
    <2>5. WithinStorage'
      <3>1. Cardinality(Reserved) \in Nat /\ Cardinality(Reserved') \in Nat
            /\ Cardinality(Reserved') <= Cardinality(Reserved) + Cardinality(Batch[r])
        BY <2>1, Reserving DEF Reserved, IInv, TypeOK
      <3>2. Cardinality(rows) \in Nat /\ req[r].used \in Nat /\ Cardinality(Batch[r]) \in Nat
        BY <1>1, FilesFinite, BatchTypes DEF IInv, TypeOK, Upload
      <3>3. req[r].used + Cardinality(Reserved) + Cardinality(Batch[r]) <= MaxUnits
        BY <1>5 DEF Fits
      <3>. QED
        BY <1>1, <1>4, <3>1, <3>2, <3>3, StorageAssumption DEF WithinStorage
    <2>6. RowInv'
      <3>1. \A s, t \in Requests :
              req'[s].at \in {"count", "reserve"} /\ req'[t].at \in {"count", "reserve"} => s = t
        BY <1>1, <1>3, <2>1 DEF IInv, RowInv
      <3>. QED
        BY <1>4, <2>5, <3>1 DEF IInv, RowInv
    <2>7. (rows' \ disk') \intersect Batch[r] \subseteq doomed
      BY <1>1, <1>4
    <2>. QED
      BY <2>2, <2>3, <2>4, <2>6, <2>7, OwnStepInvariant
  <1>6. CASE ~Fits(r)
    <2>1. l.at = "clean" /\ held' = held
      BY <1>2, <1>6 DEF Reserve
    <2>2. UploadInv(r)' /\ ReplyInv(r)' /\ Stays(r)
      BY <1>1, <1>2, <1>3, <1>4, <2>1 DEF UploadInv, ReplyInv, Stays
    <2>. QED
      BY <1>1, <1>2, <2>1, <2>2, MoveOn DEF Reserve
  <1>. QED
    BY <1>5, <1>6

LEMMA MoveStep ==
    ASSUME IInv, NEW r \in Requests, Move(r)
    PROVE  IInv'
  <1>1. PICK f \in Batch[r] \intersect parts :
            /\ req[r].at = "move"
            /\ parts' = parts \ {f}
            /\ disk' = disk \union {f}
            /\ Become(r, [req[r] EXCEPT
                            !.at = IF Batch[r] \intersect parts' = {} THEN "commit" ELSE "move"])
            /\ UNCHANGED <<account, rows, status, held, vectors, op, doomed, lost, unsettled>>
    BY DEF Move, MoveTo
  <1>. DEFINE l == [req[r] EXCEPT
                      !.at = IF Batch[r] \intersect parts' = {} THEN "commit" ELSE "move"]
  <1>2. req[r] \in Upload /\ req[r].reply = {} /\ Batch[r] \intersect rows = {}
        /\ Batch[r] \subseteq parts \union disk
        /\ (ReservationsHold /\ account => r \in held)
    BY <1>1 DEF IInv, TypeOK, UploadInv
  <1>3. l \in Upload /\ l.reply = {}
        /\ l.at = (IF Batch[r] \intersect parts' = {} THEN "commit" ELSE "move")
    BY <1>2 DEF Upload
  <1>4. req' \in [Requests -> Upload] /\ req'[r] = l
        /\ (\A s \in Requests \ {r} : req'[s] = req[s])
    BY <1>1, <1>3, Became DEF IInv
  <1>5. TypeOK'
    BY <1>1, <1>4, BatchTypes DEF IInv, TypeOK
  <1>6. OwnStep(r)
    BY <1>1, <1>4 DEF OwnStep
  <1>7. UploadInv(r)' /\ ReplyInv(r)' /\ Stays(r)
    BY <1>1, <1>2, <1>3, <1>4 DEF UploadInv, ReplyInv, Stays
  <1>8. RowInv'
    <2>1. req'[r].at \notin {"count", "reserve"} /\ req[r].at # "done"
      BY <1>1, <1>3, <1>4
    <2>2. rows' = rows /\ held' \subseteq held /\ parts' \subseteq parts \union Batch[r]
      BY <1>1
    <2>. QED
      BY <1>4, <1>5, <2>1, <2>2, RowsKept
  <1>9. (rows' \ disk') \intersect Batch[r] \subseteq doomed
    BY <1>1, <1>2
  <1>. QED
    BY <1>5, <1>6, <1>7, <1>8, <1>9, OwnStepInvariant

LEMMA CommitStep ==
    ASSUME IInv, NEW r \in Requests, Commit(r)
    PROVE  IInv'
  <1>1. req[r] \in Upload /\ req[r].at = "commit" /\ req[r].reply = {}
        /\ Batch[r] \intersect rows = {} /\ Batch[r] \subseteq disk \ parts
        /\ (ReservationsHold /\ account => r \in held) /\ ~UserLocked
    BY DEF Commit, MayInsert, IInv, TypeOK, UploadInv
  <1>2. CASE account /\ Stored(Key[r]) = {}
    <2>. DEFINE l == [req[r] EXCEPT !.at = "done", !.reply = Batch[r]]
    <2>1. Become(r, l) /\ l \in Upload /\ l.reply = Batch[r] /\ l.at = "done"
          /\ l.content = req[r].content
      BY <1>1, <1>2, BatchTypes DEF Commit, Upload
    <2>2. req' \in [Requests -> Upload] /\ req'[r] = l
          /\ (\A s \in Requests \ {r} : req'[s] = req[s])
      BY <2>1, Became DEF IInv
    <2>3. rows' = rows \union Batch[r] /\ held' = held \ {r}
          /\ UNCHANGED <<account, status, parts, disk, vectors, op, doomed, lost, unsettled>>
      BY <1>2 DEF Commit
    <2>4. TypeOK'
      BY <2>2, <2>3, BatchTypes DEF IInv, TypeOK
    <2>5. OwnStep(r)
      BY <1>1, <2>2, <2>3 DEF OwnStep
    <2>6. UploadInv(r)'
      BY <2>1, <2>2 DEF UploadInv
    <2>7. ReplyInv(r)'
      BY <2>1, <2>2, <2>3 DEF ReplyInv
    <2>8. ASSUME ReservationsHold
          PROVE  WithinStorage'
      <3>1. rows \in SUBSET Files /\ held \in SUBSET Requests /\ r \in held
        BY <1>1, <1>2, <2>8 DEF IInv, TypeOK
      <3>2. Cardinality(rows') + Cardinality(Reserved')
              <= Cardinality(rows) + Cardinality(Reserved)
        BY <2>3, <3>1, Committing DEF Reserved
      <3>3. rows' \in SUBSET Files /\ Reserved' \in SUBSET Files /\ Reserved \in SUBSET Files
        BY <2>3, <2>4, <3>1, ReservedFiles DEF Reserved, TypeOK
      <3>4. Cardinality(rows') \in Nat /\ Cardinality(Reserved') \in Nat
            /\ Cardinality(rows) \in Nat /\ Cardinality(Reserved) \in Nat
        BY <3>1, <3>3, FilesFinite
      <3>. QED
        BY <2>8, <3>2, <3>4, StorageAssumption DEF IInv, RowInv, WithinStorage
    <2>9. RowInv'
      <3>1. \A s, t \in Requests :
              req'[s].at \in {"count", "reserve"} /\ req'[t].at \in {"count", "reserve"} => s = t
        BY <2>1, <2>2 DEF IInv, RowInv
      <3>2. ASSUME NEW s \in Requests, s # r, Key[s] = Key[r], Key[r] # None,
                   Batch[s] \intersect rows # {}
            PROVE  FALSE
        BY <1>2, <3>2, OwnerIs DEF Stored
      <3>3. \A s \in Requests \ {r} :
              Batch[s] \intersect rows' # {} => Batch[s] \intersect rows # {}
        BY <2>3, StorageAssumption
      <3>4. ASSUME NEW s \in Requests, NEW t \in Requests, Key[s] = Key[t], Key[s] # None,
                   Batch[s] \intersect rows' # {}, Batch[t] \intersect rows' # {}
            PROVE  s = t
        BY <3>2, <3>3, <3>4 DEF IInv, RowInv
      <3>5. rows' \intersect parts' = {} /\ rows' \subseteq UNION {Batch[s] : s \in Requests}
        BY <1>1, <2>3 DEF IInv, RowInv
      <3>. QED
        BY <2>8, <3>1, <3>4, <3>5 DEF RowInv
    <2>10. (rows' \ disk') \intersect Batch[r] \subseteq doomed
           /\ Batch[r] \subseteq rows'
      BY <1>1, <2>3
    <2>. QED
      BY <2>4, <2>5, <2>6, <2>7, <2>9, <2>10, OwnStepInvariant
  <1>3. CASE ~(account /\ Stored(Key[r]) = {})
    <2>. DEFINE l == [req[r] EXCEPT !.at = "clean", !.conflict = Key[r] # None]
    <2>1. Become(r, l) /\ UNCHANGED <<rows, held>>
      BY <1>3 DEF Commit
    <2>2. (Key[r] # None) \in BOOLEAN
      OBVIOUS
    <2>3. l \in Upload /\ l.at = "clean" /\ l.reply = {}
      BY <1>1, <2>2 DEF Upload
    <2>4. req'[r] = l /\ UNCHANGED <<account, rows, held, parts, disk>>
      BY <2>1, <2>3, Became DEF IInv, Commit
    <2>5. UploadInv(r)' /\ ReplyInv(r)' /\ Stays(r)
      BY <1>1, <2>3, <2>4 DEF UploadInv, ReplyInv, Stays
    <2>. QED
      BY <1>1, <2>1, <2>3, <2>5, MoveOn DEF Commit
  <1>. QED
    BY <1>2, <1>3

LEMMA CleanStep ==
    ASSUME IInv, NEW r \in Requests, Clean(r)
    PROVE  IInv'
  <1>1. PICK kept \in SUBSET (Batch[r] \intersect (parts \union disk)) :
            /\ req[r].at = "clean"
            /\ parts' = parts \ (Batch[r] \ kept)
            /\ disk' = disk \ (Batch[r] \ kept)
            /\ lost' = lost \union kept
            /\ Become(r, [req[r] EXCEPT !.at = "release"])
            /\ UNCHANGED <<account, rows, status, held, vectors, op, doomed, unsettled>>
    BY DEF Clean, Staged, MoveTo
  <1>. DEFINE l == [req[r] EXCEPT !.at = "release"]
  <1>2. req[r] \in Upload /\ Batch[r] \intersect rows = {} /\ ReplyInv(r)
    BY <1>1 DEF IInv, TypeOK, UploadInv
  <1>3. l \in Upload /\ l.at = "release" /\ l.reply = req[r].reply
        /\ l.content = req[r].content
    BY <1>2 DEF Upload
  <1>4. req' \in [Requests -> Upload] /\ req'[r] = l
        /\ (\A s \in Requests \ {r} : req'[s] = req[s])
    BY <1>1, <1>3, Became DEF IInv
  <1>5. TypeOK'
    BY <1>1, <1>4, BatchTypes DEF IInv, TypeOK
  <1>6. OwnStep(r)
    BY <1>1, <1>4 DEF OwnStep
  <1>7. UploadInv(r)'
    BY <1>1, <1>2, <1>3, <1>4 DEF UploadInv
  <1>8. ReplyInv(r)'
    BY <1>1, <1>2, <1>3, <1>4 DEF ReplyInv
  <1>9. RowInv'
    <2>1. req'[r].at \notin {"count", "reserve"} /\ req[r].at # "done"
      BY <1>1, <1>3, <1>4
    <2>2. rows' = rows /\ held' \subseteq held /\ parts' \subseteq parts \union Batch[r]
      BY <1>1
    <2>. QED
      BY <1>4, <1>5, <2>1, <2>2, RowsKept
  <1>10. (rows' \ disk') \intersect Batch[r] \subseteq doomed
         /\ Batch[r] \intersect (parts' \union disk') \subseteq rows' \union lost'
    BY <1>1, <1>2
  <1>. QED
    BY <1>5, <1>6, <1>7, <1>8, <1>9, <1>10, OwnStepInvariant

LEMMA ReleaseStep ==
    ASSUME IInv, NEW r \in Requests, Release(r)
    PROVE  IInv'
  <1>. DEFINE l == [req[r] EXCEPT !.at = IF req[r].conflict THEN "reread" ELSE "done",
                      !.conflict = FALSE]
  <1>1. req[r] \in Upload /\ req[r].at = "release" /\ Batch[r] \intersect rows = {}
        /\ ReplyInv(r)
    BY DEF Release, IInv, TypeOK, UploadInv
  <1>2. Become(r, l) /\ l \in Upload /\ l.at \in {"reread", "done"}
        /\ l.reply = req[r].reply /\ l.content = req[r].content
    BY <1>1 DEF Release, Upload
  <1>3. req' \in [Requests -> Upload] /\ req'[r] = l
        /\ (\A s \in Requests \ {r} : req'[s] = req[s])
    BY <1>2, Became DEF IInv
  <1>4. PICK released \in {{r}, {}} : held' = held \ released
    BY DEF Release
  <1>5. UNCHANGED <<account, rows, status, parts, disk, vectors, op, doomed, lost, unsettled>>
    BY DEF Release
  <1>6. TypeOK'
    BY <1>3, <1>4, <1>5 DEF IInv, TypeOK
  <1>7. OwnStep(r)
    BY <1>1, <1>3, <1>4, <1>5 DEF OwnStep
  <1>8. UploadInv(r)' /\ ReplyInv(r)'
    BY <1>1, <1>2, <1>3, <1>5 DEF UploadInv, ReplyInv
  <1>9. RowInv'
    <2>1. req'[r].at \notin {"count", "reserve"} /\ req[r].at # "done"
      BY <1>1, <1>2, <1>3
    <2>2. rows' = rows /\ held' \subseteq held /\ parts' \subseteq parts \union Batch[r]
      BY <1>4, <1>5
    <2>. QED
      BY <1>3, <1>6, <2>1, <2>2, RowsKept
  <1>10. Batch[r] \intersect (parts' \union disk') \subseteq rows' \union lost'
    <2>1. parts \union disk \subseteq Files
      BY DEF IInv, TypeOK
    <2>2. \A s \in Requests : \A f \in Batch[r] \intersect Batch[s] : s = r
      BY StorageAssumption
    <2>. QED
      BY <1>1, <1>5, <2>1, <2>2 DEF IInv, NoOrphan
  <1>11. (rows' \ disk') \intersect Batch[r] \subseteq doomed
    BY <1>1, <1>5
  <1>. QED
    BY <1>6, <1>7, <1>8, <1>9, <1>10, <1>11, OwnStepInvariant

LEMMA RereadStep ==
    ASSUME IInv, NEW r \in Requests, Reread(r)
    PROVE  IInv'
  <1>. DEFINE found == Answer(r)
              l == [req[r] EXCEPT !.at = "done", !.reply = found]
  <1>1. req[r] \in Upload /\ req[r].at = "reread" /\ Batch[r] \intersect rows = {}
    BY DEF Reread, IInv, TypeOK, UploadInv
  <1>2. found \in SUBSET Files
    BY DEF Answer, Stored, IInv, TypeOK
  <1>3. Become(r, l) /\ l \in Upload /\ l.at = "done" /\ l.reply = found
        /\ l.content = req[r].content
    BY <1>1, <1>2 DEF Reread, Upload
  <1>4. req'[r] = l /\ (\A s \in Requests \ {r} : req'[s] = req[s])
        /\ UNCHANGED <<account, rows, held, parts, disk, doomed>>
    BY <1>3, Became DEF IInv, Reread
  <1>5. UploadInv(r)'
    BY <1>3, <1>4 DEF UploadInv
  <1>6. ReplyInv(r)'
    <2>. SUFFICES ASSUME found # {}, Key[r] # None PROVE ReplyInv(r)'
      BY <1>3, <1>4 DEF ReplyInv
    <2>1. PICK s \in Requests \ {r} :
            /\ Key[s] = Key[r] /\ found = Batch[s] /\ req[s].at = "done"
            /\ req[s].content = req[r].content /\ Batch[s] \subseteq rows
      BY <1>1, FoundRecord
    <2>. QED
      BY <1>3, <1>4, <2>1 DEF ReplyInv
  <1>7. Batch[r] \intersect (parts \union disk) \subseteq rows \union lost
    <2>1. parts \union disk \subseteq Files
      BY DEF IInv, TypeOK
    <2>2. \A s \in Requests : \A f \in Batch[r] \intersect Batch[s] : s = r
      BY StorageAssumption
    <2>. QED
      BY <1>1, <2>1, <2>2 DEF IInv, NoOrphan
  <1>. QED
    BY <1>1, <1>3, <1>5, <1>6, <1>7, MoveOn DEF Reread

LEMMA UploadDiesStep ==
    ASSUME IInv, NEW r \in Requests, UploadDies(r)
    PROVE  IInv'
  <1>. DEFINE l == [req[r] EXCEPT !.at = "done", !.used = 0, !.conflict = FALSE, !.reply = {}]
  <1>1. req[r] \in Upload /\ req[r].at # "done" /\ Batch[r] \intersect rows = {}
    BY DEF UploadDies, IInv, TypeOK, UploadInv
  <1>2. Become(r, l) /\ l \in Upload /\ l.at = "done" /\ l.reply = {}
    BY <1>1 DEF UploadDies, Upload
  <1>3. req' \in [Requests -> Upload] /\ req'[r] = l
        /\ (\A s \in Requests \ {r} : req'[s] = req[s])
    BY <1>2, Became DEF IInv
  <1>4. lost' = lost \union (Batch[r] \intersect (parts \union disk))
        /\ UNCHANGED <<account, rows, status, held, parts, disk, vectors, op, doomed, unsettled>>
    BY DEF UploadDies
  <1>6. TypeOK'
    BY <1>3, <1>4, BatchTypes DEF IInv, TypeOK
  <1>7. OwnStep(r)
    BY <1>1, <1>3, <1>4 DEF OwnStep
  <1>8. UploadInv(r)' /\ ReplyInv(r)'
    BY <1>2, <1>3 DEF UploadInv, ReplyInv
  <1>9. RowInv'
    <2>1. req'[r].at \notin {"count", "reserve"}
      BY <1>2, <1>3
    <2>2. rows' = rows /\ held' \subseteq held /\ parts' \subseteq parts \union Batch[r]
      BY <1>4
    <2>. QED
      BY <1>1, <1>3, <1>6, <2>1, <2>2, RowsKept
  <1>10. (rows' \ disk') \intersect Batch[r] \subseteq doomed
         /\ Batch[r] \intersect (parts' \union disk') \subseteq rows' \union lost'
    BY <1>1, <1>4
  <1>. QED
    BY <1>6, <1>7, <1>8, <1>9, <1>10, OwnStepInvariant

------------------------------------------------------------------------------
(* Workers, and the reservations that expire.                              *)

\* What a worker's record must say after a step.
Sound(l) ==
    /\ l.kind # "rebuild" =>
          \A f \in l.todo \union l.item \union l.done : f \in doomed' /\ Ended(f)
    /\ l.kind # "rebuild" => l.done \intersect disk' = {}
    /\ l.at = "idle" => l = Idle
    /\ l.at \in {"list", "read", "add", "save"} <=> l.kind = "rebuild"

LEMMA IdleSound == Sound(Idle)
  BY DEF Sound, Idle

LEMMA WorkersKept ==
    ASSUME IInv, Shrinks, NEW v \in Workers, op'[v] = op[v]
    PROVE  WorkerInv(v)'
  BY DEF IInv, Shrinks, WorkerInv, Ended

LEMMA ExpireStep ==
    ASSUME IInv, NEW r \in Requests, Expire(r)
    PROVE  IInv'
  <1>1. Shrinks /\ TypeOK' /\ op' = op
    BY DEF Expire, Shrinks, IInv, TypeOK
  <1>. QED
    BY <1>1, ShrinksPreserves, WorkersKept DEF IInv

LEMMA WorkerStepInvariant ==
    ASSUME IInv, NEW w \in Workers, NEW l \in Operation, SetTo(w, l), Shrinks, Sound(l),
           account' \in BOOLEAN, status' \in [Files -> Statuses], vectors' \subseteq Files,
           doomed' \subseteq Files, lost' \subseteq Files, unsettled' \in BOOLEAN
    PROVE  IInv'
  <1>1. op' \in [Workers -> Operation] /\ op'[w] = l
        /\ \A v \in Workers \ {w} : op'[v] = op[v]
    BY WasSet DEF IInv
  <1>2. TypeOK'
    BY <1>1 DEF IInv, TypeOK, Shrinks
  <1>3. WorkerInv(w)'
    BY <1>1 DEF Sound, WorkerInv, Shrinks, Ended
  <1>. QED
    BY <1>1, <1>2, <1>3, ShrinksPreserves, WorkersKept DEF IInv

LEMMA RowsEnded ==
    ASSUME IInv, NEW f \in rows
    PROVE  Ended(f)
  BY DEF IInv, UploadInv, Ended

\* What is known of a worker before its step.
LEMMA WorkerKnown ==
    ASSUME IInv, NEW w \in Workers
    PROVE  /\ op[w] \in Operation
           /\ op[w].todo \subseteq Files /\ op[w].item \subseteq Files
           /\ op[w].done \subseteq Files /\ op[w].failed \subseteq Files
           /\ op[w].loaded \in [Files -> Statuses]
           /\ op[w].kind # "rebuild" =>
                 /\ \A f \in op[w].todo \union op[w].item \union op[w].done :
                       f \in doomed /\ Ended(f)
                 /\ op[w].done \intersect disk = {}
           /\ op[w].at \in {"list", "read", "add", "save"} <=> op[w].kind = "rebuild"
           /\ op[w].at = "idle" => op[w] = Idle
  BY DEF IInv, TypeOK, Operation, WorkerInv

\* A worker that is done, having removed nothing but files and rows.
LEMMA FinishInvariant ==
    ASSUME IInv, NEW w \in Workers, Finish(w), Shrinks,
           account' \in BOOLEAN, status' \in [Files -> Statuses], vectors' \subseteq Files,
           doomed' \subseteq Files, lost' \subseteq Files, unsettled' \in BOOLEAN
    PROVE  IInv'
  <1>1. SetTo(w, Idle)
    BY DEF Finish
  <1>. QED
    BY <1>1, IdleTyped, IdleSound, WorkerStepInvariant

LEMMA BeginDeleteStep ==
    ASSUME IInv, NEW w \in Workers, BeginDelete(w)
    PROVE  IInv'
  <1>1. PICK old \in (SUBSET rows) \ {{}} :
            /\ op[w].at = "idle"
            /\ SetTo(w, [op[w] EXCEPT !.at = "vectors", !.todo = old])
            /\ doomed' = doomed \union old
            /\ UNCHANGED <<rows, status, disk, vectors, lost, unsettled, Uploads>>
    BY DEF BeginDelete
  <1>. DEFINE l == [op[w] EXCEPT !.at = "vectors", !.todo = old]
  <1>2. old \subseteq Files /\ \A f \in old : Ended(f)
    BY RowsEnded DEF IInv, TypeOK
  <1>3. op[w] \in Operation /\ op[w].kind = "delete" /\ op[w].item = {} /\ op[w].done = {}
    BY <1>1, WorkerKnown DEF Idle
  <1>4. l \in Operation /\ l.at = "vectors" /\ l.kind = "delete" /\ l.todo = old /\ l.item = {}
        /\ l.done = {}
    BY <1>2, <1>3 DEF Operation
  <1>5. Shrinks
    BY <1>1 DEF Shrinks, Uploads
  <1>6. Sound(l)
    BY <1>1, <1>2, <1>4 DEF Sound
  <1>. QED
    BY <1>1, <1>2, <1>4, <1>5, <1>6, WorkerStepInvariant DEF IInv, TypeOK, Uploads

LEMMA DropVectorsStep ==
    ASSUME IInv, NEW w \in Workers, DropVectors(w)
    PROVE  IInv'
  <1>1. PICK f \in op[w].todo :
            /\ op[w].at = "vectors"
            /\ vectors' = vectors \ {f}
            /\ SetTo(w, [op[w] EXCEPT !.at = "unlink", !.todo = @ \ {f}, !.item = {f}])
            /\ UNCHANGED <<rows, status, disk, doomed, lost, unsettled, Uploads>>
    BY DEF DropVectors
  <1>. DEFINE l == [op[w] EXCEPT !.at = "unlink", !.todo = @ \ {f}, !.item = {f}]
  <1>2. op[w] \in Operation /\ op[w].kind # "rebuild" /\ f \in Files
    BY <1>1, WorkerKnown
  <1>3. l \in Operation /\ l.at = "unlink" /\ l.kind = op[w].kind /\ l.todo = op[w].todo \ {f}
        /\ l.item = {f} /\ l.done = op[w].done
    BY <1>2 DEF Operation
  <1>4. Shrinks
    BY <1>1 DEF Shrinks, Uploads
  <1>5. Sound(l)
    BY <1>1, <1>2, <1>3, WorkerKnown DEF Sound
  <1>. QED
    BY <1>1, <1>3, <1>4, <1>5, WorkerStepInvariant DEF IInv, TypeOK, Uploads

LEMMA UnlinkStep ==
    ASSUME IInv, NEW w \in Workers, Unlink(w)
    PROVE  IInv'
  <1>. DEFINE l == [op[w] EXCEPT !.at = NextFile(w), !.done = @ \union op[w].item, !.item = {}]
  <1>1. op[w] \in Operation /\ op[w].at = "unlink" /\ op[w].kind # "rebuild"
    BY WorkerKnown DEF Unlink
  <1>2. SetTo(w, l) /\ disk' = disk \ op[w].item
        /\ UNCHANGED <<rows, status, vectors, doomed, lost, unsettled, Uploads>>
    BY DEF Unlink
  <1>3. l \in Operation /\ l.at \in {"rows", "vectors"} /\ l.kind = op[w].kind
        /\ l.todo = op[w].todo /\ l.item = {} /\ l.done = op[w].done \union op[w].item
    BY <1>1 DEF Operation, NextFile
  <1>4. Shrinks
    BY <1>1, <1>2, WorkerKnown DEF Shrinks, Uploads
  <1>5. Sound(l)
    BY <1>1, <1>2, <1>3, WorkerKnown DEF Sound
  <1>. QED
    BY <1>2, <1>3, <1>4, <1>5, WorkerStepInvariant DEF IInv, TypeOK, Uploads

LEMMA DeletionFailsStep ==
    ASSUME IInv, NEW w \in Workers, DeletionFails(w)
    PROVE  IInv'
  <1>0. UNCHANGED <<rows, status, disk, vectors, doomed, lost, unsettled, Uploads>>
    BY DEF DeletionFails
  <1>1. Shrinks /\ UNCHANGED <<rows, status, disk, vectors, doomed, lost, unsettled, Uploads>>
    BY <1>0 DEF Shrinks, Uploads
  <1>2. CASE op[w].at = "unlink" /\ SetTo(w, [op[w] EXCEPT !.at = NextFile(w), !.item = {}])
    <2>. DEFINE l == [op[w] EXCEPT !.at = NextFile(w), !.item = {}]
    <2>1. op[w] \in Operation /\ op[w].kind # "rebuild"
      BY <1>2, WorkerKnown
    <2>2. l \in Operation /\ l.at \in {"rows", "vectors"} /\ l.kind = op[w].kind
          /\ l.todo = op[w].todo /\ l.item = {} /\ l.done = op[w].done
      BY <2>1 DEF Operation, NextFile
    <2>3. Sound(l)
      BY <1>1, <2>1, <2>2, WorkerKnown DEF Sound
    <2>. QED
      BY <1>1, <1>2, <2>2, <2>3, WorkerStepInvariant DEF IInv, TypeOK, Uploads
  <1>3. ASSUME NEW f \in op[w].todo, op[w].at = "vectors",
               SetTo(w, [op[w] EXCEPT !.at = IF op[w].todo = {f} THEN "rows" ELSE "vectors",
                                      !.todo = @ \ {f}])
        PROVE  IInv'
    <2>. DEFINE l == [op[w] EXCEPT !.at = IF op[w].todo = {f} THEN "rows" ELSE "vectors",
                                   !.todo = @ \ {f}]
    <2>1. op[w] \in Operation /\ op[w].kind # "rebuild"
      BY <1>3, WorkerKnown
    <2>2. l \in Operation /\ l.at \in {"rows", "vectors"} /\ l.kind = op[w].kind
          /\ l.todo = op[w].todo \ {f} /\ l.item = op[w].item /\ l.done = op[w].done
      BY <2>1 DEF Operation
    <2>3. Sound(l)
      BY <1>1, <2>1, <2>2, WorkerKnown DEF Sound
    <2>. QED
      BY <1>1, <1>3, <2>2, <2>3, WorkerStepInvariant DEF IInv, TypeOK, Uploads
  <1>. QED
    BY <1>2, <1>3 DEF DeletionFails

LEMMA RemoveRowsStep ==
    ASSUME IInv, NEW w \in Workers, RemoveRows(w)
    PROVE  IInv'
  <1>1. PICK removed \in {op[w].done, {}} :
            /\ op[w].at = "rows"
            /\ rows' = rows \ removed
            /\ Finish(w)
            /\ UNCHANGED <<status, disk, vectors, doomed, lost, unsettled, Uploads>>
    BY DEF RemoveRows
  <1>2. Shrinks
    BY <1>1, WorkerKnown DEF Shrinks, Uploads
  <1>. QED
    BY <1>1, <1>2, FinishInvariant DEF IInv, TypeOK, Uploads

LEMMA BeginCleanupStep ==
    ASSUME IInv, NEW w \in Workers, BeginCleanup(w)
    PROVE  IInv'
  <1>1. PICK kind \in {"cleanup", "own", "admin"} :
            /\ op[w].at = "idle"
            /\ SetTo(w, [op[w] EXCEPT !.at = "wipe", !.kind = kind, !.todo = rows])
            /\ doomed' = doomed \union rows
            /\ UNCHANGED <<rows, status, disk, vectors, lost, unsettled, Uploads>>
    BY DEF BeginCleanup
  <1>. DEFINE l == [op[w] EXCEPT !.at = "wipe", !.kind = kind, !.todo = rows]
  <1>2. rows \subseteq Files /\ op[w] \in Operation
        /\ op[w].kind = "delete" /\ op[w].item = {} /\ op[w].done = {}
    BY <1>1, WorkerKnown DEF IInv, TypeOK, Idle
  <1>3. l \in Operation /\ l.at = "wipe" /\ l.kind = kind /\ l.todo = rows /\ l.item = {}
        /\ l.done = {}
    BY <1>2 DEF Operation
  <1>4. Shrinks
    BY <1>1 DEF Shrinks, Uploads
  <1>5. Sound(l)
    BY <1>1, <1>3, RowsEnded DEF Sound
  <1>. QED
    BY <1>1, <1>2, <1>3, <1>4, <1>5, WorkerStepInvariant DEF IInv, TypeOK, Uploads

LEMMA WipeVectorsStep ==
    ASSUME IInv, NEW w \in Workers, WipeVectors(w)
    PROVE  IInv'
  <1>. DEFINE l == [op[w] EXCEPT !.at = "erase"]
  <1>1. op[w] \in Operation /\ op[w].kind # "rebuild"
    BY WorkerKnown DEF WipeVectors
  <1>2. Shrinks /\ UNCHANGED <<rows, status, disk, doomed, lost, unsettled, Uploads>>
    BY DEF WipeVectors, Shrinks, Uploads
  <1>3. vectors' \subseteq Files /\ (SetTo(w, l) \/ Finish(w))
    BY DEF WipeVectors, Go, IInv, TypeOK
  <1>4. l \in Operation /\ l.at = "erase" /\ l.kind = op[w].kind /\ l.todo = op[w].todo
        /\ l.item = op[w].item /\ l.done = op[w].done
    BY <1>1 DEF Operation
  <1>5. Sound(l)
    BY <1>1, <1>2, <1>4, WorkerKnown DEF Sound
  <1>6. CASE SetTo(w, l)
    BY <1>2, <1>3, <1>4, <1>5, <1>6, WorkerStepInvariant DEF IInv, TypeOK, Uploads
  <1>7. CASE Finish(w)
    BY <1>2, <1>3, <1>7, FinishInvariant DEF IInv, TypeOK, Uploads
  <1>. QED
    BY <1>3, <1>6, <1>7

LEMMA EraseFilesStep ==
    ASSUME IInv, NEW w \in Workers, EraseFiles(w)
    PROVE  IInv'
  <1>1. PICK kept \in SUBSET (op[w].todo \intersect disk) :
            /\ op[w].at = "erase"
            /\ disk' = disk \ (op[w].todo \ kept)
            /\ IF kept # {} THEN Finish(w)
               ELSE Go(w, IF op[w].kind = "admin" THEN "close" ELSE "purge")
            /\ UNCHANGED <<rows, status, vectors, doomed, lost, unsettled, Uploads>>
    BY DEF EraseFiles
  <1>. DEFINE l == [op[w] EXCEPT !.at = IF op[w].kind = "admin" THEN "close" ELSE "purge"]
  <1>2. op[w] \in Operation /\ op[w].kind # "rebuild"
    BY <1>1, WorkerKnown
  <1>3. l \in Operation /\ l.at \in {"close", "purge"} /\ l.kind = op[w].kind
        /\ l.todo = op[w].todo /\ l.item = op[w].item /\ l.done = op[w].done
    BY <1>2 DEF Operation
  <1>4. Shrinks
    BY <1>1, <1>2, WorkerKnown DEF Shrinks, Uploads
  <1>5. Sound(l)
    BY <1>1, <1>2, <1>3, WorkerKnown DEF Sound
  <1>6. CASE SetTo(w, l)
    BY <1>1, <1>3, <1>4, <1>5, <1>6, WorkerStepInvariant DEF IInv, TypeOK, Uploads
  <1>7. CASE Finish(w)
    BY <1>1, <1>4, <1>7, FinishInvariant DEF IInv, TypeOK, Uploads
  <1>. QED
    BY <1>1, <1>6, <1>7 DEF Go

LEMMA PurgeStep ==
    ASSUME IInv, NEW w \in Workers, Purge(w)
    PROVE  IInv'
  <1>. DEFINE l == [op[w] EXCEPT !.at = "close"]
  <1>1. op[w] \in Operation /\ op[w].kind # "rebuild"
    BY WorkerKnown DEF Purge
  <1>2. rows' = {} /\ doomed' = doomed \union rows /\ lost' = lost \union (rows \intersect disk)
        /\ UNCHANGED <<status, disk, vectors, unsettled, Uploads>>
        /\ (SetTo(w, l) \/ Finish(w))
    BY DEF Purge, Go
  <1>3. l \in Operation /\ l.at = "close" /\ l.kind = op[w].kind /\ l.todo = op[w].todo
        /\ l.item = op[w].item /\ l.done = op[w].done
    BY <1>1 DEF Operation
  <1>4. Shrinks /\ doomed' \subseteq Files /\ lost' \subseteq Files
    BY <1>2 DEF Shrinks, Uploads, IInv, TypeOK
  <1>5. Sound(l)
    BY <1>1, <1>2, <1>3, WorkerKnown DEF Sound
  <1>6. CASE SetTo(w, l)
    BY <1>2, <1>3, <1>4, <1>5, <1>6, WorkerStepInvariant DEF IInv, TypeOK, Uploads
  <1>7. CASE Finish(w)
    BY <1>2, <1>4, <1>7, FinishInvariant DEF IInv, TypeOK, Uploads
  <1>. QED
    BY <1>2, <1>6, <1>7

LEMMA CloseAccountStep ==
    ASSUME IInv, NEW w \in Workers, CloseAccount(w)
    PROVE  IInv'
  <1>1. Shrinks /\ doomed' \subseteq Files /\ lost' \subseteq Files
    BY DEF CloseAccount, Shrinks, IInv, TypeOK
  <1>. QED
    BY <1>1, FinishInvariant DEF CloseAccount, IInv, TypeOK

LEMMA RemovalFailsStep ==
    ASSUME IInv, NEW w \in Workers, RemovalFails(w)
    PROVE  IInv'
  <1>1. Shrinks
    BY DEF RemovalFails, Shrinks, Uploads
  <1>. QED
    BY <1>1, FinishInvariant DEF RemovalFails, IInv, TypeOK, Uploads

LEMMA WorkerDiesStep ==
    ASSUME IInv, NEW w \in Workers, WorkerDies(w)
    PROVE  IInv'
  <1>1. Shrinks
    BY DEF WorkerDies, Shrinks
  <1>. QED
    BY <1>1, FinishInvariant DEF WorkerDies, IInv, TypeOK

\* A step of a rebuild removes nothing.
LEMMA RebuildInvariant ==
    ASSUME IInv, NEW w \in Workers, NEW l \in Operation, SetTo(w, l), l.kind = "rebuild",
           l.at \in {"list", "read", "add", "save"},
           UNCHANGED <<rows, status, disk, doomed, lost, Uploads>>,
           vectors' \subseteq Files, unsettled' \in BOOLEAN
    PROVE  IInv'
  <1>1. Shrinks
    BY DEF Shrinks, Uploads
  <1>2. Sound(l)
    BY DEF Sound
  <1>. QED
    BY <1>1, <1>2, WorkerStepInvariant DEF IInv, TypeOK, Uploads

LEMMA BeginRebuildStep ==
    ASSUME IInv, NEW w \in Workers, BeginRebuild(w)
    PROVE  IInv'
  <1>. DEFINE l == [op[w] EXCEPT !.at = "list", !.kind = "rebuild"]
  <1>1. l \in Operation /\ l.at = "list" /\ l.kind = "rebuild"
    BY WorkerKnown DEF Operation
  <1>. QED
    BY <1>1, RebuildInvariant DEF BeginRebuild, IInv, TypeOK

LEMMA ListFilesStep ==
    ASSUME IInv, NEW w \in Workers, ListFiles(w)
    PROVE  IInv'
  <1>. DEFINE l == [op[w] EXCEPT !.at = "read", !.todo = rows, !.loaded = status]
  <1>1. UNCHANGED <<rows, status, disk, vectors, doomed, lost, Uploads>>
        /\ (SetTo(w, l) \/ Finish(w)) /\ op[w].at = "list"
    BY DEF ListFiles
  <1>2. unsettled' \in BOOLEAN
    BY DEF ListFiles, IInv, TypeOK
  <1>3. CASE Finish(w)
    <2>1. Shrinks
      BY <1>1 DEF Shrinks, Uploads
    <2>. QED
      BY <1>1, <1>2, <1>3, <2>1, FinishInvariant DEF IInv, TypeOK, Uploads
  <1>4. CASE SetTo(w, l)
    <2>1. op[w] \in Operation /\ op[w].kind = "rebuild" /\ rows \subseteq Files
          /\ status \in [Files -> Statuses]
      BY <1>1, WorkerKnown DEF IInv, TypeOK
    <2>2. l \in Operation /\ l.at = "read" /\ l.kind = "rebuild"
      BY <2>1 DEF Operation
    <2>. QED
      BY <1>1, <1>2, <1>4, <2>2, RebuildInvariant DEF IInv, TypeOK
  <1>. QED
    BY <1>1, <1>3, <1>4

LEMMA ReadFileStep ==
    ASSUME IInv, NEW w \in Workers, ReadFile(w)
    PROVE  IInv'
  <1>1. PICK f \in op[w].todo \intersect disk :
            /\ op[w].at = "read"
            /\ SetTo(w, [op[w] EXCEPT !.at = "add", !.todo = @ \ {f}, !.item = {f}])
            /\ UNCHANGED <<rows, status, disk, vectors, doomed, lost, unsettled, Uploads>>
    BY DEF ReadFile
  <1>. DEFINE l == [op[w] EXCEPT !.at = "add", !.todo = @ \ {f}, !.item = {f}]
  <1>2. op[w] \in Operation /\ op[w].kind = "rebuild" /\ f \in Files
    BY <1>1, WorkerKnown
  <1>3. l \in Operation /\ l.at = "add" /\ l.kind = "rebuild"
    BY <1>2 DEF Operation
  <1>. QED
    BY <1>1, <1>3, RebuildInvariant DEF IInv, TypeOK

LEMMA AddVectorsStep ==
    ASSUME IInv, NEW w \in Workers, AddVectors(w)
    PROVE  IInv'
  <1>1. PICK f \in op[w].item :
            /\ op[w].at = "add"
            /\ vectors' = vectors \union {f}
            /\ SetTo(w, [op[w] EXCEPT !.at = NextRead(w), !.item = {}, !.done = @ \union {f}])
            /\ UNCHANGED <<rows, status, disk, doomed, lost, unsettled, Uploads>>
    BY DEF AddVectors
  <1>. DEFINE l == [op[w] EXCEPT !.at = NextRead(w), !.item = {}, !.done = @ \union {f}]
  <1>2. op[w] \in Operation /\ op[w].kind = "rebuild" /\ f \in Files
    BY <1>1, WorkerKnown
  <1>3. l \in Operation /\ l.at \in {"save", "read"} /\ l.kind = "rebuild"
    BY <1>2 DEF Operation, NextRead
  <1>. QED
    BY <1>1, <1>2, <1>3, RebuildInvariant DEF IInv, TypeOK

LEMMA IndexingFailsStep ==
    ASSUME IInv, NEW w \in Workers, IndexingFails(w)
    PROVE  IInv'
  <1>1. UNCHANGED <<rows, status, disk, vectors, doomed, lost, unsettled, Uploads>>
    BY DEF IndexingFails
  <1>2. ASSUME NEW f \in op[w].item, op[w].at = "add",
               SetTo(w, [op[w] EXCEPT !.at = NextRead(w), !.item = {}, !.failed = @ \union {f}])
        PROVE  IInv'
    <2>. DEFINE l == [op[w] EXCEPT !.at = NextRead(w), !.item = {}, !.failed = @ \union {f}]
    <2>1. op[w] \in Operation /\ op[w].kind = "rebuild" /\ f \in Files
      BY <1>2, WorkerKnown
    <2>2. l \in Operation /\ l.at \in {"save", "read"} /\ l.kind = "rebuild"
      BY <2>1 DEF Operation, NextRead
    <2>. QED
      BY <1>1, <1>2, <2>2, RebuildInvariant DEF IInv, TypeOK
  <1>3. ASSUME NEW f \in op[w].todo, op[w].at = "read",
               SetTo(w, [op[w] EXCEPT !.at = IF op[w].todo = {f} THEN "save" ELSE "read",
                                      !.todo = @ \ {f}, !.failed = @ \union {f}])
        PROVE  IInv'
    <2>. DEFINE l == [op[w] EXCEPT !.at = IF op[w].todo = {f} THEN "save" ELSE "read",
                                   !.todo = @ \ {f}, !.failed = @ \union {f}]
    <2>1. op[w] \in Operation /\ op[w].kind = "rebuild" /\ f \in Files
      BY <1>3, WorkerKnown
    <2>2. l \in Operation /\ l.at \in {"save", "read"} /\ l.kind = "rebuild"
      BY <2>1 DEF Operation
    <2>. QED
      BY <1>1, <1>3, <2>2, RebuildInvariant DEF IInv, TypeOK
  <1>. QED
    BY <1>2, <1>3 DEF IndexingFails

LEMMA SaveStatusesStep ==
    ASSUME IInv, NEW w \in Workers, SaveStatuses(w)
    PROVE  IInv'
  <1>1. status' \in [Files -> Statuses]
    BY DEF SaveStatuses, Outcome, Statuses, IInv, TypeOK
  <1>2. Shrinks
    BY DEF SaveStatuses, Shrinks, Uploads
  <1>. QED
    BY <1>1, <1>2, FinishInvariant DEF SaveStatuses, IInv, TypeOK, Uploads

LEMMA RebuildFailsStep ==
    ASSUME IInv, NEW w \in Workers, RebuildFails(w)
    PROVE  IInv'
  <1>1. Shrinks
    BY DEF RebuildFails, Shrinks, Uploads
  <1>. QED
    BY <1>1, FinishInvariant DEF RebuildFails, IInv, TypeOK, Uploads

------------------------------------------------------------------------------
(* The theorems.                                                           *)

LEMMA InitInvariant == Init => IInv
  <1>. SUFFICES ASSUME Init PROVE IInv
    OBVIOUS
  <1>1. req \in [Requests -> Upload]
    BY DEF Init, Upload
  <1>2. op \in [Workers -> Operation]
    BY IdleTyped DEF Init
  <1>3. TypeOK
    BY <1>1, <1>2 DEF Init, TypeOK, Statuses
  <1>4. RowInv
    <2>1. Cardinality(rows) = 0 /\ Cardinality(Reserved) = 0
      BY FS_EmptySet DEF Init, Reserved
    <2>. QED
      BY <2>1, StorageAssumption DEF Init, RowInv, WithinStorage
  <1>5. NoOrphan /\ RowKeepsFile
    BY DEF Init, NoOrphan, RowKeepsFile
  <1>6. \A r \in Requests : UploadInv(r) /\ ReplyInv(r)
    BY DEF Init, UploadInv, ReplyInv
  <1>7. \A w \in Workers : WorkerInv(w)
    BY DEF Init, WorkerInv, Idle
  <1>. QED
    BY <1>3, <1>4, <1>5, <1>6, <1>7 DEF IInv

LEMMA StepInvariant == IInv /\ [Next]_vars => IInv'
  <1>. SUFFICES ASSUME IInv, [Next]_vars PROVE IInv'
    OBVIOUS
  <1>1. CASE UNCHANGED vars
    BY <1>1 DEF vars, IInv, TypeOK, RowInv, WithinStorage, Reserved, NoOrphan, RowKeepsFile,
                UploadInv, ReplyInv, WorkerInv, Ended
  <1>2. ASSUME NEW r \in Requests, UploadStep(r) \/ Expire(r) \/ UploadDies(r)
        PROVE  IInv'
    BY <1>2, StageStep, LookUpStep, LockUserStep, CountUsedStep, ReserveStep, MoveStep, CommitStep,
       UploadFailsStep, CleanStep, ReleaseStep, RereadStep, ExpireStep, UploadDiesStep
       DEF UploadStep
  <1>3. ASSUME NEW w \in Workers, WorkerStep(w) \/ WorkerDies(w)
        PROVE  IInv'
    BY <1>3, BeginDeleteStep, DropVectorsStep, UnlinkStep, DeletionFailsStep, RemoveRowsStep,
       BeginCleanupStep, WipeVectorsStep, EraseFilesStep, PurgeStep, CloseAccountStep,
       RemovalFailsStep, BeginRebuildStep, ListFilesStep, ReadFileStep, AddVectorsStep,
       IndexingFailsStep, SaveStatusesStep, RebuildFailsStep, WorkerDiesStep
       DEF WorkerStep
  <1>. QED
    BY <1>1, <1>2, <1>3 DEF Next

\* The inductive invariant holds in every reachable state, whichever operations on the user's
\* files overlap, fail half way or die.
THEOREM Invariance == Spec => []IInv
  BY InitInvariant, StepInvariant, PTL DEF Spec

\* The variables keep their types.
THEOREM TypeCorrect == Spec => []TypeOK
  <1>1. IInv => TypeOK
    BY DEF IInv
  <1>. QED
    BY <1>1, Invariance, PTL

\* As long as no upload outlives its reservation, rows and reservations stay within the user's
\* space (reserve_user_storage, upload_file).
THEOREM StorageKept ==
    ASSUME ReservationsHold
    PROVE  Spec => []WithinStorage
  <1>1. IInv => WithinStorage
    BY DEF IInv, RowInv
  <1>. QED
    BY <1>1, Invariance, PTL

\* No file is left on disk that nobody owns, apart from those whose upload died, whose removal
\* failed, or whose row a clean-up deleted without having listed it (upload_file, delete_file).
THEOREM NoOrphans == Spec => []NoOrphan
  <1>1. IInv => NoOrphan
    BY DEF IInv
  <1>. QED
    BY <1>1, Invariance, PTL

\* No upload, whether it loses a race, fails or dies, removes the file of a row: only an
\* announced deletion does (_cleanup_staged_files, delete_file).
THEOREM RowsKeepFiles == Spec => []RowKeepsFile
  <1>1. IInv => RowKeepsFile
    BY DEF IInv
  <1>. QED
    BY <1>1, Invariance, PTL

\* Uploads that share an Idempotency-Key are answered with one and the same record, and only if
\* their contents agree (upload_file).
THEOREM SameRecord == Spec => []RetrySameFile
  <1>1. IInv => RetrySameFile
    <2>. SUFFICES ASSUME IInv, NEW r \in Requests, NEW s \in Requests,
                         Key[r] = Key[s], Key[r] # None, req[r].reply # {}, req[s].reply # {},
                         (req[r].reply \union req[s].reply) \intersect doomed = {}
                  PROVE  req[r].reply = req[s].reply /\ req[r].content = req[s].content
      BY DEF RetrySameFile
    <2>1. PICK t \in Requests :
            /\ Key[t] = Key[r] /\ req[r].reply = Batch[t] /\ req[t].content = req[r].content
            /\ Batch[t] \subseteq rows \union doomed
      BY DEF IInv, ReplyInv
    <2>2. PICK u \in Requests :
            /\ Key[u] = Key[s] /\ req[s].reply = Batch[u] /\ req[u].content = req[s].content
            /\ Batch[u] \subseteq rows \union doomed
      BY DEF IInv, ReplyInv
    <2>3. Batch[t] \intersect rows # {} /\ Batch[u] \intersect rows # {}
      BY <2>1, <2>2
    <2>4. t = u
      BY <2>1, <2>2, <2>3 DEF IInv, RowInv
    <2>. QED
      BY <2>1, <2>2, <2>4
  <1>. QED
    BY <1>1, Invariance, PTL

------------------------------------------------------------------------------
(* Rows and the index, where deletions and rebuilds do not overlap.        *)

\* A row says indexed, or failed, only of a file whose upload is over.
MarkedEnded == \A f \in Files : status[f] # "uploaded" => Ended(f)

IndexedRows == {f \in rows \ doomed : status[f] = "indexed"}

Known(w) == op[w].todo \union op[w].item \union op[w].done \union op[w].failed

\* What a worker relies on when nobody else deletes or rebuilds: a clean-up has announced every
\* indexed row before it wipes the vectors, and a rebuild has in hand every row that is
\* indexed, with the status it has, and vectors for all it has done.
Indexing(w) ==
    /\ op[w].at = "wipe" => IndexedRows = {}
    /\ op[w].at = "list" => op[w].item = {} /\ op[w].done = {} /\ op[w].failed = {}
    /\ op[w].at \in {"read", "add", "save"} =>
          /\ \A f \in Known(w) : Ended(f)
          /\ op[w].done \subseteq vectors
          /\ op[w].loaded = status
          /\ IndexedRows \subseteq Known(w)
          /\ op[w].at \in {"read", "save"} => op[w].item = {}
          /\ op[w].at = "add" => \E f \in Files : op[w].item = {f}
          /\ op[w].at = "save" => op[w].todo = {}

SInv ==
    /\ IInv
    /\ MarkedEnded
    /\ IndexedIsSearchable
    /\ \A w \in Workers : Indexing(w)

OneWorker == \A v, w \in Workers : v = w

LEMMA InitSearchable == Init => SInv
  <1>. SUFFICES ASSUME Init PROVE SInv
    OBVIOUS
  <1>1. IInv
    BY InitInvariant
  <1>2. MarkedEnded /\ IndexedIsSearchable
    BY DEF Init, MarkedEnded, IndexedIsSearchable
  <1>3. \A w \in Workers : Indexing(w)
    BY DEF Init, Indexing, Idle
  <1>. QED
    BY <1>1, <1>2, <1>3 DEF SInv

\* Uploads add rows of files that no rebuild has marked.
LEMMA UploadsKeepSearchable ==
    ASSUME SInv, IInv', UNCHANGED <<op, doomed, status, vectors, unsettled>>,
           \A f \in rows' \ rows : ~Ended(f),
           \A f \in Files : Ended(f) => Ended(f)'
    PROVE  SInv'
  <1>1. rows' \subseteq Files /\ rows \subseteq Files
    BY DEF IInv, TypeOK, SInv
  <1>2. \A f \in rows' \ rows : status[f] = "uploaded"
    BY <1>1 DEF SInv, MarkedEnded
  <1>3. IndexedRows' \subseteq IndexedRows
    BY <1>2 DEF IndexedRows
  <1>4. MarkedEnded'
    BY DEF SInv, MarkedEnded
  <1>5. IndexedIsSearchable'
    BY <1>2 DEF SInv, IndexedIsSearchable
  <1>6. ASSUME NEW w \in Workers
        PROVE  Indexing(w)'
    <2>1. Indexing(w) /\ op' = op /\ vectors' = vectors /\ status' = status
      BY DEF SInv
    <2>2. Known(w) \subseteq Files /\ Known(w)' = Known(w)
      BY <2>1 DEF SInv, IInv, TypeOK, Known, Operation
    <2>3. (\A f \in Known(w) : Ended(f)) => (\A f \in Known(w) : Ended(f)')
      BY <2>2
    <2>. QED
      BY <1>3, <2>1, <2>2, <2>3 DEF Indexing
  <1>. QED
    BY <1>4, <1>5, <1>6 DEF SInv

LEMMA UploadSearchable ==
    ASSUME SInv, IInv', NEW r \in Requests, UploadStep(r) \/ Expire(r) \/ UploadDies(r)
    PROVE  SInv'
  <1>. USE DEF SInv
  <1>1. UNCHANGED <<op, doomed, status, vectors, unsettled>>
    BY DEF UploadStep, Stage, LookUp, LockUser, CountUsed, Reserve, Move, Commit, UploadFails,
           Clean, Release, Reread, Expire, UploadDies
  <1>2. rows' = rows \/ (Commit(r) /\ rows' = rows \union Batch[r])
    BY DEF UploadStep, Stage, LookUp, LockUser, CountUsed, Reserve, Move, Commit, UploadFails,
           Clean, Release, Reread, Expire, UploadDies
  <1>3. \A f \in rows' \ rows : ~Ended(f)
    <2>1. Commit(r) => req[r].at # "done"
      BY DEF Commit
    <2>. QED
      BY <1>2, <2>1 DEF Ended
  <1>4. \A s \in Requests : req[s].at = "done" => req'[s].at = "done"
    <2>1. req \in [Requests -> Upload]
      BY DEF IInv, TypeOK
    <2>2. req' = req \/ (req[r].at # "done" /\ \E l : Become(r, l))
      BY DEF UploadStep, Stage, LookUp, LockUser, CountUsed, Reserve, Move, Commit, UploadFails,
             Clean, Release, Reread, Expire, UploadDies, MoveTo
    <2>. QED
      BY <2>1, <2>2 DEF Become
  <1>5. \A f \in Files : Ended(f) => Ended(f)'
    BY <1>4 DEF Ended
  <1>. QED
    BY <1>1, <1>3, <1>5, UploadsKeepSearchable

\* What is left to show of a step of the only worker that marks no row.
LEMMA WorkerSearchable ==
    ASSUME OneWorker, SInv, IInv', NEW w \in Workers, UNCHANGED <<req, status>>,
           Indexing(w)', IndexedIsSearchable'
    PROVE  SInv'
  <1>1. MarkedEnded'
    BY DEF SInv, MarkedEnded, Ended
  <1>2. \A v \in Workers : Indexing(v)'
    BY DEF OneWorker
  <1>. QED
    BY <1>1, <1>2 DEF SInv

\* A deletion or a clean-up only touches what it has announced.
LEMMA QuietStep ==
    ASSUME OneWorker, SInv, IInv', NEW w \in Workers,
           UNCHANGED <<req, status, unsettled>>, rows' \subseteq rows, doomed \subseteq doomed',
           vectors' = vectors \/ IndexedRows' \intersect (vectors \ vectors') = {},
           op[w].kind # "rebuild",
           op'[w].at \notin {"list", "read", "add", "save"},
           op'[w].at = "wipe" => IndexedRows' = {}
    PROVE  SInv'
  <1>1. Indexing(w)'
    BY DEF Indexing
  <1>2. IndexedIsSearchable'
    BY DEF SInv, IndexedIsSearchable, OneWorker, IndexedRows
  <1>. QED
    BY <1>1, <1>2, WorkerSearchable

LEMMA DeletionSearchable ==
    ASSUME OneWorker, SInv, IInv', NEW w \in Workers,
           BeginDelete(w) \/ DropVectors(w) \/ Unlink(w) \/ DeletionFails(w) \/ RemoveRows(w)
    PROVE  SInv'
  <1>1. op[w] \in Operation /\ WorkerInv(w)
    BY DEF SInv, IInv, TypeOK
  <1>2. op[w].kind # "rebuild" /\ op[w].at \in {"idle", "vectors", "unlink", "rows"}
    BY <1>1 DEF WorkerInv, Idle, BeginDelete, DropVectors, Unlink, DeletionFails, RemoveRows
  <1>3. UNCHANGED <<req, status, unsettled>> /\ rows' \subseteq rows /\ doomed \subseteq doomed'
    BY DEF BeginDelete, DropVectors, Unlink, DeletionFails, RemoveRows, Uploads
  <1>4. op'[w].at \in {"idle", "vectors", "unlink", "rows"}
    <2>. USE <1>1 DEF SetTo, Operation
    <2>0. op \in [Workers -> Operation]
      BY DEF SInv, IInv, TypeOK
    <2>1. ASSUME BeginDelete(w)
          PROVE  op'[w].at = "vectors"
      <3>1. PICK old \in (SUBSET rows) \ {{}} :
              SetTo(w, [op[w] EXCEPT !.at = "vectors", !.todo = old])
        BY <2>1 DEF BeginDelete
      <3>. DEFINE l == [op[w] EXCEPT !.at = "vectors", !.todo = old]
      <3>2. l.at = "vectors"
        OBVIOUS
      <3>. HIDE DEF l
      <3>. QED
        BY <2>0, <3>1, <3>2
    <2>2. ASSUME DropVectors(w)
          PROVE  op'[w].at = "unlink"
      <3>1. PICK f : SetTo(w, [op[w] EXCEPT !.at = "unlink", !.todo = @ \ {f}, !.item = {f}])
        BY <2>2 DEF DropVectors
      <3>. DEFINE l == [op[w] EXCEPT !.at = "unlink", !.todo = @ \ {f}, !.item = {f}]
      <3>2. l.at = "unlink"
        OBVIOUS
      <3>. HIDE DEF l
      <3>. QED
        BY <2>0, <3>1, <3>2
    <2>3. ASSUME Unlink(w)
          PROVE  op'[w].at \in {"vectors", "rows"}
      <3>. DEFINE l == [op[w] EXCEPT !.at = NextFile(w), !.done = @ \union op[w].item,
                                     !.item = {}]
      <3>1. SetTo(w, l) /\ l.at \in {"vectors", "rows"}
        BY <2>3 DEF Unlink, NextFile
      <3>. HIDE DEF l
      <3>. QED
        BY <2>0, <3>1
    <2>4. ASSUME DeletionFails(w)
          PROVE  op'[w].at \in {"vectors", "rows"}
      <3>1. ASSUME SetTo(w, [op[w] EXCEPT !.at = NextFile(w), !.item = {}])
            PROVE  op'[w].at \in {"vectors", "rows"}
        BY <2>0, <3>1 DEF NextFile
      <3>2. ASSUME NEW f, SetTo(w, [op[w] EXCEPT !.at = IF op[w].todo = {f} THEN "rows"
                                                        ELSE "vectors", !.todo = @ \ {f}])
            PROVE  op'[w].at \in {"vectors", "rows"}
        <4>. DEFINE l == [op[w] EXCEPT !.at = IF op[w].todo = {f} THEN "rows" ELSE "vectors",
                                       !.todo = @ \ {f}]
        <4>1. SetTo(w, l) /\ l.at \in {"vectors", "rows"}
          BY <3>2
        <4>. HIDE DEF l
        <4>. QED
          BY <2>0, <4>1
      <3>. QED
        BY <2>4, <3>1, <3>2 DEF DeletionFails
    <2>5. RemoveRows(w) => op'[w].at = "idle"
      BY <2>0 DEF RemoveRows, Finish, Idle
    <2>. QED
      BY <2>1, <2>2, <2>3, <2>4, <2>5
  <1>5. vectors' = vectors \/ IndexedRows' \intersect (vectors \ vectors') = {}
    <2>1. CASE DropVectors(w)
      BY <1>1, <1>2, <2>1 DEF DropVectors, WorkerInv, IndexedRows
    <2>2. CASE BeginDelete(w) \/ Unlink(w) \/ DeletionFails(w) \/ RemoveRows(w)
      BY <2>2 DEF BeginDelete, Unlink, DeletionFails, RemoveRows
    <2>. QED
      BY <2>1, <2>2
  <1>. QED
    BY <1>2, <1>3, <1>4, <1>5, QuietStep

LEMMA CleanupSearchable ==
    ASSUME OneWorker, SInv, IInv', NEW w \in Workers,
           BeginCleanup(w) \/ WipeVectors(w) \/ EraseFiles(w) \/ Purge(w) \/ CloseAccount(w)
               \/ RemovalFails(w)
    PROVE  SInv'
  <1>1. op[w] \in Operation /\ WorkerInv(w) /\ Indexing(w)
    BY DEF SInv, IInv, TypeOK
  <1>2. op[w].kind # "rebuild"
    BY <1>1 DEF WorkerInv, Idle, BeginCleanup, WipeVectors, EraseFiles, Purge, CloseAccount,
                RemovalFails
  <1>3. UNCHANGED <<req, status, unsettled>> /\ rows' \subseteq rows /\ doomed \subseteq doomed'
    BY DEF BeginCleanup, WipeVectors, EraseFiles, Purge, CloseAccount, RemovalFails, Uploads
  <1>4. op'[w].at \in {"idle", "wipe", "erase", "purge", "close"}
        /\ (op'[w].at = "wipe" => BeginCleanup(w))
    <2>. USE <1>1 DEF SetTo, Go, Operation
    <2>0. op \in [Workers -> Operation]
      BY DEF SInv, IInv, TypeOK
    <2>1. BeginCleanup(w) => op'[w].at = "wipe"
      BY <2>0 DEF BeginCleanup
    <2>2. WipeVectors(w) => op'[w].at \in {"idle", "erase"}
      BY <2>0 DEF WipeVectors, Finish, Idle
    <2>3. EraseFiles(w) => op'[w].at \in {"idle", "purge", "close"}
      BY <2>0 DEF EraseFiles, Finish, Idle
    <2>4. Purge(w) => op'[w].at \in {"idle", "close"}
      BY <2>0 DEF Purge, Finish, Idle
    <2>5. CloseAccount(w) \/ RemovalFails(w) => op'[w].at = "idle"
      BY <2>0 DEF CloseAccount, RemovalFails, Finish, Idle
    <2>. QED
      BY <2>1, <2>2, <2>3, <2>4, <2>5
  <1>6. BeginCleanup(w) => IndexedRows' = {}
    BY DEF BeginCleanup, IndexedRows
  <1>7. vectors' = vectors \/ IndexedRows' \intersect (vectors \ vectors') = {}
    <2>1. CASE WipeVectors(w)
      BY <1>1, <2>1 DEF WipeVectors, Indexing, IndexedRows
    <2>2. CASE BeginCleanup(w) \/ EraseFiles(w) \/ Purge(w) \/ CloseAccount(w) \/ RemovalFails(w)
      BY <2>2 DEF BeginCleanup, EraseFiles, Purge, CloseAccount, RemovalFails
    <2>. QED
      BY <2>1, <2>2
  <1>. QED
    BY <1>2, <1>3, <1>4, <1>6, <1>7, QuietStep

\* A rebuild under way: nothing is claimed of the rows until it ends.
LEMMA RebuildGoesOn ==
    ASSUME OneWorker, SInv, IInv', NEW w \in Workers, UNCHANGED <<req, status>>,
           op'[w].at # "idle", op'[w].kind = "rebuild", Indexing(w)'
    PROVE  SInv'
  <1>1. IndexedIsSearchable'
    BY DEF IndexedIsSearchable
  <1>. QED
    BY <1>1, WorkerSearchable

LEMMA BeginRebuildSearchable ==
    ASSUME OneWorker, SInv, IInv', NEW w \in Workers, BeginRebuild(w)
    PROVE  SInv'
  <1>1. op[w] = Idle /\ op \in [Workers -> Operation]
    BY DEF SInv, IInv, TypeOK, WorkerInv, BeginRebuild
  <1>2. op'[w] = [op[w] EXCEPT !.at = "list", !.kind = "rebuild"]
    BY <1>1 DEF BeginRebuild, SetTo
  <1>3. op'[w].at = "list" /\ op'[w].kind = "rebuild" /\ Indexing(w)'
    BY <1>1, <1>2 DEF Indexing, Idle
  <1>. QED
    BY <1>3, RebuildGoesOn DEF BeginRebuild, Uploads

LEMMA ListFilesSearchable ==
    ASSUME OneWorker, SInv, IInv', NEW w \in Workers, ListFiles(w)
    PROVE  SInv'
  <1>1. op[w] \in Operation /\ op \in [Workers -> Operation] /\ WorkerInv(w) /\ Indexing(w)
    BY DEF SInv, IInv, TypeOK
  <1>2. CASE rows = {}
    <2>1. op'[w] = Idle /\ rows' = {}
      BY <1>1, <1>2 DEF ListFiles, Finish, SetTo
    <2>2. Indexing(w)' /\ IndexedIsSearchable'
      BY <2>1 DEF Indexing, Idle, IndexedIsSearchable
    <2>. QED
      BY <2>2, WorkerSearchable DEF ListFiles, Uploads
  <1>3. CASE rows # {}
    <2>. DEFINE l == [op[w] EXCEPT !.at = "read", !.todo = rows, !.loaded = status]
    <2>1. op'[w] = l
      BY <1>1, <1>3 DEF ListFiles, SetTo
    <2>2. /\ l.at = "read" /\ l.todo = rows /\ l.loaded = status /\ l.kind = "rebuild"
          /\ l.item = {} /\ l.done = {} /\ l.failed = {}
      BY <1>1 DEF ListFiles, WorkerInv, Indexing, Operation
    <2>. HIDE DEF l
    <2>3. Known(w)' = rows
      BY <2>1, <2>2 DEF Known
    <2>4. UNCHANGED <<req, status, rows, doomed>>
      BY DEF ListFiles, Uploads
    <2>5. \A f \in rows : Ended(f)'
      BY <2>4, RowsEnded DEF SInv, Ended
    <2>6. Indexing(w)'
      BY <2>1, <2>2, <2>3, <2>4, <2>5 DEF Indexing, IndexedRows
    <2>. QED
      BY <2>1, <2>2, <2>4, <2>6, RebuildGoesOn
  <1>. QED
    BY <1>2, <1>3

\* Reading, indexing or giving up a file moves it within what the rebuild has in hand.
LEMMA IndexingGoesOn ==
    ASSUME OneWorker, SInv, IInv', NEW w \in Workers, op[w].at \in {"read", "add"},
           UNCHANGED <<req, status, rows, doomed>>,
           op'[w].at \in {"read", "add", "save"}, op'[w].loaded = op[w].loaded,
           op'[w].kind = op[w].kind, Known(w)' = Known(w), op'[w].done \subseteq vectors',
           op'[w].at \in {"read", "save"} => op'[w].item = {},
           op'[w].at = "add" => \E f \in Files : op'[w].item = {f},
           op'[w].at = "save" => op'[w].todo = {}
    PROVE  SInv'
  <1>1. WorkerInv(w) /\ Indexing(w)
    BY DEF SInv, IInv
  <1>2. op'[w].kind = "rebuild" /\ op'[w].at # "idle"
    BY <1>1 DEF WorkerInv
  <1>3. \A f \in Known(w) : Ended(f)'
    BY <1>1 DEF Indexing, Ended
  <1>4. IndexedRows' = IndexedRows
    BY DEF IndexedRows
  <1>5. Indexing(w)'
    BY <1>1, <1>3, <1>4 DEF Indexing
  <1>. QED
    BY <1>2, <1>5, RebuildGoesOn

LEMMA ReadFileSearchable ==
    ASSUME OneWorker, SInv, IInv', NEW w \in Workers, ReadFile(w)
    PROVE  SInv'
  <1>1. op[w] \in Operation /\ op \in [Workers -> Operation] /\ WorkerInv(w) /\ Indexing(w)
    BY DEF SInv, IInv, TypeOK
  <1>2. PICK f \in op[w].todo \intersect disk :
            /\ op[w].at = "read"
            /\ SetTo(w, [op[w] EXCEPT !.at = "add", !.todo = @ \ {f}, !.item = {f}])
            /\ UNCHANGED <<rows, status, disk, vectors, doomed, lost, unsettled, Uploads>>
    BY DEF ReadFile
  <1>. DEFINE l == [op[w] EXCEPT !.at = "add", !.todo = @ \ {f}, !.item = {f}]
  <1>3. op'[w] = l
    BY <1>1, <1>2 DEF SetTo
  <1>4. /\ l.at = "add" /\ l.kind = op[w].kind /\ l.loaded = op[w].loaded
        /\ l.todo = op[w].todo \ {f} /\ l.item = {f} /\ l.done = op[w].done
        /\ l.failed = op[w].failed
    BY <1>1 DEF Operation
  <1>. HIDE DEF l
  <1>5. op[w].item = {} /\ op[w].done \subseteq vectors /\ f \in Files
    BY <1>1, <1>2 DEF Indexing, Operation
  <1>6. Known(w)' = Known(w)
    BY <1>2, <1>3, <1>4, <1>5 DEF Known
  <1>. QED
    BY <1>2, <1>3, <1>4, <1>5, <1>6, IndexingGoesOn DEF Uploads

LEMMA AddVectorsSearchable ==
    ASSUME OneWorker, SInv, IInv', NEW w \in Workers, AddVectors(w)
    PROVE  SInv'
  <1>1. op[w] \in Operation /\ op \in [Workers -> Operation] /\ WorkerInv(w) /\ Indexing(w)
    BY DEF SInv, IInv, TypeOK
  <1>2. PICK f \in op[w].item :
            /\ op[w].at = "add"
            /\ vectors' = vectors \union {f}
            /\ SetTo(w, [op[w] EXCEPT !.at = NextRead(w), !.item = {}, !.done = @ \union {f}])
            /\ UNCHANGED <<rows, status, disk, doomed, lost, unsettled, Uploads>>
    BY DEF AddVectors
  <1>. DEFINE l == [op[w] EXCEPT !.at = NextRead(w), !.item = {}, !.done = @ \union {f}]
  <1>3. op'[w] = l
    BY <1>1, <1>2 DEF SetTo
  <1>4. /\ l.at = NextRead(w) /\ l.kind = op[w].kind /\ l.loaded = op[w].loaded
        /\ l.todo = op[w].todo /\ l.item = {} /\ l.done = op[w].done \union {f}
        /\ l.failed = op[w].failed
    BY <1>1 DEF Operation
  <1>. HIDE DEF l
  <1>5. l.at \in {"read", "save"} /\ (l.at = "save" => l.todo = {})
    BY <1>4 DEF NextRead
  <1>6. op[w].item = {f} /\ op[w].done \subseteq vectors
    BY <1>1, <1>2 DEF Indexing
  <1>7. Known(w)' = Known(w)
    BY <1>3, <1>4, <1>6 DEF Known
  <1>. QED
    BY <1>2, <1>3, <1>4, <1>5, <1>6, <1>7, IndexingGoesOn DEF Uploads

LEMMA IndexingFailsSearchable ==
    ASSUME OneWorker, SInv, IInv', NEW w \in Workers, IndexingFails(w)
    PROVE  SInv'
  <1>1. op[w] \in Operation /\ op \in [Workers -> Operation] /\ WorkerInv(w) /\ Indexing(w)
    BY DEF SInv, IInv, TypeOK
  <1>2. UNCHANGED <<rows, status, vectors, doomed, req>>
    BY DEF IndexingFails, Uploads
  <1>3. ASSUME NEW f \in op[w].item, op[w].at = "add",
               SetTo(w, [op[w] EXCEPT !.at = NextRead(w), !.item = {}, !.failed = @ \union {f}])
        PROVE  SInv'
    <2>. DEFINE l == [op[w] EXCEPT !.at = NextRead(w), !.item = {}, !.failed = @ \union {f}]
    <2>1. op'[w] = l
      BY <1>1, <1>3 DEF SetTo
    <2>2. /\ l.at = NextRead(w) /\ l.kind = op[w].kind /\ l.loaded = op[w].loaded
          /\ l.todo = op[w].todo /\ l.item = {} /\ l.done = op[w].done
          /\ l.failed = op[w].failed \union {f}
      BY <1>1 DEF Operation
    <2>. HIDE DEF l
    <2>3. l.at \in {"read", "save"} /\ (l.at = "save" => l.todo = {})
      BY <2>2 DEF NextRead
    <2>4. op[w].item = {f} /\ op[w].done \subseteq vectors
      BY <1>1, <1>3 DEF Indexing
    <2>5. Known(w)' = Known(w)
      BY <2>1, <2>2, <2>4 DEF Known
    <2>. QED
      BY <1>2, <1>3, <2>1, <2>2, <2>3, <2>4, <2>5, IndexingGoesOn
  <1>4. ASSUME NEW f \in op[w].todo, op[w].at = "read",
               SetTo(w, [op[w] EXCEPT !.at = IF op[w].todo = {f} THEN "save" ELSE "read",
                                      !.todo = @ \ {f}, !.failed = @ \union {f}])
        PROVE  SInv'
    <2>. DEFINE l == [op[w] EXCEPT !.at = IF op[w].todo = {f} THEN "save" ELSE "read",
                                   !.todo = @ \ {f}, !.failed = @ \union {f}]
    <2>1. op'[w] = l
      BY <1>1, <1>4 DEF SetTo
    <2>2. /\ l.at = (IF op[w].todo = {f} THEN "save" ELSE "read") /\ l.kind = op[w].kind
          /\ l.loaded = op[w].loaded /\ l.todo = op[w].todo \ {f} /\ l.item = op[w].item
          /\ l.done = op[w].done /\ l.failed = op[w].failed \union {f}
      BY <1>1 DEF Operation
    <2>. HIDE DEF l
    <2>3. l.at \in {"read", "save"} /\ (l.at = "save" => l.todo = {})
      BY <2>2
    <2>4. op[w].item = {} /\ op[w].done \subseteq vectors
      BY <1>1, <1>4 DEF Indexing
    <2>5. Known(w)' = Known(w)
      BY <1>4, <2>1, <2>2 DEF Known
    <2>. QED
      BY <1>2, <1>4, <2>1, <2>2, <2>3, <2>4, <2>5, IndexingGoesOn
  <1>. QED
    BY <1>3, <1>4 DEF IndexingFails

\* The statuses that are stored agree with the vectors: what is indexed was added by this
\* rebuild, as it had every indexed row in hand and the vectors were wiped before.
LEMMA SaveStatusesSearchable ==
    ASSUME OneWorker, SInv, IInv', NEW w \in Workers, SaveStatuses(w)
    PROVE  SInv'
  <1>1. op[w] \in Operation /\ op \in [Workers -> Operation] /\ WorkerInv(w) /\ Indexing(w)
    BY DEF SInv, IInv, TypeOK
  <1>2. op'[w] = Idle /\ UNCHANGED <<rows, vectors, doomed, req>>
    BY <1>1 DEF SaveStatuses, Finish, SetTo, Uploads
  <1>3. /\ op[w].done \subseteq vectors /\ op[w].loaded = status
        /\ IndexedRows \subseteq op[w].done \union op[w].failed
        /\ \A f \in op[w].done \union op[w].failed : Ended(f)
    BY <1>1 DEF SaveStatuses, Indexing, Known
  <1>4. rows \subseteq Files
    BY DEF SInv, IInv, TypeOK
  <1>5. \A f \in Files : status'[f] = IF f \in Changed(w) THEN Outcome(w, f) ELSE status[f]
    BY DEF SaveStatuses
  <1>6. ASSUME NEW f \in rows' \ doomed', status'[f] = "indexed"
        PROVE  f \in vectors'
    <2>1. f \in rows \ doomed /\ f \in Files
      BY <1>2, <1>4
    <2>2. CASE f \in Changed(w)
      <3>1. Outcome(w, f) = "indexed" /\ f \in op[w].done \union op[w].failed
        BY <1>5, <1>6, <2>1, <2>2 DEF Changed
      <3>2. f \in op[w].done
        BY <3>1 DEF Outcome
      <3>. QED
        BY <1>2, <1>3, <3>2
    <2>3. CASE f \notin Changed(w)
      <3>1. status[f] = "indexed"
        BY <1>5, <1>6, <2>1, <2>3
      <3>2. f \in op[w].done \union op[w].failed
        BY <1>3, <2>1, <3>1 DEF IndexedRows
      <3>3. Outcome(w, f) = "indexed"
        BY <1>3, <2>3, <3>1, <3>2 DEF Changed
      <3>4. f \in op[w].done
        BY <3>2, <3>3 DEF Outcome
      <3>. QED
        BY <1>2, <1>3, <3>4
    <2>. QED
      BY <2>2, <2>3
  <1>7. IndexedIsSearchable'
    BY <1>6 DEF IndexedIsSearchable
  <1>8. MarkedEnded'
    <2>1. \A f \in Files : status'[f] # "uploaded" => Ended(f)
      BY <1>3, <1>5 DEF SInv, MarkedEnded, Changed
    <2>. QED
      BY <1>2, <2>1 DEF MarkedEnded, Ended
  <1>9. Indexing(w)'
    BY <1>2 DEF Indexing, Idle
  <1>. QED
    BY <1>7, <1>8, <1>9 DEF SInv, OneWorker

\* A rebuild that fails or dies is not settled; a deletion that dies leaves what it announced.
LEMMA StoppingSearchable ==
    ASSUME OneWorker, SInv, IInv', NEW w \in Workers, RebuildFails(w) \/ WorkerDies(w)
    PROVE  SInv'
  <1>1. op[w] \in Operation /\ op \in [Workers -> Operation] /\ WorkerInv(w)
    BY DEF SInv, IInv, TypeOK
  <1>2. op'[w] = Idle /\ UNCHANGED <<rows, status, vectors, doomed, req>>
    BY <1>1 DEF RebuildFails, WorkerDies, Finish, SetTo, Uploads
  <1>3. op[w].kind = "rebuild" => unsettled'
    BY <1>1 DEF RebuildFails, WorkerDies
  <1>4. op[w].kind # "rebuild" => unsettled' = unsettled
    <2>1. unsettled \in BOOLEAN
      BY DEF SInv, IInv, TypeOK
    <2>. QED
      BY <1>1, <2>1 DEF RebuildFails, WorkerDies, WorkerInv
  <1>5. IndexedIsSearchable'
    BY <1>2, <1>3, <1>4 DEF SInv, IndexedIsSearchable, OneWorker
  <1>6. Indexing(w)'
    BY <1>2 DEF Indexing, Idle
  <1>. QED
    BY <1>2, <1>5, <1>6, WorkerSearchable

LEMMA StepSearchable == ASSUME OneWorker, SInv, [Next]_vars PROVE SInv'
  <1>1. IInv'
    BY StepInvariant DEF SInv
  <1>2. CASE UNCHANGED vars
    <2>1. MarkedEnded' /\ IndexedIsSearchable'
      BY <1>2 DEF SInv, MarkedEnded, Ended, IndexedIsSearchable, vars
    <2>2. ASSUME NEW w \in Workers PROVE Indexing(w)'
      BY <1>2 DEF SInv, Indexing, Known, IndexedRows, Ended, vars
    <2>. QED
      BY <1>1, <2>1, <2>2 DEF SInv
  <1>3. ASSUME NEW r \in Requests, UploadStep(r) \/ Expire(r) \/ UploadDies(r)
        PROVE  SInv'
    BY <1>1, <1>3, UploadSearchable
  <1>4. ASSUME NEW w \in Workers, WorkerStep(w) \/ WorkerDies(w)
        PROVE  SInv'
    BY <1>1, <1>4, DeletionSearchable, CleanupSearchable, BeginRebuildSearchable,
       ListFilesSearchable, ReadFileSearchable, AddVectorsSearchable, IndexingFailsSearchable,
       SaveStatusesSearchable, StoppingSearchable DEF WorkerStep
  <1>. QED
    BY <1>2, <1>3, <1>4 DEF Next

\* Where deletions and rebuilds of a user's files do not overlap, a row that says indexed has
\* its vectors in the index until its deletion is announced, unless the last rebuild stopped
\* before it stored its statuses; uploads may overlap both (rebuild_vector_store, delete_file).
THEOREM IndexedHasVectors ==
    ASSUME OneWorker
    PROVE  Spec => []IndexedIsSearchable
  <1>1. SInv /\ [Next]_vars => SInv'
    BY StepSearchable
  <1>2. SInv => IndexedIsSearchable
    BY DEF SInv
  <1>. QED
    BY <1>1, <1>2, InitSearchable, PTL DEF Spec
=============================================================================
