------------------------- MODULE CngDocumentsProofs -------------------------
(***************************************************************************)
(* Why the order of the calls in saveDocument and deleteDocument is enough *)
(* to keep every document row with its file, for any number of requests,   *)
(* document types and concurrent handlers.                                 *)
(*                                                                         *)
(* The argument: a key enters a row once, in the upsert of its own upload. *)
(* A request that is going to delete the object of a row it found has seen *)
(* that row change or go away, and a key that has left its row never comes *)
(* back, because its upload has made its upsert already.  So each file     *)
(* that no row names has one request to blame: the one that stored it, or  *)
(* the one that took it out of its row.                                    *)
(*                                                                         *)
(* With the files left out of sight, the requests do to the rows what      *)
(* CngDocumentRows promises.                                               *)
(***************************************************************************)
EXTENDS CngDocuments, TLAPS

\* The upload of a key has not made its upsert: no row can name the key yet.
Unwritten == {"new", "upload.find", "upload.put", "upload.upsert"}

HasType == \A r \in Request : pc[r] # "new" => type[r] \in DocType

\* A row, and a row that a request found, name a key whose upload has made
\* its upsert, for the same document type.
RowsWritten == \A t \in DocType : rows[t] # NoRow =>
    pc[rows[t].key] \notin Unwritten /\ type[rows[t].key] = t

FoundWritten == \A r \in Request : found[r] # NoRow =>
    /\ pc[r] # "new"
    /\ pc[found[r].key] \notin Unwritten
    /\ type[found[r].key] = type[r]

FoundWhere == \A r \in Request :
    pc[r] \in {"upload.replace", "delete.row", "delete.object",
               "download.get", "unavailable"} => found[r] # NoRow

\* The row a request found does not name any more the key it will delete.
ReplacedGone == \A r \in Request :
    pc[r] \in {"upload.replace", "delete.object"} =>
        rows[type[r]] = NoRow \/ rows[type[r]].key # found[r].key

PutStored == \A r \in Request : pc[r] = "upload.upsert" => r \in store

IInv == /\ TypeOK /\ HasType
        /\ RowsWritten /\ FoundWritten /\ FoundWhere
        /\ ReplacedGone /\ PutStored
        /\ AnsweredUploadsKept

\* As long as no upsert that throws was made, no upload that takes its object
\* back has a row: what remains is that the rows name stored objects.
UndoneUnnamed == \A t \in DocType :
    rows[t] # NoRow => pc[rows[t].key] # "upload.undo"

NamedStored == \A t \in DocType : rows[t] # NoRow => rows[t].key \in store

StrictInv == /\ "ack" \notin mishaps => UndoneUnnamed /\ NamedStored
             /\ UnavailableMeansReplaced

LEMMA InitIInv == Init => IInv
BY DEF Init, IInv, TypeOK, HasType, RowsWritten, FoundWritten, FoundWhere,
       ReplacedGone, PutStored, AnsweredUploadsKept, InFlight

LEMMA InitStrictInv == Init => StrictInv
BY DEF Init, StrictInv, UndoneUnnamed, NamedStored, UnavailableMeansReplaced

-----------------------------------------------------------------------------
USE DEF IInv, TypeOK, HasType, RowsWritten, FoundWritten, FoundWhere,
        ReplacedGone, PutStored, AnsweredUploadsKept, Row, InFlight, Ended,
        Uploading, Deleting, Downloading, Unwritten, Goto, Upserted, WriteRow, KeyIn


LEMMA MishapsTyped == mishaps \subseteq Mishap /\ [Next]_vars =>
    mishaps' \subseteq Mishap /\ mishaps \subseteq mishaps'
BY DEF Mishap, Happens, Next, LeaveDraft, Begin, ArriveUpload, ArriveDelete,
   ArriveDownload, Arrive, Upload, FindReplaced, Find, PutObject, PutFails,
   UpsertRow, UpsertFails, UndoPut, DeleteReplaced, DeleteFromStore, Delete,
   FindDeleted, DeleteRow, DeleteRowFails, DeleteObject, Download,
   FindDownloaded, GetObject, GetObjectFails, DeleteObjectFails, Crash, vars

LEMMA NextIInv == IInv /\ [Next]_vars => IInv'
<1> SUFFICES ASSUME IInv, [Next]_vars PROVE IInv'
  OBVIOUS
<1>0. mishaps' \subseteq Mishap
  BY MishapsTyped
<1> USE NoRowAssumption, NullAssumption, <1>0
<1>1. CASE LeaveDraft
  BY <1>1 DEF LeaveDraft
<1>2. ASSUME NEW r \in Request, NEW t \in DocType,
             ArriveUpload(r, t) \/ ArriveDelete(r, t) \/ ArriveDownload(r, t)
      PROVE  IInv'
  BY <1>2 DEF ArriveUpload, ArriveDelete, ArriveDownload, Arrive
<1>3. ASSUME NEW r \in Request, FindReplaced(r)
      PROVE  IInv'
  BY <1>3 DEF FindReplaced, Find
<1>4. ASSUME NEW r \in Request, PutObject(r) \/ PutFails(r)
      PROVE  IInv'
  BY <1>4 DEF PutObject, PutFails
<1>5. ASSUME NEW r \in Request, UpsertRow(r)
      PROVE  IInv'
  BY <1>5 DEF UpsertRow
<1>6. ASSUME NEW r \in Request, UpsertFails(r)
      PROVE  IInv'
  BY <1>6 DEF UpsertFails
<1>7. ASSUME NEW r \in Request, UndoPut(r)
      PROVE  IInv'
  BY <1>7 DEF UndoPut, DeleteFromStore
<1>8. ASSUME NEW r \in Request, DeleteReplaced(r)
      PROVE  IInv'
  BY <1>8 DEF DeleteReplaced, DeleteFromStore
<1>9. ASSUME NEW r \in Request, FindDeleted(r)
      PROVE  IInv'
  BY <1>9 DEF FindDeleted, Find
<1>10. ASSUME NEW r \in Request, DeleteRow(r)
       PROVE  IInv'
  <2>1. PICK t \in DocType : t = type[r]
    BY <1>10 DEF DeleteRow
  <2>2. rows' = [rows EXCEPT ![t] = NoRow]
    BY <1>10, <2>1 DEF DeleteRow
  <2>3. TypeOK' /\ HasType' /\ RowsWritten' /\ FoundWritten' /\ FoundWhere'
    BY <1>10, <2>1, <2>2 DEF DeleteRow
  <2>4. ReplacedGone' /\ PutStored' /\ AnsweredUploadsKept'
    BY <1>10, <2>1, <2>2 DEF DeleteRow
  <2>5. QED
    BY <2>3, <2>4
<1>10a. ASSUME NEW r \in Request, DeleteRowFails(r)
        PROVE  IInv'
  BY <1>10a DEF DeleteRowFails
<1>11. ASSUME NEW r \in Request, DeleteObject(r)
       PROVE  IInv'
  BY <1>11 DEF DeleteObject, DeleteFromStore
<1>12. ASSUME NEW r \in Request, FindDownloaded(r) \/ GetObject(r) \/ GetObjectFails(r)
       PROVE  IInv'
  BY <1>12 DEF FindDownloaded, Find, GetObject, GetObjectFails
<1>13. ASSUME NEW r \in Request, DeleteObjectFails(r) \/ Crash(r)
       PROVE  IInv'
  BY <1>13 DEF DeleteObjectFails, Crash
<1>14. CASE UNCHANGED vars
  BY <1>14 DEF vars
<1>15. QED
  BY <1>1, <1>2, <1>3, <1>4, <1>5, <1>6, <1>7, <1>8, <1>9, <1>10, <1>10a,
     <1>11, <1>12, <1>13, <1>14 DEF Next, Begin, Upload, Delete, Download

-----------------------------------------------------------------------------
\* Every step keeps the rows' objects.
LEMMA NextStrictInv == IInv /\ StrictInv /\ [Next]_vars => StrictInv'
<1> SUFFICES ASSUME IInv, StrictInv, [Next]_vars PROVE StrictInv'
  OBVIOUS
<1>0. mishaps \subseteq mishaps'
  BY MishapsTyped
<1> USE NoRowAssumption, NullAssumption, <1>0
        DEF StrictInv, UndoneUnnamed, NamedStored, UnavailableMeansReplaced
<1>1. CASE LeaveDraft
  BY <1>1 DEF LeaveDraft
<1>2. ASSUME NEW r \in Request, NEW t \in DocType,
             ArriveUpload(r, t) \/ ArriveDelete(r, t) \/ ArriveDownload(r, t)
      PROVE  StrictInv'
  BY <1>2 DEF ArriveUpload, ArriveDelete, ArriveDownload, Arrive
<1>3. ASSUME NEW r \in Request, FindReplaced(r) \/ FindDeleted(r)
      PROVE  StrictInv'
  BY <1>3 DEF FindReplaced, FindDeleted, Find
<1>4. ASSUME NEW r \in Request, PutObject(r) \/ PutFails(r)
      PROVE  StrictInv'
  BY <1>4 DEF PutObject, PutFails
<1>5. ASSUME NEW r \in Request, UpsertRow(r)
      PROVE  StrictInv'
  BY <1>5 DEF UpsertRow
<1>6. ASSUME NEW r \in Request, UpsertFails(r)
      PROVE  StrictInv'
  BY <1>6 DEF UpsertFails, Happens
<1>7. ASSUME NEW r \in Request,
             UndoPut(r) \/ DeleteReplaced(r) \/ DeleteObject(r)
      PROVE  StrictInv'
  BY <1>7 DEF UndoPut, DeleteReplaced, DeleteObject, DeleteFromStore
<1>8. ASSUME NEW r \in Request, DeleteRow(r) \/ DeleteRowFails(r)
      PROVE  StrictInv'
  BY <1>8 DEF DeleteRow, DeleteRowFails
<1>9. ASSUME NEW r \in Request, FindDownloaded(r)
      PROVE  StrictInv'
  BY <1>9 DEF FindDownloaded, Find
<1>10. ASSUME NEW r \in Request, GetObject(r)
       PROVE  StrictInv'
  <2>1. UnavailableMeansReplaced'
    <3>1. SUFFICES ASSUME mishaps = {} PROVE UnavailableMeansReplaced'
      BY <1>10 DEF GetObject
    <3>2. PICK t \in DocType : t = type[r]
      BY <1>10 DEF GetObject
    <3>3. found[r].key \notin store => rows[t] # found[r]
      BY <1>10, <3>1, <3>2 DEF GetObject
    <3>4. QED
      BY <1>10, <3>1, <3>2, <3>3 DEF GetObject
  <2>2. "ack" \notin mishaps' => UndoneUnnamed' /\ NamedStored'
    BY <1>10 DEF GetObject
  <2>3. QED
    BY <2>1, <2>2
<1>10a. ASSUME NEW r \in Request, GetObjectFails(r)
        PROVE  StrictInv'
  <2>1. mishaps' # {} /\ ("ack" \notin mishaps' => "ack" \notin mishaps)
    BY <1>10a DEF GetObjectFails, Happens
  <2>2. "ack" \notin mishaps' => UndoneUnnamed' /\ NamedStored'
    BY <1>10a, <2>1 DEF GetObjectFails
  <2>3. QED
    BY <2>1, <2>2
<1>11. ASSUME NEW r \in Request, DeleteObjectFails(r) \/ Crash(r)
       PROVE  StrictInv'
  BY <1>11 DEF DeleteObjectFails, Crash
<1>12. CASE UNCHANGED vars
  BY <1>12 DEF vars
<1>13. QED
  BY <1>1, <1>2, <1>3, <1>4, <1>5, <1>6, <1>7, <1>8, <1>9, <1>10, <1>10a,
     <1>11, <1>12 DEF Next, Begin, Upload, Delete, Download

-----------------------------------------------------------------------------
LEMMA InductiveInvariant == Spec => []IInv
BY InitIInv, NextIInv, PTL DEF Spec

\* Every variable of CngDocuments keeps its type.
THEOREM DocumentsTyped == Spec => []TypeOK
<1>1. IInv => TypeOK
  BY DEF IInv
<1>2. QED
  BY <1>1, InductiveInvariant, PTL

\* Whatever fails, a row without its file is one whose uploader was answered
\* with an error.
THEOREM UploadsKept == Spec => []AnsweredUploadsKept
<1>1. IInv => AnsweredUploadsKept
  BY DEF IInv
<1>2. QED
  BY <1>1, InductiveInvariant, PTL

LEMMA StrictInvariant == Spec => []StrictInv
BY InductiveInvariant, InitStrictInv, NextStrictInv, PTL DEF Spec

\* Unless the database commits an upsert that it reports as failed, every
\* document row names an object that is in the store.
THEOREM RowsHaveFiles == Spec => []NoDanglingRow
<1>1. StrictInv => NoDanglingRow
  BY DEF StrictInv, NamedStored, NoDanglingRow, RowKeys
<1>2. QED
  BY <1>1, StrictInvariant, PTL

\* If stored files can be opened as well, a download is answered as unavailable
\* only when the document was replaced or deleted after it was looked up.
THEOREM DownloadsOvertaken == Spec => []UnavailableMeansReplaced
<1>1. StrictInv => UnavailableMeansReplaced
  BY DEF StrictInv
<1>2. QED
  BY <1>1, StrictInvariant, PTL

-----------------------------------------------------------------------------
(* What is left behind                                                     *)

\* A file that no row names is at the upload that stored it, or was taken out of
\* its row by a request that is going to delete it, or has failed, or had found
\* another file in the row.
OfItsUpload(k) ==
    /\ pc[k] \in {"upload.upsert", "upload.undo", "failed"}
    /\ \A r \in Request : k \notin displaced[r]

OfItsDisplacer(k) == \E r \in Request :
    /\ k \in displaced[r]
    /\ \/ pc[r] \in {"upload.undo", "upload.replace", "delete.object", "failed"}
       \/ k \notin KeyIn(found[r])

FilesAccounted == \A k \in store :
    \/ \E t \in DocType : rows[t] # NoRow /\ rows[t].key = k
    \/ OfItsUpload(k) \/ OfItsDisplacer(k)

\* What was taken out of a row was in it: it is the key of an upload that has
\* made its upsert.
DisplacedWritten == \A r \in Request : \A k \in displaced[r] :
    /\ pc[k] \notin Unwritten
    /\ pc[r] \in {"upload.undo", "upload.replace", "delete.object", "done", "failed"}

LeftInv == FilesAccounted /\ DisplacedWritten

LEMMA InitLeftInv == Init => LeftInv
BY DEF Init, LeftInv, FilesAccounted, DisplacedWritten

\* An upsert gives its key a row, and is to blame for the key it takes out of it.
LEMMA UpsertAccounted ==
    ASSUME IInv, LeftInv, NEW r \in Request, pc[r] = "upload.upsert",
           WriteRow(r, Upserted(r)),
           NEW label \in {"done", "upload.replace", "upload.undo"}, Goto(r, label),
           label = "done" => found[r] = NoRow,
           UNCHANGED <<store, type, found>>
    PROVE  LeftInv'
<1> USE NoRowAssumption, NullAssumption
        DEF LeftInv, FilesAccounted, DisplacedWritten, OfItsUpload, OfItsDisplacer
<1>1. PICK t \in DocType : t = type[r]
  OBVIOUS
<1>2. /\ rows' = [rows EXCEPT ![t] = Upserted(r)]
      /\ displaced' = [displaced EXCEPT ![r] = KeyIn(rows[t])]
      /\ Upserted(r) # NoRow /\ Upserted(r).key = r
  BY <1>1
<1>3. displaced[r] = {} /\ \A q \in Request : r \notin displaced[q]
  OBVIOUS
<1>4. ASSUME NEW k \in store
      PROVE  \/ \E u \in DocType : rows'[u] # NoRow /\ rows'[u].key = k
             \/ OfItsUpload(k)' \/ OfItsDisplacer(k)'
  <2>1. CASE k = r
    BY <1>2, <2>1
  <2>2. CASE k # r /\ k \in KeyIn(rows[t])
    <3>1. k \in displaced'[r] /\ (label = "done" => k \notin KeyIn(found'[r]))
      BY <1>2, <2>2
    <3>2. OfItsDisplacer(k)'
      BY <3>1
    <3>3. QED
      BY <3>2
  <2>3. CASE \E u \in DocType \ {t} : rows[u] # NoRow /\ rows[u].key = k
    BY <1>2, <2>3
  <2>4. CASE k # r /\ k \notin KeyIn(rows[t]) /\ OfItsUpload(k)
    <3>1. pc'[k] = pc[k] /\ \A q \in Request : k \notin displaced'[q]
      BY <1>2, <2>4
    <3>2. OfItsUpload(k)'
      BY <2>4, <3>1
    <3>3. QED
      BY <3>2
  <2>5. CASE k # r /\ OfItsDisplacer(k)
    <3>1. PICK q \in Request :
              /\ k \in displaced[q]
              /\ \/ pc[q] \in {"upload.undo", "upload.replace", "delete.object", "failed"}
                 \/ k \notin KeyIn(found[q])
      BY <2>5
    <3>2. q # r
      BY <1>3, <3>1
    <3>3. displaced'[q] = displaced[q] /\ pc'[q] = pc[q] /\ found'[q] = found[q]
      BY <1>2, <3>2
    <3>4. OfItsDisplacer(k)'
      BY <3>1, <3>3
    <3>5. QED
      BY <3>4
  <2>6. QED
    BY <2>1, <2>2, <2>3, <2>4, <2>5
<1>5. DisplacedWritten'
  BY <1>1, <1>2
<1>6. QED
  BY <1>4, <1>5

LEMMA NextLeftInv == IInv /\ LeftInv /\ [Next]_vars => LeftInv'
<1> SUFFICES ASSUME IInv, LeftInv, [Next]_vars PROVE LeftInv'
  OBVIOUS
<1> USE NoRowAssumption, NullAssumption
        DEF LeftInv, FilesAccounted, DisplacedWritten, OfItsUpload, OfItsDisplacer
<1>1. CASE LeaveDraft
  BY <1>1 DEF LeaveDraft
<1>2. ASSUME NEW r \in Request, NEW t \in DocType,
             ArriveUpload(r, t) \/ ArriveDelete(r, t) \/ ArriveDownload(r, t)
      PROVE  LeftInv'
  BY <1>2 DEF ArriveUpload, ArriveDelete, ArriveDownload, Arrive
<1>3. ASSUME NEW r \in Request, FindReplaced(r) \/ FindDeleted(r) \/ FindDownloaded(r)
      PROVE  LeftInv'
  BY <1>3 DEF FindReplaced, FindDeleted, FindDownloaded, Find
<1>4. ASSUME NEW r \in Request, PutObject(r) \/ PutFails(r)
      PROVE  LeftInv'
  BY <1>4 DEF PutObject, PutFails
<1>5. ASSUME NEW r \in Request, UpsertRow(r)
      PROVE  LeftInv'
  BY <1>5, UpsertAccounted DEF UpsertRow
<1>6. ASSUME NEW r \in Request, UpsertFails(r)
      PROVE  LeftInv'
  <2>1. CASE UNCHANGED <<rows, mishaps, displaced>>
    BY <1>6, <2>1 DEF UpsertFails
  <2>2. CASE WriteRow(r, Upserted(r))
    BY <1>6, <2>2, UpsertAccounted DEF UpsertFails
  <2>3. QED
    BY <1>6, <2>1, <2>2 DEF UpsertFails
<1>7. ASSUME NEW r \in Request, UndoPut(r)
      PROVE  LeftInv'
  BY <1>7 DEF UndoPut, DeleteFromStore
<1>8. ASSUME NEW r \in Request, DeleteReplaced(r) \/ DeleteObject(r)
      PROVE  LeftInv'
  BY <1>8 DEF DeleteReplaced, DeleteObject, DeleteFromStore
<1>9. ASSUME NEW r \in Request, DeleteRow(r)
      PROVE  LeftInv'
  BY <1>9 DEF DeleteRow
<1>10. ASSUME NEW r \in Request,
              \/ DeleteRowFails(r) \/ GetObject(r) \/ GetObjectFails(r)
              \/ DeleteObjectFails(r) \/ Crash(r)
       PROVE  LeftInv'
  BY <1>10 DEF DeleteRowFails, GetObject, GetObjectFails, DeleteObjectFails, Crash
<1>11. CASE UNCHANGED vars
  BY <1>11 DEF vars
<1>12. QED
  BY <1>1, <1>2, <1>3, <1>4, <1>5, <1>6, <1>7, <1>8, <1>9, <1>10, <1>11
     DEF Next, Begin, Upload, Delete, Download

\* Every file that no row names was left behind by its own upload or by the
\* request that took it out of its row.
THEOREM LeftBehindOnce == Spec => []FilesLeftBehind
<1>1. IInv /\ LeftInv => FilesLeftBehind
  BY DEF LeftInv, FilesAccounted, OfItsUpload, OfItsDisplacer, FilesLeftBehind, AtRest,
     RowKeys
<1>2. QED
  BY <1>1, InductiveInvariant, InitLeftInv, NextLeftInv, PTL DEF Spec

-----------------------------------------------------------------------------
(* The rows, apart from where their files are                              *)

\* The row that a request is going to delete is still the one that it found.
StillThere(r) == rows[type[r]] # NoRow /\ rows[type[r]].id = found[r].id

\* What a request has yet to do to a row.
AskedOf(r) ==
    IF pc[r] \in {"upload.find", "upload.put", "upload.upsert"}
    THEN [op |-> "upload", doc |-> type[r]]
    ELSE IF pc[r] = "delete.find" THEN [op |-> "find", doc |-> type[r]]
    ELSE IF pc[r] = "delete.row" /\ StillThere(r) THEN [op |-> "delete", doc |-> type[r]]
    ELSE [op |-> "none", doc |-> NoType]

DocumentRows == INSTANCE CngDocumentRows WITH
    NoDoc <- NoType,
    docs <- {t \in DocType : rows[t] # NoRow},
    asked <- [r \in Request |-> AskedOf(r)]

\* A row has the id of a request that has made it, so that a row that is made
\* anew is none that a request has found.
IdsWritten == /\ \A t \in DocType : rows[t] # NoRow => pc[rows[t].id] \notin Unwritten
              /\ \A r \in Request : found[r] # NoRow => pc[found[r].id] \notin Unwritten

LEMMA InitIds == Init => IdsWritten
BY DEF Init, IdsWritten

LEMMA NextIds == IInv /\ IdsWritten /\ [Next]_vars => IdsWritten'
<1> SUFFICES ASSUME IInv, IdsWritten, [Next]_vars PROVE IdsWritten'
  OBVIOUS
<1> USE NoRowAssumption, NullAssumption DEF IdsWritten
<1>1. ASSUME NEW r \in Request, NEW t \in DocType,
             ArriveUpload(r, t) \/ ArriveDelete(r, t) \/ ArriveDownload(r, t)
      PROVE  IdsWritten'
  BY <1>1 DEF ArriveUpload, ArriveDelete, ArriveDownload, Arrive
<1>2. ASSUME NEW r \in Request, FindReplaced(r) \/ FindDeleted(r) \/ FindDownloaded(r)
      PROVE  IdsWritten'
  BY <1>2 DEF FindReplaced, FindDeleted, FindDownloaded, Find
<1>3. ASSUME NEW r \in Request, UpsertRow(r) \/ UpsertFails(r)
      PROVE  IdsWritten'
  BY <1>3 DEF UpsertRow, UpsertFails
<1>4. ASSUME NEW r \in Request, DeleteRow(r) \/ DeleteRowFails(r)
      PROVE  IdsWritten'
  BY <1>4 DEF DeleteRow, DeleteRowFails
<1>5. ASSUME NEW r \in Request,
             \/ PutObject(r) \/ PutFails(r) \/ UndoPut(r) \/ DeleteReplaced(r)
             \/ DeleteObject(r) \/ GetObject(r) \/ GetObjectFails(r)
             \/ DeleteObjectFails(r) \/ Crash(r)
      PROVE  IdsWritten'
  BY <1>5 DEF PutObject, PutFails, UndoPut, DeleteReplaced, DeleteObject, DeleteFromStore,
     GetObject, GetObjectFails, DeleteObjectFails, Crash
<1>6. CASE LeaveDraft \/ UNCHANGED vars
  BY <1>6 DEF LeaveDraft, vars
<1>7. QED
  BY <1>1, <1>2, <1>3, <1>4, <1>5, <1>6 DEF Next, Begin, Upload, Delete, Download

\* A step of one request, after which it asks for something else, or nothing.
LEMMA OneRequestAsks ==
    ASSUME NEW r \in Request,
           \A q \in Request \ {r} : AskedOf(q)' = AskedOf(q)
    PROVE  [q \in Request |-> AskedOf(q)]' =
               [[q \in Request |-> AskedOf(q)] EXCEPT ![r] = AskedOf(r)']
OBVIOUS

\* What another request is going to do is the same where it is the same request
\* and its row has the same id.
LEMMA SameAsked ==
    ASSUME NEW q \in Request, pc'[q] = pc[q], type'[q] = type[q], found'[q] = found[q],
           pc[q] = "delete.row" => (StillThere(q)' <=> StillThere(q))
    PROVE  AskedOf(q)' = AskedOf(q)
BY DEF AskedOf

\* A step of a request that is not about the rows.
LEMMA RequestMoves ==
    ASSUME NEW r \in Request, UNCHANGED <<draft, rows>>,
           \A q \in Request \ {r} :
               pc'[q] = pc[q] /\ type'[q] = type[q] /\ found'[q] = found[q]
    PROVE  /\ [q \in Request |-> AskedOf(q)]' =
                  [[q \in Request |-> AskedOf(q)] EXCEPT ![r] = AskedOf(r)']
           /\ AskedOf(r)' = DocumentRows!Nothing => DocumentRows!Next
           /\ AskedOf(r)' = AskedOf(r) => UNCHANGED DocumentRows!documentRows
<1>1. \A q \in Request \ {r} : AskedOf(q)' = AskedOf(q)
  <2>1. \A q \in Request \ {r} : StillThere(q)' <=> StillThere(q)
    BY DEF StillThere
  <2>2. QED
    BY <2>1, SameAsked
<1>2. [q \in Request |-> AskedOf(q)]' =
          [[q \in Request |-> AskedOf(q)] EXCEPT ![r] = AskedOf(r)']
  BY <1>1, OneRequestAsks
<1>3. AskedOf(r)' = DocumentRows!Nothing => DocumentRows!Leave(r)
  BY <1>2 DEF DocumentRows!Leave
<1>4. AskedOf(r)' = AskedOf(r) => UNCHANGED DocumentRows!documentRows
  BY <1>1 DEF DocumentRows!documentRows
<1>5. QED
  BY <1>2, <1>3, <1>4 DEF DocumentRows!Next

\* An upsert that was made, whether it is answered or not.
LEMMA UpsertMade ==
    ASSUME IInv, IdsWritten, NEW r \in Request, pc[r] = "upload.upsert",
           rows' = [rows EXCEPT ![type[r]] = Upserted(r)],
           NEW label \in {"done", "upload.replace", "upload.undo"}, Goto(r, label),
           UNCHANGED <<draft, type, found>>
    PROVE  DocumentRows!Next
<1>0. PICK t \in DocType : t = type[r]
  OBVIOUS
<1>1. /\ t \in DocType /\ AskedOf(r) = DocumentRows!Asking("upload", t)
      /\ AskedOf(r)' = DocumentRows!Nothing
  BY <1>0 DEF AskedOf, DocumentRows!Asking, DocumentRows!Nothing
<1>2. ASSUME NEW q \in Request \ {r}
      PROVE  AskedOf(q)' = AskedOf(q)
  <2>1. pc[q] = "delete.row" =>
            type[q] \in DocType /\ found[q] \in Row /\ found[q].id # r
    BY DEF IdsWritten
  <2>2. pc[q] = "delete.row" => (StillThere(q)' <=> StillThere(q))
    BY <2>1, NoRowAssumption DEF StillThere
  <2>3. QED
    BY <2>2, SameAsked
<1>3. {u \in DocType : rows[u] # NoRow}' = {u \in DocType : rows[u] # NoRow} \cup {t}
  <2>1. Upserted(r) # NoRow
    BY NoRowAssumption
  <2>2. QED
    BY <1>0, <2>1
<1>4. DocumentRows!Upload(r, t)
  BY <1>1, <1>2, <1>3, OneRequestAsks DEF DocumentRows!Upload
<1>5. QED
  BY <1>1, <1>4 DEF DocumentRows!Next

\* A row is deleted for all that have found it.
LEMMA RowDeleted ==
    ASSUME IInv, NEW r \in Request, DeleteRow(r)
    PROVE  DocumentRows!Next
<1>0. PICK t \in DocType : t = type[r]
  BY DEF DeleteRow
<1>1. /\ t \in DocType /\ StillThere(r) /\ pc[r] = "delete.row"
      /\ rows' = [rows EXCEPT ![t] = NoRow] /\ pc' = [pc EXCEPT ![r] = "delete.object"]
      /\ UNCHANGED <<draft, type, found>>
  BY <1>0 DEF DeleteRow, StillThere
<1>2. AskedOf(r) = DocumentRows!Asking("delete", t)
  BY <1>0, <1>1 DEF AskedOf, DocumentRows!Asking
<1>3. AskedOf(r)' = DocumentRows!Nothing
  BY <1>1 DEF AskedOf, DocumentRows!Nothing
<1>4. ASSUME NEW q \in Request
      PROVE  AskedOf(q)' = IF AskedOf(q) = DocumentRows!Asking("delete", t)
                           THEN DocumentRows!Nothing ELSE AskedOf(q)
  <2>1. CASE q = r
    BY <1>2, <1>3, <2>1
  <2>2. CASE q # r /\ pc[q] = "delete.row" /\ type[q] = t
    <3>1. ~StillThere(q)' /\ pc'[q] = "delete.row"
      BY <1>1, <2>2 DEF StillThere
    <3>2. AskedOf(q)' = DocumentRows!Nothing
      BY <3>1 DEF AskedOf, DocumentRows!Nothing
    <3>3. StillThere(q) => AskedOf(q) = DocumentRows!Asking("delete", t)
      BY <2>2 DEF AskedOf, DocumentRows!Asking
    <3>4. ~StillThere(q) => AskedOf(q) = DocumentRows!Nothing
      BY <2>2 DEF AskedOf, DocumentRows!Nothing
    <3>5. QED
      BY <3>2, <3>3, <3>4
  <2>3. CASE q # r /\ (pc[q] # "delete.row" \/ type[q] # t)
    <3>1. pc[q] = "delete.row" => (StillThere(q)' <=> StillThere(q))
      BY <1>1, <2>3 DEF StillThere
    <3>2. AskedOf(q)' = AskedOf(q)
      BY <1>1, <2>3, <3>1, SameAsked
    <3>3. AskedOf(q) # DocumentRows!Asking("delete", t)
      BY <2>3 DEF AskedOf, DocumentRows!Asking
    <3>4. QED
      BY <3>2, <3>3
  <2>4. QED
    BY <2>1, <2>2, <2>3
<1>5. [q \in Request |-> AskedOf(q)]' = [q \in Request |->
          IF [p \in Request |-> AskedOf(p)][q] = DocumentRows!Asking("delete", t)
          THEN DocumentRows!Nothing ELSE [p \in Request |-> AskedOf(p)][q]]
  BY <1>4
<1>6. {u \in DocType : rows[u] # NoRow}' = {u \in DocType : rows[u] # NoRow} \ {t}
  BY <1>1
<1>7. t \in {u \in DocType : rows[u] # NoRow}
  BY <1>0, <1>1 DEF StillThere
<1>8. DocumentRows!Delete(r, t)
  BY <1>1, <1>2, <1>5, <1>6, <1>7 DEF DocumentRows!Delete
<1>9. QED
  BY <1>1, <1>8 DEF DocumentRows!Next

\* Every step about the files and their rows is a step about the rows, or none.
LEMMA RowsStep ==
    ASSUME IInv, IdsWritten, [Next]_vars
    PROVE  DocumentRows!Next \/ UNCHANGED DocumentRows!documentRows
<1> DEFINE Good == DocumentRows!Next \/ UNCHANGED DocumentRows!documentRows
<1>1. ASSUME NEW r \in Request, NEW t \in DocType, ArriveUpload(r, t) \/ ArriveDelete(r, t)
      PROVE  Good
  <2>1. PICK op \in {"upload", "find"} : AskedOf(r)' = DocumentRows!Asking(op, t)
    BY <1>1 DEF ArriveUpload, ArriveDelete, Arrive, AskedOf, DocumentRows!Asking
  <2>2. [q \in Request |-> AskedOf(q)]' =
            [[q \in Request |-> AskedOf(q)] EXCEPT ![r] = AskedOf(r)']
    BY <1>1, RequestMoves DEF ArriveUpload, ArriveDelete, Arrive
  <2>3. draft /\ UNCHANGED <<draft, rows>>
    BY <1>1 DEF ArriveUpload, ArriveDelete, Arrive
  <2>4. DocumentRows!Begin(r, op, t)
    BY <2>1, <2>2, <2>3 DEF DocumentRows!Begin
  <2>5. QED
    BY <2>4 DEF DocumentRows!Next
<1>2. ASSUME NEW r \in Request, NEW t \in DocType, ArriveDownload(r, t)
      PROVE  Good
  <2>1. AskedOf(r) = DocumentRows!Nothing /\ AskedOf(r)' = DocumentRows!Nothing
    BY <1>2 DEF ArriveDownload, Arrive, AskedOf, DocumentRows!Nothing
  <2>2. QED
    BY <1>2, <2>1, RequestMoves DEF ArriveDownload, Arrive
<1>3. ASSUME NEW r \in Request, FindReplaced(r) \/ PutObject(r)
      PROVE  Good
  <2>1. AskedOf(r)' = AskedOf(r)
    BY <1>3 DEF FindReplaced, Find, PutObject, AskedOf
  <2>2. QED
    BY <1>3, <2>1, RequestMoves DEF FindReplaced, Find, PutObject
<1>4. ASSUME NEW r \in Request, FindDeleted(r), rows[type[r]] # NoRow
      PROVE  Good
  <2>1. /\ type[r] \in DocType /\ UNCHANGED <<draft, rows>>
        /\ AskedOf(r) = DocumentRows!Asking("find", type[r])
    BY <1>4 DEF FindDeleted, Find, AskedOf, DocumentRows!Asking
  <2>2. StillThere(r)' /\ pc'[r] = "delete.row" /\ type'[r] = type[r]
    BY <1>4 DEF FindDeleted, Find, StillThere
  <2>3. AskedOf(r)' = DocumentRows!Asking("delete", type[r])
    BY <2>2 DEF AskedOf, DocumentRows!Asking
  <2>4. [q \in Request |-> AskedOf(q)]' =
            [[q \in Request |-> AskedOf(q)] EXCEPT ![r] = AskedOf(r)']
    BY <1>4, RequestMoves DEF FindDeleted, Find
  <2>5. DocumentRows!Find(r, type[r])
    BY <1>4, <2>1, <2>3, <2>4 DEF DocumentRows!Find
  <2>6. QED
    BY <2>1, <2>5 DEF DocumentRows!Next
<1>5. ASSUME NEW r \in Request,
             \/ FindDeleted(r) /\ rows[type[r]] = NoRow
             \/ PutFails(r) \/ UndoPut(r) \/ DeleteReplaced(r) \/ DeleteRowFails(r)
             \/ DeleteObject(r) \/ FindDownloaded(r) \/ GetObject(r) \/ GetObjectFails(r)
             \/ DeleteObjectFails(r) \/ Crash(r)
             \/ UpsertFails(r) /\ UNCHANGED rows
      PROVE  Good
  <2>1. AskedOf(r)' = DocumentRows!Nothing
    BY <1>5 DEF FindDeleted, Find, PutFails, UndoPut, DeleteReplaced, DeleteFromStore,
       DeleteRowFails, DeleteObject, FindDownloaded, GetObject, GetObjectFails,
       DeleteObjectFails, Crash, UpsertFails, AskedOf, DocumentRows!Nothing
  <2>2. /\ UNCHANGED <<draft, rows>>
        /\ \A q \in Request \ {r} :
               pc'[q] = pc[q] /\ type'[q] = type[q] /\ found'[q] = found[q]
    BY <1>5 DEF FindDeleted, Find, PutFails, UndoPut, DeleteReplaced,
       DeleteFromStore, DeleteRowFails, DeleteObject, FindDownloaded, GetObject,
       GetObjectFails, DeleteObjectFails, Crash, UpsertFails
  <2>3. QED
    BY <2>1, <2>2, RequestMoves
<1>6. ASSUME NEW r \in Request, UpsertRow(r)
      PROVE  Good
  BY <1>6, UpsertMade DEF UpsertRow
<1>7. ASSUME NEW r \in Request, UpsertFails(r), ~UNCHANGED rows
      PROVE  Good
  BY <1>7, UpsertMade DEF UpsertFails
<1>8. ASSUME LeaveDraft
      PROVE  Good
  <2>1. /\ draft /\ draft' = FALSE
        /\ \A q \in Request : AskedOf(q)' = AskedOf(q)
        /\ UNCHANGED rows
    BY <1>8 DEF LeaveDraft, AskedOf, StillThere
  <2>2. DocumentRows!LeaveDraft
    BY <2>1 DEF DocumentRows!LeaveDraft
  <2>3. QED
    BY <2>2 DEF DocumentRows!Next
<1>9. CASE UNCHANGED vars
  BY <1>9 DEF vars, AskedOf, StillThere, DocumentRows!documentRows
<1>10. QED
  BY <1>1, <1>2, <1>3, <1>4, <1>5, <1>6, <1>7, <1>8, <1>9, RowDeleted
     DEF Next, Begin, Upload, Delete, Download

\* However the files are stored, replaced and cleaned up, and whatever fails,
\* the rows are those that CngDocumentRows promises.
THEOREM RowsArePromised == Spec => DocumentRows!Spec
<1>1. Init => DocumentRows!Init
  BY DEF Init, AskedOf, DocumentRows!Init, DocumentRows!Nothing
<1>2. IInv /\ IdsWritten /\ [Next]_vars => [DocumentRows!Next]_(DocumentRows!documentRows)
  BY RowsStep
<1>3. QED
  BY <1>1, <1>2, InductiveInvariant, InitIds, NextIds, PTL DEF Spec, DocumentRows!Spec
=============================================================================
