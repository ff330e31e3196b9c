---------------------------- MODULE CngDocuments ----------------------------
(***************************************************************************)
(* The documents of one CNG application: a row in the database for each    *)
(* document type, and the file itself in an object store (a bucket, or a   *)
(* local directory).  No transaction spans the two, so CngApplications-    *)
(* Service keeps them together by the order of its calls: it stores the    *)
(* file under a new key before a row names it, and deletes a file after no *)
(* row names it any more.                                                  *)
(*                                                                         *)
(* A request is a member of Request and runs once.  The key of an upload   *)
(* is drawn with randomUUID, so the request itself stands for its key, and *)
(* likewise for the id of a row it creates.  Each step is one awaited call *)
(* with the code up to the next; requests interleave at every call, any    *)
(* call can fail, and the process can stop anywhere.  The variable mishaps *)
(* remembers what a property is not safe from, and displaced which key     *)
(* each request took out of a row.                                         *)
(***************************************************************************)
EXTENDS Naturals, FiniteSets

CONSTANTS
    Request,      \* upload, delete and download requests
    DocType,      \* document types
    NoRow,        \* the null of findUnique
    NoType        \* the type of a request that has not arrived

ASSUME NullAssumption == NoType \notin DocType
ASSUME NoRowAssumption == NoRow \notin [id: Request, key: Request]

VARIABLES
    draft,    \* the application can still be edited
    rows,     \* cng_application_documents: for each type its row, if any
    store,    \* keys of the objects in the store
    pc,       \* the call a request issues next
    type,     \* the document type a request is about
    found,    \* the row its findUnique returned
    mishaps,  \* history: what has happened that a property is not safe from
    displaced \* history: the key that a request took out of its row, if any

vars == <<draft, rows, store, pc, type, found, mishaps, displaced>>

\* A row that is committed by a call that fails; a file that is in the store and
\* cannot be opened.
Mishap == {"ack", "access"}

Row == [id: Request, key: Request]

Uploading == {"upload.find", "upload.put", "upload.upsert", "upload.undo",
              "upload.replace"}
Deleting == {"delete.find", "delete.row", "delete.object"}
Downloading == {"download.find", "download.get"}
Ended == {"done", "failed", "unavailable"}
InFlight == Uploading \cup Deleting \cup Downloading

TypeOK == /\ draft \in BOOLEAN
          /\ rows \in [DocType -> Row \cup {NoRow}]
          /\ store \subseteq Request
          /\ pc \in [Request -> {"new"} \cup InFlight \cup Ended]
          /\ type \in [Request -> DocType \cup {NoType}]
          /\ found \in [Request -> Row \cup {NoRow}]
          /\ mishaps \subseteq Mishap
          /\ displaced \in [Request -> SUBSET Request]

Init == /\ draft = TRUE
        /\ rows = [t \in DocType |-> NoRow]
        /\ store = {}
        /\ pc = [r \in Request |-> "new"]
        /\ type = [r \in Request |-> NoType]
        /\ found = [r \in Request |-> NoRow]
        /\ mishaps = {}
        /\ displaced = [r \in Request |-> {}]

-----------------------------------------------------------------------------
Goto(r, label) == pc' = [pc EXCEPT ![r] = label]

AtRest == \A r \in Request : pc[r] \notin InFlight

KeyIn(row) == IF row = NoRow THEN {} ELSE {row.key}

Happens(mishap) == mishaps' = mishaps \cup {mishap}

Arrive(r, t, label) ==
    /\ pc[r] = "new"
    /\ Goto(r, label)
    /\ type' = [type EXCEPT ![r] = t]
    /\ UNCHANGED <<draft, rows, store, found, mishaps, displaced>>

\* getEditableApplication has let the request in.
ArriveUpload(r, t) == draft /\ Arrive(r, t, "upload.find")
ArriveDelete(r, t) == draft /\ Arrive(r, t, "delete.find")

\* A download asks nothing of the status.
ArriveDownload(r, t) == Arrive(r, t, "download.find")

\* The application is submitted or cancelled.
LeaveDraft == /\ draft
              /\ draft' = FALSE
              /\ UNCHANGED <<rows, store, pc, type, found, mishaps, displaced>>

\* findUnique by application and type.
Find(r, from, present, absent) ==
    /\ pc[r] = from
    /\ found' = [found EXCEPT ![r] = rows[type[r]]]
    /\ Goto(r, IF rows[type[r]] = NoRow THEN absent ELSE present)
    /\ UNCHANGED <<draft, rows, store, type, mishaps, displaced>>

\* deleteObject: deleting an object that is not there succeeds as well.
DeleteFromStore(r, from, key, to) ==
    /\ pc[r] = from
    /\ store' = store \ {key}
    /\ Goto(r, to)
    /\ UNCHANGED <<draft, rows, type, found, mishaps, displaced>>

-----------------------------------------------------------------------------
(* saveDocument                                                            *)

FindReplaced(r) == Find(r, "upload.find", "upload.put", "upload.put")

PutObject(r) == /\ pc[r] = "upload.put"
                /\ store' = store \cup {r}
                /\ Goto(r, "upload.upsert")
                /\ UNCHANGED <<draft, rows, type, found, mishaps, displaced>>

\* The store may have taken the object although the call fails.
PutFails(r) == /\ pc[r] = "upload.put"
               /\ store' \in {store, store \cup {r}}
               /\ Goto(r, "failed")
               /\ UNCHANGED <<draft, rows, type, found, mishaps, displaced>>

\* The row of the type takes the new key, and keeps its id when it exists.
Upserted(r) == [id |-> IF rows[type[r]] = NoRow THEN r ELSE rows[type[r]].id,
                key |-> r]

\* The row of a request's type is written, and the key it had is in it no more.
WriteRow(r, row) ==
    /\ rows' = [rows EXCEPT ![type[r]] = row]
    /\ displaced' = [displaced EXCEPT ![r] = KeyIn(rows[type[r]])]

UpsertRow(r) ==
    /\ pc[r] = "upload.upsert"
    /\ WriteRow(r, Upserted(r))
    /\ Goto(r, IF found[r] = NoRow THEN "done" ELSE "upload.replace")
    /\ UNCHANGED <<draft, store, type, found, mishaps>>

\* The upsert throws: it was not made, or it was and the answer was lost.
UpsertFails(r) ==
    /\ pc[r] = "upload.upsert"
    /\ \/ UNCHANGED <<rows, mishaps, displaced>>
       \/ WriteRow(r, Upserted(r)) /\ Happens("ack")
    /\ Goto(r, "upload.undo")
    /\ UNCHANGED <<draft, store, type, found>>

\* The new object goes when its row could not be written, and the error is
\* thrown on...
UndoPut(r) == DeleteFromStore(r, "upload.undo", r, "failed")

\* Mutants: the clean-up takes the key the row holds by now, or is left out.
DeleteReplacedNow(r) == DeleteFromStore(r, "upload.replace",
    IF rows[type[r]] = NoRow THEN found[r].key ELSE rows[type[r]].key, "done")
DeleteReplacedNever(r) == /\ pc[r] = "upload.replace"
                          /\ Goto(r, "done")
                          /\ UNCHANGED <<draft, rows, store, type, found, mishaps, displaced>>

\* ... and the old one when another key has taken its place.
DeleteReplaced(r) == DeleteFromStore(r, "upload.replace", found[r].key, "done")

-----------------------------------------------------------------------------
(* deleteDocument and getDocumentForDownload                               *)

\* Mutant: the object is deleted and its row is left.
FindDeletedObject(r) == Find(r, "delete.find", "delete.object", "failed")

FindDeleted(r) == Find(r, "delete.find", "delete.row", "failed")

\* The row is deleted by its id, whatever key it holds by now.
DeleteRow(r) ==
    /\ pc[r] = "delete.row"
    /\ rows[type[r]] # NoRow
    /\ rows[type[r]].id = found[r].id
    /\ WriteRow(r, NoRow)
    /\ Goto(r, "delete.object")
    /\ UNCHANGED <<draft, store, type, found, mishaps>>

\* The row that was found is gone, or another one has been created.
DeleteRowFails(r) ==
    /\ pc[r] = "delete.row"
    /\ rows[type[r]] # NoRow => rows[type[r]].id # found[r].id
    /\ Goto(r, "failed")
    /\ UNCHANGED <<draft, rows, store, type, found, mishaps, displaced>>

DeleteObject(r) == DeleteFromStore(r, "delete.object", found[r].key, "done")

FindDownloaded(r) == Find(r, "download.find", "download.get", "failed")

GetObject(r) ==
    /\ pc[r] = "download.get"
    /\ Goto(r, IF found[r].key \in store THEN "done" ELSE "unavailable")
    /\ UNCHANGED <<draft, rows, store, type, found, mishaps, displaced>>

\* The file is there and cannot be opened: whatever access() rejects with, and a
\* bucket's answer without a body, is answered as if the file were missing.  Any
\* other error of the bucket is thrown on, which ends the request as Crash does.
GetObjectFails(r) ==
    /\ pc[r] = "download.get"
    /\ found[r].key \in store
    /\ Goto(r, "unavailable")
    /\ Happens("access")
    /\ UNCHANGED <<draft, rows, store, type, found, displaced>>

\* deleteObject throws: the object stays.
DeleteObjectFails(r) ==
    /\ pc[r] \in {"upload.undo", "upload.replace", "delete.object"}
    /\ Goto(r, "failed")
    /\ UNCHANGED <<draft, rows, store, type, found, mishaps, displaced>>

\* The process stops: the request goes no further, nothing is undone.
Crash(r) == /\ pc[r] \in InFlight
            /\ Goto(r, "failed")
            /\ UNCHANGED <<draft, rows, store, type, found, mishaps, displaced>>

-----------------------------------------------------------------------------
Begin(r) == \E t \in DocType : \/ ArriveUpload(r, t)
                               \/ ArriveDelete(r, t)
                               \/ ArriveDownload(r, t)

Upload(r) == \/ FindReplaced(r) \/ PutObject(r) \/ PutFails(r)
             \/ UpsertRow(r) \/ UpsertFails(r) \/ UndoPut(r)
             \/ DeleteReplaced(r)

Delete(r) == FindDeleted(r) \/ DeleteRow(r) \/ DeleteRowFails(r) \/ DeleteObject(r)

Download(r) == FindDownloaded(r) \/ GetObject(r) \/ GetObjectFails(r)

Next == \/ LeaveDraft
        \/ \E r \in Request : \/ Begin(r) \/ Upload(r) \/ Delete(r)
                              \/ Download(r) \/ DeleteObjectFails(r) \/ Crash(r)

Spec == Init /\ [][Next]_vars

-----------------------------------------------------------------------------
RowKeys == {rows[t].key : t \in {u \in DocType : rows[u] # NoRow}}

\* Every document row names an object that is in the store, whichever
\* requests interleave, fail or stop half-way: the order of the calls in
\* saveDocument and deleteDocument never leaves a row without its file, as
\* long as an upsert that throws has not been made.
NoDanglingRow == "ack" \notin mishaps => RowKeys \subseteq store

\* Even when the database commits an upsert and reports a failure, so that the
\* upload takes its object back, a row without its file is one whose uploader
\* was told that the upload failed: an upload that was answered keeps its file.
AnsweredUploadsKept == \A t \in DocType :
    rows[t] # NoRow /\ rows[t].key \notin store => pc[rows[t].key] = "failed"

\* As long as every stored file can be opened, "Stored document is unavailable"
\* is answered only to a download that was overtaken: the document it found has
\* been replaced or deleted meanwhile.
UnavailableMeansReplaced == mishaps = {} =>
    \A r \in Request : pc[r] = "unavailable" => rows[type[r]] # found[r]

\* Whatever interleaves and fails, a file that no row names is left behind by
\* one request: by its own upload, which failed before a row named it, or by the
\* request that took it out of its row, and then either failed or deleted in its
\* stead the file that it had found in the row before.
FilesLeftBehind == AtRest => \A k \in store \ RowKeys :
    \/ pc[k] = "failed" /\ \A r \in Request : k \notin displaced[r]
    \/ \E r \in Request : /\ k \in displaced[r]
                          /\ pc[r] = "failed" \/ k \notin KeyIn(found[r])
=============================================================================
