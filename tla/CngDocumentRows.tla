--------------------------- MODULE CngDocumentRows ---------------------------
(***************************************************************************)
(* What the requests about documents promise of the rows, wherever the     *)
(* files are kept and whatever fails: a request begins with a draft, its   *)
(* upload makes the row of one document type, and a row is deleted by one  *)
(* of the requests that found it.  CngApplication, which knows a document  *)
(* by its row, and CngDocuments, which stores the files, are both compared *)
(* with this module: they speak of the same rows.                          *)
(***************************************************************************)
CONSTANTS
    Request,    \* requests, or the handlers that serve them
    DocType,    \* document types
    NoDoc       \* the type of a request about no document

VARIABLES
    draft,      \* the application has not left DRAFT
    docs,       \* the types that have a row
    asked       \* what a request has yet to do to a row

documentRows == <<draft, docs, asked>>

Nothing == [op |-> "none", doc |-> NoDoc]
Asking(op, t) == [op |-> op, doc |-> t]

Init == draft = TRUE /\ docs = {} /\ asked = [r \in Request |-> Nothing]

\* getEditableApplication lets a request in.
Begin(r, op, t) == /\ draft
                   /\ asked' = [asked EXCEPT ![r] = Asking(op, t)]
                   /\ UNCHANGED <<draft, docs>>

\* The request ends without having done anything to a row.
Leave(r) == /\ asked' = [asked EXCEPT ![r] = Nothing]
            /\ UNCHANGED <<draft, docs>>

\* saveDocument upserts the row.
Upload(r, t) == /\ asked[r] = Asking("upload", t)
                /\ docs' = docs \cup {t}
                /\ asked' = [asked EXCEPT ![r] = Nothing]
                /\ UNCHANGED draft

\* deleteDocument finds the row...
Find(r, t) == /\ asked[r] = Asking("find", t) /\ t \in docs
              /\ asked' = [asked EXCEPT ![r] = Asking("delete", t)]
              /\ UNCHANGED <<draft, docs>>

\* ... and deletes it by its id: who found the same row will find it gone, and
\* not delete the row that may take its place.
Delete(r, t) == /\ asked[r] = Asking("delete", t) /\ t \in docs
                /\ docs' = docs \ {t}
                /\ asked' = [q \in Request |-> IF asked[q] = Asking("delete", t)
                                               THEN Nothing ELSE asked[q]]
                /\ UNCHANGED draft

\* The application is submitted or cancelled.
LeaveDraft == draft /\ draft' = FALSE /\ UNCHANGED <<docs, asked>>

Next == \/ \E r \in Request, t \in DocType :
               \/ Begin(r, "upload", t) \/ Begin(r, "find", t)
               \/ Upload(r, t) \/ Find(r, t) \/ Delete(r, t)
        \/ \E r \in Request : Leave(r)
        \/ LeaveDraft

Spec == Init /\ [][Next]_documentRows
=============================================================================
