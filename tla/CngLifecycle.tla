---------------------------- MODULE CngLifecycle ----------------------------
(***************************************************************************)
(* What becomes of a CNG financing application, for any number of requests *)
(* at a time: a request is let in when the application stands where its    *)
(* operation is allowed, an edit to a draft, a submission to a draft that  *)
(* has what its row requires, a cancellation and a review to what is open  *)
(* for them, and it does later what it was let in for, whatever the others *)
(* have done by then; a submission only when it has seen the documents in  *)
(* between.  The status of an application changes in no other way.         *)
(* CngApplication, where a request is several database calls on the row,   *)
(* the codes and the documents, is compared with this module.              *)
(***************************************************************************)
CONSTANT Request

VARIABLES
    status,     \* where the application stands in its workflow
    row,        \* whether the row meets what a submission requires of it
    documents,  \* whether every document that a submission requires is there
    waiting     \* what each request was let in to do and has not done

lifecycle == <<status, row, documents, waiting>>

Decisions == {"UNDER_REVIEW", "APPROVED", "REJECTED"}

Operations == {"edit", "submit", "cancel"} \cup Decisions

Permitted(op) ==
    \/ op = "edit" /\ status = "DRAFT"
    \/ op = "submit" /\ status = "DRAFT" /\ row
    \/ op = "cancel" /\ status \in {"DRAFT", "SUBMITTED"}
    \/ op \in Decisions /\ status \in {"SUBMITTED", "UNDER_REVIEW"}

Init == /\ status = "NONE"
        /\ row = FALSE
        /\ documents \in BOOLEAN
        /\ waiting = [r \in Request |-> "nothing"]

Ended(S) == waiting' = [r \in Request |-> IF r \in S THEN "nothing" ELSE waiting[r]]

Create == /\ status = "NONE"
          /\ status' = "DRAFT"
          /\ UNCHANGED <<row, documents, waiting>>

LetIn(r, op) == /\ waiting[r] = "nothing"
                /\ Permitted(op)
                /\ waiting' = [waiting EXCEPT ![r] = op]
                /\ UNCHANGED <<status, row, documents>>

\* The call of a request ends it, or it fails.
Leave(r) == /\ Ended({r})
            /\ UNCHANGED <<status, row, documents>>

\* One edit is made, and with it others may come to nothing.
Edit(S) == /\ S # {} /\ \A r \in S : waiting[r] = "edit"
           /\ row' \in BOOLEAN /\ documents' \in BOOLEAN
           /\ Ended(S)
           /\ UNCHANGED status

\* The submission finds the documents complete as well.
Check(r) == /\ waiting[r] = "submit"
            /\ documents
            /\ waiting' = [waiting EXCEPT ![r] = "checked"]
            /\ UNCHANGED <<status, row, documents>>

Submit(r) == /\ waiting[r] = "checked"
             /\ status' = "SUBMITTED"
             /\ Ended({r})
             /\ UNCHANGED <<row, documents>>

Cancel(r) == /\ waiting[r] = "cancel"
             /\ status' = "CANCELLED"
             /\ Ended({r})
             /\ UNCHANGED <<row, documents>>

Review(r) == /\ waiting[r] \in Decisions
             /\ status' = waiting[r]
             /\ Ended({r})
             /\ UNCHANGED <<row, documents>>

Next == \/ Create
        \/ \E S \in SUBSET Request : Edit(S)
        \/ \E r \in Request : \/ \E op \in Operations : LetIn(r, op)
                              \/ Leave(r) \/ Check(r) \/ Submit(r) \/ Cancel(r) \/ Review(r)

Spec == Init /\ [][Next]_lifecycle
=============================================================================
