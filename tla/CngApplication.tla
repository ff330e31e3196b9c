--------------------------- MODULE CngApplication ---------------------------
(***************************************************************************)
(* One CNG financing application, from its creation to a decision, as      *)
(* CngApplicationsService handles it.  Every request runs in a handler.    *)
(* A handler awaits one database or delivery call after another, and the   *)
(* handlers of one process, or of several, interleave at every await: the  *)
(* service reads the application, decides on what it read, and writes with *)
(* a bare "where: { id }" that checks nothing again.  A step below is what *)
(* one such call does together with the code up to the next one.           *)
(*                                                                         *)
(* A request that the service refuses (wrong status, invalid body, missing *)
(* part) changes nothing, so refusing it is a stuttering step.             *)
(*                                                                         *)
(* Names, dates and timestamps are abstracted to "recorded or not".  The   *)
(* objects behind the documents are in CngDocuments: here a document is    *)
(* the presence of its row.                                                *)
(*                                                                         *)
(* Requests that overlap can undo what another one was let in for.  The    *)
(* variable late remembers which requests under way have been overtaken,   *)
(* and crossed whether one of them has written all the same.               *)
(***************************************************************************)
EXTENDS Naturals, Sequences, FiniteSets, FinancingQuote

CONSTANTS
    Handler,        \* request slots: how many requests can be in flight
    Operation,      \* the operations the clients of this instance issue
    Phone,          \* normalised phone numbers
    NoPhone,        \* the null of application.phone
    DocType,        \* document types the service accepts
    RequiredDoc,    \* those a submission must have
    NoDoc,          \* no document type: the request is not about one
    Choice,         \* the packages and plans that are asked for, as pairs
    NoQuote,        \* no quote is recorded
    MaxAttempts,    \* wrong codes a challenge tolerates (5 in the source)
    MaxChallenges   \* bound: challenges ever issued for the application

AllOperations == {"personal", "otp", "verify", "vehicle", "financing",
                  "upload", "delete", "submit", "cancel", "review"}

ASSUME HandlerAssumption == IsFiniteSet(Handler)
ASSUME OperationAssumption == Operation \subseteq AllOperations
ASSUME PhoneAssumption == NoPhone \notin Phone
ASSUME DocAssumption == RequiredDoc \subseteq DocType /\ NoDoc \notin DocType
ASSUME ChoiceAssumption == Choice \subseteq PackageId \X PlanId
ASSUME BoundAssumption == MaxAttempts \in Nat \ {0} /\ MaxChallenges \in Nat

VARIABLES
    app,          \* the row of cng_applications
    challenges,   \* the rows of cng_phone_verifications, oldest first
    req,          \* what each handler is doing, with its local variables
    proven,       \* history: phones for which a right code was entered
    late,         \* history: by what each request under way is overtaken
    crossed       \* history: what overtaken requests have written past

vars == <<app, challenges, req, proven, late, crossed>>

Status == {"NONE", "DRAFT", "SUBMITTED", "UNDER_REVIEW",
           "APPROVED", "REJECTED", "CANCELLED"}
Decision == {"UNDER_REVIEW", "APPROVED", "REJECTED"}

Quote == {QuoteOf(c[1], c[2]) : c \in Choice}

Application == [status: Status, personal: BOOLEAN,
                phone: Phone \cup {NoPhone}, verified: BOOLEAN,
                vehicle: BOOLEAN, financing: BOOLEAN, quote: Quote \cup {NoQuote},
                docs: SUBSET DocType, submitted: BOOLEAN]

Challenge == [phone: Phone, attempts: Nat, consumed: BOOLEAN,
              age: {"recent", "live", "expired"}]

\* Where a handler can be waiting, by the call it issues next.
Label == {"idle", "personal.write", "otp.lookup", "otp.send", "otp.begin",
          "otp.commit", "verify.lookup", "verify.miss", "verify.hit",
          "vehicle.write", "financing.write", "upload.write", "delete.lookup",
          "delete.write", "submit.documents", "submit.write", "cancel.write",
          "review.write"}

Request == [pc: Label, phone: Phone \cup {NoPhone}, doc: DocType \cup {NoDoc},
            offer: Quote \cup {NoQuote}, decision: Decision,
            readPhone: Phone \cup {NoPhone}, readVerified: BOOLEAN,
            challenge: Nat, seen: SUBSET Nat]

Idle == [pc |-> "idle", phone |-> NoPhone, doc |-> NoDoc,
         offer |-> NoQuote, decision |-> "UNDER_REVIEW", readPhone |-> NoPhone,
         readVerified |-> FALSE, challenge |-> 0, seen |-> {}]

\* What a request can be overtaken by: an edit or a submission past a request of
\* the other kind, and a new code past one that has read the number or the codes.
Overlap == {"submission", "code"}

TypeOK == /\ app \in Application
          /\ challenges \in Seq(Challenge)
          /\ req \in [Handler -> Request]
          /\ proven \subseteq Phone
          /\ late \in [Handler -> SUBSET Overlap]
          /\ crossed \subseteq Overlap

Init == /\ app = [status |-> "NONE", personal |-> FALSE, phone |-> NoPhone,
                  verified |-> FALSE, vehicle |-> FALSE, financing |-> FALSE,
                  quote |-> NoQuote, docs |-> {}, submitted |-> FALSE]
        /\ challenges = <<>>
        /\ req = [h \in Handler |-> Idle]
        /\ proven = {}
        /\ late = [h \in Handler |-> {}]
        /\ crossed = {}

-----------------------------------------------------------------------------
(* Handlers: starting, moving on, finishing.                               *)

\* A handler takes an operation's request: its first call has returned, and
\* the request goes on with what that call read in its local variables.
Begin(h, op, r) == /\ op \in Operation
                   /\ req[h] = Idle
                   /\ req' = [req EXCEPT ![h] = r]
                   /\ UNCHANGED <<late, crossed>>

At(h, label) == req[h].pc = label

Goto(h, label) == req' = [req EXCEPT ![h].pc = label] /\ UNCHANGED <<late, crossed>>

Finish(h) == req' = [req EXCEPT ![h] = Idle]

\* A request ends without having written the application.
Leave(h) == /\ Finish(h)
            /\ late' = [late EXCEPT ![h] = {}]
            /\ UNCHANGED crossed

SubmitLabels == {"submit.documents", "submit.write"}
EditLabels == Label \ (SubmitLabels \cup {"idle", "cancel.write", "review.write"})

\* What a request that is at one label is overtaken by when another one writes.
OvertakenBy(writing, waiting) ==
    {o \in Overlap :
        \/ /\ o = "submission"
           /\ \/ writing \in EditLabels /\ waiting \in SubmitLabels
              \/ writing = "submit.write" /\ waiting \in EditLabels
        \/ /\ o = "code" /\ writing = "otp.commit"
           /\ waiting \in {"personal.write", "otp.commit", "verify.hit"}}

\* A request has written the application: it has overtaken others, or crossed
\* what it was overtaken by.  A new code makes up for what earlier ones crossed.
Overtake(h) ==
    /\ late' = [g \in Handler |->
           IF req'[g] = Idle THEN {}
           ELSE late[g] \cup OvertakenBy(req[h].pc, req[g].pc)]
    /\ crossed' = late[h] \cup (IF At(h, "otp.commit") THEN crossed \ {"code"} ELSE crossed)

\* Mutant of Editable: the status is not looked at.
EditableAlways == app.status # "NONE"

\* getEditableApplication: only a draft can be edited.
Editable == app.status = "DRAFT"

\* A call throws, or the process restarts: what the request has not written
\* is lost, and an open transaction rolls back.
Fail(h) == /\ ~At(h, "idle")
           /\ Leave(h)
           /\ UNCHANGED <<app, challenges, proven>>

\* createApplication; a reference that stays taken after three attempts
\* leaves no row and is a stuttering step.
CreateApplication ==
    /\ app.status = "NONE"
    /\ app' = [app EXCEPT !.status = "DRAFT"]
    /\ UNCHANGED <<challenges, req, proven, late, crossed>>

-----------------------------------------------------------------------------
(* savePersonalDetails                                                     *)

ReadPersonal(h, phone) ==
    /\ Editable
    /\ Begin(h, "personal",
             [Idle EXCEPT !.pc = "personal.write", !.phone = phone,
                          !.readPhone = app.phone,
                          !.readVerified = app.verified])
    /\ UNCHANGED <<app, challenges, proven>>

\* Mutant: the new number is not compared with the one that was read.
KeepsVerifiedOfAny(r) == r.readVerified

\* The mark of a verified phone is carried over from what was read when the
\* number is the one that was read, and cleared when it differs.
KeepsVerified(r) == r.readPhone = r.phone /\ r.readVerified

WritePersonal(h) ==
    /\ At(h, "personal.write")
    /\ app' = [app EXCEPT !.personal = TRUE,
                          !.phone = req[h].phone,
                          !.verified = KeepsVerified(req[h])]
    /\ Finish(h)
    /\ Overtake(h)
    /\ UNCHANGED <<challenges, proven>>

-----------------------------------------------------------------------------
(* requestPhoneVerification                                                *)

ChallengesFor(phone) == {i \in DOMAIN challenges : challenges[i].phone = phone}
OpenChallenges == {i \in DOMAIN challenges : ~challenges[i].consumed}

IsLatest(i, S) == i \in S /\ \A j \in S : j <= i

\* A code was sent to this number less than a minute ago.
RecentlySent(phone) == \E i \in ChallengesFor(phone) :
    IsLatest(i, ChallengesFor(phone)) /\ challenges[i].age = "recent"

OtpLabels == {"otp.lookup", "otp.send", "otp.begin", "otp.commit"}

\* Bound: every request under way may still issue a challenge.
ChallengesLeft ==
    Len(challenges) + Cardinality({g \in Handler : req[g].pc \in OtpLabels})
        < MaxChallenges

ReadOtp(h, phone) ==
    /\ Editable
    /\ ChallengesLeft
    /\ Begin(h, "otp", [Idle EXCEPT !.pc = "otp.lookup", !.phone = phone])
    /\ UNCHANGED <<app, challenges, proven>>

LookupRecent(h) ==
    /\ At(h, "otp.lookup")
    /\ IF RecentlySent(req[h].phone) THEN Leave(h) ELSE Goto(h, "otp.send")
    /\ UNCHANGED <<app, challenges, proven>>

\* The delivery service accepted the code; its refusal is Fail.
SendCode(h) ==
    /\ At(h, "otp.send")
    /\ Goto(h, "otp.begin")
    /\ UNCHANGED <<app, challenges, proven>>

\* The transaction's first statement consumes the open challenges it can see:
\* under READ COMMITTED, those committed when the statement starts.
BeginChallenge(h) ==
    /\ At(h, "otp.begin")
    /\ req' = [req EXCEPT ![h].pc = "otp.commit", ![h].seen = OpenChallenges]
    /\ UNCHANGED <<app, challenges, proven, late, crossed>>

\* Mutant: the earlier codes are not retired.
ConsumeNone(S) == challenges

ConsumeAll(S) == [i \in DOMAIN challenges |->
    IF i \in S THEN [challenges[i] EXCEPT !.consumed = TRUE] ELSE challenges[i]]

\* Mutant: the mark of the verified phone is not withdrawn.
CommitChallengeKeepingMark(h) ==
    /\ At(h, "otp.commit")
    /\ challenges' = Append(ConsumeAll(req[h].seen),
                            [phone |-> req[h].phone, attempts |-> 0,
                             consumed |-> FALSE, age |-> "recent"])
    /\ app' = [app EXCEPT !.phone = req[h].phone]
    /\ Finish(h)
    /\ Overtake(h)
    /\ UNCHANGED proven

CommitChallenge(h) ==
    /\ At(h, "otp.commit")
    /\ challenges' = Append(ConsumeAll(req[h].seen),
                            [phone |-> req[h].phone, attempts |-> 0,
                             consumed |-> FALSE, age |-> "recent"])
    /\ app' = [app EXCEPT !.phone = req[h].phone, !.verified = FALSE]
    /\ Finish(h)
    /\ Overtake(h)
    /\ UNCHANGED proven

\* A minute, then ten, go by for a challenge; those before it are as old.
Later(age) == IF age = "recent" THEN "live" ELSE "expired"

PassTime(i) ==
    /\ challenges[i].age # "expired"
    /\ \A j \in 1 .. i - 1 : challenges[j].age \in {Later(challenges[i].age), "expired"}
    /\ challenges' = [challenges EXCEPT ![i].age = Later(challenges[i].age)]
    /\ UNCHANGED <<app, req, proven, late, crossed>>

-----------------------------------------------------------------------------
(* verifyPhone                                                             *)

ReadVerify(h, phone) ==
    /\ Editable
    /\ Begin(h, "verify", [Idle EXCEPT !.pc = "verify.lookup", !.phone = phone])
    /\ UNCHANGED <<app, challenges, proven>>

OpenFor(phone) == ChallengesFor(phone) \cap OpenChallenges

\* Mutant: the attempts are not limited.
UsableUnlimited(i, phone) == /\ IsLatest(i, OpenFor(phone))
                             /\ challenges[i].age # "expired"

\* The newest open challenge of the number, unexpired and with attempts left.
Usable(i, phone) == /\ IsLatest(i, OpenFor(phone))
                    /\ challenges[i].age # "expired"
                    /\ challenges[i].attempts < MaxAttempts

\* The code entered matches the challenge ("verify.hit") or does not.
LookupChallenge(h) ==
    /\ At(h, "verify.lookup")
    /\ IF \E i \in DOMAIN challenges : Usable(i, req[h].phone)
       THEN \E i \in DOMAIN challenges, outcome \in {"verify.hit", "verify.miss"} :
                /\ Usable(i, req[h].phone)
                /\ req' = [req EXCEPT ![h].pc = outcome, ![h].challenge = i]
                /\ UNCHANGED <<late, crossed>>
       ELSE Leave(h)
    /\ UNCHANGED <<app, challenges, proven>>

CountMiss(h) ==
    /\ At(h, "verify.miss")
    /\ challenges' = [challenges EXCEPT ![req[h].challenge].attempts = @ + 1]
    /\ Leave(h)
    /\ UNCHANGED <<app, proven>>

ConfirmPhone(h) ==
    /\ At(h, "verify.hit")
    /\ challenges' = [challenges EXCEPT ![req[h].challenge].consumed = TRUE]
    /\ app' = [app EXCEPT !.phone = req[h].phone, !.verified = TRUE]
    /\ proven' = proven \cup {req[h].phone}
    /\ Finish(h)
    /\ Overtake(h)

-----------------------------------------------------------------------------
(* saveVehicleDetails, saveFinancingDetails and the document rows          *)

ReadVehicle(h) == /\ Editable
                  /\ Begin(h, "vehicle", [Idle EXCEPT !.pc = "vehicle.write"])
                  /\ UNCHANGED <<app, challenges, proven>>

WriteVehicle(h) == /\ At(h, "vehicle.write")
                   /\ app' = [app EXCEPT !.vehicle = TRUE]
                   /\ Finish(h)
                   /\ Overtake(h)
                   /\ UNCHANGED <<challenges, proven>>

\* The quote is computed for the package and the plan that are asked for.
ReadFinancing(h, choice) ==
    /\ Editable
    /\ Begin(h, "financing", [Idle EXCEPT !.pc = "financing.write",
                                          !.offer = QuoteOf(choice[1], choice[2])])
    /\ UNCHANGED <<app, challenges, proven>>

\* The quote and the privacy consent are written together.
WriteFinancing(h) == /\ At(h, "financing.write")
                     /\ app' = [app EXCEPT !.financing = TRUE, !.quote = req[h].offer]
                     /\ Finish(h)
                     /\ Overtake(h)
                     /\ UNCHANGED <<challenges, proven>>

ReadUpload(h, doc) ==
    /\ Editable
    /\ Begin(h, "upload", [Idle EXCEPT !.pc = "upload.write", !.doc = doc])
    /\ UNCHANGED <<app, challenges, proven>>

\* The upsert of the row; the object it names was stored before.
WriteUpload(h) == /\ At(h, "upload.write")
                  /\ app' = [app EXCEPT !.docs = @ \cup {req[h].doc}]
                  /\ Finish(h)
                  /\ Overtake(h)
                  /\ UNCHANGED <<challenges, proven>>

ReadDelete(h, doc) ==
    /\ Editable
    /\ Begin(h, "delete", [Idle EXCEPT !.pc = "delete.lookup", !.doc = doc])
    /\ UNCHANGED <<app, challenges, proven>>

LookupDocument(h) ==
    /\ At(h, "delete.lookup")
    /\ IF req[h].doc \in app.docs THEN Goto(h, "delete.write") ELSE Leave(h)
    /\ UNCHANGED <<app, challenges, proven>>

DeletingRowOf(h) ==
    {g \in Handler : At(g, "delete.write") /\ req[g].doc = req[h].doc}

\* The row is deleted by the id that was read: the calls of the requests that
\* read the same row throw from now on, even when the type has a new row.
WriteDelete(h) ==
    /\ At(h, "delete.write")
    /\ app' = [app EXCEPT !.docs = @ \ {req[h].doc}]
    /\ req' = [g \in Handler |-> IF g \in DeletingRowOf(h) THEN Idle ELSE req[g]]
    /\ Overtake(h)
    /\ UNCHANGED <<challenges, proven>>

-----------------------------------------------------------------------------
(* submitApplication, cancelApplication, reviewApplication                 *)

\* mapApplication: how far the applicant is told to be, after every request.
Progress == [personal |-> app.personal,
             phoneVerified |-> app.verified,
             vehicle |-> app.vehicle,
             documents |-> RequiredDoc \subseteq app.docs,
             financing |-> app.financing]

\* mapAdminSummary: the application in the list of the reviewers.
AdminSummary == [status |-> app.status, progress |-> Progress]

\* What a submission requires of the row, and of the documents.
RowComplete == app.personal /\ app.verified /\ app.vehicle /\ app.financing
DocumentsComplete == RequiredDoc \subseteq app.docs

\* Mutant: the missing requirements of the row are collected and not looked at.
ReadSubmitUnchecked(h) == /\ Editable
                          /\ Begin(h, "submit", [Idle EXCEPT !.pc = "submit.documents"])
                          /\ UNCHANGED <<app, challenges, proven>>

ReadSubmit(h) == /\ Editable
                 /\ RowComplete
                 /\ Begin(h, "submit", [Idle EXCEPT !.pc = "submit.documents"])
                 /\ UNCHANGED <<app, challenges, proven>>

\* The documents are included by a statement of their own, after that of the row.
LookupDocuments(h) ==
    /\ At(h, "submit.documents")
    /\ IF DocumentsComplete THEN Goto(h, "submit.write") ELSE Leave(h)
    /\ UNCHANGED <<app, challenges, proven>>

WriteSubmit(h) ==
    /\ At(h, "submit.write")
    /\ app' = [app EXCEPT !.status = "SUBMITTED", !.submitted = TRUE]
    /\ Finish(h)
    /\ Overtake(h)
    /\ UNCHANGED <<challenges, proven>>

Cancellable == app.status \in {"DRAFT", "SUBMITTED"}

ReadCancel(h) == /\ Cancellable
                 /\ Begin(h, "cancel", [Idle EXCEPT !.pc = "cancel.write"])
                 /\ UNCHANGED <<app, challenges, proven>>

WriteCancel(h) == /\ At(h, "cancel.write")
                  /\ app' = [app EXCEPT !.status = "CANCELLED"]
                  /\ Finish(h)
                  /\ Overtake(h)
                  /\ UNCHANGED <<challenges, proven>>

\* Mutants: a rejected application, or a draft, can be reviewed.
ReviewableAgain == app.status \in {"SUBMITTED", "UNDER_REVIEW", "REJECTED"}
ReviewableDraft == app.status \in {"DRAFT", "SUBMITTED", "UNDER_REVIEW"}

Reviewable == app.status \in {"SUBMITTED", "UNDER_REVIEW"}

\* A rejection without a reason is refused: the decisions here carry one.
ReadReview(h, decision) ==
    /\ Reviewable
    /\ Begin(h, "review",
             [Idle EXCEPT !.pc = "review.write", !.decision = decision])
    /\ UNCHANGED <<app, challenges, proven>>

WriteReview(h) == /\ At(h, "review.write")
                  /\ app' = [app EXCEPT !.status = req[h].decision]
                  /\ Finish(h)
                  /\ Overtake(h)
                  /\ UNCHANGED <<challenges, proven>>

-----------------------------------------------------------------------------
Arrive(h) ==
    \/ \E phone \in Phone :
           ReadPersonal(h, phone) \/ ReadOtp(h, phone) \/ ReadVerify(h, phone)
    \/ \E doc \in DocType : ReadUpload(h, doc) \/ ReadDelete(h, doc)
    \/ \E decision \in Decision : ReadReview(h, decision)
    \/ \E choice \in Choice : ReadFinancing(h, choice)
    \/ ReadVehicle(h) \/ ReadSubmit(h) \/ ReadCancel(h)

Continue(h) ==
    \/ WritePersonal(h) \/ WriteVehicle(h) \/ WriteFinancing(h)
    \/ LookupRecent(h) \/ SendCode(h) \/ BeginChallenge(h) \/ CommitChallenge(h)
    \/ LookupChallenge(h) \/ CountMiss(h) \/ ConfirmPhone(h)
    \/ WriteUpload(h) \/ LookupDocument(h) \/ WriteDelete(h)
    \/ LookupDocuments(h) \/ WriteSubmit(h) \/ WriteCancel(h) \/ WriteReview(h)

Next == \/ CreateApplication
        \/ \E h \in Handler : Arrive(h) \/ Continue(h) \/ Fail(h)
        \/ \E i \in DOMAIN challenges : PassTime(i)

Spec == Init /\ [][Next]_vars

\* The event loop resumes a handler whose call has returned.
Fairness == \A h \in Handler : WF_vars(Continue(h))

FairSpec == Spec /\ Fairness

-----------------------------------------------------------------------------
(* What holds however the requests interleave                              *)

\* A number marked verified is one for which a right code was entered, even
\* when savePersonalDetails writes back a mark it read before other requests
\* changed the number.
VerifiedPhoneProven == app.verified => app.phone \in proven

\* The check of the attempts is made before the miss is counted, so requests
\* that race can pass the limit, each of them by one attempt at most.
AttemptsBounded == \A i \in DOMAIN challenges :
    challenges[i].attempts <= MaxAttempts - 1 + Cardinality(Handler)

\* Issuing a code retires the codes before it, but not one that a concurrent
\* transaction has not committed yet: at most one code per handler stays
\* usable, and a single one when requests do not overlap.
OpenChallengesBounded == Cardinality(OpenChallenges) <= Cardinality(Handler)

\* The three forms of a submitted application stay filled in: no request that
\* was under way when it was submitted can empty one of them.
SubmittedFormsKept ==
    app.submitted => app.personal /\ app.vehicle /\ app.financing

\* Whatever request wrote the status last, an application that is submitted,
\* under review or decided has been submitted at some time.
DecisionFollowsSubmission ==
    app.status \in Decision \cup {"SUBMITTED"} => app.submitted

\* The quote that is recorded in an application adds up, whichever package and
\* plan it is for: deposit and monthly payments are the total cost but for the
\* rounding of each payment.
RecordedQuoteAddsUp == app.financing => AddsUp(app.quote)

\* What is submitted is complete, and stays so for those who review it: the list
\* of the reviewers shows every part of an open or approved application as done,
\* which is computed apart from the requirements that a submission is checked by.
\* Only an edit and a submission that were both let in to a draft can make it
\* otherwise, if one has written before the other did and after the other had read
\* the row: no two submissions, cancellations, reviews or edits that overlap can.
SubmittedComplete == "submission" \notin crossed =>
    (AdminSummary.status \in {"SUBMITTED", "UNDER_REVIEW", "APPROVED"} =>
        \A part \in DOMAIN AdminSummary.progress : AdminSummary.progress[part])

\* A code that was sent and not yet used means that the number is not, or no
\* longer, verified: requesting a code withdraws the mark until it is entered.
\* Only a request that had read the number or the codes before a new code was
\* issued, and has written them after, can make it otherwise.
PendingCodeUnverified == "code" \notin crossed =>
    (OpenChallenges # {} => ~app.verified)

\* What a request has been let in to do with the application.
LetInFor(r) == IF r.pc = "idle" THEN "nothing"
               ELSE IF r.pc = "submit.documents" THEN "submit"
               ELSE IF r.pc = "submit.write" THEN "checked"
               ELSE IF r.pc = "cancel.write" THEN "cancel"
               ELSE IF r.pc = "review.write" THEN r.decision
               ELSE "edit"

\* However the calls of the requests interleave, what they do to the status of
\* the application is what CngLifecycle lets them do.
Lifecycle == INSTANCE CngLifecycle WITH
    Request <- Handler,
    status <- app.status, row <- RowComplete, documents <- DocumentsComplete,
    waiting <- [h \in Handler |-> LetInFor(req[h])]
ImplementsLifecycle == Lifecycle!Spec

EditUnderWay == \E h \in Handler : req[h].pc \in EditLabels

\* Once the application has left DRAFT, the edits that were under way come to
\* an end and no edit starts again.
EditsDrain == app.status \notin {"NONE", "DRAFT"} ~> []~EditUnderWay

-----------------------------------------------------------------------------
(* What a message of the service says, and overlapping requests break      *)

\* The parts of an application that its applicant edits.
Contents == <<app.personal, app.phone, app.verified,
              app.vehicle, app.financing, app.docs>>

\* Only draft applications can be edited: no step changes the contents of an
\* application that is not a draft.
EditsOnlyDraft == [][app.status # "DRAFT" => UNCHANGED Contents]_vars
=============================================================================
