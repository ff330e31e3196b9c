------------------------ MODULE CngApplicationProofs ------------------------
(***************************************************************************)
(* What the handling of a CNG application guarantees for any number of     *)
(* concurrent requests, phone numbers and document types, although every   *)
(* request writes on the strength of what it read earlier.                 *)
(*                                                                         *)
(* The argument: what a request carries from its read to its write is      *)
(* something that no other step takes back.  A phone that was proven stays *)
(* proven, a form that was filled in stays filled in, and an application   *)
(* that was submitted stays marked as submitted.                           *)
(*                                                                         *)
(* The bounds count requests: an attempt beyond the limit belongs to a     *)
(* request that looked before the limit was reached and has not written,   *)
(* and a second open code to a transaction that began before the first     *)
(* was committed.                                                          *)
(*                                                                         *)
(* What a request has been let in for still holds when it writes, unless a *)
(* request of a kind that can undo it has written since.  Only such pairs, *)
(* an edit and a submission, or a new code and what was read before it,    *)
(* can leave a submitted application incomplete or a pending code beside a *)
(* verified number.  What any requests do to the status is what            *)
(* CngLifecycle lets them do.                                              *)
(*                                                                         *)
(* Edits come to an end because an edit has at most four calls to issue    *)
(* and none begins once the application is no draft.  What becomes of the  *)
(* rows of the documents is what CngDocumentRows promises.                 *)
(***************************************************************************)
EXTENDS CngApplication, FiniteSetTheorems, SequenceTheorems, WellFoundedInduction, TLAPS

\* The rows and the requests keep their types, and so does what is remembered of
\* the requests that overlap.
RowsTyped == /\ app \in Application
             /\ challenges \in Seq(Challenge)
             /\ req \in [Handler -> Request]
             /\ proven \subseteq Phone

OverlapsTyped == late \in [Handler -> SUBSET Overlap] /\ crossed \subseteq Overlap

PhoneLabels == OtpLabels \cup
    {"personal.write", "verify.lookup", "verify.miss", "verify.hit"}
DocLabels == {"upload.write", "delete.lookup", "delete.write"}

FormsFilled == app.personal /\ app.vehicle /\ app.financing

\* Every requirement of a submission is met.
Complete == RowComplete /\ DocumentsComplete

\* What holds of a request under way: it has the input of its operation, and
\* what it has read is still so.
Justified(r) ==
    /\ r.pc \in PhoneLabels => r.phone \in Phone
    /\ r.pc \in DocLabels => r.doc \in DocType
    /\ r.pc \in {"verify.miss", "verify.hit"} => r.challenge \in DOMAIN challenges
    /\ r.pc = "personal.write" /\ r.readVerified => r.readPhone \in proven
    /\ r.pc = "financing.write" => r.offer \in Quote
    /\ r.pc \in SubmitLabels => FormsFilled
    /\ r.pc = "review.write" => app.submitted

RequestsJustified == \A h \in Handler : Justified(req[h])

\* An application that has its financing has one of the quotes.
Quoted == app.financing => app.quote \in Quote

IInv == /\ RowsTyped /\ RequestsJustified
        /\ VerifiedPhoneProven /\ SubmittedFormsKept
        /\ DecisionFollowsSubmission /\ Quoted

\* Rewriting the elements of a sequence in place leaves a sequence as long.
LEMMA RewrittenSequence ==
    ASSUME NEW S, NEW s \in Seq(S), NEW t \in [DOMAIN s -> S]
    PROVE  t \in Seq(S) /\ DOMAIN t = DOMAIN s /\ Len(t) = Len(s)
<1>1. Len(s) \in Nat /\ DOMAIN s = 1 .. Len(s)
  OBVIOUS
<1>2. t \in [1 .. Len(s) -> S]
  BY <1>1
<1>3. t \in Seq(S)
  BY <1>1, <1>2, SeqDef
<1>4. QED
  BY <1>1, <1>2, <1>3

\* Each way a challenge is rewritten leaves a challenge.
LEMMA RewrittenChallenge ==
    ASSUME NEW c \in Challenge
    PROVE  /\ [c EXCEPT !.consumed = TRUE] \in Challenge
           /\ [c EXCEPT !.attempts = c.attempts + 1] \in Challenge
           /\ [c EXCEPT !.age = Later(c.age)] \in Challenge
<1>1. Later(c.age) \in {"live", "expired"}
  BY DEF Later
<1>2. [c EXCEPT !.age = Later(c.age)] \in Challenge
  BY <1>1 DEF Challenge
<1>3. [c EXCEPT !.consumed = TRUE] \in Challenge
  BY DEF Challenge
<1>4. [c EXCEPT !.attempts = c.attempts + 1] \in Challenge
  BY DEF Challenge
<1>5. QED
  BY <1>2, <1>3, <1>4

LEMMA IdleIsRequest == Idle \in Request /\ Idle.pc = "idle"
BY DEF Idle, Request, Label, Decision

LEMMA InitIInv == Init => IInv
BY IdleIsRequest DEF Init, IInv, RowsTyped, Application, Challenge, Status,
   RequestsJustified, Justified, PhoneLabels, DocLabels, OtpLabels, SubmitLabels,
   VerifiedPhoneProven, SubmittedFormsKept, DecisionFollowsSubmission, Quoted, Decision

-----------------------------------------------------------------------------
\* What the requests have read stays so: no step takes any of it back.
NothingTakenBack == /\ DOMAIN challenges \subseteq DOMAIN challenges'
                    /\ proven \subseteq proven'
                    /\ FormsFilled => FormsFilled'
                    /\ app.submitted => app'.submitted

\* A step of one handler, which leaves that handler with a justified request.
LEMMA OneHandler ==
    ASSUME req \in [Handler -> Request], RequestsJustified, NothingTakenBack,
           NEW h \in Handler, NEW r \in Request,
           req' = [req EXCEPT ![h] = r], Justified(r)'
    PROVE  req' \in [Handler -> Request] /\ RequestsJustified'
<1>1. req' \in [Handler -> Request]
  OBVIOUS
<1>2. ASSUME NEW g \in Handler
      PROVE  Justified(req[g])'
  <2>1. CASE g = h
    BY <2>1
  <2>2. CASE g # h
    <3>1. req'[g] = req[g] /\ Justified(req[g])
      BY <2>2 DEF RequestsJustified
    <3>2. QED
      BY <3>1 DEF Justified, NothingTakenBack, FormsFilled
  <2>3. QED
    BY <2>1, <2>2
<1>3. QED
  BY <1>1, <1>2 DEF RequestsJustified

\* A handler that ends has nothing to justify.
LEMMA HandlerEnds ==
    ASSUME req \in [Handler -> Request], RequestsJustified, NothingTakenBack,
           NEW h \in Handler, Finish(h)
    PROVE  req' \in [Handler -> Request] /\ RequestsJustified'
<1>1. Justified(Idle)'
  BY DEF Justified, Idle, PhoneLabels, DocLabels, OtpLabels, SubmitLabels
<1>2. QED
  BY <1>1, OneHandler, IdleIsRequest DEF Finish

\* A step that ends the requests of some handlers.
LEMMA HandlersEnd ==
    ASSUME req \in [Handler -> Request], RequestsJustified, NothingTakenBack,
           NEW S \in SUBSET Handler,
           req' = [g \in Handler |-> IF g \in S THEN Idle ELSE req[g]]
    PROVE  req' \in [Handler -> Request] /\ RequestsJustified'
<1>1. req' \in [Handler -> Request]
  BY IdleIsRequest
<1>2. ASSUME NEW g \in Handler
      PROVE  Justified(req[g])'
  <2>1. CASE g \in S
    BY <2>1 DEF Justified, Idle, PhoneLabels, DocLabels, OtpLabels, SubmitLabels
  <2>2. CASE g \notin S
    <3>1. req'[g] = req[g] /\ Justified(req[g])
      BY <2>2 DEF RequestsJustified
    <3>2. QED
      BY <3>1 DEF Justified, NothingTakenBack, FormsFilled
  <2>3. QED
    BY <2>1, <2>2
<1>3. QED
  BY <1>1, <1>2 DEF RequestsJustified

\* A step that only moves a handler on.
LEMMA OnlyRequest ==
    ASSUME IInv, UNCHANGED <<app, challenges, proven>>,
           NEW h \in Handler, NEW r \in Request,
           req' = [req EXCEPT ![h] = r], Justified(r)
    PROVE  IInv'
<1>1. NothingTakenBack /\ Justified(r)'
  BY DEF NothingTakenBack, FormsFilled, Justified
<1>2. req' \in [Handler -> Request] /\ RequestsJustified'
  BY <1>1, OneHandler DEF IInv, RowsTyped
<1>3. QED
  BY <1>2 DEF IInv, RowsTyped, VerifiedPhoneProven, SubmittedFormsKept,
     DecisionFollowsSubmission, Quoted

LEMMA OnlyEnds ==
    ASSUME IInv, UNCHANGED <<app, challenges, proven>>,
           NEW h \in Handler, Finish(h)
    PROVE  IInv'
<1>1. Justified(Idle)
  BY DEF Justified, Idle, PhoneLabels, DocLabels, OtpLabels, SubmitLabels
<1>2. QED
  BY <1>1, OnlyRequest, IdleIsRequest DEF Finish

-----------------------------------------------------------------------------
\* The requests that arrive.
LEMMA ArriveIInv ==
    ASSUME IInv, NEW h \in Handler, Arrive(h)
    PROVE  IInv'
<1> USE DEF Begin, Editable, Idle, Request, Label, Justified, PhoneLabels,
            DocLabels, OtpLabels, SubmitLabels
<1>1. ASSUME NEW phone \in Phone, ReadPersonal(h, phone)
      PROVE  IInv'
  <2> DEFINE r == [Idle EXCEPT !.pc = "personal.write", !.phone = phone,
                               !.readPhone = app.phone,
                               !.readVerified = app.verified]
  <2>1. r \in Request
    BY DEF IInv, RowsTyped, Application, Decision
  <2>2. Justified(r)
    BY DEF IInv, RowsTyped, Application, VerifiedPhoneProven
  <2>3. req' = [req EXCEPT ![h] = r] /\ UNCHANGED <<app, challenges, proven>>
    BY <1>1 DEF ReadPersonal
  <2> HIDE DEF r
  <2>4. QED
    BY <2>1, <2>2, <2>3, OnlyRequest
<1>2. ASSUME NEW phone \in Phone, NEW label \in {"otp.lookup", "verify.lookup"},
             NEW op, Begin(h, op, [Idle EXCEPT !.pc = label, !.phone = phone]),
             UNCHANGED <<app, challenges, proven>>
      PROVE  IInv'
  <2> DEFINE r == [Idle EXCEPT !.pc = label, !.phone = phone]
  <2>1. r \in Request /\ Justified(r) /\ req' = [req EXCEPT ![h] = r]
    BY <1>2 DEF Decision
  <2> HIDE DEF r
  <2>2. QED
    BY <1>2, <2>1, OnlyRequest
<1>3. ASSUME NEW doc \in DocType, NEW label \in {"upload.write", "delete.lookup"},
             NEW op, Begin(h, op, [Idle EXCEPT !.pc = label, !.doc = doc]),
             UNCHANGED <<app, challenges, proven>>
      PROVE  IInv'
  <2> DEFINE r == [Idle EXCEPT !.pc = label, !.doc = doc]
  <2>1. r \in Request /\ Justified(r) /\ req' = [req EXCEPT ![h] = r]
    BY <1>3 DEF Decision
  <2> HIDE DEF r
  <2>2. QED
    BY <1>3, <2>1, OnlyRequest
<1>4. ASSUME NEW decision \in Decision, ReadReview(h, decision)
      PROVE  IInv'
  <2> DEFINE r == [Idle EXCEPT !.pc = "review.write", !.decision = decision]
  <2>1. app.submitted
    BY <1>4 DEF ReadReview, Reviewable, IInv, DecisionFollowsSubmission, Quoted, Decision
  <2>2. r \in Request /\ Justified(r) /\ req' = [req EXCEPT ![h] = r]
    BY <1>4, <2>1 DEF ReadReview, Decision
  <2> HIDE DEF r
  <2>3. QED
    BY <1>4, <2>2, OnlyRequest DEF ReadReview
<1>5. ASSUME NEW label \in {"vehicle.write", "submit.documents", "cancel.write"},
             label = "submit.documents" => FormsFilled,
             NEW op, Begin(h, op, [Idle EXCEPT !.pc = label]),
             UNCHANGED <<app, challenges, proven>>
      PROVE  IInv'
  <2> DEFINE r == [Idle EXCEPT !.pc = label]
  <2>1. r \in Request /\ Justified(r) /\ req' = [req EXCEPT ![h] = r]
    BY <1>5 DEF Decision
  <2> HIDE DEF r
  <2>2. QED
    BY <1>5, <2>1, OnlyRequest
<1>5a. ASSUME NEW choice \in Choice, ReadFinancing(h, choice)
       PROVE  IInv'
  <2>1. PICK quote \in Quote : quote = QuoteOf(choice[1], choice[2])
    BY DEF Quote
  <2> DEFINE r == [Idle EXCEPT !.pc = "financing.write", !.offer = quote]
  <2>2. r \in Request /\ Justified(r)
    BY DEF Decision
  <2>3. req' = [req EXCEPT ![h] = r] /\ UNCHANGED <<app, challenges, proven>>
    BY <1>5a, <2>1 DEF ReadFinancing
  <2> HIDE DEF r
  <2>4. QED
    BY <2>2, <2>3, OnlyRequest
<1> HIDE DEF Begin
<1>6. ASSUME NEW phone \in Phone, ReadOtp(h, phone) \/ ReadVerify(h, phone)
      PROVE  IInv'
  BY <1>2, <1>6 DEF ReadOtp, ReadVerify
<1>7. ASSUME NEW doc \in DocType, ReadUpload(h, doc) \/ ReadDelete(h, doc)
      PROVE  IInv'
  BY <1>3, <1>7 DEF ReadUpload, ReadDelete
<1>8. CASE ReadVehicle(h) \/ ReadSubmit(h) \/ ReadCancel(h)
  BY <1>5, <1>8 DEF ReadVehicle, ReadSubmit, ReadCancel, RowComplete, FormsFilled
<1>9. QED
  BY <1>1, <1>4, <1>5a, <1>6, <1>7, <1>8 DEF Arrive

-----------------------------------------------------------------------------
\* The steps of a request that only move it on.
LEMMA MoveOnIInv ==
    ASSUME IInv, NEW h \in Handler,
           \/ LookupRecent(h) \/ SendCode(h) \/ BeginChallenge(h)
           \/ LookupChallenge(h) \/ LookupDocument(h) \/ LookupDocuments(h)
    PROVE  IInv'
<1>1. req[h] \in Request /\ Justified(req[h]) /\ DOMAIN challenges \subseteq Nat
  BY DEF IInv, RowsTyped, RequestsJustified
<1>2. ASSUME NEW label \in {"otp.send", "otp.begin", "delete.write", "submit.write"},
             req[h].pc \in {"otp.lookup", "otp.send", "delete.lookup", "submit.documents"},
             label = "delete.write" <=> req[h].pc = "delete.lookup",
             label = "submit.write" <=> req[h].pc = "submit.documents",
             Goto(h, label), UNCHANGED <<app, challenges, proven>>
      PROVE  IInv'
  <2> DEFINE r == [req[h] EXCEPT !.pc = label]
  <2>1. r \in Request
    BY <1>1 DEF Request, Label
  <2>2. Justified(r)
    BY <1>1, <1>2 DEF Justified, Request, PhoneLabels, DocLabels, OtpLabels, SubmitLabels
  <2>3. req' = [req EXCEPT ![h] = r]
    BY <1>2 DEF Goto, IInv, RowsTyped
  <2> HIDE DEF r
  <2>4. QED
    BY <1>2, <2>1, <2>2, <2>3, OnlyRequest
<1>3. CASE LookupRecent(h) \/ SendCode(h) \/ LookupDocument(h) \/ LookupDocuments(h)
  BY <1>2, <1>3, OnlyEnds DEF Leave, LookupRecent, SendCode, LookupDocument,
     LookupDocuments, At
<1>4. CASE BeginChallenge(h)
  <2> DEFINE r == [req[h] EXCEPT !.pc = "otp.commit", !.seen = OpenChallenges]
  <2>1. r \in Request
    BY <1>1 DEF Request, Label, OpenChallenges
  <2>2. Justified(r)
    BY <1>1, <1>4 DEF Justified, Request, PhoneLabels, DocLabels, OtpLabels, SubmitLabels,
       BeginChallenge, At
  <2>3. req' = [req EXCEPT ![h] = r]
    BY <1>4 DEF BeginChallenge, IInv, RowsTyped
  <2> HIDE DEF r
  <2>4. QED
    BY <1>4, <2>1, <2>2, <2>3, OnlyRequest DEF BeginChallenge
<1>5. ASSUME NEW i \in DOMAIN challenges,
             NEW outcome \in {"verify.hit", "verify.miss"},
             At(h, "verify.lookup"), UNCHANGED <<app, challenges, proven>>,
             req' = [req EXCEPT ![h].pc = outcome, ![h].challenge = i]
      PROVE  IInv'
  <2> DEFINE r == [req[h] EXCEPT !.pc = outcome, !.challenge = i]
  <2>1. r \in Request
    BY <1>1 DEF Request, Label
  <2>2. Justified(r)
    BY <1>1, <1>5 DEF Justified, Request, PhoneLabels, DocLabels, OtpLabels, SubmitLabels, At
  <2>3. req' = [req EXCEPT ![h] = r]
    BY <1>5 DEF IInv, RowsTyped
  <2> HIDE DEF r
  <2>4. QED
    BY <1>5, <2>1, <2>2, <2>3, OnlyRequest
<1>6. CASE LookupChallenge(h)
  BY <1>5, <1>6, OnlyEnds DEF Leave, LookupChallenge
<1>7. QED
  BY <1>3, <1>4, <1>6

-----------------------------------------------------------------------------
\* The steps that write the application and nothing else.
LEMMA WriteIInv ==
    ASSUME IInv, NEW h \in Handler,
           \/ WritePersonal(h) \/ WriteVehicle(h) \/ WriteFinancing(h)
           \/ WriteUpload(h) \/ WriteDelete(h)
           \/ WriteSubmit(h) \/ WriteCancel(h) \/ WriteReview(h)
    PROVE  IInv'
<1>1. req[h] \in Request /\ Justified(req[h])
  BY DEF IInv, RowsTyped, RequestsJustified
<1>2. UNCHANGED <<challenges, proven>>
  BY DEF WritePersonal, WriteVehicle, WriteFinancing, WriteUpload, WriteDelete,
     WriteSubmit, WriteCancel, WriteReview
<1>3. app' \in Application
  <2> USE <1>1 DEF At, IInv, RowsTyped, Application
  <2>1. CASE WritePersonal(h)
    BY <2>1 DEF WritePersonal, KeepsVerified, Request, Justified, PhoneLabels
  <2>2. CASE WriteVehicle(h)
    BY <2>2 DEF WriteVehicle
  <2>2a. CASE WriteFinancing(h)
    <3>1. PICK quote \in Quote : quote = req[h].offer
      BY <2>2a DEF WriteFinancing, Justified
    <3>2. app' = [app EXCEPT !.financing = TRUE, !.quote = quote]
      BY <2>2a, <3>1 DEF WriteFinancing
    <3>3. QED
      BY <3>2
  <2>3. CASE WriteUpload(h) \/ WriteDelete(h)
    BY <2>3 DEF WriteUpload, WriteDelete, Justified, DocLabels
  <2>4. CASE WriteSubmit(h) \/ WriteCancel(h) \/ WriteReview(h)
    BY <2>4 DEF WriteSubmit, WriteCancel, WriteReview, Status, Decision, Request
  <2>5. QED
    BY <2>1, <2>2, <2>2a, <2>3, <2>4
<1>4. NothingTakenBack
  BY <1>1, <1>2 DEF NothingTakenBack, FormsFilled, WritePersonal, WriteVehicle,
     WriteFinancing, WriteUpload, WriteDelete, WriteSubmit, WriteCancel,
     WriteReview, IInv, RowsTyped, Application
<1>5. req' \in [Handler -> Request] /\ RequestsJustified'
  <2>1. CASE Finish(h)
    BY <1>4, <2>1, HandlerEnds DEF IInv, RowsTyped
  <2>2. CASE WriteDelete(h)
    BY <1>4, <2>2, HandlersEnd DEF WriteDelete, DeletingRowOf, IInv, RowsTyped
  <2>3. QED
    BY <2>1, <2>2 DEF WritePersonal, WriteVehicle, WriteFinancing, WriteUpload,
       WriteSubmit, WriteCancel, WriteReview
<1>6. VerifiedPhoneProven'
  BY <1>1, <1>2 DEF IInv, RowsTyped, Application, VerifiedPhoneProven, Justified,
     KeepsVerified, WritePersonal, WriteVehicle, WriteFinancing, WriteUpload,
     WriteDelete, WriteSubmit, WriteCancel, WriteReview, At
<1>7. SubmittedFormsKept' /\ DecisionFollowsSubmission'
  <2> USE <1>1 DEF At, IInv, RowsTyped, Application, SubmittedFormsKept,
                   DecisionFollowsSubmission, Quoted
  <2>1. CASE WritePersonal(h) \/ WriteVehicle(h) \/ WriteFinancing(h)
    BY <2>1 DEF WritePersonal, WriteVehicle, WriteFinancing
  <2>2. CASE WriteUpload(h) \/ WriteDelete(h)
    BY <2>2 DEF WriteUpload, WriteDelete
  <2>3. CASE WriteSubmit(h)
    BY <2>3 DEF WriteSubmit, Justified, SubmitLabels, FormsFilled
  <2>4. CASE WriteCancel(h) \/ WriteReview(h)
    BY <2>4 DEF WriteCancel, WriteReview, Justified, Decision, Request
  <2>5. QED
    BY <2>1, <2>2, <2>3, <2>4
<1>8. Quoted'
  <2>1. CASE WriteFinancing(h)
    <3>1. PICK quote \in Quote : quote = req[h].offer
      BY <1>1, <2>1 DEF WriteFinancing, Justified, At
    <3>2. app' = [app EXCEPT !.financing = TRUE, !.quote = quote]
      BY <2>1, <3>1 DEF WriteFinancing
    <3>3. app'.quote = quote
      BY <3>2 DEF IInv, RowsTyped, Application
    <3>4. QED
      BY <3>3 DEF Quoted
  <2>2. CASE ~WriteFinancing(h)
    <3>1. app'.financing = app.financing /\ app'.quote = app.quote
      BY <2>2 DEF WritePersonal, WriteVehicle, WriteUpload, WriteDelete, WriteSubmit,
         WriteCancel, WriteReview, IInv, RowsTyped, Application
    <3>2. QED
      BY <3>1 DEF IInv, Quoted
  <2>3. QED
    BY <2>1, <2>2
<1>9. QED
  BY <1>2, <1>3, <1>5, <1>6, <1>7, <1>8 DEF IInv, RowsTyped

-----------------------------------------------------------------------------
\* The steps that write the challenges.
LEMMA ChallengeIInv ==
    ASSUME IInv, NEW h \in Handler,
           CommitChallenge(h) \/ CountMiss(h) \/ ConfirmPhone(h)
    PROVE  IInv'
<1>1. req[h] \in Request /\ Justified(req[h])
  BY DEF IInv, RowsTyped, RequestsJustified
<1>2. Finish(h)
  BY DEF Leave, CommitChallenge, CountMiss, ConfirmPhone
<1>3. req[h].phone \in Phone
  BY <1>1 DEF CommitChallenge, CountMiss, ConfirmPhone, At, Justified,
     PhoneLabels, OtpLabels
<1>4. challenges' \in Seq(Challenge) /\ DOMAIN challenges \subseteq DOMAIN challenges'
  <2>1. challenges \in Seq(Challenge)
    BY DEF IInv, RowsTyped
  <2>6. challenges \in [DOMAIN challenges -> Challenge]
    BY <2>1
  <2>2. CASE CommitChallenge(h)
    <3> DEFINE new == [phone |-> req[h].phone, attempts |-> 0,
                       consumed |-> FALSE, age |-> "recent"]
    <3>1. new \in Challenge
      BY <1>3 DEF Challenge
    <3>2. ConsumeAll(req[h].seen) \in [DOMAIN challenges -> Challenge]
      BY <2>6, RewrittenChallenge DEF ConsumeAll
    <3>3. /\ ConsumeAll(req[h].seen) \in Seq(Challenge)
          /\ Len(ConsumeAll(req[h].seen)) = Len(challenges)
      BY <2>1, <3>2, RewrittenSequence
    <3> HIDE DEF new
    <3>4. QED
      BY <2>1, <2>2, <3>1, <3>3 DEF CommitChallenge, new
  <2>3. CASE CountMiss(h)
    <3>1. challenges' \in [DOMAIN challenges -> Challenge]
      <4>1. challenges' = [i \in DOMAIN challenges |->
              IF i = req[h].challenge
              THEN [challenges[i] EXCEPT !.attempts = challenges[i].attempts + 1]
              ELSE challenges[i]]
        BY <2>3, <2>6 DEF CountMiss
      <4>2. QED
        BY <2>6, <4>1, RewrittenChallenge
    <3>2. QED
      BY <2>1, <3>1, RewrittenSequence
  <2>4. CASE ConfirmPhone(h)
    <3>1. challenges' \in [DOMAIN challenges -> Challenge]
      <4>1. challenges' = [i \in DOMAIN challenges |->
              IF i = req[h].challenge
              THEN [challenges[i] EXCEPT !.consumed = TRUE] ELSE challenges[i]]
        BY <2>4, <2>6 DEF ConfirmPhone
      <4>2. QED
        BY <2>6, <4>1, RewrittenChallenge
    <3>2. QED
      BY <2>1, <3>1, RewrittenSequence
  <2>5. QED
    BY <2>2, <2>3, <2>4
<1>5. app' \in Application /\ proven' \subseteq Phone
  BY <1>3 DEF CommitChallenge, CountMiss, ConfirmPhone, IInv, RowsTyped, Application
<1>6. NothingTakenBack
  BY <1>4 DEF NothingTakenBack, FormsFilled, CommitChallenge, CountMiss,
     ConfirmPhone, IInv, RowsTyped, Application
<1>7. RowsTyped' /\ RequestsJustified'
  BY <1>2, <1>4, <1>5, <1>6, HandlerEnds DEF IInv, RowsTyped
<1>8. VerifiedPhoneProven' /\ SubmittedFormsKept' /\ DecisionFollowsSubmission' /\ Quoted'
  BY DEF IInv, RowsTyped, Application, VerifiedPhoneProven, SubmittedFormsKept,
     DecisionFollowsSubmission, Quoted, CommitChallenge, CountMiss, ConfirmPhone
<1>9. QED
  BY <1>7, <1>8 DEF IInv

LEMMA TimeIInv ==
    ASSUME IInv, NEW i \in DOMAIN challenges, PassTime(i)
    PROVE  IInv'
<1>1. challenges' \in Seq(Challenge) /\ DOMAIN challenges' = DOMAIN challenges
  <2>1. challenges' \in [DOMAIN challenges -> Challenge]
    <3>1. challenges \in [DOMAIN challenges -> Challenge]
      BY DEF IInv, RowsTyped
    <3>2. challenges' = [j \in DOMAIN challenges |->
            IF j = i THEN [challenges[j] EXCEPT !.age = Later(challenges[j].age)]
            ELSE challenges[j]]
      BY <3>1 DEF PassTime
    <3>3. QED
      BY <3>1, <3>2, RewrittenChallenge
  <2>2. QED
    BY <2>1, RewrittenSequence DEF IInv, RowsTyped
<1>2. QED
  BY <1>1 DEF PassTime, IInv, RowsTyped, RequestsJustified, Justified, FormsFilled,
     VerifiedPhoneProven, SubmittedFormsKept, DecisionFollowsSubmission, Quoted

LEMMA CreateIInv == IInv /\ CreateApplication => IInv'
<1> SUFFICES ASSUME IInv, CreateApplication PROVE IInv'
  OBVIOUS
<1>1. app' \in Application
  BY DEF CreateApplication, IInv, RowsTyped, Application, Status
<1>2. QED
  BY <1>1 DEF CreateApplication, IInv, RowsTyped, RequestsJustified, Justified,
     FormsFilled, VerifiedPhoneProven, SubmittedFormsKept,
     DecisionFollowsSubmission, Quoted, Application, Decision

LEMMA NextIInv == IInv /\ [Next]_vars => IInv'
<1> SUFFICES ASSUME IInv, [Next]_vars PROVE IInv'
  OBVIOUS
<1>1. ASSUME NEW h \in Handler, Continue(h)
      PROVE  IInv'
  BY <1>1, MoveOnIInv, WriteIInv, ChallengeIInv DEF Continue
<1>2. ASSUME NEW h \in Handler, Fail(h)
      PROVE  IInv'
  BY <1>2, OnlyEnds DEF Leave, Fail
<1>3. CASE UNCHANGED vars
  BY <1>3 DEF vars, IInv, RowsTyped, RequestsJustified, Justified, FormsFilled,
     VerifiedPhoneProven, SubmittedFormsKept, DecisionFollowsSubmission, Quoted
<1>4. QED
  BY <1>1, <1>2, <1>3, ArriveIInv, TimeIInv, CreateIInv DEF Next

LEMMA InductiveInvariant == Spec => []IInv
BY InitIInv, NextIInv, PTL DEF Spec

\* A step leaves what is remembered of overlaps alone, or ends a request.
LEMMA OverlapsStep ==
    ASSUME [Next]_vars
    PROVE  \/ UNCHANGED <<late, crossed>>
           \/ \E h \in Handler : Leave(h) \/ Overtake(h)
<1>1. ASSUME NEW h \in Handler, Arrive(h)
      PROVE  UNCHANGED <<late, crossed>>
  BY <1>1 DEF Arrive, Begin, ReadPersonal, ReadOtp, ReadVerify, ReadUpload, ReadDelete,
     ReadReview, ReadVehicle, ReadFinancing, ReadSubmit, ReadCancel
<1>2. ASSUME NEW h \in Handler, Continue(h) \/ Fail(h)
      PROVE  UNCHANGED <<late, crossed>> \/ Leave(h) \/ Overtake(h)
  BY <1>2 DEF Continue, Fail, Goto, WritePersonal, WriteVehicle, WriteFinancing,
     LookupRecent, SendCode, BeginChallenge, CommitChallenge, LookupChallenge, CountMiss,
     ConfirmPhone, WriteUpload, LookupDocument, WriteDelete, LookupDocuments, WriteSubmit,
     WriteCancel, WriteReview
<1>3. QED
  BY <1>1, <1>2 DEF Next, CreateApplication, PassTime, vars

LEMMA NextOverlapsTyped == OverlapsTyped /\ [Next]_vars => OverlapsTyped'
<1> SUFFICES ASSUME OverlapsTyped, [Next]_vars PROVE OverlapsTyped'
  OBVIOUS
<1>1. ASSUME NEW h \in Handler, Leave(h)
      PROVE  OverlapsTyped'
  BY <1>1 DEF Leave, OverlapsTyped
<1>2. ASSUME NEW h \in Handler, Overtake(h)
      PROVE  OverlapsTyped'
  <2>1. \A writing, waiting : OvertakenBy(writing, waiting) \subseteq Overlap
    BY DEF OvertakenBy
  <2>2. QED
    BY <1>2, <2>1 DEF Overtake, OverlapsTyped
<1>3. QED
  BY <1>1, <1>2, OverlapsStep DEF OverlapsTyped

LEMMA OverlapsAreTyped == Spec => []OverlapsTyped
<1>1. Init => OverlapsTyped
  BY DEF Init, OverlapsTyped
<1>2. QED
  BY <1>1, NextOverlapsTyped, PTL DEF Spec

\* Every variable of CngApplication keeps its type.
THEOREM ApplicationTyped == Spec => []TypeOK
<1>1. IInv /\ OverlapsTyped => TypeOK
  BY DEF IInv, RowsTyped, OverlapsTyped, TypeOK
<1>2. QED
  BY <1>1, InductiveInvariant, OverlapsAreTyped, PTL

\* A number marked verified is one for which a right code was entered.
THEOREM VerifiedIsProven == Spec => []VerifiedPhoneProven
<1>1. IInv => VerifiedPhoneProven
  BY DEF IInv
<1>2. QED
  BY <1>1, InductiveInvariant, PTL

\* No interleaving empties a form of an application that was submitted.
THEOREM FormsStayFilled == Spec => []SubmittedFormsKept
<1>1. IInv => SubmittedFormsKept
  BY DEF IInv
<1>2. QED
  BY <1>1, InductiveInvariant, PTL

\* No interleaving brings to review an application that was never submitted.
THEOREM ReviewedWasSubmitted == Spec => []DecisionFollowsSubmission
<1>1. IInv => DecisionFollowsSubmission
  BY DEF IInv
<1>2. QED
  BY <1>1, InductiveInvariant, PTL

-----------------------------------------------------------------------------
(* How many attempts and how many open codes                               *)

\* Requests about to count a miss for a challenge.
Missing(i) == {h \in Handler : req[h].pc = "verify.miss" /\ req[h].challenge = i}

\* Each of them passed the check of the attempts.
AttemptsCounted == \A i \in DOMAIN challenges :
    challenges[i].attempts + Cardinality(Missing(i))
        <= MaxAttempts - 1 + Cardinality(Handler)

LEMMA MissingCounted ==
    ASSUME NEW i
    PROVE  /\ IsFiniteSet(Missing(i)) /\ Cardinality(Missing(i)) \in Nat
           /\ Cardinality(Missing(i)) <= Cardinality(Handler)
           /\ IsFiniteSet(Handler) /\ Cardinality(Handler) \in Nat
<1>1. Missing(i) \subseteq Handler
  BY DEF Missing
<1>2. QED
  BY <1>1, HandlerAssumption, FS_Subset, FS_CardinalityType

\* The request that arrives waits for neither of the calls counted here.
Elsewhere(h) == \E r : /\ req' = [req EXCEPT ![h] = r]
                       /\ r.pc \notin {"verify.miss", "otp.commit"}

LEMMA Arriving ==
    ASSUME NEW h \in Handler, Arrive(h)
    PROVE  Elsewhere(h)
<1>1. ASSUME NEW op, NEW r, Begin(h, op, r), r.pc \notin {"verify.miss", "otp.commit"}
      PROVE  Elsewhere(h)
  BY <1>1 DEF Begin, Elsewhere
<1>2. ASSUME NEW phone \in Phone, ReadPersonal(h, phone)
      PROVE  Elsewhere(h)
  <2> DEFINE r == [Idle EXCEPT !.pc = "personal.write", !.phone = phone,
                               !.readPhone = app.phone,
                               !.readVerified = app.verified]
  <2>1. Begin(h, "personal", r) /\ r.pc = "personal.write"
    BY <1>2 DEF ReadPersonal, Idle
  <2> HIDE DEF r
  <2>2. QED
    BY <1>1, <2>1
<1>3. ASSUME NEW phone \in Phone, NEW label \in {"otp.lookup", "verify.lookup"},
             NEW op, Begin(h, op, [Idle EXCEPT !.pc = label, !.phone = phone])
      PROVE  Elsewhere(h)
  <2> DEFINE r == [Idle EXCEPT !.pc = label, !.phone = phone]
  <2>1. Begin(h, op, r) /\ r.pc = label
    BY <1>3 DEF Idle
  <2> HIDE DEF r
  <2>2. QED
    BY <1>1, <1>3, <2>1
<1>4. ASSUME NEW doc \in DocType, NEW label \in {"upload.write", "delete.lookup"},
             NEW op, Begin(h, op, [Idle EXCEPT !.pc = label, !.doc = doc])
      PROVE  Elsewhere(h)
  <2> DEFINE r == [Idle EXCEPT !.pc = label, !.doc = doc]
  <2>1. Begin(h, op, r) /\ r.pc = label
    BY <1>4 DEF Idle
  <2> HIDE DEF r
  <2>2. QED
    BY <1>1, <1>4, <2>1
<1>5. ASSUME NEW decision \in Decision, ReadReview(h, decision)
      PROVE  Elsewhere(h)
  <2> DEFINE r == [Idle EXCEPT !.pc = "review.write", !.decision = decision]
  <2>1. Begin(h, "review", r) /\ r.pc = "review.write"
    BY <1>5 DEF ReadReview, Idle
  <2> HIDE DEF r
  <2>2. QED
    BY <1>1, <2>1
<1>6. ASSUME NEW label \in {"vehicle.write", "submit.documents", "cancel.write"},
             NEW op, Begin(h, op, [Idle EXCEPT !.pc = label])
      PROVE  Elsewhere(h)
  <2> DEFINE r == [Idle EXCEPT !.pc = label]
  <2>1. Begin(h, op, r) /\ r.pc = label
    BY <1>6 DEF Idle
  <2> HIDE DEF r
  <2>2. QED
    BY <1>1, <1>6, <2>1
<1>7. ASSUME NEW phone \in Phone, ReadOtp(h, phone) \/ ReadVerify(h, phone)
      PROVE  Elsewhere(h)
  BY <1>3, <1>7 DEF ReadOtp, ReadVerify
<1>8. ASSUME NEW doc \in DocType, ReadUpload(h, doc) \/ ReadDelete(h, doc)
      PROVE  Elsewhere(h)
  BY <1>4, <1>8 DEF ReadUpload, ReadDelete
<1>9. CASE ReadVehicle(h) \/ ReadSubmit(h) \/ ReadCancel(h)
  BY <1>6, <1>9 DEF ReadVehicle, ReadSubmit, ReadCancel
<1>10. ASSUME NEW choice \in Choice, ReadFinancing(h, choice)
       PROVE  Elsewhere(h)
  <2>1. PICK quote : quote = QuoteOf(choice[1], choice[2])
    OBVIOUS
  <2> DEFINE r == [Idle EXCEPT !.pc = "financing.write", !.offer = quote]
  <2>2. r.pc = "financing.write"
    BY DEF Idle
  <2>3. Begin(h, "financing", r)
    BY <1>10, <2>1 DEF ReadFinancing
  <2> HIDE DEF r
  <2>4. QED
    BY <1>1, <2>2, <2>3
<1>11. QED
  BY <1>2, <1>5, <1>7, <1>8, <1>9, <1>10 DEF Arrive

\* A challenge of the table is one.
LEMMA ChallengeCounts ==
    ASSUME RowsTyped, NEW i \in DOMAIN challenges
    PROVE  challenges[i] \in Challenge /\ challenges[i].attempts \in Nat
<1>1. challenges \in Seq(Challenge)
  BY DEF RowsTyped
<1>2. challenges[i] \in Challenge
  BY <1>1
<1>3. QED
  BY <1>2 DEF Challenge

\* Fewer requests about to count a miss, and no attempt more.
LEMMA FewerMissing ==
    ASSUME RowsTyped, AttemptsCounted, RowsTyped', NEW i \in DOMAIN challenges,
           i \in DOMAIN challenges', challenges'[i].attempts = challenges[i].attempts,
           Missing(i)' \subseteq Missing(i)
    PROVE  challenges'[i].attempts + Cardinality(Missing(i)')
               <= MaxAttempts - 1 + Cardinality(Handler)
<1>1. Cardinality(Missing(i)') <= Cardinality(Missing(i)) /\ Cardinality(Missing(i)') \in Nat
  BY MissingCounted, FS_Subset, FS_CardinalityType
<1>2. challenges[i].attempts \in Nat
  BY ChallengeCounts
<1>3. QED
  BY <1>1, <1>2, MissingCounted, BoundAssumption DEF AttemptsCounted

\* A step adds one challenge at most, which nobody has tried yet.
LEMMA FreshChallenge ==
    ASSUME IInv, [Next]_vars, NEW i \in DOMAIN challenges', i \notin DOMAIN challenges
    PROVE  /\ challenges'[i].attempts = 0 /\ ~challenges'[i].consumed
           /\ i = Len(challenges) + 1
<1>1. /\ challenges \in Seq(Challenge) /\ challenges \in [DOMAIN challenges -> Challenge]
      /\ Len(challenges) \in Nat /\ DOMAIN challenges = 1 .. Len(challenges)
  BY DEF IInv, RowsTyped
<1>2. DOMAIN challenges' # DOMAIN challenges
  OBVIOUS
<1>3. ASSUME NEW h \in Handler, CommitChallenge(h)
      PROVE  /\ challenges'[i].attempts = 0 /\ ~challenges'[i].consumed
             /\ i = Len(challenges) + 1
  <2> DEFINE all == ConsumeAll(req[h].seen)
             new == [phone |-> req[h].phone, attempts |-> 0,
                     consumed |-> FALSE, age |-> "recent"]
  <2>1. all \in [DOMAIN challenges -> Challenge]
    BY <1>1, RewrittenChallenge DEF ConsumeAll
  <2>2. all \in Seq(Challenge) /\ Len(all) = Len(challenges)
    BY <1>1, <2>1, RewrittenSequence
  <2>3. challenges' = Append(all, new) /\ new.attempts = 0 /\ ~new.consumed
    BY <1>3 DEF CommitChallenge
  <2> HIDE DEF all, new
  <2>4. i = Len(challenges) + 1 /\ challenges'[i] = new
    BY <1>1, <2>2, <2>3
  <2>5. QED
    BY <2>3, <2>4
<1>4. ASSUME NEW h \in Handler, CountMiss(h) \/ ConfirmPhone(h)
      PROVE  DOMAIN challenges' = DOMAIN challenges
  BY <1>1, <1>4 DEF CountMiss, ConfirmPhone
<1>5. ASSUME NEW j \in DOMAIN challenges, PassTime(j)
      PROVE  DOMAIN challenges' = DOMAIN challenges
  BY <1>1, <1>5 DEF PassTime
<1>6. CASE UNCHANGED challenges
  BY <1>2, <1>6
<1>7. QED
  BY <1>2, <1>3, <1>4, <1>5, <1>6 DEF Next, vars, CreateApplication, Arrive, Continue, Fail,
     ReadPersonal, ReadOtp, ReadVerify, ReadUpload, ReadDelete, ReadReview, ReadVehicle,
     ReadFinancing, ReadSubmit, ReadCancel, WritePersonal, WriteVehicle, WriteFinancing,
     LookupRecent, SendCode, BeginChallenge, LookupChallenge, WriteUpload, LookupDocument,
     WriteDelete, LookupDocuments, WriteSubmit, WriteCancel, WriteReview

LEMMA InitAttempts == Init => AttemptsCounted
BY DEF Init, AttemptsCounted

\* What a step does to the challenges there were: their attempts stay, unless
\* it counts a miss.
LEMMA AttemptsStay ==
    ASSUME IInv, [Next]_vars, NEW i \in DOMAIN challenges,
           \A h \in Handler : ~(CountMiss(h) /\ req[h].challenge = i)
    PROVE  i \in DOMAIN challenges' /\ challenges'[i].attempts = challenges[i].attempts
<1>1. /\ challenges \in Seq(Challenge) /\ challenges \in [DOMAIN challenges -> Challenge]
      /\ Len(challenges) \in Nat /\ DOMAIN challenges = 1 .. Len(challenges)
  BY DEF IInv, RowsTyped
<1>2. CASE UNCHANGED challenges
  BY <1>2
<1>3. ASSUME NEW h \in Handler, CommitChallenge(h)
      PROVE  i \in DOMAIN challenges' /\ challenges'[i].attempts = challenges[i].attempts
  <2> DEFINE all == ConsumeAll(req[h].seen)
             new == [phone |-> req[h].phone, attempts |-> 0,
                     consumed |-> FALSE, age |-> "recent"]
  <2>1. all \in [DOMAIN challenges -> Challenge]
    BY <1>1, RewrittenChallenge DEF ConsumeAll
  <2>2. all[i].attempts = challenges[i].attempts
    BY <1>1 DEF ConsumeAll, Challenge
  <2>3. all \in Seq(Challenge) /\ Len(all) = Len(challenges) /\ DOMAIN all = DOMAIN challenges
    BY <1>1, <2>1, RewrittenSequence
  <2>4. challenges' = Append(all, new)
    BY <1>3 DEF CommitChallenge
  <2> HIDE DEF all, new
  <2>5. challenges'[i] = all[i] /\ i \in DOMAIN challenges'
    BY <1>1, <2>3, <2>4
  <2>6. QED
    BY <2>2, <2>5
<1>4. ASSUME NEW h \in Handler, CountMiss(h)
      PROVE  i \in DOMAIN challenges' /\ challenges'[i].attempts = challenges[i].attempts
  BY <1>1, <1>4 DEF CountMiss
<1>5. ASSUME NEW h \in Handler, ConfirmPhone(h)
      PROVE  i \in DOMAIN challenges' /\ challenges'[i].attempts = challenges[i].attempts
  BY <1>1, <1>5 DEF ConfirmPhone, Challenge
<1>6. ASSUME NEW j \in DOMAIN challenges, PassTime(j)
      PROVE  i \in DOMAIN challenges' /\ challenges'[i].attempts = challenges[i].attempts
  BY <1>1, <1>6 DEF PassTime, Challenge
<1>7. QED
  BY <1>2, <1>3, <1>4, <1>5, <1>6 DEF Next, vars, CreateApplication, Arrive, Continue, Fail,
     ReadPersonal, ReadOtp, ReadVerify, ReadUpload, ReadDelete, ReadReview, ReadVehicle,
     ReadFinancing, ReadSubmit, ReadCancel, WritePersonal, WriteVehicle, WriteFinancing,
     LookupRecent, SendCode, BeginChallenge, LookupChallenge, WriteUpload, LookupDocument,
     WriteDelete, LookupDocuments, WriteSubmit, WriteCancel, WriteReview

\* A request is about to count a miss of the same challenge as before, or it
\* has found the challenge with attempts left.
LEMMA MissingStay ==
    ASSUME IInv, [Next]_vars, NEW i \in DOMAIN challenges
    PROVE  \/ Missing(i)' \subseteq Missing(i)
           \/ UNCHANGED challenges /\ challenges[i].attempts < MaxAttempts
<1> DEFINE Same == Missing(i)' \subseteq Missing(i)
<1>1. ASSUME NEW h \in Handler, NEW r \in Request, req' = [req EXCEPT ![h] = r],
             r.pc # "verify.miss"
      PROVE  Same
  BY <1>1 DEF Missing, IInv, RowsTyped
<1>2. ASSUME NEW h \in Handler, Finish(h)
      PROVE  Same
  BY <1>1, <1>2, IdleIsRequest DEF Finish
<1>3. CASE UNCHANGED req
  BY <1>3 DEF Missing
<1>4. ASSUME NEW h \in Handler, NEW label \in Label, label # "verify.miss", Goto(h, label)
      PROVE  Same
  BY <1>4 DEF Missing, Goto, IInv, RowsTyped, Request
<1>5. ASSUME NEW h \in Handler, WriteDelete(h)
      PROVE  Same
  BY <1>5 DEF Missing, WriteDelete, Idle, IInv, RowsTyped
<1>6. ASSUME NEW h \in Handler, LookupChallenge(h)
      PROVE  Same \/ (UNCHANGED challenges /\ challenges[i].attempts < MaxAttempts)
  <2>1. CASE Finish(h)
    BY <1>2, <2>1
  <2>2. ASSUME NEW j \in DOMAIN challenges, NEW outcome \in {"verify.hit", "verify.miss"},
               Usable(j, req[h].phone),
               req' = [req EXCEPT ![h].pc = outcome, ![h].challenge = j]
        PROVE  Same \/ (UNCHANGED challenges /\ challenges[i].attempts < MaxAttempts)
    <3>1. CASE i = j
      BY <1>6, <2>2, <3>1 DEF LookupChallenge, Usable
    <3>2. CASE i # j
      BY <2>2, <3>2 DEF Missing, IInv, RowsTyped, Request
    <3>3. QED
      BY <3>1, <3>2
  <2>3. QED
    BY <1>6, <2>1, <2>2 DEF Leave, LookupChallenge
<1>7. ASSUME NEW h \in Handler, Arrive(h)
      PROVE  Same
  <2>1. PICK r : req' = [req EXCEPT ![h] = r] /\ r.pc # "verify.miss"
    BY <1>7, Arriving DEF Elsewhere
  <2>2. QED
    BY <2>1 DEF Missing, IInv, RowsTyped
<1>8. ASSUME NEW h \in Handler, BeginChallenge(h)
      PROVE  Same
  BY <1>8 DEF BeginChallenge, Missing, IInv, RowsTyped, Request
<1>9. ASSUME NEW h \in Handler, Continue(h) \/ Fail(h)
      PROVE  Same \/ (UNCHANGED challenges /\ challenges[i].attempts < MaxAttempts)
  BY <1>2, <1>4, <1>5, <1>6, <1>8, <1>9 DEF Leave, Continue, Fail, WritePersonal,
     WriteVehicle, WriteFinancing, LookupRecent, SendCode, CommitChallenge, CountMiss,
     ConfirmPhone, WriteUpload, LookupDocument, LookupDocuments, WriteSubmit,
     WriteCancel, WriteReview, Label
<1>10. QED
  BY <1>3, <1>7, <1>9 DEF Next, vars, CreateApplication, PassTime

LEMMA NextAttempts == IInv /\ AttemptsCounted /\ [Next]_vars => AttemptsCounted'
<1> SUFFICES ASSUME IInv, AttemptsCounted, [Next]_vars, NEW i \in DOMAIN challenges'
             PROVE  challenges'[i].attempts + Cardinality(Missing(i)')
                        <= MaxAttempts - 1 + Cardinality(Handler)
  BY DEF AttemptsCounted
<1>0. RowsTyped /\ RowsTyped'
  BY NextIInv DEF IInv
<1>1. /\ Missing(i)' \subseteq Handler
      /\ Cardinality(Missing(i)') \in Nat
      /\ Cardinality(Missing(i)') <= Cardinality(Handler)
      /\ IsFiniteSet(Handler) /\ Cardinality(Handler) \in Nat
  <2>1. Missing(i)' \subseteq Handler
    BY DEF Missing
  <2>2. QED
    BY <2>1, HandlerAssumption, FS_Subset, FS_CardinalityType
<1>2. CASE i \notin DOMAIN challenges
  <2>1. challenges'[i].attempts = 0
    BY <1>2, FreshChallenge
  <2>2. QED
    BY <1>1, <2>1, BoundAssumption
<1>3. ASSUME i \in DOMAIN challenges, NEW h \in Handler, CountMiss(h), req[h].challenge = i
      PROVE  challenges'[i].attempts + Cardinality(Missing(i)')
                 <= MaxAttempts - 1 + Cardinality(Handler)
  <2>1. challenges[i] \in Challenge /\ challenges[i].attempts \in Nat
    BY <1>0, <1>3, ChallengeCounts
  <2>2. challenges'[i].attempts = challenges[i].attempts + 1
    BY <1>0, <1>3, <2>1 DEF CountMiss, RowsTyped, Challenge
  <2>3. h \in Missing(i) /\ Missing(i)' \subseteq Missing(i) \ {h}
    BY <1>0, <1>3 DEF Leave, CountMiss, Missing, Finish, Idle, At, RowsTyped
  <2>4. Cardinality(Missing(i) \ {h}) = Cardinality(Missing(i)) - 1
        /\ IsFiniteSet(Missing(i) \ {h})
    BY <2>3, MissingCounted, FS_RemoveElement
  <2>5. Cardinality(Missing(i)') <= Cardinality(Missing(i)) - 1
    BY <2>3, <2>4, FS_Subset
  <2>6. QED
    BY <1>1, <1>3, <2>1, <2>2, <2>5, MissingCounted, BoundAssumption DEF AttemptsCounted
<1>4. CASE i \in DOMAIN challenges /\ \A h \in Handler : ~(CountMiss(h) /\ req[h].challenge = i)
  <2>1. challenges'[i].attempts = challenges[i].attempts /\ challenges[i].attempts \in Nat
    BY <1>0, <1>4, AttemptsStay, ChallengeCounts
  <2>2. CASE Missing(i)' \subseteq Missing(i)
    BY <1>0, <1>4, <2>1, <2>2, FewerMissing
  <2>3. CASE UNCHANGED challenges /\ challenges[i].attempts < MaxAttempts
    BY <1>1, <2>1, <2>3, BoundAssumption
  <2>4. QED
    BY <1>4, <2>2, <2>3, MissingStay
<1>5. QED
  BY <1>2, <1>3, <1>4

\* Requests that race pass the limit of the attempts by one each at most: for
\* any number of requests, codes and tolerated attempts.
THEOREM AttemptsAreBounded == Spec => []AttemptsBounded
<1>1. IInv /\ AttemptsCounted => AttemptsBounded
  <2> SUFFICES ASSUME IInv, AttemptsCounted, NEW i \in DOMAIN challenges
               PROVE  challenges[i].attempts <= MaxAttempts - 1 + Cardinality(Handler)
    BY DEF AttemptsBounded
  <2>1. challenges[i].attempts \in Nat
    BY ChallengeCounts DEF IInv
  <2>2. QED
    BY <2>1, MissingCounted, BoundAssumption DEF AttemptsCounted
<1>2. Spec => []AttemptsCounted
  BY InitAttempts, NextAttempts, InductiveInvariant, PTL DEF Spec
<1>3. QED
  BY <1>1, <1>2, InductiveInvariant, PTL

\* A finite set of numbers has a least one: the numbers below it are a subset of
\* those below any other.
LEMMA LeastElement ==
    ASSUME NEW S \in SUBSET Nat, IsFiniteSet(S), S # {}
    PROVE  \E i \in S : \A j \in S : i <= j
<1> DEFINE Below(i) == {j \in S : j < i}
           T == {Below(i) : i \in S}
<1>1. T \subseteq FiniteSubsetsOf(S) /\ T # {}
  <2>1. \A i \in S : Below(i) \in SUBSET S
    OBVIOUS
  <2>2. FiniteSubsetsOf(S) = SUBSET S
    BY FS_FiniteSubsetsOfFinite
  <2>3. \A X \in T : X \in SUBSET S
    BY <2>1
  <2>4. PICK i \in S : TRUE
    OBVIOUS
  <2>5. Below(i) \in T
    BY <2>4
  <2>6. QED
    BY <2>2, <2>3, <2>5
<1>2. PICK X \in T : \A Y \in T : <<Y, X>> \notin StrictSubsetOrdering(S)
  BY <1>1, FS_StrictSubsetOrderingWellFounded, WFMin
<1>3. PICK i \in S : X = Below(i)
  BY <1>2
<1>4. ASSUME NEW j \in S, j < i
      PROVE  FALSE
  <2>1. /\ Below(j) \subseteq X /\ Below(j) # X /\ Below(j) \in T
        /\ Below(j) \subseteq S /\ X \subseteq S
    <3>1. j \in X /\ j \notin Below(j)
      BY <1>3, <1>4
    <3>2. \A k \in S : k < j => k < i
      BY <1>4
    <3>3. QED
      BY <1>3, <3>1, <3>2
  <2>2. QED
    BY <1>2, <2>1 DEF StrictSubsetOrdering
<1>5. QED
  BY <1>4

\* The codes from i on that are open, and the transactions that have not seen
\* it: they began before it was committed.
OpenFrom(i) == {j \in OpenChallenges : i <= j}
Unseeing(i) == {h \in Handler : req[h].pc = "otp.commit" /\ i \notin req[h].seen}

\* Whoever committed an open code since i, or is about to, is a handler of its
\* own: each began before i was committed.
CodesCounted ==
    /\ \A h \in Handler : req[h].pc = "otp.commit" => req[h].seen \subseteq DOMAIN challenges
    /\ \A i \in OpenChallenges :
           Cardinality(OpenFrom(i)) + Cardinality(Unseeing(i)) <= Cardinality(Handler)

LEMMA InitCodes == Init => CodesCounted
BY DEF Init, CodesCounted, OpenChallenges, Idle

LEMMA CodesFinite ==
    ASSUME RowsTyped, NEW i
    PROVE  /\ IsFiniteSet(OpenChallenges) /\ OpenChallenges \in SUBSET Nat
           /\ IsFiniteSet(OpenFrom(i)) /\ Cardinality(OpenFrom(i)) \in Nat
           /\ IsFiniteSet(Unseeing(i)) /\ Cardinality(Unseeing(i)) \in Nat
           /\ IsFiniteSet(Handler) /\ Cardinality(Handler) \in Nat
<1>1. /\ DOMAIN challenges = 1 .. Len(challenges) /\ Len(challenges) \in Nat
      /\ OpenChallenges \subseteq DOMAIN challenges
  BY DEF RowsTyped, OpenChallenges
<1>2. IsFiniteSet(OpenChallenges) /\ OpenChallenges \in SUBSET Nat
  <2>1. IsFiniteSet(1 .. Len(challenges))
    BY <1>1, FS_Interval
  <2>2. OpenChallenges \subseteq 1 .. Len(challenges)
    BY <1>1
  <2>3. IsFiniteSet(OpenChallenges)
    BY <2>1, <2>2, FS_Subset
  <2>4. QED
    BY <1>1, <2>2, <2>3
<1>3. OpenFrom(i) \subseteq OpenChallenges /\ Unseeing(i) \subseteq Handler
  BY DEF OpenFrom, Unseeing
<1>4. QED
  BY <1>2, <1>3, HandlerAssumption, FS_Subset, FS_CardinalityType

\* Fewer open codes, and no more transactions that have not seen this one.
LEMMA FewerCodes ==
    ASSUME RowsTyped, RowsTyped', CodesCounted, NEW i \in OpenChallenges,
           OpenChallenges' \subseteq OpenChallenges, Unseeing(i)' \subseteq Unseeing(i)
    PROVE  Cardinality(OpenFrom(i)') + Cardinality(Unseeing(i)') <= Cardinality(Handler)
<1>1. OpenFrom(i)' \subseteq OpenFrom(i)
  BY DEF OpenFrom
<1>2. /\ Cardinality(OpenFrom(i)') <= Cardinality(OpenFrom(i))
      /\ Cardinality(Unseeing(i)') <= Cardinality(Unseeing(i))
      /\ Cardinality(OpenFrom(i)') \in Nat /\ Cardinality(Unseeing(i)') \in Nat
  BY <1>1, CodesFinite, FS_Subset, FS_CardinalityType
<1>3. QED
  BY <1>2, CodesFinite DEF CodesCounted

\* A transaction that commits: what it has seen is consumed, and its own code is
\* the only new one.
LEMMA CommitCodes ==
    ASSUME IInv, NEW h \in Handler, CommitChallenge(h)
    PROVE  LET n == Len(challenges) + 1
           IN  /\ OpenChallenges' = (OpenChallenges \ req[h].seen) \cup {n}
               /\ DOMAIN challenges' = DOMAIN challenges \cup {n}
               /\ n \in Nat /\ n \notin DOMAIN challenges
               /\ \A j \in DOMAIN challenges : j < n
<1>1. /\ challenges \in Seq(Challenge) /\ challenges \in [DOMAIN challenges -> Challenge]
      /\ Len(challenges) \in Nat /\ DOMAIN challenges = 1 .. Len(challenges)
  BY DEF IInv, RowsTyped
<1> DEFINE n == Len(challenges) + 1
           all == ConsumeAll(req[h].seen)
           new == [phone |-> req[h].phone, attempts |-> 0,
                   consumed |-> FALSE, age |-> "recent"]
<1>2. all \in [DOMAIN challenges -> Challenge]
  BY <1>1, RewrittenChallenge DEF ConsumeAll
<1>3. all \in Seq(Challenge) /\ Len(all) = Len(challenges)
  BY <1>1, <1>2, RewrittenSequence
<1>4. \A j \in DOMAIN challenges :
          all[j].consumed <=> j \in req[h].seen \/ challenges[j].consumed
  BY <1>1 DEF ConsumeAll, Challenge
<1>5. challenges' = Append(all, new) /\ ~new.consumed
  BY DEF CommitChallenge
<1> HIDE DEF all, new
<1>6. /\ DOMAIN challenges' = DOMAIN challenges \cup {n}
      /\ challenges'[n] = new
      /\ \A j \in DOMAIN challenges : challenges'[j] = all[j]
  BY <1>1, <1>3, <1>5
<1>7. OpenChallenges' = (OpenChallenges \ req[h].seen) \cup {n}
  BY <1>4, <1>5, <1>6 DEF OpenChallenges
<1>8. QED
  BY <1>1, <1>6, <1>7

\* The other steps open no code again.
LEMMA CodesStay ==
    ASSUME IInv, [Next]_vars, \A h \in Handler : ~CommitChallenge(h)
    PROVE  /\ OpenChallenges' \subseteq OpenChallenges
           /\ DOMAIN challenges' = DOMAIN challenges
<1>1. challenges \in [DOMAIN challenges -> Challenge]
  BY DEF IInv, RowsTyped
<1>2. CASE UNCHANGED challenges
  BY <1>2 DEF OpenChallenges
<1>3. ASSUME NEW h \in Handler, CountMiss(h) \/ ConfirmPhone(h)
      PROVE  /\ OpenChallenges' \subseteq OpenChallenges
             /\ DOMAIN challenges' = DOMAIN challenges
  BY <1>1, <1>3 DEF CountMiss, ConfirmPhone, OpenChallenges, Challenge
<1>4. ASSUME NEW j \in DOMAIN challenges, PassTime(j)
      PROVE  /\ OpenChallenges' \subseteq OpenChallenges
             /\ DOMAIN challenges' = DOMAIN challenges
  BY <1>1, <1>4 DEF PassTime, OpenChallenges, Challenge
<1>5. QED
  BY <1>2, <1>3, <1>4 DEF Next, vars, CreateApplication, Arrive, Continue, Fail,
     ReadPersonal, ReadOtp, ReadVerify, ReadUpload, ReadDelete, ReadReview, ReadVehicle,
     ReadFinancing, ReadSubmit, ReadCancel, WritePersonal, WriteVehicle, WriteFinancing,
     LookupRecent, SendCode, BeginChallenge, LookupChallenge, WriteUpload, LookupDocument,
     WriteDelete, LookupDocuments, WriteSubmit, WriteCancel, WriteReview

\* Who begins a transaction sees every code that is open.
LEMMA UnseeingStay ==
    ASSUME IInv, [Next]_vars, NEW i \in OpenChallenges
    PROVE  Unseeing(i)' \subseteq Unseeing(i)
<1> DEFINE Fewer == Unseeing(i)' \subseteq Unseeing(i)
<1>1. ASSUME NEW h \in Handler, NEW r, req' = [req EXCEPT ![h] = r],
             r.pc # "otp.commit"
      PROVE  Fewer
  BY <1>1 DEF Unseeing, IInv, RowsTyped
<1>2. ASSUME NEW h \in Handler, Finish(h)
      PROVE  Fewer
  BY <1>1, <1>2, IdleIsRequest DEF Finish
<1>3. CASE UNCHANGED req
  BY <1>3 DEF Unseeing
<1>4. ASSUME NEW h \in Handler, NEW label \in Label, label # "otp.commit", Goto(h, label)
      PROVE  Fewer
  BY <1>4 DEF Unseeing, Goto, IInv, RowsTyped, Request
<1>5. ASSUME NEW h \in Handler, WriteDelete(h)
      PROVE  Fewer
  BY <1>5 DEF Unseeing, WriteDelete, Idle, IInv, RowsTyped
<1>6. ASSUME NEW h \in Handler, BeginChallenge(h)
      PROVE  Fewer
  BY <1>6 DEF BeginChallenge, Unseeing, IInv, RowsTyped, Request
<1>7. ASSUME NEW h \in Handler, Arrive(h)
      PROVE  Fewer
  <2>1. PICK r : req' = [req EXCEPT ![h] = r] /\ r.pc # "otp.commit"
    BY <1>7, Arriving DEF Elsewhere
  <2>2. QED
    BY <1>1, <2>1
<1>8. ASSUME NEW h \in Handler, LookupChallenge(h)
      PROVE  Fewer
  <2>1. CASE Finish(h)
    BY <1>2, <2>1
  <2>2. ASSUME NEW j, NEW outcome \in {"verify.hit", "verify.miss"},
               req' = [req EXCEPT ![h].pc = outcome, ![h].challenge = j]
        PROVE  Fewer
    BY <2>2 DEF Unseeing, IInv, RowsTyped, Request
  <2>3. QED
    BY <1>8, <2>1, <2>2 DEF Leave, LookupChallenge
<1>9. ASSUME NEW h \in Handler, Continue(h) \/ Fail(h)
      PROVE  Fewer
  BY <1>2, <1>4, <1>5, <1>6, <1>8, <1>9 DEF Leave, Continue, Fail, WritePersonal,
     WriteVehicle, WriteFinancing, LookupRecent, SendCode, CommitChallenge, CountMiss,
     ConfirmPhone, WriteUpload, LookupDocument, LookupDocuments, WriteSubmit,
     WriteCancel, WriteReview, Label
<1>10. QED
  BY <1>3, <1>7, <1>9 DEF Next, vars, CreateApplication, PassTime

\* What a transaction has seen are codes.
LEMMA SeenStay ==
    ASSUME IInv, [Next]_vars, NEW h \in Handler, req'[h].pc = "otp.commit"
    PROVE  \/ req[h].pc = "otp.commit" /\ req'[h].seen = req[h].seen
           \/ req'[h].seen = OpenChallenges
<1> DEFINE Seen == \/ req[h].pc = "otp.commit" /\ req'[h].seen = req[h].seen
                   \/ req'[h].seen = OpenChallenges
<1>1. ASSUME NEW g \in Handler, NEW r, req' = [req EXCEPT ![g] = r],
             r.pc # "otp.commit"
      PROVE  Seen
  BY <1>1 DEF IInv, RowsTyped
<1>2. ASSUME NEW g \in Handler, Finish(g)
      PROVE  Seen
  BY <1>1, <1>2, IdleIsRequest DEF Finish
<1>3. CASE UNCHANGED req
  BY <1>3
<1>4. ASSUME NEW g \in Handler, NEW label \in Label, label # "otp.commit", Goto(g, label)
      PROVE  Seen
  BY <1>4 DEF Goto, IInv, RowsTyped, Request
<1>5. ASSUME NEW g \in Handler, WriteDelete(g)
      PROVE  Seen
  BY <1>5 DEF WriteDelete, Idle, IInv, RowsTyped
<1>6. ASSUME NEW g \in Handler, BeginChallenge(g)
      PROVE  Seen
  BY <1>6 DEF BeginChallenge, IInv, RowsTyped, Request
<1>7. ASSUME NEW g \in Handler, Arrive(g)
      PROVE  Seen
  <2>1. PICK r : req' = [req EXCEPT ![g] = r] /\ r.pc # "otp.commit"
    BY <1>7, Arriving DEF Elsewhere
  <2>2. QED
    BY <1>1, <2>1
<1>8. ASSUME NEW g \in Handler, LookupChallenge(g)
      PROVE  Seen
  <2>1. CASE Finish(g)
    BY <1>2, <2>1
  <2>2. ASSUME NEW j, NEW outcome \in {"verify.hit", "verify.miss"},
               req' = [req EXCEPT ![g].pc = outcome, ![g].challenge = j]
        PROVE  Seen
    BY <2>2 DEF IInv, RowsTyped, Request
  <2>3. QED
    BY <1>8, <2>1, <2>2 DEF Leave, LookupChallenge
<1>9. ASSUME NEW g \in Handler, Continue(g) \/ Fail(g)
      PROVE  Seen
  BY <1>2, <1>4, <1>5, <1>6, <1>8, <1>9 DEF Leave, Continue, Fail, WritePersonal,
     WriteVehicle, WriteFinancing, LookupRecent, SendCode, CommitChallenge, CountMiss,
     ConfirmPhone, WriteUpload, LookupDocument, LookupDocuments, WriteSubmit,
     WriteCancel, WriteReview, Label
<1>10. QED
  BY <1>3, <1>7, <1>9 DEF Next, vars, CreateApplication, PassTime

LEMMA NextCodes == IInv /\ CodesCounted /\ [Next]_vars => CodesCounted'
<1> SUFFICES ASSUME IInv, CodesCounted, [Next]_vars PROVE CodesCounted'
  OBVIOUS
<1>0. RowsTyped /\ RowsTyped'
  BY NextIInv DEF IInv
<1>1. DOMAIN challenges \subseteq DOMAIN challenges'
  <2>1. ASSUME NEW h \in Handler, CommitChallenge(h)
        PROVE  DOMAIN challenges \subseteq DOMAIN challenges'
    BY <2>1, CommitCodes
  <2>2. QED
    BY <2>1, CodesStay
<1>2. \A h \in Handler : req'[h].pc = "otp.commit" => req'[h].seen \subseteq DOMAIN challenges'
  BY <1>1, SeenStay DEF CodesCounted, OpenChallenges
<1>3. ASSUME NEW i \in OpenChallenges', NEW h \in Handler, CommitChallenge(h)
      PROVE  Cardinality(OpenFrom(i)') + Cardinality(Unseeing(i)') <= Cardinality(Handler)
  <2> DEFINE n == Len(challenges) + 1
  <2>1. /\ OpenChallenges' = (OpenChallenges \ req[h].seen) \cup {n}
        /\ n \in Nat /\ n \notin DOMAIN challenges
        /\ \A j \in DOMAIN challenges : j < n
    BY <1>3, CommitCodes
  <2> HIDE DEF n
  <2>2. /\ OpenChallenges \subseteq DOMAIN challenges /\ DOMAIN challenges \subseteq Nat
    BY <1>0 DEF OpenChallenges, RowsTyped
  <2>3. /\ req[h].pc = "otp.commit" /\ req'[h].pc = "idle"
        /\ \A g \in Handler \ {h} : req'[g] = req[g]
    BY <1>0, <1>3 DEF CommitChallenge, At, Finish, Idle, RowsTyped
  <2>4. h \notin Unseeing(i)' /\ Unseeing(i)' \subseteq Handler
    BY <2>3 DEF Unseeing
  <2>5. CASE i = n
    <3>1. OpenFrom(i)' = {n}
      BY <2>1, <2>2, <2>5 DEF OpenFrom
    <3>2. Unseeing(i)' \subseteq Handler \ {h}
      BY <2>4
    <3>3. /\ Cardinality(OpenFrom(i)') = 1
          /\ IsFiniteSet(Handler \ {h})
          /\ Cardinality(Handler \ {h}) = Cardinality(Handler) - 1
      BY <3>1, HandlerAssumption, FS_Singleton, FS_RemoveElement
    <3>4. /\ Cardinality(Unseeing(i)') <= Cardinality(Handler) - 1
          /\ Cardinality(Unseeing(i)') \in Nat
      BY <3>2, <3>3, FS_Subset, FS_CardinalityType
    <3>5. QED
      BY <1>0, <3>3, <3>4, CodesFinite
  <2>6. CASE i # n
    <3>1. i \in OpenChallenges /\ i \notin req[h].seen
      BY <2>1, <2>6
    <3>2. h \in Unseeing(i) /\ Unseeing(i)' \subseteq Unseeing(i) \ {h}
      BY <2>3, <2>4, <3>1 DEF Unseeing
    <3>3. OpenFrom(i)' \subseteq OpenFrom(i) \cup {n} /\ n \notin OpenFrom(i)
      BY <2>1, <2>2 DEF OpenFrom
    <3>4. /\ IsFiniteSet(OpenFrom(i) \cup {n})
          /\ Cardinality(OpenFrom(i) \cup {n}) = Cardinality(OpenFrom(i)) + 1
          /\ IsFiniteSet(Unseeing(i) \ {h})
          /\ Cardinality(Unseeing(i) \ {h}) = Cardinality(Unseeing(i)) - 1
      BY <1>0, <3>2, <3>3, CodesFinite, FS_AddElement, FS_RemoveElement
    <3>5. /\ Cardinality(OpenFrom(i)') <= Cardinality(OpenFrom(i)) + 1
          /\ Cardinality(Unseeing(i)') <= Cardinality(Unseeing(i)) - 1
          /\ Cardinality(OpenFrom(i)') \in Nat /\ Cardinality(Unseeing(i)') \in Nat
      BY <3>2, <3>3, <3>4, FS_Subset, FS_CardinalityType
    <3>6. QED
      BY <1>0, <3>1, <3>5, CodesFinite DEF CodesCounted
  <2>7. QED
    BY <2>5, <2>6
<1>4. ASSUME NEW i \in OpenChallenges', \A h \in Handler : ~CommitChallenge(h)
      PROVE  Cardinality(OpenFrom(i)') + Cardinality(Unseeing(i)') <= Cardinality(Handler)
  BY <1>0, <1>4, CodesStay, UnseeingStay, FewerCodes
<1>5. QED
  BY <1>2, <1>3, <1>4 DEF CodesCounted

\* No more codes are open than requests can be under way, whatever interleaves:
\* one at most when requests come one at a time.
THEOREM OpenCodesAreBounded == Spec => []OpenChallengesBounded
<1>1. IInv /\ CodesCounted => OpenChallengesBounded
  <2> SUFFICES ASSUME IInv, CodesCounted PROVE OpenChallengesBounded
    OBVIOUS
  <2>0. RowsTyped
    BY DEF IInv
  <2>1. CASE OpenChallenges = {}
    BY <2>0, <2>1, CodesFinite, FS_EmptySet DEF OpenChallengesBounded
  <2>2. CASE OpenChallenges # {}
    <3>1. PICK i \in OpenChallenges : \A j \in OpenChallenges : i <= j
      BY <2>0, <2>2, CodesFinite, LeastElement
    <3>2. OpenFrom(i) = OpenChallenges
      BY <3>1 DEF OpenFrom
    <3>3. QED
      BY <2>0, <3>2, CodesFinite DEF CodesCounted, OpenChallengesBounded
  <2>3. QED
    BY <2>1, <2>2
<1>2. Spec => []CodesCounted
  BY InitCodes, NextCodes, InductiveInvariant, PTL DEF Spec
<1>3. QED
  BY <1>1, <1>2, InductiveInvariant, PTL

-----------------------------------------------------------------------------
(* What overlapping requests can undo, and what they cannot                *)

OneCodeOpen == \A i, j \in OpenChallenges : i = j

\* What a request has been let in for still holds when it writes, unless it has
\* been overtaken meanwhile by a request that can undo it.
StillHolds(r, overtaken) ==
    /\ "submission" \notin overtaken =>
           /\ r.pc = "submit.documents" => RowComplete
           /\ r.pc = "submit.write" => Complete
           /\ r.pc \in EditLabels => ~app.submitted
    /\ "code" \notin overtaken =>
           /\ r.pc = "otp.commit" => OpenChallenges \subseteq r.seen
           /\ "code" \notin crossed =>
                  /\ r.pc = "personal.write" /\ r.readVerified => OpenChallenges = {}
                  /\ r.pc = "verify.hit" => OpenChallenges \subseteq {r.challenge}

Settled == /\ app.status \in {"NONE", "DRAFT"} => ~app.submitted
           /\ "submission" \notin crossed => (app.submitted => Complete)
           /\ "code" \notin crossed => /\ OpenChallenges # {} => ~app.verified
                                       /\ OneCodeOpen

OverlapInv == Settled /\ \A h \in Handler : StillHolds(req[h], late[h])

LEMMA IdleHolds == ASSUME NEW overtaken PROVE StillHolds(Idle, overtaken)
BY DEF StillHolds, Idle, EditLabels, SubmitLabels

LEMMA InitOverlap == Init => OverlapInv
<1> SUFFICES ASSUME Init PROVE OverlapInv
  OBVIOUS
<1>1. OpenChallenges = {} /\ ~app.submitted
  BY DEF Init, OpenChallenges
<1>2. \A h \in Handler : req[h] = Idle
  BY DEF Init
<1>3. \A h \in Handler : StillHolds(req[h], late[h])
  BY <1>2, IdleHolds
<1>4. QED
  BY <1>1, <1>3 DEF OverlapInv, Settled, OneCodeOpen

\* The request that arrives finds its operation permitted, and has read the mark
\* of the number if it is to write it back.
LEMMA Arrived ==
    ASSUME NEW h \in Handler, Arrive(h)
    PROVE  /\ req[h] = Idle /\ UNCHANGED <<app, challenges, proven, late, crossed>>
           /\ \E r : /\ req' = [req EXCEPT ![h] = r]
                     /\ \/ /\ r.pc \in EditLabels \ {"otp.commit", "verify.hit"}
                           /\ r.pc = "personal.write" => r.readVerified = app.verified
                           /\ Editable
                        \/ r.pc = "submit.documents" /\ Editable /\ RowComplete
                        \/ r.pc = "cancel.write" /\ Cancellable
                        \/ r.pc = "review.write" /\ r.decision \in Decision /\ Reviewable
<1> DEFINE Taken(r) ==
        \/ /\ r.pc \in EditLabels \ {"otp.commit", "verify.hit"}
           /\ r.pc = "personal.write" => r.readVerified = app.verified
           /\ Editable
        \/ r.pc = "submit.documents" /\ Editable /\ RowComplete
        \/ r.pc = "cancel.write" /\ Cancellable
        \/ r.pc = "review.write" /\ r.decision \in Decision /\ Reviewable
<1> DEFINE Goal == /\ req[h] = Idle /\ UNCHANGED <<app, challenges, proven, late, crossed>>
                   /\ \E r : req' = [req EXCEPT ![h] = r] /\ Taken(r)
<1> SUFFICES Goal
  OBVIOUS
<1>1. ASSUME NEW op, NEW r, Begin(h, op, r), UNCHANGED <<app, challenges, proven>>, Taken(r)
      PROVE  Goal
  BY <1>1 DEF Begin
<1> HIDE DEF Goal
<1>2. ASSUME NEW phone \in Phone, ReadPersonal(h, phone)
      PROVE  Goal
  <2> DEFINE r == [Idle EXCEPT !.pc = "personal.write", !.phone = phone,
                               !.readPhone = app.phone,
                               !.readVerified = app.verified]
  <2>1. r.pc = "personal.write" /\ r.readVerified = app.verified
    BY DEF Idle
  <2>2. Begin(h, "personal", r) /\ UNCHANGED <<app, challenges, proven>> /\ Editable
    BY <1>2 DEF ReadPersonal
  <2> HIDE DEF r
  <2>3. Taken(r)
    BY <2>1, <2>2 DEF EditLabels, SubmitLabels, Label
  <2>4. QED
    BY <1>1, <2>2, <2>3
<1>3. ASSUME NEW phone, NEW label \in {"otp.lookup", "verify.lookup"}, Editable,
             NEW op, Begin(h, op, [Idle EXCEPT !.pc = label, !.phone = phone]),
             UNCHANGED <<app, challenges, proven>>
      PROVE  Goal
  <2> DEFINE r == [Idle EXCEPT !.pc = label, !.phone = phone]
  <2>1. r.pc = label /\ Begin(h, op, r)
    BY <1>3 DEF Idle
  <2> HIDE DEF r
  <2>2. Taken(r)
    BY <1>3, <2>1 DEF EditLabels, SubmitLabels, Label
  <2>3. QED
    BY <1>1, <1>3, <2>1, <2>2
<1>4. ASSUME NEW doc, NEW label \in {"upload.write", "delete.lookup"}, Editable,
             NEW op, Begin(h, op, [Idle EXCEPT !.pc = label, !.doc = doc]),
             UNCHANGED <<app, challenges, proven>>
      PROVE  Goal
  <2> DEFINE r == [Idle EXCEPT !.pc = label, !.doc = doc]
  <2>1. r.pc = label /\ Begin(h, op, r)
    BY <1>4 DEF Idle
  <2> HIDE DEF r
  <2>2. Taken(r)
    BY <1>4, <2>1 DEF EditLabels, SubmitLabels, Label
  <2>3. QED
    BY <1>1, <1>4, <2>1, <2>2
<1>5. ASSUME NEW decision \in Decision, ReadReview(h, decision)
      PROVE  Goal
  <2> DEFINE r == [Idle EXCEPT !.pc = "review.write", !.decision = decision]
  <2>1. r.pc = "review.write" /\ r.decision = decision
    BY DEF Idle
  <2>2. Begin(h, "review", r) /\ UNCHANGED <<app, challenges, proven>> /\ Reviewable
    BY <1>5 DEF ReadReview
  <2> HIDE DEF r
  <2>3. Taken(r)
    BY <2>1, <2>2
  <2>4. QED
    BY <1>1, <2>2, <2>3
<1>6. ASSUME NEW label \in {"vehicle.write", "submit.documents", "cancel.write"},
             label = "vehicle.write" => Editable,
             label = "submit.documents" => Editable /\ RowComplete,
             label = "cancel.write" => Cancellable,
             NEW op, Begin(h, op, [Idle EXCEPT !.pc = label]),
             UNCHANGED <<app, challenges, proven>>
      PROVE  Goal
  <2> DEFINE r == [Idle EXCEPT !.pc = label]
  <2>1. r.pc = label /\ Begin(h, op, r)
    BY <1>6 DEF Idle
  <2> HIDE DEF r
  <2>2. Taken(r)
    BY <1>6, <2>1 DEF EditLabels, SubmitLabels, Label
  <2>3. QED
    BY <1>1, <1>6, <2>1, <2>2
<1>7. ASSUME NEW choice \in Choice, ReadFinancing(h, choice)
      PROVE  Goal
  <2>1. PICK quote : quote = QuoteOf(choice[1], choice[2])
    OBVIOUS
  <2> DEFINE r == [Idle EXCEPT !.pc = "financing.write", !.offer = quote]
  <2>2. r.pc = "financing.write"
    BY DEF Idle
  <2>3. Begin(h, "financing", r) /\ UNCHANGED <<app, challenges, proven>> /\ Editable
    BY <1>7, <2>1 DEF ReadFinancing
  <2> HIDE DEF r
  <2>4. Taken(r)
    BY <2>2, <2>3 DEF EditLabels, SubmitLabels, Label
  <2>5. QED
    BY <1>1, <2>3, <2>4
<1>8. ASSUME NEW phone \in Phone, ReadOtp(h, phone) \/ ReadVerify(h, phone)
      PROVE  Goal
  BY <1>3, <1>8 DEF ReadOtp, ReadVerify
<1>9. ASSUME NEW doc \in DocType, ReadUpload(h, doc) \/ ReadDelete(h, doc)
      PROVE  Goal
  BY <1>4, <1>9 DEF ReadUpload, ReadDelete
<1>10. CASE ReadVehicle(h) \/ ReadSubmit(h) \/ ReadCancel(h)
  BY <1>6, <1>10 DEF ReadVehicle, ReadSubmit, ReadCancel
<1>11. QED
  BY <1>2, <1>5, <1>7, <1>8, <1>9, <1>10, Zenon DEF Arrive

\* An edit that has looked something up ends, or goes on with what it has read.
LEMMA MovedOn ==
    ASSUME RowsTyped, NEW h \in Handler,
           \/ LookupRecent(h) \/ SendCode(h) \/ BeginChallenge(h)
           \/ LookupChallenge(h) \/ LookupDocument(h)
    PROVE  /\ UNCHANGED <<app, challenges>> /\ req[h].pc \in EditLabels
           /\ \/ Leave(h)
              \/ /\ UNCHANGED <<late, crossed>>
                 /\ \E r : /\ req' = [req EXCEPT ![h] = r]
                           /\ r.pc \in EditLabels \ {"personal.write"}
                           /\ r.pc = "otp.commit" => r.seen = OpenChallenges
                           /\ r.pc = "verify.hit" => r.challenge \in OpenChallenges
<1> USE DEF EditLabels, SubmitLabels, Label
<1>0. req \in [Handler -> Request]
  BY DEF RowsTyped
<1>1. UNCHANGED <<app, challenges>> /\ req[h].pc \in EditLabels
  BY DEF LookupRecent, SendCode, BeginChallenge, LookupChallenge, LookupDocument, At
<1> DEFINE Read(r) == /\ r.pc \in EditLabels \ {"personal.write"}
                      /\ r.pc = "otp.commit" => r.seen = OpenChallenges
                      /\ r.pc = "verify.hit" => r.challenge \in OpenChallenges
           On == /\ UNCHANGED <<late, crossed>>
                 /\ \E r : req' = [req EXCEPT ![h] = r] /\ Read(r)
<1>2. ASSUME NEW label \in EditLabels \ {"personal.write", "otp.commit", "verify.hit"},
             Goto(h, label)
      PROVE  On
  <2>1. PICK r : r = [req[h] EXCEPT !.pc = label]
    OBVIOUS
  <2>2. r.pc = label /\ req' = [req EXCEPT ![h] = r]
    BY <1>0, <1>2, <2>1 DEF Goto, Request
  <2>3. QED
    BY <1>2, <2>2 DEF Goto
<1>3. CASE BeginChallenge(h)
  <2>1. PICK r : r = [req[h] EXCEPT !.pc = "otp.commit", !.seen = OpenChallenges]
    OBVIOUS
  <2>2. r.pc = "otp.commit" /\ r.seen = OpenChallenges /\ req' = [req EXCEPT ![h] = r]
    BY <1>0, <1>3, <2>1 DEF BeginChallenge, Request
  <2>3. QED
    BY <1>1, <1>3, <2>2 DEF BeginChallenge
<1>4. CASE LookupChallenge(h) /\ ~Leave(h)
  <2>1. PICK i \in DOMAIN challenges, outcome \in {"verify.hit", "verify.miss"} :
            /\ Usable(i, req[h].phone)
            /\ req' = [req EXCEPT ![h].pc = outcome, ![h].challenge = i]
            /\ UNCHANGED <<late, crossed>>
    BY <1>4 DEF LookupChallenge
  <2>2. PICK r : r = [req[h] EXCEPT !.pc = outcome, !.challenge = i]
    OBVIOUS
  <2>3. r.pc = outcome /\ r.challenge = i /\ req' = [req EXCEPT ![h] = r]
    BY <1>0, <2>1, <2>2 DEF Request
  <2>4. i \in OpenChallenges
    BY <2>1 DEF Usable, IsLatest, OpenFor
  <2>5. QED
    BY <1>1, <2>1, <2>3, <2>4
<1>5. CASE (LookupRecent(h) \/ SendCode(h) \/ LookupDocument(h)) /\ ~Leave(h)
  <2>1. PICK label \in {"otp.send", "otp.begin", "delete.write"} : Goto(h, label)
    BY <1>5 DEF LookupRecent, SendCode, LookupDocument
  <2>2. QED
    BY <1>1, <1>2, <2>1
<1>6. QED
  BY <1>1, <1>3, <1>4, <1>5

\* A step that leaves the application and its open codes alone, and of one handler
\* a request for which everything holds.
LEMMA OverlapMove ==
    ASSUME RowsTyped, OverlapsTyped, OverlapInv,
           UNCHANGED <<app, crossed>>, OpenChallenges' = OpenChallenges,
           NEW h \in Handler, NEW r, req' = [req EXCEPT ![h] = r],
           NEW overtaken, late' = [late EXCEPT ![h] = overtaken],
           StillHolds(r, overtaken)
    PROVE  OverlapInv'
<1>1. ASSUME NEW g \in Handler
      PROVE  StillHolds(req[g], late[g])'
  <2>1. StillHolds(req'[g], late'[g])
    <3>1. CASE g = h
      BY <3>1 DEF RowsTyped, OverlapsTyped
    <3>2. CASE g # h
      BY <3>2 DEF RowsTyped, OverlapsTyped, OverlapInv
    <3>3. QED
      BY <3>1, <3>2
  <2>2. RowComplete' = RowComplete /\ Complete' = Complete
    BY DEF RowComplete, DocumentsComplete, Complete
  <2>3. QED
    BY <2>1, <2>2 DEF StillHolds
<1>2. Settled'
  BY DEF OverlapInv, Settled, OneCodeOpen, RowComplete, DocumentsComplete, Complete
<1>3. QED
  BY <1>1, <1>2 DEF OverlapInv

LEMMA OverlapArrive ==
    ASSUME RowsTyped, OverlapsTyped, OverlapInv, NEW h \in Handler, Arrive(h)
    PROVE  OverlapInv'
<1>1. /\ UNCHANGED <<app, challenges, late, crossed>>
      /\ OpenChallenges' = OpenChallenges
      /\ late' = [late EXCEPT ![h] = late[h]]
  BY Arrived DEF OpenChallenges, OverlapsTyped
<1>2. PICK r : /\ req' = [req EXCEPT ![h] = r]
               /\ \/ /\ r.pc \in EditLabels \ {"otp.commit", "verify.hit"}
                     /\ r.pc = "personal.write" => r.readVerified = app.verified
                     /\ Editable
                  \/ r.pc = "submit.documents" /\ Editable /\ RowComplete
                  \/ r.pc \in {"cancel.write", "review.write"}
  BY Arrived
<1>3. StillHolds(r, late[h])
  BY <1>2 DEF StillHolds, OverlapInv, Settled, Editable, EditLabels, SubmitLabels
<1>4. QED
  BY <1>1, <1>2, <1>3, OverlapMove

LEMMA OverlapLeave ==
    ASSUME RowsTyped, OverlapsTyped, OverlapInv, NEW h \in Handler, Leave(h),
           UNCHANGED app, OpenChallenges' = OpenChallenges
    PROVE  OverlapInv'
BY IdleHolds, OverlapMove DEF Leave, Finish

LEMMA OverlapMoveOn ==
    ASSUME RowsTyped, OverlapsTyped, OverlapInv, NEW h \in Handler,
           \/ LookupRecent(h) \/ SendCode(h) \/ BeginChallenge(h)
           \/ LookupChallenge(h) \/ LookupDocument(h)
    PROVE  OverlapInv'
<1>1. /\ UNCHANGED <<app, challenges>> /\ req[h].pc \in EditLabels
      /\ OpenChallenges' = OpenChallenges
      /\ late = [late EXCEPT ![h] = late[h]]
  BY MovedOn DEF OpenChallenges, OverlapsTyped
<1>2. CASE Leave(h)
  BY <1>1, <1>2, OverlapLeave
<1>3. CASE ~Leave(h)
  <2>1. PICK r : /\ req' = [req EXCEPT ![h] = r] /\ UNCHANGED <<late, crossed>>
                 /\ r.pc \in EditLabels \ {"personal.write"}
                 /\ r.pc = "otp.commit" => r.seen = OpenChallenges
                 /\ r.pc = "verify.hit" => r.challenge \in OpenChallenges
    BY <1>3, MovedOn
  <2>2. StillHolds(req[h], late[h]) /\ Settled
    BY DEF OverlapInv
  <2>3. StillHolds(r, late[h])
    BY <1>1, <2>1, <2>2 DEF StillHolds, Settled, OneCodeOpen, EditLabels, SubmitLabels
  <2>4. QED
    BY <1>1, <2>1, <2>3, OverlapMove
<1>4. QED
  BY <1>2, <1>3

\* The submission that looks at the documents ends, or goes on to its write.
LEMMA DocumentsLookedAt ==
    ASSUME req \in [Handler -> Request], NEW h \in Handler, LookupDocuments(h)
    PROVE  /\ UNCHANGED <<app, challenges>> /\ req[h].pc = "submit.documents"
           /\ \E r : /\ req' = [req EXCEPT ![h] = r]
                     /\ \/ r = Idle /\ r.pc = "idle" /\ Leave(h)
                        \/ /\ r.pc = "submit.write" /\ DocumentsComplete
                           /\ UNCHANGED <<late, crossed>>
<1>1. UNCHANGED <<app, challenges>> /\ req[h].pc = "submit.documents"
  BY DEF LookupDocuments, At
<1>2. CASE DocumentsComplete
  <2>1. PICK r : r = [req[h] EXCEPT !.pc = "submit.write"]
    OBVIOUS
  <2>2. r.pc = "submit.write" /\ req' = [req EXCEPT ![h] = r] /\ UNCHANGED <<late, crossed>>
    BY <1>2, <2>1 DEF LookupDocuments, Goto, Request
  <2>3. QED
    BY <1>1, <1>2, <2>2
<1>3. CASE ~DocumentsComplete
  <2>1. Leave(h) /\ req' = [req EXCEPT ![h] = Idle]
    BY <1>3 DEF LookupDocuments, Leave, Finish
  <2>2. PICK r : r = Idle
    OBVIOUS
  <2>3. r.pc = "idle" /\ req' = [req EXCEPT ![h] = r]
    BY <2>1, <2>2 DEF Idle
  <2>4. QED
    BY <1>1, <2>1, <2>2, <2>3
<1>4. QED
  BY <1>2, <1>3

\* A submission that has not been overtaken since it read the row finds the row as
\* it was beside the documents.
LEMMA OverlapCheck ==
    ASSUME RowsTyped, OverlapsTyped, OverlapInv, NEW h \in Handler, LookupDocuments(h)
    PROVE  OverlapInv'
<1>1. /\ UNCHANGED <<app, challenges>> /\ req[h].pc = "submit.documents"
      /\ OpenChallenges' = OpenChallenges
  BY DocumentsLookedAt DEF RowsTyped, OpenChallenges
<1>2. CASE Leave(h)
  BY <1>1, <1>2, OverlapLeave
<1>3. CASE ~Leave(h)
  <2>1. PICK r : /\ req' = [req EXCEPT ![h] = r] /\ r.pc = "submit.write"
                 /\ DocumentsComplete /\ UNCHANGED <<late, crossed>>
    BY <1>3, DocumentsLookedAt DEF RowsTyped
  <2>2. "submission" \notin late[h] => RowComplete
    BY <1>1 DEF OverlapInv, StillHolds
  <2>3. StillHolds(r, late[h])
    BY <2>1, <2>2 DEF StillHolds, Complete, EditLabels, SubmitLabels
  <2>4. late' = [late EXCEPT ![h] = late[h]]
    BY <2>1 DEF OverlapsTyped
  <2>5. QED
    BY <1>1, <2>1, <2>3, <2>4, OverlapMove
<1>4. QED
  BY <1>2, <1>3

\* What a write can undo, it marks as undone in the requests that wait: a request
\* that it does not overtake can rely on what it has read.
LEMMA WriteOvertakes ==
    ASSUME OverlapsTyped, OverlapInv, NEW h \in Handler, Overtake(h),
           \A g \in Handler : req'[g] = Idle \/ req'[g] = req[g],
           \/ req[h].pc \in EditLabels
           \/ (RowComplete => RowComplete') /\ (Complete => Complete'),
           req[h].pc = "submit.write" \/ (app'.submitted => app.submitted),
           req[h].pc = "otp.commit" \/ OpenChallenges' \subseteq OpenChallenges
    PROVE  \A g \in Handler : StillHolds(req[g], late[g])'
<1> SUFFICES ASSUME NEW g \in Handler PROVE StillHolds(req[g], late[g])'
  OBVIOUS
<1>1. StillHolds(req[g], late[g]) /\ late[g] \subseteq Overlap
  BY DEF OverlapInv, OverlapsTyped
<1>2. CASE req'[g] = Idle
  BY <1>2 DEF StillHolds, Idle, EditLabels, SubmitLabels
<1>3. CASE req'[g] # Idle
  <2>1. req'[g] = req[g] /\ late'[g] = late[g] \cup OvertakenBy(req[h].pc, req[g].pc)
    BY <1>3 DEF Overtake
  <2>2. PICK r : r = req[g] /\ req'[g] = r
    BY <2>1
  <2>3. "submission" \notin late'[g] =>
            /\ "submission" \notin late[g]
            /\ ~(req[h].pc \in EditLabels /\ r.pc \in SubmitLabels)
            /\ ~(req[h].pc = "submit.write" /\ r.pc \in EditLabels)
    BY <2>1, <2>2 DEF OvertakenBy, Overlap
  <2>4. "code" \notin late'[g] =>
            /\ "code" \notin late[g]
            /\ ~(req[h].pc = "otp.commit"
                     /\ r.pc \in {"personal.write", "otp.commit", "verify.hit"})
    BY <2>1, <2>2 DEF OvertakenBy, Overlap
  <2>5. "code" \notin crossed' => "code" \notin crossed \/ req[h].pc = "otp.commit"
    BY DEF Overtake, At
  <2>6. StillHolds(r, late[g])
    BY <1>1, <2>2
  <2>7. "submission" \notin late'[g] =>
            /\ r.pc = "submit.documents" => RowComplete'
            /\ r.pc = "submit.write" => Complete'
            /\ r.pc \in EditLabels => ~app'.submitted
    BY <2>3, <2>6 DEF StillHolds, SubmitLabels
  <2>8. "code" \notin late'[g] =>
            /\ r.pc = "otp.commit" => OpenChallenges' \subseteq r.seen
            /\ "code" \notin crossed' =>
                  /\ r.pc = "personal.write" /\ r.readVerified => OpenChallenges' = {}
                  /\ r.pc = "verify.hit" => OpenChallenges' \subseteq {r.challenge}
    BY <2>4, <2>5, <2>6 DEF StillHolds
  <2>9. QED
    BY <2>2, <2>7, <2>8 DEF StillHolds
<1>4. QED
  BY <1>2, <1>3

\* The requests that write, and those that a write ends.
Writing(h) ==
    \/ WritePersonal(h) \/ WriteVehicle(h) \/ WriteFinancing(h) \/ WriteUpload(h)
    \/ WriteDelete(h) \/ CommitChallenge(h) \/ ConfirmPhone(h)
    \/ WriteSubmit(h) \/ WriteCancel(h) \/ WriteReview(h)

LEMMA WriterEnds ==
    ASSUME RowsTyped, NEW h \in Handler, Writing(h)
    PROVE  /\ Overtake(h)
           /\ \A g \in Handler : req'[g] = Idle \/ req'[g] = req[g]
<1>1. req \in [Handler -> Request]
  BY DEF RowsTyped
<1>2. Finish(h) => \A g \in Handler : req'[g] = Idle \/ req'[g] = req[g]
  BY <1>1 DEF Finish
<1>3. WriteDelete(h) => \A g \in Handler : req'[g] = Idle \/ req'[g] = req[g]
  BY DEF WriteDelete
<1>4. QED
  BY <1>2, <1>3 DEF Writing, WritePersonal, WriteVehicle, WriteFinancing, WriteUpload,
     WriteDelete, CommitChallenge, ConfirmPhone, WriteSubmit, WriteCancel, WriteReview

\* The edits: none of them submits, and a new code is the only open one unless
\* another was issued since its transaction began.
LEMMA OverlapEdit ==
    ASSUME IInv, OverlapsTyped, OverlapInv, NEW h \in Handler,
           \/ WritePersonal(h) \/ WriteVehicle(h) \/ WriteFinancing(h) \/ WriteUpload(h)
           \/ WriteDelete(h) \/ CommitChallenge(h) \/ ConfirmPhone(h)
    PROVE  OverlapInv'
<1>0. /\ RowsTyped /\ app \in Application /\ req[h] \in Request
      /\ StillHolds(req[h], late[h]) /\ Settled
      /\ challenges \in [DOMAIN challenges -> Challenge]
  BY DEF IInv, RowsTyped, OverlapInv
<1>1. /\ Overtake(h) /\ \A g \in Handler : req'[g] = Idle \/ req'[g] = req[g]
  BY <1>0, WriterEnds DEF Writing
<1>2. /\ req[h].pc \in EditLabels
      /\ app'.submitted = app.submitted /\ app'.status = app.status
  BY <1>0 DEF WritePersonal, WriteVehicle, WriteFinancing, WriteUpload, WriteDelete,
     CommitChallenge, ConfirmPhone, At, EditLabels, SubmitLabels, Label, Application
<1>3. req[h].pc = "otp.commit" \/ OpenChallenges' \subseteq OpenChallenges
  <2>1. CASE CommitChallenge(h)
    BY <2>1 DEF CommitChallenge, At
  <2>2. CASE ConfirmPhone(h)
    BY <1>0, <2>2 DEF ConfirmPhone, OpenChallenges, Challenge
  <2>3. CASE UNCHANGED challenges
    BY <2>3 DEF OpenChallenges
  <2>4. QED
    BY <2>1, <2>2, <2>3 DEF WritePersonal, WriteVehicle, WriteFinancing, WriteUpload,
       WriteDelete
<1>4. \A g \in Handler : StillHolds(req[g], late[g])'
  BY <1>1, <1>2, <1>3, WriteOvertakes
<1>5. "submission" \notin crossed' => (app'.submitted => Complete')
  <2>1. "submission" \notin crossed' => "submission" \notin late[h]
    BY <1>1 DEF Overtake
  <2>2. QED
    BY <1>0, <1>2, <2>1 DEF StillHolds
<1>6. ASSUME "code" \notin crossed'
      PROVE  (OpenChallenges' # {} => ~app'.verified) /\ OneCodeOpen'
  <2>1. "code" \notin late[h] /\ ("code" \notin crossed \/ At(h, "otp.commit"))
    BY <1>1, <1>6 DEF Overtake
  <2>2. CASE CommitChallenge(h)
    <3>1. OpenChallenges \subseteq req[h].seen
      BY <1>0, <2>1, <2>2 DEF StillHolds, CommitChallenge, At
    <3>2. OpenChallenges' = {Len(challenges) + 1}
      BY <2>2, <3>1, CommitCodes
    <3>3. ~app'.verified
      BY <1>0, <2>2 DEF CommitChallenge, Application
    <3>4. QED
      BY <3>2, <3>3 DEF OneCodeOpen
  <2>3. CASE ConfirmPhone(h)
    <3>1. "code" \notin crossed
      BY <2>1, <2>3 DEF ConfirmPhone, At
    <3>2. OpenChallenges \subseteq {req[h].challenge}
      BY <1>0, <2>1, <2>3, <3>1 DEF StillHolds, ConfirmPhone, At
    <3>3. OpenChallenges' = OpenChallenges \ {req[h].challenge}
      <4>1. req[h].challenge \in DOMAIN challenges
        BY <2>3 DEF IInv, RequestsJustified, Justified, ConfirmPhone, At
      <4>2. QED
        BY <1>0, <2>3, <4>1 DEF ConfirmPhone, OpenChallenges, Challenge
    <3>4. OpenChallenges' = {}
      BY <3>2, <3>3
    <3>5. QED
      BY <3>4 DEF OneCodeOpen
  <2>4. CASE WritePersonal(h)
    <3>1. "code" \notin crossed /\ OpenChallenges' = OpenChallenges
      BY <2>1, <2>4 DEF WritePersonal, At, OpenChallenges
    <3>2. app'.verified => req[h].readVerified
      BY <1>0, <2>4 DEF WritePersonal, KeepsVerified, Application
    <3>3. app'.verified => OpenChallenges = {}
      BY <1>0, <2>1, <2>4, <3>1, <3>2 DEF StillHolds, WritePersonal, At
    <3>4. OneCodeOpen
      BY <1>0, <3>1 DEF Settled
    <3>5. QED
      BY <3>1, <3>3, <3>4 DEF OneCodeOpen
  <2>5. CASE WriteVehicle(h) \/ WriteFinancing(h) \/ WriteUpload(h) \/ WriteDelete(h)
    <3>1. "code" \notin crossed /\ OpenChallenges' = OpenChallenges
      BY <2>1, <2>5 DEF WriteVehicle, WriteFinancing, WriteUpload, WriteDelete, At,
         OpenChallenges
    <3>2. app'.verified = app.verified
      BY <1>0, <2>5 DEF WriteVehicle, WriteFinancing, WriteUpload, WriteDelete, Application
    <3>3. QED
      BY <1>0, <3>1, <3>2 DEF Settled, OneCodeOpen
  <2>6. QED
    BY <2>2, <2>3, <2>4, <2>5
<1>7. Settled'
  BY <1>0, <1>2, <1>5, <1>6 DEF Settled
<1>8. QED
  BY <1>4, <1>7 DEF OverlapInv

\* The writes of the status take nothing from the application.
LEMMA OverlapStatus ==
    ASSUME IInv, OverlapsTyped, OverlapInv, NEW h \in Handler,
           WriteSubmit(h) \/ WriteCancel(h) \/ WriteReview(h)
    PROVE  OverlapInv'
<1>0. /\ RowsTyped /\ app \in Application /\ req[h] \in Request /\ Justified(req[h])
      /\ StillHolds(req[h], late[h]) /\ Settled
  BY DEF IInv, RowsTyped, RequestsJustified, OverlapInv
<1>1. /\ Overtake(h) /\ \A g \in Handler : req'[g] = Idle \/ req'[g] = req[g]
  BY <1>0, WriterEnds DEF Writing
<1>2. /\ RowComplete' = RowComplete /\ Complete' = Complete
      /\ OpenChallenges' = OpenChallenges /\ app'.verified = app.verified
  BY <1>0 DEF WriteSubmit, WriteCancel, WriteReview, Application, RowComplete,
     DocumentsComplete, Complete, OpenChallenges
<1>3. req[h].pc = "submit.write" \/ app'.submitted = app.submitted
  BY <1>0 DEF WriteSubmit, WriteCancel, WriteReview, Application, At
<1>4. \A g \in Handler : StillHolds(req[g], late[g])'
  BY <1>1, <1>2, <1>3, WriteOvertakes
<1>5. app'.status \notin {"NONE", "DRAFT"}
  BY <1>0 DEF WriteSubmit, WriteCancel, WriteReview, Application, Request, Decision
<1>6. crossed' = late[h] \cup crossed
  BY <1>1 DEF Overtake, WriteSubmit, WriteCancel, WriteReview, At
<1>7. "submission" \notin crossed' => (app'.submitted => Complete')
  BY <1>0, <1>2, <1>3, <1>6 DEF Settled, StillHolds
<1>8. Settled'
  BY <1>0, <1>2, <1>5, <1>6, <1>7 DEF Settled, OneCodeOpen
<1>9. QED
  BY <1>4, <1>8 DEF OverlapInv

\* Time passes, the application is created, or nothing happens.
LEMMA OverlapQuiet ==
    ASSUME IInv, OverlapsTyped, OverlapInv,
           \/ CreateApplication \/ UNCHANGED vars
           \/ \E i \in DOMAIN challenges : PassTime(i)
    PROVE  OverlapInv'
<1>1. /\ UNCHANGED <<req, late, crossed>> /\ OpenChallenges' = OpenChallenges
      /\ app'.submitted = app.submitted /\ app'.verified = app.verified
      /\ RowComplete' = RowComplete /\ Complete' = Complete
      /\ app'.status = app.status \/ app.status = "NONE"
  <2> USE DEF RowComplete, DocumentsComplete, Complete
  <2>1. CASE CreateApplication
    BY <2>1 DEF CreateApplication, OpenChallenges, IInv, RowsTyped, Application
  <2>2. CASE UNCHANGED vars
    BY <2>2 DEF vars, OpenChallenges
  <2>3. ASSUME NEW i \in DOMAIN challenges, PassTime(i)
        PROVE  UNCHANGED <<app, req, late, crossed>> /\ OpenChallenges' = OpenChallenges
    BY <2>3 DEF PassTime, OpenChallenges, IInv, RowsTyped, Challenge
  <2>4. QED
    BY <2>1, <2>2, <2>3
<1>2. \A h \in Handler : StillHolds(req[h], late[h])'
  BY <1>1 DEF OverlapInv, StillHolds
<1>3. Settled'
  BY <1>1 DEF OverlapInv, Settled, OneCodeOpen
<1>4. QED
  BY <1>2, <1>3 DEF OverlapInv

LEMMA NextOverlap == IInv /\ OverlapsTyped /\ OverlapInv /\ [Next]_vars => OverlapInv'
<1> SUFFICES ASSUME IInv, OverlapsTyped, OverlapInv, [Next]_vars PROVE OverlapInv'
  OBVIOUS
<1>0. RowsTyped /\ challenges \in [DOMAIN challenges -> Challenge]
  BY DEF IInv, RowsTyped
<1>1. ASSUME NEW h \in Handler, CountMiss(h) \/ Fail(h)
      PROVE  OverlapInv'
  <2>1. UNCHANGED app /\ OpenChallenges' = OpenChallenges /\ Leave(h)
    BY <1>0, <1>1 DEF CountMiss, Fail, OpenChallenges, Challenge
  <2>2. QED
    BY <1>0, <2>1, OverlapLeave
<1>2. ASSUME NEW h \in Handler, Continue(h)
      PROVE  OverlapInv'
  BY <1>0, <1>1, <1>2, OverlapMoveOn, OverlapCheck, OverlapEdit, OverlapStatus, Zenon
     DEF Continue
<1>3. QED
  BY <1>0, <1>1, <1>2, OverlapArrive, OverlapQuiet, Zenon DEF Next

LEMMA InductiveOverlap == Spec => []OverlapInv
BY InitOverlap, NextOverlap, InductiveInvariant, OverlapsAreTyped, PTL DEF Spec

\* Whatever overlaps, an application that is in review, or approved, is complete
\* unless an edit and a submission were both let in to a draft and one wrote on
\* the strength of what it had read before the other did.
THEOREM SubmittedIsComplete == Spec => []SubmittedComplete
<1>1. IInv /\ OverlapInv => SubmittedComplete
  <2> SUFFICES ASSUME IInv, Settled, "submission" \notin crossed,
                      app.status \in {"SUBMITTED", "UNDER_REVIEW", "APPROVED"},
                      NEW part \in DOMAIN Progress
               PROVE  Progress[part]
    BY DEF OverlapInv, SubmittedComplete, AdminSummary
  <2>1. Complete
    BY DEF Settled, IInv, DecisionFollowsSubmission, Decision
  <2>2. part \in {"personal", "phoneVerified", "vehicle", "documents", "financing"}
    BY DEF Progress
  <2>3. /\ Progress.personal = app.personal /\ Progress.phoneVerified = app.verified
        /\ Progress.vehicle = app.vehicle /\ Progress.financing = app.financing
        /\ Progress.documents = (RequiredDoc \subseteq app.docs)
    BY DEF Progress
  <2>4. QED
    BY <2>1, <2>2, <2>3 DEF Complete, RowComplete, DocumentsComplete
<1>2. QED
  BY <1>1, InductiveInvariant, InductiveOverlap, PTL

\* Whatever overlaps, a code that can still be entered means a number that is not
\* marked verified, unless a request has written on the strength of what it had
\* read before a new code was issued.
THEOREM PendingIsUnverified == Spec => []PendingCodeUnverified
<1>1. OverlapInv => PendingCodeUnverified
  BY DEF OverlapInv, Settled, PendingCodeUnverified
<1>2. QED
  BY <1>1, InductiveOverlap, PTL

-----------------------------------------------------------------------------
(* The workflow that the requests implement                                *)

\* What the requests wait for, when one of them goes on and when some end.
LEMMA WaitingMoves ==
    ASSUME RowsTyped, NEW h \in Handler, NEW r, req' = [req EXCEPT ![h] = r]
    PROVE  [g \in Handler |-> LetInFor(req[g])]'
               = [[g \in Handler |-> LetInFor(req[g])] EXCEPT ![h] = LetInFor(r)]
<1>1. ASSUME NEW g \in Handler
      PROVE  LetInFor(req[g])' = IF g = h THEN LetInFor(r) ELSE LetInFor(req[g])
  <2>1. req'[g] = IF g = h THEN r ELSE req[g]
    BY DEF RowsTyped
  <2>2. LetInFor(req[g])' = LetInFor(req'[g])
    BY DEF LetInFor
  <2>3. QED
    BY <2>1, <2>2
<1>2. QED
  BY <1>1

LEMMA WaitingEnds ==
    ASSUME NEW S \in SUBSET Handler,
           \A g \in Handler : req'[g] = IF g \in S THEN Idle ELSE req[g]
    PROVE  Lifecycle!Ended(S)
<1>1. LetInFor(Idle) = "nothing"
  BY DEF LetInFor, Idle
<1>2. ASSUME NEW g \in Handler
      PROVE  LetInFor(req[g])' = IF g \in S THEN "nothing" ELSE LetInFor(req[g])
  <2>1. LetInFor(req[g])' = LetInFor(req'[g])
    BY DEF LetInFor
  <2>2. QED
    BY <1>1, <2>1
<1>3. QED
  BY <1>2 DEF Lifecycle!Ended

LEMMA FinishEnds ==
    ASSUME RowsTyped, NEW h \in Handler, Finish(h)
    PROVE  Lifecycle!Ended({h})
BY WaitingEnds DEF RowsTyped, Finish

\* A submission's requirements are about these parts of the application alone.
LEMMA RequirementsKept ==
    ASSUME /\ app'.personal = app.personal /\ app'.verified = app.verified
           /\ app'.vehicle = app.vehicle /\ app'.financing = app.financing
           /\ app'.docs = app.docs
    PROVE  UNCHANGED <<RowComplete, DocumentsComplete>>
BY DEF RowComplete, DocumentsComplete

\* A request that arrives is let in.
LEMMA ArriveLetIn ==
    ASSUME RowsTyped, NEW h \in Handler, Arrive(h)
    PROVE  Lifecycle!Next
<1>1. PICK r : /\ req' = [req EXCEPT ![h] = r]
               /\ \/ r.pc \in EditLabels /\ Editable
                  \/ r.pc = "submit.documents" /\ Editable /\ RowComplete
                  \/ r.pc = "cancel.write" /\ Cancellable
                  \/ r.pc = "review.write" /\ r.decision \in Decision /\ Reviewable
  BY Arrived
<1>2. app' = app /\ LetInFor(req[h]) = "nothing"
  BY Arrived DEF LetInFor, Idle
<1>2a. UNCHANGED <<RowComplete, DocumentsComplete>>
  BY <1>2, RequirementsKept
<1>3. LetInFor(r) \in Lifecycle!Operations /\ Lifecycle!Permitted(LetInFor(r))
  BY <1>1 DEF LetInFor, EditLabels, SubmitLabels, Label, Editable, Cancellable, Reviewable,
     Decision, Lifecycle!Operations, Lifecycle!Permitted, Lifecycle!Decisions
<1>4. Lifecycle!LetIn(h, LetInFor(r))
  BY <1>1, <1>2, <1>2a, <1>3, WaitingMoves DEF Lifecycle!LetIn
<1>5. QED
  BY <1>3, <1>4 DEF Lifecycle!Next

\* The writes of a request are what it was let in for.
LEMMA WriteLetIn ==
    ASSUME RowsTyped, NEW h \in Handler, Writing(h)
    PROVE  Lifecycle!Next
<1>0. app \in Application /\ req \in [Handler -> Request]
  BY DEF RowsTyped
<1>1. RowComplete' \in BOOLEAN /\ DocumentsComplete' \in BOOLEAN
  BY DEF RowComplete, DocumentsComplete
<1>2. ASSUME NEW S \in SUBSET Handler, S # {}, \A g \in S : req[g].pc \in EditLabels,
             Lifecycle!Ended(S), app'.status = app.status
      PROVE  Lifecycle!Next
  <2>1. \A g \in S : LetInFor(req[g]) = "edit"
    BY <1>2 DEF LetInFor, EditLabels, SubmitLabels
  <2>2. Lifecycle!Edit(S)
    BY <1>1, <1>2, <2>1 DEF Lifecycle!Edit
  <2>3. QED
    BY <2>2 DEF Lifecycle!Next
<1>3. CASE \/ WritePersonal(h) \/ WriteVehicle(h) \/ WriteFinancing(h) \/ WriteUpload(h)
           \/ CommitChallenge(h) \/ ConfirmPhone(h)
  <2>1. req[h].pc \in EditLabels /\ Finish(h) /\ app'.status = app.status
    BY <1>0, <1>3 DEF WritePersonal, WriteVehicle, WriteFinancing, WriteUpload,
       CommitChallenge, ConfirmPhone, At, EditLabels, SubmitLabels, Label, Application
  <2>2. QED
    BY <1>2, <2>1, FinishEnds
<1>4. CASE WriteDelete(h)
  <2>1. app'.status = app.status /\ h \in DeletingRowOf(h)
    BY <1>0, <1>4 DEF WriteDelete, DeletingRowOf, At, Application
  <2>2. /\ DeletingRowOf(h) \in SUBSET Handler
        /\ \A g \in DeletingRowOf(h) : req[g].pc \in EditLabels
    BY DEF DeletingRowOf, At, EditLabels, SubmitLabels, Label
  <2>3. Lifecycle!Ended(DeletingRowOf(h))
    BY <1>4, <2>2, WaitingEnds DEF WriteDelete
  <2>4. QED
    BY <1>2, <2>1, <2>2, <2>3
<1>5. CASE WriteSubmit(h) \/ WriteCancel(h) \/ WriteReview(h)
  <2>1. UNCHANGED <<RowComplete, DocumentsComplete>> /\ Lifecycle!Ended({h})
    BY <1>0, <1>5, FinishEnds, RequirementsKept DEF Application, WriteSubmit, WriteCancel,
       WriteReview
  <2>2. CASE WriteSubmit(h)
    BY <1>0, <2>1, <2>2 DEF WriteSubmit, At, LetInFor, Application, Lifecycle!Next,
       Lifecycle!Submit
  <2>3. CASE WriteCancel(h)
    BY <1>0, <2>1, <2>3 DEF WriteCancel, At, LetInFor, Application, Lifecycle!Next,
       Lifecycle!Cancel
  <2>4. CASE WriteReview(h)
    <3>1. /\ LetInFor(req[h]) = req[h].decision /\ req[h].decision \in Decision
          /\ app'.status = req[h].decision
      BY <1>0, <2>4 DEF WriteReview, At, LetInFor, Application, Request
    <3>2. Lifecycle!Review(h)
      BY <2>1, <3>1 DEF Lifecycle!Review, Lifecycle!Decisions, Decision
    <3>3. QED
      BY <3>2 DEF Lifecycle!Next
  <2>5. QED
    BY <1>5, <2>2, <2>3, <2>4
<1>6. QED
  BY <1>3, <1>4, <1>5, Zenon DEF Writing

\* Every call of a request is a step of the workflow, or none.
LEMMA LifecycleStep ==
    ASSUME RowsTyped, [Next]_vars
    PROVE  Lifecycle!Next \/ UNCHANGED Lifecycle!lifecycle
<1>0. app \in Application /\ req \in [Handler -> Request]
  BY DEF RowsTyped
<1>1. ASSUME UNCHANGED app
      PROVE  UNCHANGED <<app.status, RowComplete, DocumentsComplete>>
  BY <1>1, RequirementsKept
<1>2. CASE CreateApplication
  <2>1. /\ app.status = "NONE" /\ app'.status = "DRAFT"
        /\ UNCHANGED <<RowComplete, DocumentsComplete>>
        /\ [g \in Handler |-> LetInFor(req[g])]' = [g \in Handler |-> LetInFor(req[g])]
    BY <1>0, <1>2, RequirementsKept DEF CreateApplication, Application
  <2>2. QED
    BY <2>1 DEF Lifecycle!Next, Lifecycle!Create
<1>3. CASE UNCHANGED vars \/ \E i \in DOMAIN challenges : PassTime(i)
  <2>1. UNCHANGED <<app, req>>
    BY <1>3 DEF vars, PassTime
  <2>2. QED
    BY <1>1, <2>1 DEF Lifecycle!lifecycle
<1>4. ASSUME NEW h \in Handler, Leave(h), UNCHANGED app
      PROVE  Lifecycle!Next
  <2>1. Lifecycle!Leave(h)
    BY <1>1, <1>4, FinishEnds DEF Leave, Lifecycle!Leave
  <2>2. QED
    BY <2>1 DEF Lifecycle!Next
<1>5. ASSUME NEW h \in Handler,
             \/ LookupRecent(h) \/ SendCode(h) \/ BeginChallenge(h)
             \/ LookupChallenge(h) \/ LookupDocument(h)
      PROVE  Lifecycle!Next \/ UNCHANGED Lifecycle!lifecycle
  <2>1. UNCHANGED app /\ req[h].pc \in EditLabels
    BY <1>5, MovedOn
  <2>2. CASE Leave(h)
    BY <1>4, <2>1, <2>2
  <2>3. CASE ~Leave(h)
    <3>1. PICK r : req' = [req EXCEPT ![h] = r] /\ r.pc \in EditLabels
      BY <1>5, <2>3, MovedOn
    <3>2. LetInFor(r) = LetInFor(req[h])
      BY <2>1, <3>1 DEF LetInFor, EditLabels, SubmitLabels
    <3>3. UNCHANGED [g \in Handler |-> LetInFor(req[g])]
      BY <3>1, <3>2, WaitingMoves
    <3>4. QED
      BY <1>1, <2>1, <3>3 DEF Lifecycle!lifecycle
  <2>4. QED
    BY <2>2, <2>3
<1>6. ASSUME NEW h \in Handler, CountMiss(h) \/ Fail(h)
      PROVE  Lifecycle!Next
  BY <1>4, <1>6 DEF CountMiss, Fail
<1>6a. ASSUME NEW h \in Handler, LookupDocuments(h)
       PROVE  Lifecycle!Next
  <2>1. UNCHANGED app /\ LetInFor(req[h]) = "submit"
    BY <1>0, <1>6a, DocumentsLookedAt DEF LetInFor
  <2>2. CASE Leave(h)
    BY <1>4, <2>1, <2>2
  <2>3. CASE ~Leave(h)
    <3>1. PICK r : /\ req' = [req EXCEPT ![h] = r] /\ r.pc = "submit.write"
                   /\ DocumentsComplete
      BY <1>0, <1>6a, <2>3, DocumentsLookedAt
    <3>2. LetInFor(r) = "checked"
      BY <3>1 DEF LetInFor
    <3>3. Lifecycle!Check(h)
      BY <1>1, <2>1, <3>1, <3>2, WaitingMoves DEF Lifecycle!Check
    <3>4. QED
      BY <3>3 DEF Lifecycle!Next
  <2>4. QED
    BY <2>2, <2>3
<1>7. ASSUME NEW h \in Handler, Continue(h)
      PROVE  Lifecycle!Next \/ UNCHANGED Lifecycle!lifecycle
  BY <1>5, <1>6, <1>6a, <1>7, WriteLetIn, Zenon DEF Continue, Writing
<1>8. QED
  BY <1>2, <1>3, <1>6, <1>7, ArriveLetIn, Zenon DEF Next

\* However many requests overlap, what they do to the status of an application is
\* what CngLifecycle lets them do: each is let in where its operation is allowed
\* and does, by calls that each are one of its steps or none, that and no more.
THEOREM LifecycleImplemented == Spec => ImplementsLifecycle
<1>1. Init => Lifecycle!Init
  BY DEF Init, Lifecycle!Init, RowComplete, DocumentsComplete, LetInFor, Idle
<1>2. IInv /\ [Next]_vars => [Lifecycle!Next]_(Lifecycle!lifecycle)
  BY LifecycleStep DEF IInv
<1>3. QED
  BY <1>1, <1>2, InductiveInvariant, PTL DEF Spec, ImplementsLifecycle, Lifecycle!Spec

-----------------------------------------------------------------------------
(* How edits that are under way come to an end                             *)

\* No longer a draft.
Closed == app.status \notin {"NONE", "DRAFT"}

\* The calls that an edit has yet to issue, at most.
CallsLeft(label) == IF label \notin EditLabels THEN 0
                    ELSE IF label = "otp.lookup" THEN 4
                    ELSE IF label = "otp.send" THEN 3
                    ELSE IF label \in {"otp.begin", "verify.lookup", "delete.lookup"} THEN 2
                    ELSE 1

\* An application that is no draft never is one again; no edit of it begins, and
\* each call of an edit is one of the last: what EditsDrain rests on apart from
\* the scheduling.
EditsRunOut == [][Closed =>
    /\ Closed'
    /\ \A h \in Handler :
           /\ CallsLeft(req'[h].pc) <= CallsLeft(req[h].pc)
           /\ Continue(h) /\ req[h].pc \in EditLabels =>
                  CallsLeft(req'[h].pc) < CallsLeft(req[h].pc)]_vars

\* An edit has calls left, at most four, and nobody else has.
LEMMA CallsCounted ==
    ASSUME NEW label
    PROVE  /\ CallsLeft(label) \in 0 .. 4
           /\ CallsLeft(label) = 0 <=> label \notin EditLabels
           /\ CallsLeft(Idle.pc) = 0
BY DEF CallsLeft, EditLabels, SubmitLabels, Idle

\* The write of a request is its last call.
LEMMA LastCall ==
    ASSUME NEW h \in Handler, req \in [Handler -> Request],
           req[h].pc \in EditLabels, req'[h] = Idle
    PROVE  CallsLeft(req'[h].pc) < CallsLeft(req[h].pc)
<1>1. /\ CallsLeft(req[h].pc) \in 0 .. 4 /\ CallsLeft(req[h].pc) # 0
      /\ CallsLeft(req'[h].pc) = 0
  BY CallsCounted
<1>2. QED
  BY <1>1

\* Whatever the outcome of a call, an edit has fewer to issue afterwards.
LEMMA CallsRunOut ==
    ASSUME NEW h \in Handler, RowsTyped, Continue(h), req[h].pc \in EditLabels
    PROVE  CallsLeft(req'[h].pc) < CallsLeft(req[h].pc)
<1>1. req \in [Handler -> Request]
  BY DEF RowsTyped
<1>2. CASE Finish(h)
  BY <1>1, <1>2, LastCall DEF Finish
<1>3. CASE At(h, "otp.lookup") /\ Goto(h, "otp.send")
  BY <1>1, <1>3 DEF At, Goto, CallsLeft, EditLabels, SubmitLabels, Label
<1>4. CASE SendCode(h)
  BY <1>1, <1>4 DEF SendCode, At, Goto, CallsLeft, EditLabels, SubmitLabels, Label
<1>5. CASE BeginChallenge(h)
  BY <1>1, <1>5 DEF BeginChallenge, At, CallsLeft, EditLabels, SubmitLabels, Label
<1>6. ASSUME NEW i, NEW outcome \in {"verify.hit", "verify.miss"}, At(h, "verify.lookup"),
             req' = [req EXCEPT ![h].pc = outcome, ![h].challenge = i]
      PROVE  CallsLeft(req'[h].pc) < CallsLeft(req[h].pc)
  <2>1. req'[h].pc = outcome
    BY <1>1, <1>6 DEF Request
  <2>2. QED
    BY <1>6, <2>1 DEF At, CallsLeft, EditLabels, SubmitLabels, Label
<1>7. CASE At(h, "delete.lookup") /\ Goto(h, "delete.write")
  BY <1>1, <1>7 DEF At, Goto, CallsLeft, EditLabels, SubmitLabels, Label
<1>8. CASE WriteDelete(h)
  <2>1. req'[h] = Idle
    BY <1>8 DEF WriteDelete, DeletingRowOf
  <2>2. QED
    BY <1>1, <2>1, LastCall
<1>9. CASE LookupChallenge(h)
  BY <1>2, <1>6, <1>9 DEF Leave, LookupChallenge
<1>10. CASE LookupRecent(h) \/ LookupDocument(h)
  BY <1>2, <1>3, <1>7, <1>10 DEF Leave, LookupRecent, LookupDocument
<1>11. CASE \/ WritePersonal(h) \/ WriteVehicle(h) \/ WriteFinancing(h)
            \/ CommitChallenge(h) \/ CountMiss(h) \/ ConfirmPhone(h) \/ WriteUpload(h)
            \/ WriteSubmit(h) \/ WriteCancel(h) \/ WriteReview(h)
  BY <1>2, <1>11 DEF Leave, WritePersonal, WriteVehicle, WriteFinancing, CommitChallenge,
     CountMiss, ConfirmPhone, WriteUpload, WriteSubmit, WriteCancel, WriteReview
<1>12. ~LookupDocuments(h)
  BY DEF LookupDocuments, At, EditLabels, SubmitLabels
<1>13. QED
  BY <1>4, <1>5, <1>8, <1>9, <1>10, <1>11, <1>12 DEF Continue

\* A handler changes the requests of others only by ending them, and one that
\* does not edit goes on as none that does.
LEMMA OthersEnd ==
    ASSUME NEW h \in Handler, RowsTyped, Continue(h)
    PROVE  /\ \A g \in Handler \ {h} : req'[g] = req[g] \/ req'[g] = Idle
           /\ req[h].pc \notin EditLabels => CallsLeft(req'[h].pc) = 0
<1>1. req \in [Handler -> Request]
  BY DEF RowsTyped
<1>2. CASE WriteDelete(h)
  BY <1>1, <1>2, CallsCounted DEF WriteDelete, DeletingRowOf
<1>3. CASE Finish(h)
  BY <1>1, <1>3, CallsCounted DEF Finish
<1>4. CASE /\ req[h].pc \in EditLabels
           /\ \E r : req' = [req EXCEPT ![h] = r]
  BY <1>1, <1>4
<1>5. CASE LookupRecent(h) \/ LookupDocument(h) \/ SendCode(h) \/ BeginChallenge(h)
           \/ LookupChallenge(h)
  <2>1. req[h].pc \in EditLabels
    BY <1>5 DEF LookupRecent, LookupDocument, SendCode, BeginChallenge, LookupChallenge, At,
       EditLabels, SubmitLabels, Label
  <2>2. \E r : req' = [req EXCEPT ![h] = r]
    BY <1>5 DEF Leave, LookupRecent, LookupDocument, SendCode, BeginChallenge,
       LookupChallenge, Goto, Finish
  <2>3. QED
    BY <1>4, <2>1, <2>2
<1>6. CASE \/ WritePersonal(h) \/ WriteVehicle(h) \/ WriteFinancing(h)
           \/ CommitChallenge(h) \/ CountMiss(h) \/ ConfirmPhone(h) \/ WriteUpload(h)
           \/ WriteSubmit(h) \/ WriteCancel(h) \/ WriteReview(h)
  BY <1>3, <1>6 DEF Leave, WritePersonal, WriteVehicle, WriteFinancing, CommitChallenge,
     CountMiss, ConfirmPhone, WriteUpload, WriteSubmit, WriteCancel, WriteReview
<1>7. CASE LookupDocuments(h)
  <2>1. PICK r : req' = [req EXCEPT ![h] = r] /\ r.pc \in {"idle", "submit.write"}
    BY <1>1, <1>7, DocumentsLookedAt
  <2>2. CallsLeft(r.pc) = 0
    BY <2>1 DEF CallsLeft, EditLabels, SubmitLabels
  <2>3. QED
    BY <1>1, <2>1, <2>2
<1>8. QED
  BY <1>2, <1>5, <1>6, <1>7 DEF Continue

\* No call of a request makes a draft of an application.
LEMMA StaysClosed ==
    ASSUME NEW h \in Handler, RowsTyped, Closed, Continue(h)
    PROVE  Closed'
<1>1. app \in Application /\ req[h].decision \in Decision
  BY DEF RowsTyped, Request
<1>2. CASE WriteSubmit(h) \/ WriteCancel(h) \/ WriteReview(h)
  BY <1>1, <1>2 DEF WriteSubmit, WriteCancel, WriteReview, Closed, Application, Decision
<1>3. CASE app'.status = app.status
  BY <1>3 DEF Closed
<1>4. QED
  BY <1>1, <1>2, <1>3 DEF Continue, WritePersonal, WriteVehicle, WriteFinancing,
     LookupRecent, SendCode, BeginChallenge, CommitChallenge, LookupChallenge, CountMiss,
     ConfirmPhone, WriteUpload, LookupDocument, WriteDelete, LookupDocuments, Application

\* Who arrives at an application that is no draft does not edit it.
LEMMA ArrivesClosed ==
    ASSUME NEW h \in Handler, RowsTyped, Closed, Arrive(h)
    PROVE  /\ app' = app
           /\ \A g \in Handler \ {h} : req'[g] = req[g]
           /\ CallsLeft(req'[h].pc) = 0
<1>1. req \in [Handler -> Request] /\ ~Editable
  BY DEF RowsTyped, Closed, Editable
<1>2. ASSUME NEW op, NEW r, Begin(h, op, r), r.pc \in {"cancel.write", "review.write"},
             UNCHANGED app
      PROVE  /\ app' = app
             /\ \A g \in Handler \ {h} : req'[g] = req[g]
             /\ CallsLeft(req'[h].pc) = 0
  BY <1>1, <1>2, CallsCounted DEF Begin, EditLabels, SubmitLabels
<1>3. CASE ReadCancel(h)
  BY <1>2, <1>3 DEF ReadCancel, Idle
<1>4. ASSUME NEW decision \in Decision, ReadReview(h, decision)
      PROVE  /\ app' = app
             /\ \A g \in Handler \ {h} : req'[g] = req[g]
             /\ CallsLeft(req'[h].pc) = 0
  BY <1>2, <1>4 DEF ReadReview, Idle
<1>5. \A phone : ~ReadPersonal(h, phone) /\ ~ReadOtp(h, phone) /\ ~ReadVerify(h, phone)
  BY <1>1, Zenon DEF ReadPersonal, ReadOtp, ReadVerify
<1>6. \A doc : ~ReadUpload(h, doc) /\ ~ReadDelete(h, doc)
  BY <1>1, Zenon DEF ReadUpload, ReadDelete
<1>7. ~ReadVehicle(h) /\ ~ReadSubmit(h) /\ \A choice : ~ReadFinancing(h, choice)
  BY <1>1, Zenon DEF ReadVehicle, ReadFinancing, ReadSubmit
<1>8. ReadCancel(h) \/ \E decision \in Decision : ReadReview(h, decision)
  BY <1>5, <1>6, <1>7, Zenon DEF Arrive
<1>9. QED
  BY <1>3, <1>4, <1>8

\* Every step leaves an application closed, and no edit with more calls to issue.
LEMMA NextRunsOut ==
    ASSUME RowsTyped, Next, Closed
    PROVE  /\ Closed'
           /\ \A g \in Handler : CallsLeft(req'[g].pc) <= CallsLeft(req[g].pc)
<1>1. \A g \in Handler : CallsLeft(req[g].pc) \in 0 .. 4
  BY CallsCounted
<1>2. ASSUME NEW g \in Handler, req'[g] = req[g] \/ CallsLeft(req'[g].pc) = 0
      PROVE  CallsLeft(req'[g].pc) <= CallsLeft(req[g].pc)
  BY <1>1, <1>2
<1>3. CASE CreateApplication
  BY <1>3 DEF CreateApplication, Closed
<1>4. ASSUME NEW i \in DOMAIN challenges, PassTime(i)
      PROVE  /\ Closed'
             /\ \A g \in Handler : CallsLeft(req'[g].pc) <= CallsLeft(req[g].pc)
  BY <1>2, <1>4 DEF PassTime, Closed
<1>5. ASSUME NEW h \in Handler, Arrive(h)
      PROVE  /\ Closed'
             /\ \A g \in Handler : CallsLeft(req'[g].pc) <= CallsLeft(req[g].pc)
  BY <1>2, <1>5, ArrivesClosed DEF Closed
<1>6. ASSUME NEW h \in Handler, Fail(h)
      PROVE  /\ Closed'
             /\ \A g \in Handler : CallsLeft(req'[g].pc) <= CallsLeft(req[g].pc)
  <2>1. UNCHANGED app /\ \A g \in Handler : req'[g] = req[g] \/ req'[g] = Idle
    BY <1>6 DEF Leave, Fail, Finish, RowsTyped
  <2>2. QED
    BY <1>2, <2>1, CallsCounted DEF Closed
<1>7. ASSUME NEW h \in Handler, Continue(h)
      PROVE  /\ Closed'
             /\ \A g \in Handler : CallsLeft(req'[g].pc) <= CallsLeft(req[g].pc)
  <2>1. \A g \in Handler \ {h} : CallsLeft(req'[g].pc) <= CallsLeft(req[g].pc)
    BY <1>2, <1>7, OthersEnd, CallsCounted
  <2>2. CASE req[h].pc \notin EditLabels
    BY <1>2, <1>7, <2>1, <2>2, OthersEnd, StaysClosed
  <2>3. CASE req[h].pc \in EditLabels
    <3>1. CallsLeft(req'[h].pc) < CallsLeft(req[h].pc)
      BY <1>7, <2>3, CallsRunOut
    <3>2. CallsLeft(req'[h].pc) \in 0 .. 4
      BY CallsCounted
    <3>3. CallsLeft(req'[h].pc) <= CallsLeft(req[h].pc)
      BY <1>1, <3>1, <3>2
    <3>4. QED
      BY <1>7, <2>1, <3>3, StaysClosed
  <2>4. QED
    BY <2>2, <2>3
<1>8. QED
  BY <1>3, <1>4, <1>5, <1>6, <1>7 DEF Next

\* An application that is no draft never becomes one again, no edit of it
\* begins, and each edit under way has ever fewer calls left.
THEOREM EditsEnd == Spec => EditsRunOut
<1>1. IInv /\ [Next]_vars => [Closed =>
          /\ Closed'
          /\ \A h \in Handler :
                 /\ CallsLeft(req'[h].pc) <= CallsLeft(req[h].pc)
                 /\ Continue(h) /\ req[h].pc \in EditLabels =>
                        CallsLeft(req'[h].pc) < CallsLeft(req[h].pc)]_vars
  BY NextRunsOut, CallsRunOut DEF IInv
<1>2. QED
  BY <1>1, InductiveInvariant, PTL DEF Spec, EditsRunOut

-----------------------------------------------------------------------------
(* The rows of the documents                                               *)

\* What a request has yet to do to a row.
AskedOf(r) == IF r.pc = "upload.write" THEN [op |-> "upload", doc |-> r.doc]
              ELSE IF r.pc = "delete.lookup" THEN [op |-> "find", doc |-> r.doc]
              ELSE IF r.pc = "delete.write" THEN [op |-> "delete", doc |-> r.doc]
              ELSE [op |-> "none", doc |-> NoDoc]

DocumentRows == INSTANCE CngDocumentRows WITH
    Request <- Handler,
    draft <- ~Closed,
    docs <- app.docs,
    asked <- [h \in Handler |-> AskedOf(req[h])]

\* A document that a request is going to delete is still there: who deletes it
\* ends the requests that found the same one.
FoundStays == \A h \in Handler : req[h].pc = "delete.write" => req[h].doc \in app.docs

LEMMA InitFoundStays == Init => FoundStays
BY DEF Init, FoundStays, Idle

\* A step after which each request is as it was or no deletion, and no document
\* is lost, keeps what was found.
LEMMA FoundIsKept ==
    ASSUME FoundStays, app.docs \subseteq app'.docs,
           \A g \in Handler : req'[g] = req[g] \/ req'[g].pc # "delete.write"
    PROVE  FoundStays'
BY DEF FoundStays

\* A request that arrives writes nothing yet; what it is going to do to a row,
\* if anything, is an upload or a deletion of a document of a draft.
LEMMA ArrivesAsking ==
    ASSUME NEW h \in Handler, Arrive(h)
    PROVE  /\ UNCHANGED app
           /\ \E r : /\ req' = [req EXCEPT ![h] = r]
                    /\ \/ r.pc \notin {"upload.write", "delete.lookup", "delete.write"}
                       \/ ~Closed /\ r.pc \in {"upload.write", "delete.lookup"}
                                  /\ r.doc \in DocType
<1>1. ASSUME NEW op, NEW r, Begin(h, op, r), UNCHANGED app,
             \/ r.pc \notin {"upload.write", "delete.lookup", "delete.write"}
             \/ ~Closed /\ r.pc \in {"upload.write", "delete.lookup"} /\ r.doc \in DocType
      PROVE  /\ UNCHANGED app
             /\ \E q : /\ req' = [req EXCEPT ![h] = q]
                      /\ \/ q.pc \notin {"upload.write", "delete.lookup", "delete.write"}
                         \/ ~Closed /\ q.pc \in {"upload.write", "delete.lookup"}
                                    /\ q.doc \in DocType
  BY <1>1, Zenon DEF Begin
<1>2. Editable => ~Closed
  BY DEF Editable, Closed
<1>3. CASE \E phone \in Phone :
               ReadPersonal(h, phone) \/ ReadOtp(h, phone) \/ ReadVerify(h, phone)
  BY <1>1, <1>3 DEF ReadPersonal, ReadOtp, ReadVerify, Idle
<1>4. CASE \E doc \in DocType : ReadUpload(h, doc) \/ ReadDelete(h, doc)
  BY <1>1, <1>2, <1>4 DEF ReadUpload, ReadDelete, Idle
<1>5. CASE \E decision \in Decision : ReadReview(h, decision)
  BY <1>1, <1>5 DEF ReadReview, Idle
<1>6. CASE \/ \E choice \in Choice : ReadFinancing(h, choice)
           \/ ReadVehicle(h) \/ ReadSubmit(h) \/ ReadCancel(h)
  BY <1>1, <1>6 DEF ReadVehicle, ReadFinancing, ReadSubmit, ReadCancel, Idle
<1>7. QED
  BY <1>3, <1>4, <1>5, <1>6 DEF Arrive

LEMMA NextFoundStays == IInv /\ FoundStays /\ [Next]_vars => FoundStays'
<1> SUFFICES ASSUME IInv, FoundStays, [Next]_vars PROVE FoundStays'
  OBVIOUS
<1>1. req \in [Handler -> Request] /\ app \in Application
  BY DEF IInv, RowsTyped
<1>2. CASE CreateApplication \/ UNCHANGED vars \/ \E i \in DOMAIN challenges : PassTime(i)
  BY <1>1, <1>2, FoundIsKept DEF CreateApplication, PassTime, vars, Application
<1>3. ASSUME NEW h \in Handler, Fail(h)
      PROVE  FoundStays'
  BY <1>1, <1>3, FoundIsKept DEF Leave, Fail, Finish, Idle
<1>4. ASSUME NEW h \in Handler, Arrive(h)
      PROVE  FoundStays'
  <2>1. PICK r : /\ req' = [req EXCEPT ![h] = r]
                 /\ r.pc # "delete.write"
    BY <1>4, ArrivesAsking
  <2>2. QED
    BY <1>1, <1>4, <2>1, ArrivesAsking, FoundIsKept DEF Application
<1>5. ASSUME NEW h \in Handler, LookupDocument(h)
      PROVE  FoundStays'
  <2>1. CASE req[h].doc \in app.docs
    BY <1>1, <1>5, <2>1 DEF LookupDocument, Goto, FoundStays, Request
  <2>2. CASE req[h].doc \notin app.docs
    BY <1>1, <1>5, <2>2, FoundIsKept DEF Leave, LookupDocument, Finish, Idle
  <2>3. QED
    BY <2>1, <2>2
<1>6. ASSUME NEW h \in Handler, WriteDelete(h)
      PROVE  FoundStays'
  BY <1>1, <1>6 DEF WriteDelete, DeletingRowOf, At, FoundStays, Idle, Application
<1>7. ASSUME NEW h \in Handler, SendCode(h) \/ BeginChallenge(h) \/ LookupRecent(h)
      PROVE  FoundStays'
  BY <1>1, <1>7, FoundIsKept DEF Leave, SendCode, BeginChallenge, LookupRecent, Goto,
     Finish, Idle, Request
<1>8. ASSUME NEW h \in Handler, LookupChallenge(h)
      PROVE  FoundStays'
  BY <1>1, <1>8, FoundIsKept DEF Leave, LookupChallenge, Finish, Idle, Request
<1>9. ASSUME NEW h \in Handler,
             \/ WritePersonal(h) \/ WriteVehicle(h) \/ WriteFinancing(h)
             \/ CommitChallenge(h) \/ CountMiss(h) \/ ConfirmPhone(h) \/ WriteUpload(h)
             \/ WriteSubmit(h) \/ WriteCancel(h) \/ WriteReview(h)
      PROVE  FoundStays'
  <2>1. Finish(h)
    BY <1>9 DEF Leave, WritePersonal, WriteVehicle, WriteFinancing, CommitChallenge,
       CountMiss, ConfirmPhone, WriteUpload, WriteSubmit, WriteCancel, WriteReview
  <2>2. app.docs \subseteq app'.docs
    BY <1>1, <1>9 DEF WritePersonal, WriteVehicle, WriteFinancing, CommitChallenge,
       CountMiss, ConfirmPhone, WriteUpload, WriteSubmit, WriteCancel, WriteReview,
       Application
  <2>3. QED
    BY <1>1, <2>1, <2>2, FoundIsKept DEF Finish, Idle
<1>10. ASSUME NEW h \in Handler, LookupDocuments(h)
       PROVE  FoundStays'
  <2>1. PICK r : req' = [req EXCEPT ![h] = r] /\ r.pc # "delete.write"
    BY <1>1, <1>10, DocumentsLookedAt
  <2>2. QED
    BY <1>1, <1>10, <2>1, DocumentsLookedAt, FoundIsKept
<1>11. QED
  BY <1>2, <1>3, <1>4, <1>5, <1>6, <1>7, <1>8, <1>9, <1>10 DEF Next, Continue

\* A step of one handler, as the rows see it.
LEMMA HandlerAsks ==
    ASSUME req \in [Handler -> Request], NEW h \in Handler, NEW r,
           req' = [req EXCEPT ![h] = r]
    PROVE  /\ [g \in Handler |-> AskedOf(req[g])]' =
                  [[g \in Handler |-> AskedOf(req[g])] EXCEPT ![h] = AskedOf(r)]
           /\ AskedOf(r) = AskedOf(req[h]) => UNCHANGED [g \in Handler |-> AskedOf(req[g])]
OBVIOUS

\* A step that ends a request, or takes one on that is not about documents, and
\* leaves the rows and the draft alone.
LEMMA HandlerLeaves ==
    ASSUME req \in [Handler -> Request], NEW h \in Handler, NEW r,
           req' = [req EXCEPT ![h] = r],
           r.pc \notin {"upload.write", "delete.lookup", "delete.write"},
           app'.docs = app.docs, Closed' <=> Closed
    PROVE  DocumentRows!Next
<1>1. AskedOf(r) = DocumentRows!Nothing
  BY DEF AskedOf, DocumentRows!Nothing
<1>2. DocumentRows!Leave(h)
  BY <1>1, HandlerAsks DEF DocumentRows!Leave
<1>3. QED
  BY <1>2 DEF DocumentRows!Next

\* A step that leaves the rows and what is asked of them as they are.
LEMMA NothingAsked ==
    ASSUME app'.docs = app.docs, Closed' <=> Closed,
           UNCHANGED [h \in Handler |-> AskedOf(req[h])]
    PROVE  UNCHANGED DocumentRows!documentRows
BY DEF DocumentRows!documentRows

\* A request is taken on: about a row of a draft, or about something else.
LEMMA RowsArrive ==
    ASSUME IInv, NEW h \in Handler, Arrive(h)
    PROVE  DocumentRows!Next
<1>1. UNCHANGED app /\ (Closed' <=> Closed)
  BY ArrivesAsking DEF Closed
<1>2. PICK r : /\ req' = [req EXCEPT ![h] = r]
               /\ \/ r.pc \notin {"upload.write", "delete.lookup", "delete.write"}
                  \/ ~Closed /\ r.pc \in {"upload.write", "delete.lookup"}
                             /\ r.doc \in DocType
  BY ArrivesAsking
<1>3. req \in [Handler -> Request]
  BY DEF IInv, RowsTyped
<1>4. CASE r.pc \notin {"upload.write", "delete.lookup", "delete.write"}
  BY <1>1, <1>2, <1>3, <1>4, HandlerLeaves
<1>5. ASSUME NEW t \in DocType, NEW op \in {"upload", "find"}, ~Closed,
             AskedOf(r) = DocumentRows!Asking(op, t)
      PROVE  DocumentRows!Next
  <2>1. DocumentRows!Begin(h, op, t)
    BY <1>1, <1>2, <1>3, <1>5, HandlerAsks DEF DocumentRows!Begin
  <2>2. QED
    BY <1>5, <2>1 DEF DocumentRows!Next
<1>6. CASE ~Closed /\ r.pc = "upload.write" /\ r.doc \in DocType
  BY <1>5, <1>6 DEF AskedOf, DocumentRows!Asking
<1>7. CASE ~Closed /\ r.pc = "delete.lookup" /\ r.doc \in DocType
  BY <1>5, <1>7 DEF AskedOf, DocumentRows!Asking
<1>8. QED
  BY <1>2, <1>4, <1>6, <1>7

\* The upsert of a row.
LEMMA RowUpserted ==
    ASSUME IInv, NEW h \in Handler, WriteUpload(h)
    PROVE  DocumentRows!Next
<1>1. req \in [Handler -> Request] /\ app \in Application
  BY DEF IInv, RowsTyped
<1>2. PICK t \in DocType : t = req[h].doc
  BY DEF IInv, RequestsJustified, Justified, DocLabels, WriteUpload, At
<1>3. app'.docs = app.docs \cup {t} /\ (Closed' <=> Closed)
  BY <1>1, <1>2 DEF WriteUpload, Closed, Application
<1>4. /\ AskedOf(req[h]) = DocumentRows!Asking("upload", t)
      /\ AskedOf(Idle) = DocumentRows!Nothing
  BY <1>2 DEF WriteUpload, At, AskedOf, Idle, DocumentRows!Asking, DocumentRows!Nothing
<1>5. DocumentRows!Upload(h, t)
  BY <1>1, <1>3, <1>4, HandlerAsks DEF WriteUpload, Finish, DocumentRows!Upload
<1>6. QED
  BY <1>5 DEF DocumentRows!Next

\* The row is looked up: there, or not.
LEMMA RowLookedUp ==
    ASSUME IInv, NEW h \in Handler, LookupDocument(h)
    PROVE  DocumentRows!Next
<1>1. req \in [Handler -> Request] /\ app' = app /\ (Closed' <=> Closed)
  BY DEF IInv, RowsTyped, LookupDocument, Closed
<1>2. CASE req[h].doc \notin app.docs
  <2>1. req' = [req EXCEPT ![h] = Idle]
    BY <1>2 DEF Leave, LookupDocument, Finish
  <2>2. QED
    BY <1>1, <2>1, HandlerLeaves DEF Idle
<1>3. CASE req[h].doc \in app.docs
  <2>1. PICK t \in DocType : t = req[h].doc
    BY DEF IInv, RequestsJustified, Justified, DocLabels, LookupDocument, At
  <2>2. PICK r \in Request : r = [req[h] EXCEPT !.pc = "delete.write"]
    BY <1>1 DEF Request, Label
  <2>3. req' = [req EXCEPT ![h] = r]
    BY <1>1, <1>3, <2>2 DEF LookupDocument, Goto
  <2>4. /\ AskedOf(req[h]) = DocumentRows!Asking("find", t)
        /\ AskedOf(r) = DocumentRows!Asking("delete", t)
    BY <1>1, <2>1, <2>2 DEF LookupDocument, At, AskedOf, Request, DocumentRows!Asking
  <2>5. DocumentRows!Find(h, t)
    BY <1>1, <1>3, <2>1, <2>3, <2>4, HandlerAsks DEF DocumentRows!Find
  <2>6. QED
    BY <2>5 DEF DocumentRows!Next
<1>4. QED
  BY <1>2, <1>3

\* The row is deleted, and with it what the others found.
LEMMA RowDeleted ==
    ASSUME IInv, FoundStays, NEW h \in Handler, WriteDelete(h)
    PROVE  DocumentRows!Next
<1>1. req \in [Handler -> Request] /\ app \in Application
  BY DEF IInv, RowsTyped
<1>2. req[h].pc = "delete.write"
  BY DEF WriteDelete, At
<1>3. PICK t \in DocType : t = req[h].doc
  BY <1>2 DEF IInv, RequestsJustified, Justified, DocLabels
<1>4. t \in app.docs /\ AskedOf(req[h]) = DocumentRows!Asking("delete", t)
  BY <1>2, <1>3 DEF FoundStays, AskedOf, DocumentRows!Asking
<1>5. app'.docs = app.docs \ {t} /\ (Closed' <=> Closed)
  BY <1>1, <1>3 DEF WriteDelete, Closed, Application
<1>6. \A g \in Handler :
          AskedOf(req[g]) = DocumentRows!Asking("delete", t) <=> g \in DeletingRowOf(h)
  BY <1>1, <1>3 DEF AskedOf, DocumentRows!Asking, DeletingRowOf, At
<1>7. AskedOf(Idle) = DocumentRows!Nothing
  BY DEF AskedOf, Idle, DocumentRows!Nothing
<1>8. ASSUME NEW g \in Handler
      PROVE  AskedOf(req'[g]) = IF AskedOf(req[g]) = DocumentRows!Asking("delete", t)
                                THEN DocumentRows!Nothing ELSE AskedOf(req[g])
  <2>1. req'[g] = IF g \in DeletingRowOf(h) THEN Idle ELSE req[g]
    BY DEF WriteDelete
  <2>2. QED
    BY <1>6, <1>7, <2>1
<1>9. DocumentRows!Delete(h, t)
  BY <1>4, <1>5, <1>8 DEF DocumentRows!Delete
<1>10. QED
  BY <1>9 DEF DocumentRows!Next

\* Every step of the application is a step about its rows, or none.
LEMMA RowsStep ==
    ASSUME IInv, FoundStays, [Next]_vars
    PROVE  DocumentRows!Next \/ UNCHANGED DocumentRows!documentRows
<1>1. req \in [Handler -> Request] /\ app \in Application
  BY DEF IInv, RowsTyped
<1>2. CASE CreateApplication \/ UNCHANGED vars \/ \E i \in DOMAIN challenges : PassTime(i)
  <2>1. app'.docs = app.docs /\ (Closed' <=> Closed) /\ req' = req
    BY <1>1, <1>2 DEF CreateApplication, PassTime, vars, Closed, Application
  <2>2. QED
    BY <2>1, NothingAsked
<1>3. ASSUME NEW h \in Handler, Fail(h)
      PROVE  DocumentRows!Next
  BY <1>1, <1>3, HandlerLeaves DEF Leave, Fail, Finish, Idle, Closed
<1>4. ASSUME NEW h \in Handler, NEW r, req' = [req EXCEPT ![h] = r],
             r.pc \notin {"upload.write", "delete.lookup", "delete.write"},
             app'.docs = app.docs, app'.status = app.status
      PROVE  DocumentRows!Next
  BY <1>1, <1>4, HandlerLeaves DEF Closed
<1>5. ASSUME NEW h \in Handler, WriteSubmit(h) \/ WriteCancel(h) \/ WriteReview(h)
      PROVE  DocumentRows!Next \/ UNCHANGED DocumentRows!documentRows
  <2>1. app'.docs = app.docs /\ req' = [req EXCEPT ![h] = Idle]
    BY <1>1, <1>5 DEF WriteSubmit, WriteCancel, WriteReview, Finish, Application
  <2>2. AskedOf(Idle) = AskedOf(req[h])
    BY <1>5 DEF WriteSubmit, WriteCancel, WriteReview, At, AskedOf, Idle
  <2>3. UNCHANGED [g \in Handler |-> AskedOf(req[g])]
    BY <1>1, <2>1, <2>2, HandlerAsks
  <2>4. CASE Closed' <=> Closed
    BY <2>1, <2>3, <2>4, NothingAsked
  <2>5. CASE Closed' /\ ~Closed
    <3>1. DocumentRows!LeaveDraft
      BY <2>1, <2>3, <2>5 DEF DocumentRows!LeaveDraft
    <3>2. QED
      BY <3>1 DEF DocumentRows!Next
  <2>6. Closed => Closed'
    BY <1>5, StaysClosed DEF IInv, Continue
  <2>7. QED
    BY <2>4, <2>5, <2>6
<1>6. ASSUME NEW h \in Handler,
             \/ WritePersonal(h) \/ WriteVehicle(h) \/ WriteFinancing(h)
             \/ CommitChallenge(h) \/ CountMiss(h) \/ ConfirmPhone(h)
      PROVE  DocumentRows!Next
  <2>1. /\ req' = [req EXCEPT ![h] = Idle]
        /\ app'.docs = app.docs /\ app'.status = app.status
    BY <1>1, <1>6 DEF Leave, WritePersonal, WriteVehicle, WriteFinancing, CommitChallenge,
       CountMiss, ConfirmPhone, Finish, Application
  <2>2. QED
    BY <1>4, <2>1 DEF Idle
<1>7. ASSUME NEW h \in Handler,
             LookupRecent(h) \/ SendCode(h) \/ BeginChallenge(h) \/ LookupChallenge(h)
      PROVE  DocumentRows!Next
  <2>1. app' = app
    BY <1>7 DEF LookupRecent, SendCode, BeginChallenge, LookupChallenge
  <2>2. PICK r : /\ req' = [req EXCEPT ![h] = r]
                 /\ r.pc \in {"idle", "otp.send", "otp.begin", "otp.commit",
                              "verify.hit", "verify.miss"}
    <3>1. CASE SendCode(h) \/ BeginChallenge(h)
      <4>1. PICK r : /\ req' = [req EXCEPT ![h] = r]
                     /\ \/ r = [req[h] EXCEPT !.pc = "otp.begin"]
                        \/ r = [req[h] EXCEPT !.pc = "otp.commit", !.seen = OpenChallenges]
        BY <3>1 DEF SendCode, BeginChallenge, Goto
      <4>2. QED
        BY <1>1, <4>1 DEF Request
    <3>2. CASE LookupRecent(h)
      <4>1. \/ req' = [req EXCEPT ![h] = Idle]
            \/ req' = [req EXCEPT ![h] = [req[h] EXCEPT !.pc = "otp.send"]]
        BY <3>2 DEF Leave, LookupRecent, Goto, Finish
      <4>2. [req[h] EXCEPT !.pc = "otp.send"].pc = "otp.send" /\ Idle.pc = "idle"
        BY <1>1 DEF Request, Idle
      <4>3. QED
        BY <4>1, <4>2
    <3>3. CASE LookupChallenge(h)
      <4>1. CASE req' = [req EXCEPT ![h] = Idle]
        <5>1. Idle.pc = "idle"
          BY DEF Idle
        <5>2. QED
          BY <4>1, <5>1
      <4>2. CASE req' # [req EXCEPT ![h] = Idle]
        <5>1. PICK i \in DOMAIN challenges, outcome \in {"verify.hit", "verify.miss"} :
                  req' = [req EXCEPT ![h].pc = outcome, ![h].challenge = i]
          BY <3>3, <4>2 DEF Leave, LookupChallenge, Finish
        <5>2. PICK r : r = [req[h] EXCEPT !.pc = outcome, !.challenge = i]
          OBVIOUS
        <5>3. req' = [req EXCEPT ![h] = r] /\ r.pc = outcome
          BY <1>1, <5>1, <5>2 DEF Request
        <5>4. QED
          BY <5>3
      <4>3. QED
        BY <4>1, <4>2
    <3>4. QED
      BY <1>7, <3>1, <3>2, <3>3
  <2>3. QED
    BY <1>4, <2>1, <2>2
<1>7a. ASSUME NEW h \in Handler, LookupDocuments(h)
       PROVE  DocumentRows!Next
  <2>1. PICK r : req' = [req EXCEPT ![h] = r] /\ r.pc \in {"idle", "submit.write"}
    BY <1>1, <1>7a, DocumentsLookedAt
  <2>2. QED
    BY <1>1, <1>4, <1>7a, <2>1, DocumentsLookedAt
<1>8. ASSUME NEW h \in Handler, Continue(h)
      PROVE  DocumentRows!Next \/ UNCHANGED DocumentRows!documentRows
  BY <1>5, <1>6, <1>7, <1>7a, <1>8, RowUpserted, RowLookedUp, RowDeleted, Zenon DEF Continue
<1>9. QED
  BY <1>2, <1>3, <1>8, RowsArrive, Zenon DEF Next

\* The application implements the promise about the rows of its documents: what
\* a request does to a row, it set out to do while the application was a draft,
\* and a row goes only to one of the requests that found it.
THEOREM DocumentsArePromised == Spec => DocumentRows!Spec
<1>1. Init => DocumentRows!Init
  BY DEF Init, Closed, Idle, AskedOf, DocumentRows!Init, DocumentRows!Nothing
<1>2. IInv /\ FoundStays /\ [Next]_vars => [DocumentRows!Next]_(DocumentRows!documentRows)
  BY RowsStep
<1>3. QED
  BY <1>1, <1>2, InductiveInvariant, InitFoundStays, NextFoundStays, PTL
     DEF Spec, DocumentRows!Spec

-----------------------------------------------------------------------------
(* The quote of a financing plan                                           *)

\* Whatever a package costs, each plan adds up: no change of the prices makes
\* the payments drift from the total by more than their own rounding.
THEOREM QuoteAddsUp ==
    ASSUME NEW price \in Nat, NEW id \in PlanId
    PROVE  AddsUp(QuoteAt(price, id))
<1>1. PICK plan : plan = CngFinancingPlans[id]
  OBVIOUS
<1>2. PICK quote : quote = QuoteAt(price, id)
  OBVIOUS
<1>3. /\ quote.plan = id /\ quote.price = price
      /\ quote.deposit = Deposit(price, plan) /\ quote.financed = Financed(price, plan)
      /\ quote.monthly = MonthlyPayment(price, plan)
      /\ quote.total = TotalCost(price, plan)
  BY <1>1, <1>2 DEF QuoteAt
<1>4. plan \in {[depositPct |-> 100, tenure |-> 0, interestPct |-> 0],
               [depositPct |-> 50, tenure |-> 6, interestPct |-> 10],
               [depositPct |-> 20, tenure |-> 10, interestPct |-> 15],
               [depositPct |-> 10, tenure |-> 12, interestPct |-> 20]}
  BY <1>1 DEF PlanId, CngFinancingPlans
<1>5. LET paid == Deposit(price, plan) + plan.tenure * MonthlyPayment(price, plan)
      IN  /\ 2 * (paid - TotalCost(price, plan)) <= plan.tenure
          /\ 2 * (TotalCost(price, plan) - paid) <= plan.tenure
          /\ Financed(price, plan) >= 0
          /\ MonthlyPayment(price, plan) >= 0
          /\ plan.tenure = 0 => paid = price /\ Financed(price, plan) = 0
  <2> USE DEF TotalCost, MonthlyPayment, Financed, Interest, Deposit, RoundedQuotient
  <2>1. CASE plan = [depositPct |-> 100, tenure |-> 0, interestPct |-> 0]
    BY <2>1
  <2>2. CASE plan = [depositPct |-> 50, tenure |-> 6, interestPct |-> 10]
    BY <2>2
  <2>3. CASE plan = [depositPct |-> 20, tenure |-> 10, interestPct |-> 15]
    BY <2>3
  <2>4. CASE plan = [depositPct |-> 10, tenure |-> 12, interestPct |-> 20]
    BY <2>4
  <2>5. QED
    BY <1>4, <2>1, <2>2, <2>3, <2>4
<1>6. QED
  BY <1>1, <1>2, <1>3, <1>5 DEF AddsUp

\* Whatever interleaves, the quote on record is one that was computed for a package
\* and a plan that were asked for, and so it adds up.
THEOREM RecordedQuotesAddUp == Spec => []RecordedQuoteAddsUp
<1>1. ASSUME NEW quote \in Quote
      PROVE  AddsUp(quote)
  <2>1. PICK c \in Choice : quote = QuoteOf(c[1], c[2])
    BY DEF Quote
  <2>2. CngPackages[c[1]] \in Nat /\ c[2] \in PlanId
    BY <2>1, ChoiceAssumption DEF PackageId, CngPackages
  <2>3. QED
    BY <2>1, <2>2, QuoteAddsUp DEF QuoteOf
<1>2. IInv => RecordedQuoteAddsUp
  BY <1>1 DEF IInv, Quoted, RecordedQuoteAddsUp
<1>3. QED
  BY <1>2, InductiveInvariant, PTL
=============================================================================
