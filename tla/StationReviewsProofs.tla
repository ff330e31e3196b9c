------------------------ MODULE StationReviewsProofs ------------------------
(***************************************************************************)
(* The reviews of a station, their rating and their cached answers, for    *)
(* any number of requests and users.                                       *)
(*                                                                         *)
(* The argument has three parts, each an invariant of its own on top of    *)
(* what is known of the requests.  The rows: a user whose requests never   *)
(* met has at most one request to review under way, so a row it did not    *)
(* find is not there when it writes.  The rating: a lone recalculation has *)
(* read the reviews as they are.  The cache: a request that nothing has    *)
(* met is the only one that can fill or forget an answer, and it knows the *)
(* reviews, or a rating that is up to date.                                *)
(***************************************************************************)
EXTENDS StationReviews, TLAPS

\* What is known of a request and of the row it may have created.
Known(r) ==
    /\ pc[r] \in Reviewing => user[r] \in User
    /\ pc[r] = "review.write" /\ row[r] # NoReview => row[r] \in RowsOf(user[r])
    /\ task[r] # "none" => pc[r] \in {"review.forget", "done"}
    /\ task[r] = "store" => view[r] \in Snapshot
    /\ pc[r] = "read.set" => view[r] \in Snapshot
    /\ pc[r] \in Reading => \E k \in Key : keys[r] = {k}
    /\ reviews[r] # NoReview => pc[r] # "new" /\ pc[reviews[r]] # "new"

AllKnown == \A r \in Request : Known(r)

\* Two requests to review of one user, at a time, have been noticed.
Apart == \A q, r \in Request :
    q # r /\ user[q] = user[r] /\ pc[q] \in Reviewing /\ pc[r] \in Reviewing
        => user[q] \in doubled

\* A row that was not found is not there yet.
StillAbsent == \A r \in Request :
    pc[r] = "review.write" /\ row[r] = NoReview /\ user[r] \notin doubled
        => RowsOf(user[r]) = {}

RowsInv == OwnReviewsOnly /\ Apart /\ StillAbsent /\ OneReviewPerUser

\* The lone recalculation has read the reviews as they are.
LoneTask == \A q, r \in Request : task[q] # "none" /\ task[r] # "none" => q = r
ReadUpToDate == \A r \in Request : task[r] = "store" => view[r] = reviews

RatingInv == mishaps \cap {"crossed", "fault"} = {} =>
    LoneTask /\ ReadUpToDate /\ (~Recalculating => rating = reviews)

\* The only request under way, and what it leaves under a key.
LoneRequest == \A q, r \in Request :
    pc[q] \in InFlight /\ pc[r] \in InFlight => q = r
Forgetting(k) == \E r \in Request : pc[r] = "review.forget" /\ k \in keys[r]
UpToDate(k) ==
    /\ ~Forgetting(k) => cache[k] \in {NoEntry, reviews}
    /\ \A r \in Request : pc[r] = "read.set" /\ k \in keys[r] => view[r] = reviews

FirstPageInv == mishaps \cap {"overlap", "fault"} = {} =>
    LoneRequest /\ UpToDate("first")

\* Nothing else is under way while a rating is recalculated.
TaskAlone == \A q, r \in Request :
    pc[q] \in InFlight /\ task[r] # "none" => q = r

DetailInv == mishaps = {} => TaskAlone /\ UpToDate("detail")

IInv == TypeOK /\ AllKnown /\ RowsInv /\ RatingInv /\ FirstPageInv /\ DetailInv

LEMMA InitIInv == Init => IInv
BY ReviewAssumption DEF Init, IInv, TypeOK, Snapshot, NoReviews, AllKnown, Known,
   Reviewing, Reading, InFlight, RowsInv, OwnReviewsOnly, Apart, StillAbsent,
   OneReviewPerUser, RowsOf, RatingInv, LoneTask, ReadUpToDate, Recalculating,
   FirstPageInv, LoneRequest, UpToDate, Forgetting, DetailInv, TaskAlone, Key, Page

\* What happens is not forgotten.
LEMMA MishapsStay ==
    ASSUME TypeOK, [Next]_vars
    PROVE  mishaps \subseteq mishaps'
BY DEF TypeOK, Next, vars, Review, ReviewComes, Comes, FindReview, WriteReview, Forget,
   Recalculate, Aggregate, StoreRating, RecalculationFails, Read, ReadComes,
   GetCached, FindShown, SetCached, Expire, Fail

\* A request that comes is noticed by those it meets.
LEMMA ComingNoticed ==
    ASSUME TypeOK, NEW r \in Request, NEW label, Comes(r, label)
    PROVE  /\ "overlap" \notin mishaps' => ~Busy
           /\ "behind" \notin mishaps' => ~Recalculating
BY DEF Comes

\* The rows change only when a review is written, their users never.
LEMMA SameRows ==
    ASSUME TypeOK, reviews' = reviews,
           \A q \in Request : reviews[q] # NoReview => user'[q] = user[q],
           NEW u
    PROVE  RowsOf(u)' = RowsOf(u)
BY DEF RowsOf

-----------------------------------------------------------------------------
(* Types and what is known of the requests                                 *)

LEMMA NextTyped ==
    ASSUME IInv, [Next]_vars
    PROVE  TypeOK'
<1> USE DEF IInv, TypeOK
<1>1. ASSUME NEW r \in Request, NEW u \in User, ReviewComes(r, u)
      PROVE  TypeOK'
  BY <1>1 DEF ReviewComes, Comes, Goto, Mishap, InFlight, Reviewing, stored
<1>2. ASSUME NEW r \in Request, FindReview(r)
      PROVE  TypeOK'
  BY <1>2 DEF FindReview, Goto, RowsOf, InFlight, Reviewing, stored
<1>3. ASSUME NEW r \in Request, WriteReview(r)
      PROVE  TypeOK'
  <2>1. reviews' \in Snapshot
    BY <1>3 DEF WriteReview, Snapshot
  <2>2. QED
    BY <1>3, <2>1 DEF WriteReview, Goto, Mishap, InFlight, Reviewing, Invalidated,
       Key, Page
<1>4. ASSUME NEW r \in Request, NEW k \in Key, Forget(r, k)
      PROVE  TypeOK'
  BY <1>4 DEF Forget, Goto, InFlight, Reviewing
<1>5. ASSUME NEW r \in Request, Recalculate(r)
      PROVE  TypeOK'
  <2>1. CASE Aggregate(r)
    BY <2>1 DEF Aggregate, stored
  <2>2. CASE StoreRating(r)
    BY <2>2 DEF StoreRating, locals, AllKnown, Known
  <2>3. CASE RecalculationFails(r)
    BY <2>3 DEF RecalculationFails, stored, locals, Mishap
  <2>4. QED
    BY <1>5, <2>1, <2>2, <2>3 DEF Recalculate
<1>6. ASSUME NEW r \in Request, NEW k \in Key,
             ReadComes(r, k) \/ GetCached(r, k) \/ FindShown(r, k)
      PROVE  TypeOK'
  <2>1. CASE ReadComes(r, k)
    BY <2>1 DEF ReadComes, Comes, Goto, Mishap, InFlight, Reading, stored
  <2>2. CASE GetCached(r, k)
    BY <2>2 DEF GetCached, Goto, InFlight, Reading, stored, locals
  <2>3. CASE FindShown(r, k)
    BY <2>3 DEF FindShown, Shown, Goto, InFlight, Reading, stored
  <2>4. QED
    BY <1>6, <2>1, <2>2, <2>3
<1>7. ASSUME NEW r \in Request, NEW k \in Key, SetCached(r, k)
      PROVE  TypeOK'
  BY <1>7 DEF SetCached, Goto, locals, AllKnown, Known
<1>8. ASSUME NEW k \in Key, Expire(k)
      PROVE  TypeOK'
  BY <1>8 DEF Expire, locals
<1>9. ASSUME NEW r \in Request, Fail(r)
      PROVE  TypeOK'
  BY <1>9 DEF Fail, Goto, Mishap, stored, locals
<1>10. CASE UNCHANGED vars
  BY <1>10 DEF vars, stored, locals
<1>11. QED
  BY <1>1, <1>2, <1>3, <1>4, <1>5, <1>6, <1>7, <1>8, <1>9, <1>10
     DEF Next, Review, Read

LEMMA NextKnown ==
    ASSUME IInv, [Next]_vars
    PROVE  AllKnown'
<1> USE DEF IInv, TypeOK, AllKnown, Known, Reviewing, Reading
<1>1. ASSUME NEW r \in Request, NEW u \in User, ReviewComes(r, u)
      PROVE  AllKnown'
  BY <1>1, ReviewAssumption DEF ReviewComes, Comes, Goto, RowsOf, stored, Snapshot
<1>2. ASSUME NEW r \in Request, FindReview(r)
      PROVE  AllKnown'
  BY <1>2 DEF FindReview, Goto, RowsOf, stored, Snapshot
<1>3. ASSUME NEW r \in Request, WriteReview(r)
      PROVE  AllKnown'
  BY <1>3, ReviewAssumption DEF WriteReview, Goto, RowsOf, Snapshot
<1>4. ASSUME NEW r \in Request, NEW k \in Key, Forget(r, k)
      PROVE  AllKnown'
  BY <1>4 DEF Forget, Goto, RowsOf, Snapshot
<1>5. ASSUME NEW r \in Request, Recalculate(r)
      PROVE  AllKnown'
  BY <1>5 DEF Recalculate, Aggregate, StoreRating, RecalculationFails, stored,
     locals, RowsOf, Snapshot
<1>6. ASSUME NEW r \in Request, NEW k \in Key,
             ReadComes(r, k) \/ GetCached(r, k) \/ FindShown(r, k) \/ SetCached(r, k)
      PROVE  AllKnown'
  BY <1>6 DEF ReadComes, Comes, GetCached, FindShown, SetCached, Shown, Goto,
     stored, locals, RowsOf, Snapshot
<1>7. ASSUME NEW k \in Key, Expire(k)
      PROVE  AllKnown'
  BY <1>7 DEF Expire, locals, RowsOf
<1>8. ASSUME NEW r \in Request, Fail(r)
      PROVE  AllKnown'
  BY <1>8 DEF Fail, Goto, stored, locals, RowsOf, Snapshot
<1>9. CASE UNCHANGED vars
  BY <1>9 DEF vars, stored, locals, RowsOf
<1>10. QED
  BY <1>1, <1>2, <1>3, <1>4, <1>5, <1>6, <1>7, <1>8, <1>9 DEF Next, Review, Read

-----------------------------------------------------------------------------
(* The rows                                                                *)

LEMMA NextRows ==
    ASSUME IInv, [Next]_vars
    PROVE  RowsInv'
<1> USE DEF IInv, TypeOK, RowsInv, OwnReviewsOnly, Apart, StillAbsent,
            OneReviewPerUser, RowsOf, Reviewing
<1>1. ASSUME NEW r \in Request, NEW u \in User, ReviewComes(r, u)
      PROVE  RowsInv'
  BY <1>1, ReviewAssumption DEF ReviewComes, Comes, Goto, stored, AllKnown, Known, Snapshot
<1>2. ASSUME NEW r \in Request, FindReview(r)
      PROVE  RowsInv'
  BY <1>2 DEF FindReview, Goto, stored
<1>3. ASSUME NEW r \in Request, WriteReview(r)
      PROVE  RowsInv'
  BY <1>3, ReviewAssumption DEF WriteReview, Goto, AllKnown, Known, Snapshot
<1>4. ASSUME NEW r \in Request, NEW k \in Key, Forget(r, k)
      PROVE  RowsInv'
  BY <1>4 DEF Forget, Goto
<1>5. ASSUME NEW r \in Request, Recalculate(r)
      PROVE  RowsInv'
  BY <1>5 DEF Recalculate, Aggregate, StoreRating, RecalculationFails, stored, locals
<1>6. ASSUME NEW r \in Request, NEW k \in Key,
             ReadComes(r, k) \/ GetCached(r, k) \/ FindShown(r, k) \/ SetCached(r, k)
      PROVE  RowsInv'
  BY <1>6 DEF ReadComes, Comes, GetCached, FindShown, SetCached, Goto, stored, locals
<1>7. ASSUME NEW k \in Key, Expire(k)
      PROVE  RowsInv'
  BY <1>7 DEF Expire, locals
<1>8. ASSUME NEW r \in Request, Fail(r)
      PROVE  RowsInv'
  BY <1>8 DEF Fail, Goto, stored, locals
<1>9. CASE UNCHANGED vars
  BY <1>9 DEF vars, stored, locals
<1>10. QED
  BY <1>1, <1>2, <1>3, <1>4, <1>5, <1>6, <1>7, <1>8, <1>9 DEF Next, Review, Read

-----------------------------------------------------------------------------
(* The rating                                                              *)

LEMMA NextRating ==
    ASSUME IInv, [Next]_vars
    PROVE  RatingInv'
<1> SUFFICES ASSUME mishaps' \cap {"crossed", "fault"} = {}
             PROVE  (LoneTask /\ ReadUpToDate /\ (~Recalculating => rating = reviews))'
  BY DEF RatingInv
<1>0. /\ mishaps \cap {"crossed", "fault"} = {}
      /\ LoneTask /\ ReadUpToDate /\ (~Recalculating => rating = reviews)
  BY MishapsStay DEF IInv, RatingInv
<1> USE <1>0 DEF IInv, TypeOK, LoneTask, ReadUpToDate, Recalculating
<1>1. ASSUME NEW r \in Request, NEW u \in User, ReviewComes(r, u)
      PROVE  (LoneTask /\ ReadUpToDate /\ (~Recalculating => rating = reviews))'
  BY <1>1 DEF ReviewComes, stored
<1>2. ASSUME NEW r \in Request, FindReview(r)
      PROVE  (LoneTask /\ ReadUpToDate /\ (~Recalculating => rating = reviews))'
  BY <1>2 DEF FindReview, stored
<1>3. ASSUME NEW r \in Request, WriteReview(r)
      PROVE  (LoneTask /\ ReadUpToDate /\ (~Recalculating => rating = reviews))'
  <2>1. ~Recalculating
    BY <1>3 DEF WriteReview
  <2>2. QED
    BY <1>3, <2>1 DEF WriteReview
<1>4. ASSUME NEW r \in Request, NEW k \in Key, Forget(r, k)
      PROVE  (LoneTask /\ ReadUpToDate /\ (~Recalculating => rating = reviews))'
  BY <1>4 DEF Forget
<1>5. ASSUME NEW r \in Request, Aggregate(r) \/ StoreRating(r)
      PROVE  (LoneTask /\ ReadUpToDate /\ (~Recalculating => rating = reviews))'
  BY <1>5 DEF Aggregate, StoreRating, stored, locals
<1>6. ASSUME NEW r \in Request, NEW k \in Key,
             ReadComes(r, k) \/ GetCached(r, k) \/ FindShown(r, k) \/ SetCached(r, k)
      PROVE  (LoneTask /\ ReadUpToDate /\ (~Recalculating => rating = reviews))'
  BY <1>6 DEF ReadComes, GetCached, FindShown, SetCached, stored, locals, AllKnown, Known
<1>7. ASSUME NEW k \in Key, Expire(k)
      PROVE  (LoneTask /\ ReadUpToDate /\ (~Recalculating => rating = reviews))'
  BY <1>7 DEF Expire, locals
<1>8. ASSUME NEW r \in Request, RecalculationFails(r) \/ Fail(r)
      PROVE  FALSE
  BY <1>8 DEF RecalculationFails, Fail
<1>9. CASE UNCHANGED vars
  BY <1>9 DEF vars, stored, locals
<1>10. QED
  BY <1>1, <1>2, <1>3, <1>4, <1>5, <1>6, <1>7, <1>8, <1>9
     DEF Next, Review, Recalculate, Read

-----------------------------------------------------------------------------
(* The cached answers                                                      *)

\* With no request met so far, at most one is under way after the step.
LEMMA NextLone ==
    ASSUME IInv, [Next]_vars, mishaps' \cap {"overlap", "fault"} = {}
    PROVE  LoneRequest /\ LoneRequest'
<1>0. LoneRequest
  BY MishapsStay DEF IInv, FirstPageInv
<1> USE <1>0 DEF IInv, TypeOK, LoneRequest, InFlight, Reviewing, Reading
<1>1. ASSUME NEW r \in Request, NEW label, Comes(r, label)
      PROVE  LoneRequest'
  BY <1>1, ComingNoticed DEF Comes, Goto, Busy
<1>2. ASSUME NEW r \in Request, pc[r] \in InFlight,
             \A q \in Request : q # r => pc'[q] = pc[q]
      PROVE  LoneRequest'
  BY <1>2
<1>3. CASE UNCHANGED pc
  BY <1>3
<1>4. ASSUME NEW r \in Request, Fail(r)
      PROVE  FALSE
  BY <1>4 DEF Fail
<1>5. QED
  BY <1>0, <1>1, <1>2, <1>3, <1>4 DEF Next, vars, Review, ReviewComes, FindReview, WriteReview,
     Forget, Recalculate, Aggregate, StoreRating, RecalculationFails, Read, ReadComes,
     GetCached, FindShown, SetCached, Expire, Goto

\* A key that every review forgets stays up to date, as long as the request
\* under way is alone and what it reads for the key is of the reviews.
LEMMA NextUpToDate ==
    ASSUME IInv, [Next]_vars, mishaps' \cap {"overlap", "fault"} = {},
           NEW k \in Invalidated, UpToDate(k),
           \A r \in Request : FindShown(r, k) => Shown(k) = reviews
    PROVE  UpToDate(k)'
<1>0. LoneRequest /\ LoneRequest' /\ k \in Key
  BY NextLone DEF Invalidated, Key, Page
<1> USE <1>0 DEF IInv, TypeOK, UpToDate, Forgetting
<1>1. ASSUME NEW r \in Request, NEW u \in User, ReviewComes(r, u)
      PROVE  UpToDate(k)'
  BY <1>1 DEF ReviewComes, Comes, Goto, stored
<1>2. ASSUME NEW r \in Request, FindReview(r)
      PROVE  UpToDate(k)'
  BY <1>2 DEF FindReview, Goto, stored
<1>3. ASSUME NEW r \in Request, WriteReview(r)
      PROVE  UpToDate(k)'
  BY <1>3 DEF WriteReview, Goto, LoneRequest, InFlight, Reviewing, Reading
<1>4. ASSUME NEW r \in Request, NEW j \in Key, Forget(r, j)
      PROVE  UpToDate(k)'
  BY <1>4 DEF Forget, Goto
<1>5. ASSUME NEW r \in Request, Aggregate(r) \/ StoreRating(r)
      PROVE  UpToDate(k)'
  BY <1>5 DEF Aggregate, StoreRating, stored, locals, AllKnown, Known
<1>6. ASSUME NEW r \in Request, NEW j \in Key, ReadComes(r, j) \/ GetCached(r, j)
      PROVE  UpToDate(k)'
  BY <1>6 DEF ReadComes, Comes, GetCached, Goto, stored, locals
<1>7. ASSUME NEW r \in Request, NEW j \in Key, FindShown(r, j)
      PROVE  UpToDate(k)'
  <2>1. k \in keys[r] => j = k
    BY <1>7 DEF FindShown, AllKnown, Known, Reading
  <2>2. k \in keys[r] => Shown(j) = reviews
    BY <1>7, <2>1
  <2>3. QED
    BY <1>7, <2>2 DEF FindShown, Goto, stored
<1>8. ASSUME NEW r \in Request, NEW j \in Key, SetCached(r, j)
      PROVE  UpToDate(k)'
  BY <1>8 DEF SetCached, Goto, locals
<1>9. ASSUME NEW j \in Key, Expire(j)
      PROVE  UpToDate(k)'
  BY <1>9 DEF Expire, locals
<1>10. ASSUME NEW r \in Request, RecalculationFails(r) \/ Fail(r)
      PROVE  FALSE
  BY <1>10 DEF RecalculationFails, Fail
<1>11. CASE UNCHANGED vars
  BY <1>11 DEF vars, stored, locals
<1>12. QED
  BY <1>1, <1>2, <1>3, <1>4, <1>5, <1>6, <1>7, <1>8, <1>9, <1>10, <1>11
     DEF Next, Review, Recalculate, Read

LEMMA NextFirstPage ==
    ASSUME IInv, [Next]_vars
    PROVE  FirstPageInv'
<1> SUFFICES ASSUME mishaps' \cap {"overlap", "fault"} = {}
             PROVE  LoneRequest' /\ UpToDate("first")'
  BY DEF FirstPageInv
<1>1. UpToDate("first") /\ "first" \in Invalidated /\ Shown("first") = reviews
  BY MishapsStay DEF IInv, FirstPageInv, Invalidated, Shown
<1>2. QED
  BY <1>1, NextLone, NextUpToDate

\* With nothing met so far, nothing is met after the step either.
LEMMA NextTaskAlone ==
    ASSUME IInv, [Next]_vars, mishaps' = {}
    PROVE  TaskAlone /\ TaskAlone'
<1>0. TaskAlone /\ LoneRequest /\ LoneRequest'
  BY MishapsStay, NextLone DEF IInv, DetailInv, TypeOK
<1> USE <1>0 DEF IInv, TypeOK, TaskAlone, InFlight, Reviewing, Reading
<1>1. ASSUME NEW r \in Request, NEW label, Comes(r, label), UNCHANGED task
      PROVE  TaskAlone'
  BY <1>1, ComingNoticed DEF Comes, Goto, Recalculating
<1>2. ASSUME NEW r \in Request, pc[r] \in InFlight, UNCHANGED task,
             \A q \in Request : q # r => pc'[q] = pc[q]
      PROVE  TaskAlone'
  BY <1>2
<1>3. ASSUME NEW r \in Request, WriteReview(r)
      PROVE  TaskAlone'
  <2>1. ~Recalculating
    BY <1>3 DEF WriteReview
  <2>2. QED
    BY <1>3, <2>1 DEF WriteReview, Goto, Recalculating, LoneRequest
<1>4. ASSUME NEW r \in Request, Aggregate(r) \/ StoreRating(r)
      PROVE  TaskAlone'
  BY <1>4 DEF Aggregate, StoreRating
<1>5. CASE UNCHANGED <<pc, task>>
  BY <1>5
<1>6. ASSUME NEW r \in Request, RecalculationFails(r) \/ Fail(r)
      PROVE  FALSE
  BY <1>6 DEF RecalculationFails, Fail
<1>7. QED
  BY <1>0, <1>1, <1>2, <1>3, <1>4, <1>5, <1>6
     DEF Next, vars, locals, Review, ReviewComes, FindReview, Forget, Recalculate, Read,
         ReadComes, GetCached, FindShown, SetCached, Expire, Goto

LEMMA NextDetail ==
    ASSUME IInv, [Next]_vars
    PROVE  DetailInv'
<1> SUFFICES ASSUME mishaps' = {}
             PROVE  TaskAlone' /\ UpToDate("detail")'
  BY DEF DetailInv
<1>1. mishaps = {} /\ UpToDate("detail") /\ "detail" \in Invalidated
  BY MishapsStay DEF IInv, DetailInv, Invalidated, TypeOK
<1>2. TaskAlone /\ TaskAlone'
  BY NextTaskAlone
<1>3. ASSUME NEW r \in Request, FindShown(r, "detail")
      PROVE  rating = reviews
  <2>1. ~Recalculating
    BY <1>2, <1>3 DEF FindShown, TaskAlone, InFlight, Reading, Recalculating, IInv,
       AllKnown, Known
  <2>2. QED
    BY <1>1, <2>1 DEF IInv, RatingInv
<1>4. QED
  BY <1>1, <1>2, <1>3, NextUpToDate DEF Shown

-----------------------------------------------------------------------------
LEMMA InductiveInvariant == Spec => []IInv
<1>1. IInv /\ [Next]_vars => IInv'
  BY NextTyped, NextKnown, NextRows, NextRating, NextFirstPage, NextDetail DEF IInv
<1>2. QED
  BY <1>1, InitIInv, PTL DEF Spec

\* Every variable of StationReviews keeps its type.
THEOREM ReviewsTyped == Spec => []TypeOK
<1>1. IInv => TypeOK
  BY DEF IInv
<1>2. QED
  BY <1>1, InductiveInvariant, PTL

\* A user has a single review of the station unless two of the user's requests
\* to review it were under way at a time: what createReview looks up is so when
\* it writes.
THEOREM ReviewedOnce == Spec => []OneReviewPerUser
<1>1. IInv => OneReviewPerUser
  BY DEF IInv, RowsInv
<1>2. QED
  BY <1>1, InductiveInvariant, PTL

\* createReview never rewrites the review of another user.
THEOREM ReviewsStayOwn == Spec => []OwnReviewsOnly
<1>1. IInv => OwnReviewsOnly
  BY DEF IInv, RowsInv
<1>2. QED
  BY <1>1, InductiveInvariant, PTL

\* Recalculations that follow one another, and do not fail, leave the station
\* with the rating of its reviews, whatever the requests do meanwhile.
THEOREM RatingIsOfReviews == Spec => []RatingCatchesUp
<1>1. IInv => RatingCatchesUp
  BY DEF IInv, RatingInv, RatingCatchesUp
<1>2. QED
  BY <1>1, InductiveInvariant, PTL

\* With requests in turn, the first page that createReview forgets is filled
\* only with the reviews as they are.
THEOREM FirstPageIsFresh == Spec => []FirstPageFresh
<1>1. IInv => FirstPageFresh
  BY DEF IInv, FirstPageInv, FirstPageFresh, UpToDate, Forgetting, Busy, InFlight,
     Reviewing
<1>2. QED
  BY <1>1, InductiveInvariant, PTL

\* With requests in turn that wait for the recalculations, the detail that
\* findById caches shows the rating of the reviews as they are.
THEOREM DetailIsFresh == Spec => []DetailFresh
<1>1. IInv => DetailFresh
  BY DEF IInv, DetailInv, DetailFresh, UpToDate, Forgetting, AtRest, Busy, InFlight,
     Reviewing
<1>2. QED
  BY <1>1, InductiveInvariant, PTL
=============================================================================
