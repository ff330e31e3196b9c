--------------------------- MODULE StationReviews ---------------------------
(***************************************************************************)
(* The reviews of one station and the two things derived from them: the    *)
(* rating keys in the station's row, and the answers keys in a shared      *)
(* cache for five minutes.  createReview writes a review, starts the       *)
(* recalculation of the rating without waiting for it, and forgets the     *)
(* cached detail and first page; getReviews and findById answer from the   *)
(* cache and fill it.                                                      *)
(*                                                                         *)
(* A request is a member of Request and runs once; the request that        *)
(* creates a row stands for its id, and the request that wrote it last for *)
(* its stars and comment.  A rating is the reviews it was computed from.   *)
(* Each step is one awaited call with the code up to the next, and mishaps *)
(* remembers what has happened besides requests served in turn.            *)
(***************************************************************************)
EXTENDS FiniteSets

CONSTANTS
    User,
    Request,    \* requests to review the station, or to read of it
    NoUser,     \* the user of a request that reads
    NoReview,   \* the null of findFirst, and a row that does not exist
    NoEntry     \* a cache miss

Snapshot == [Request -> Request \cup {NoReview}]

ASSUME UserAssumption == NoUser \notin User
ASSUME ReviewAssumption == NoReview \notin Request
ASSUME EntryAssumption == NoEntry \notin Snapshot

VARIABLES
    reviews,   \* the rows of reviews: for each its last writer
    rating,    \* the reviews that the station's avgRating and reviewCount are of
    cache,     \* what is cached under each key
    pc,        \* the call a request issues next
    user,      \* the user who reviews
    row,       \* the row that createReview found
    view,      \* the reviews that a request, or its recalculation, has read
    keys,      \* the key a request reads, or those it has still to forget
    task,      \* the recalculation that a request has started
    doubled,   \* history: users with two requests to review at a time
    mishaps    \* history: what else has happened

stored == <<reviews, rating, cache>>
locals == <<user, row, view, keys>>
vars == <<stored, pc, locals, task, doubled, mishaps>>

\* The answers of getReviews are cached for each limit and cursor: the first
\* page of ten, and any other page.
Page == {"first", "other"}
Key == Page \cup {"detail"}

\* A request while another is under way; one while a rating is recalculated;
\* two recalculations at a time; a call that fails or a process that stops.
Mishap == {"overlap", "behind", "crossed", "fault"}

Reviewing == {"review.find", "review.write", "review.forget"}
Reading == {"read.get", "read.find", "read.set"}
InFlight == Reviewing \cup Reading

TypeOK == /\ reviews \in Snapshot
          /\ rating \in Snapshot
          /\ cache \in [Key -> Snapshot \cup {NoEntry}]
          /\ pc \in [Request -> {"new", "done"} \cup InFlight]
          /\ user \in [Request -> User \cup {NoUser}]
          /\ row \in [Request -> Request \cup {NoReview}]
          /\ view \in [Request -> Snapshot \cup {NoEntry}]
          /\ keys \in [Request -> SUBSET Key]
          /\ task \in [Request -> {"none", "aggregate", "store"}]
          /\ doubled \subseteq User
          /\ mishaps \subseteq Mishap

NoReviews == [q \in Request |-> NoReview]

Init == /\ reviews = NoReviews
        /\ rating = NoReviews
        /\ cache = [k \in Key |-> NoEntry]
        /\ pc = [r \in Request |-> "new"]
        /\ user = [r \in Request |-> NoUser]
        /\ row = [r \in Request |-> NoReview]
        /\ view = [r \in Request |-> NoEntry]
        /\ keys = [r \in Request |-> {}]
        /\ task = [r \in Request |-> "none"]
        /\ doubled = {}
        /\ mishaps = {}

-----------------------------------------------------------------------------
Goto(r, label) == pc' = [pc EXCEPT ![r] = label]

Busy == \E r \in Request : pc[r] \in InFlight
Recalculating == \E r \in Request : task[r] # "none"
AtRest == ~Busy /\ ~Recalculating

Comes(r, label) ==
    /\ pc[r] = "new"
    /\ Goto(r, label)
    /\ mishaps' = mishaps \cup (IF Busy THEN {"overlap"} ELSE {})
                          \cup (IF Recalculating THEN {"behind"} ELSE {})

-----------------------------------------------------------------------------
(* createReview; the station is there, or the request changes nothing      *)

ReviewComes(r, u) ==
    /\ Comes(r, "review.find")
    /\ user' = [user EXCEPT ![r] = u]
    /\ doubled' = IF \E q \in Request : user[q] = u /\ pc[q] \in Reviewing
                  THEN doubled \cup {u} ELSE doubled
    /\ UNCHANGED <<stored, row, view, keys, task>>

RowsOf(u) == {q \in Request : reviews[q] # NoReview /\ user[q] = u}

\* Mutant: a review is always a new one.
FindReviewSkipped(r) == /\ pc[r] = "review.find"
                        /\ row' = [row EXCEPT ![r] = NoReview]
                        /\ Goto(r, "review.write")
                        /\ UNCHANGED <<stored, user, view, keys, task, doubled,
                                       mishaps>>

\* findFirst: one of the user's rows, when there is one.
FindReview(r) ==
    /\ pc[r] = "review.find"
    /\ \E found \in RowsOf(user[r]) \cup {NoReview} :
           /\ found = NoReview <=> RowsOf(user[r]) = {}
           /\ row' = [row EXCEPT ![r] = found]
    /\ Goto(r, "review.write")
    /\ UNCHANGED <<stored, user, view, keys, task, doubled, mishaps>>

\* Mutants: the detail, or the first page, is not forgotten.
InvalidatedPages == {"first"}
InvalidatedDetail == {"detail"}

\* The keys that createReview forgets.
Invalidated == {"first", "detail"}

\* Mutant: an edited review leaves the rating alone.
WriteReviewRatingNew(r) ==
    /\ pc[r] = "review.write"
    /\ reviews' = [reviews EXCEPT ![IF row[r] = NoReview THEN r ELSE row[r]] = r]
    /\ task' = [task EXCEPT ![r] = IF row[r] = NoReview THEN "aggregate" ELSE "none"]
    /\ mishaps' = mishaps \cup (IF Recalculating THEN {"crossed"} ELSE {})
    /\ keys' = [keys EXCEPT ![r] = Invalidated]
    /\ Goto(r, "review.forget")
    /\ UNCHANGED <<rating, cache, user, row, view, doubled>>

\* The row that was found is updated, or a row is created, and the
\* recalculation is started before the cached answers are forgotten.
WriteReview(r) ==
    /\ pc[r] = "review.write"
    /\ reviews' = [reviews EXCEPT ![IF row[r] = NoReview THEN r ELSE row[r]] = r]
    /\ task' = [task EXCEPT ![r] = "aggregate"]
    /\ mishaps' = mishaps \cup (IF Recalculating THEN {"crossed"} ELSE {})
    /\ keys' = [keys EXCEPT ![r] = Invalidated]
    /\ Goto(r, "review.forget")
    /\ UNCHANGED <<rating, cache, user, row, view, doubled>>

\* Promise.all: the deletions are under way together and end in any order.
Forget(r, k) ==
    /\ pc[r] = "review.forget"
    /\ k \in keys[r]
    /\ cache' = [cache EXCEPT ![k] = NoEntry]
    /\ keys' = [keys EXCEPT ![r] = @ \ {k}]
    /\ Goto(r, IF keys[r] = {k} THEN "done" ELSE "review.forget")
    /\ UNCHANGED <<reviews, rating, user, row, view, task, doubled, mishaps>>

-----------------------------------------------------------------------------
(* updateStationRating, which nobody waits for                             *)

Aggregate(r) == /\ task[r] = "aggregate"
                /\ view' = [view EXCEPT ![r] = reviews]
                /\ task' = [task EXCEPT ![r] = "store"]
                /\ UNCHANGED <<stored, pc, user, row, keys, doubled, mishaps>>

StoreRating(r) == /\ task[r] = "store"
                  /\ rating' = view[r]
                  /\ task' = [task EXCEPT ![r] = "none"]
                  /\ UNCHANGED <<reviews, cache, pc, locals, doubled, mishaps>>

\* The error is logged, and that is all.
RecalculationFails(r) == /\ task[r] # "none"
                         /\ task' = [task EXCEPT ![r] = "none"]
                         /\ mishaps' = mishaps \cup {"fault"}
                         /\ UNCHANGED <<stored, pc, locals, doubled>>

-----------------------------------------------------------------------------
(* getReviews and findById                                                 *)

ReadComes(r, k) == /\ Comes(r, "read.get")
                   /\ keys' = [keys EXCEPT ![r] = {k}]
                   /\ UNCHANGED <<stored, user, row, view, task, doubled>>

GetCached(r, k) ==
    /\ pc[r] = "read.get"
    /\ k \in keys[r]
    /\ Goto(r, IF cache[k] = NoEntry THEN "read.find" ELSE "done")
    /\ UNCHANGED <<stored, locals, task, doubled, mishaps>>

\* The detail shows the rating in the station's row, a page the reviews.
Shown(k) == IF k = "detail" THEN rating ELSE reviews

FindShown(r, k) ==
    /\ pc[r] = "read.find"
    /\ k \in keys[r]
    /\ view' = [view EXCEPT ![r] = Shown(k)]
    /\ Goto(r, "read.set")
    /\ UNCHANGED <<stored, user, row, keys, task, doubled, mishaps>>

SetCached(r, k) ==
    /\ pc[r] = "read.set"
    /\ k \in keys[r]
    /\ cache' = [cache EXCEPT ![k] = view[r]]
    /\ Goto(r, "done")
    /\ UNCHANGED <<reviews, rating, locals, task, doubled, mishaps>>

\* The five minutes of an entry are over.
Expire(k) == /\ cache[k] # NoEntry
             /\ cache' = [cache EXCEPT ![k] = NoEntry]
             /\ UNCHANGED <<reviews, rating, pc, locals, task, doubled, mishaps>>

\* A call throws or the process stops: the request goes no further.
Fail(r) == /\ pc[r] \in InFlight
           /\ Goto(r, "done")
           /\ mishaps' = mishaps \cup {"fault"}
           /\ UNCHANGED <<stored, locals, task, doubled>>

-----------------------------------------------------------------------------
Review(r) == \/ \E u \in User : ReviewComes(r, u)
             \/ FindReview(r) \/ WriteReview(r)
             \/ \E k \in Key : Forget(r, k)

Recalculate(r) == Aggregate(r) \/ StoreRating(r) \/ RecalculationFails(r)

Read(r) == \E k \in Key : \/ ReadComes(r, k) \/ GetCached(r, k)
                          \/ FindShown(r, k) \/ SetCached(r, k)

Next == \/ \E r \in Request : Review(r) \/ Recalculate(r) \/ Read(r) \/ Fail(r)
        \/ \E k \in Key : Expire(k)

Spec == Init /\ [][Next]_vars

-----------------------------------------------------------------------------
\* A user has one review of the station, however often it is sent, unless two
\* of the user's requests were under way at a time: the database does not
\* enforce it, createReview looks before it writes.
OneReviewPerUser == \A u \in User \ doubled :
    \A p, q \in RowsOf(u) : p = q

\* A review is only ever rewritten by the user who wrote it, whichever
\* requests interleave: the anonymous handle of a row stays with one user.
OwnReviewsOnly == \A q \in Request :
    reviews[q] # NoReview => user[reviews[q]] = user[q]

\* The rating is recalculated beside the requests, and catches up with the
\* reviews when the recalculations come one after another and none fails,
\* whatever the requests do meanwhile.
RatingCatchesUp ==
    mishaps \cap {"crossed", "fault"} = {} /\ ~Recalculating => rating = reviews

\* With requests in turn, the first page that is cached between two of them
\* shows the reviews as they are: even while the rating is recalculated.
FirstPageFresh ==
    mishaps \cap {"overlap", "fault"} = {} /\ ~Busy
        => cache["first"] \in {NoEntry, reviews}

\* With requests in turn that wait for the recalculations as well, the cached
\* detail shows the rating of the reviews as they are.  A request that comes
\* while the rating is recalculated can cache the rating of before.
DetailFresh ==
    mishaps = {} /\ AtRest => cache["detail"] \in {NoEntry, reviews}
=============================================================================
