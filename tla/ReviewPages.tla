----------------------------- MODULE ReviewPages -----------------------------
(***************************************************************************)
(* A client that walks through the reviews of a station, newest first: the *)
(* cursor of a page is the createdAt of the last review of the page before *)
(* (getReviews), and every page is cached for five minutes.  Meanwhile     *)
(* users write reviews, which forgets the cached first page of the default *)
(* limit and no other.  The createdAt of a review is chosen when its row   *)
(* is sent to the database, by one clock, and the row is seen some time    *)
(* later: several writers overlap, and rows are seen in any order.  A      *)
(* review is its place in the order of the createdAt; an edit keeps it.    *)
(***************************************************************************)
EXTENDS Integers, FiniteSets, Sequences, FiniteSetsExt

CONSTANTS
    MaxReviews,    \* bound: reviews of the station
    MaxTime,       \* bound: the milliseconds in which reviews are written
    WalkLimit,     \* the limits that clients ask for
    DefaultLimit,  \* the limit whose first page createReview forgets, 10
    NoCursor,      \* the cursor of the first page, and that of no next page
    NoPage         \* a cache miss

ASSUME WalkLimitAssumption == WalkLimit \subseteq Nat \ {0}
ASSUME CursorAssumption == NoCursor \notin Nat
ASSUME PagesBoundAssumption == MaxReviews \in Nat /\ MaxTime \in Nat

VARIABLES
    posts,        \* the createdAt of the reviews, in the order of the clock
    time,         \* the millisecond
    visible,      \* the reviews that are in the database
    forgetting,   \* how many of them have yet to forget the first page
    pages,        \* the cached page for each cursor
    limit,        \* the limit the client walks with
    at,           \* the call that the request for a page issues next
    after,        \* the cursor of that request
    found,        \* the page that was read from the database
    seen,         \* history: how often the walk has shown each review
    base,         \* history: the reviews there were when the first page was read
    missed        \* history: reviews that had their createdAt and could not yet
                  \* be seen when some page was read from the database

writing == <<posts, time, visible, forgetting>>
walk == <<limit, at, after, found, seen, base, missed>>
pageVars == <<writing, pages, walk>>

Review == 1 .. MaxReviews
Cursor == 0 .. MaxTime \cup {NoCursor}
PageOf == [reviews : SUBSET Review, next : Cursor, base : SUBSET Review]

PagesInit == /\ posts = <<>>
             /\ time = 0
             /\ visible = {}
             /\ forgetting = 0
             /\ pages = [c \in Cursor |-> NoPage]
             /\ limit \in WalkLimit
             /\ at = "get"
             /\ after = NoCursor
             /\ found = NoPage
             /\ seen = [i \in Review |-> 0]
             /\ base = {}
             /\ missed = {}

-----------------------------------------------------------------------------
(* getReviews                                                              *)

\* Mutant: the reviews of the cursor's millisecond are shown again.
BeforeOrAt(c) == {i \in visible : c = NoCursor \/ posts[i] <= c}

Before(c) == {i \in visible : c = NoCursor \/ posts[i] < c}

\* The newest reviews of a set, as many as fit; the order of those of one
\* millisecond is the database's.
Newest(S) == {P \in SUBSET S :
                 /\ Cardinality(P) = Min({limit, Cardinality(S)})
                 /\ \A i \in P, j \in S \ P : posts[i] >= posts[j]}

CursorAfter(P, S) == IF P = S THEN NoCursor ELSE Min({posts[i] : i \in P})

Answer(page) ==
    /\ seen' = [i \in Review |-> seen[i] + IF i \in page.reviews THEN 1 ELSE 0]
    /\ base' = IF after = NoCursor THEN page.base ELSE base
    /\ after' = page.next
    /\ at' = IF page.next = NoCursor THEN "done" ELSE "get"

GetPage == /\ at = "get"
           /\ IF pages[after] = NoPage
              THEN at' = "find" /\ UNCHANGED <<after, seen, base>>
              ELSE Answer(pages[after])
           /\ UNCHANGED <<writing, pages, limit, found, missed>>

FindReviews == /\ at = "find"
               /\ \E P \in Newest(Before(after)) :
                      found' = [reviews |-> P,
                                next |-> CursorAfter(P, Before(after)),
                                base |-> visible]
               /\ at' = "set"
               /\ missed' = missed \cup (DOMAIN posts \ visible)
               /\ UNCHANGED <<writing, pages, limit, after, seen, base>>

SetPage == /\ at = "set"
           /\ pages' = [pages EXCEPT ![after] = found]
           /\ Answer(found)
           /\ found' = NoPage
           /\ UNCHANGED <<writing, limit, missed>>

\* Another client asks for the first page, or this one begins again.
WalkAgain == /\ at = "done"
             /\ at' = "get"
             /\ after' = NoCursor
             /\ seen' = [i \in Review |-> 0]
             /\ base' = {}
             /\ UNCHANGED <<writing, pages, limit, found, missed>>

-----------------------------------------------------------------------------
(* createReview, as far as the pages go                                    *)

WriteReview == /\ Len(posts) < MaxReviews
               /\ posts' = Append(posts, time)
               /\ UNCHANGED <<time, visible, forgetting, pages, walk>>

\* A row whose call fails is never seen.
ReviewStored(i) == /\ i \notin visible
                   /\ visible' = visible \cup {i}
                   /\ forgetting' = forgetting + 1
                   /\ UNCHANGED <<posts, time, pages, walk>>

ForgetFirstPage == /\ forgetting > 0
                   /\ forgetting' = forgetting - 1
                   /\ pages' = IF limit = DefaultLimit
                               THEN [pages EXCEPT ![NoCursor] = NoPage] ELSE pages
                   /\ UNCHANGED <<posts, time, visible, walk>>

ExpirePage(c) == /\ pages[c] # NoPage
                 /\ pages' = [pages EXCEPT ![c] = NoPage]
                 /\ UNCHANGED <<writing, walk>>

PassTime == /\ time < MaxTime
            /\ time' = time + 1
            /\ UNCHANGED <<posts, visible, forgetting, pages, walk>>

PagesNext == \/ GetPage \/ FindReviews \/ SetPage \/ WalkAgain
             \/ WriteReview \/ ForgetFirstPage \/ PassTime
             \/ \E i \in DOMAIN posts : ReviewStored(i)
             \/ \E c \in Cursor : ExpirePage(c)

PagesSpec == PagesInit /\ [][PagesNext]_pageVars

-----------------------------------------------------------------------------
PagesTypeOK == /\ posts \in Seq(0 .. MaxTime)
               /\ Len(posts) <= MaxReviews
               /\ time \in 0 .. MaxTime
               /\ visible \subseteq DOMAIN posts
               /\ forgetting \in Nat
               /\ pages \in [Cursor -> PageOf \cup {NoPage}]
               /\ limit \in WalkLimit
               /\ at \in {"get", "find", "set", "done"}
               /\ after \in Cursor
               /\ found \in PageOf \cup {NoPage}
               /\ seen \in [Review -> Nat]
               /\ base \subseteq Review
               /\ missed \subseteq Review

\* A walk shows every review that was there when its first page was read from
\* the database exactly once, though reviews are written during the walk and
\* pages come from the cache at different ages; and no review is shown twice.
\* Only a review of the same millisecond as another can be left out, and one
\* that was on its way into the database when a page was read from it: a later
\* page that is cached since then has not got it.
SameMoment(i) == \E j \in visible \ {i} : posts[j] = posts[i]
ReviewsShownOnce ==
    /\ \A i \in Review : seen[i] <= 1
    /\ at = "done" => \A i \in base \ missed : SameMoment(i) \/ seen[i] = 1
=============================================================================
