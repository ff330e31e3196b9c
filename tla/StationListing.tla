--------------------------- MODULE StationListing ---------------------------
(***************************************************************************)
(* How a station comes to be public and stops being so: users submit       *)
(* stations, administrators create, review and update them, and clients    *)
(* see them through the detail and the top picks, both cached for five     *)
(* minutes and never forgotten by the administration, and through their    *)
(* favourites and submissions, which are not cached.                       *)
(*                                                                         *)
(* A handler serves one request at a time; each step is one awaited call   *)
(* with the code up to the next.  Of a row there is what decides who sees  *)
(* it: isVerified and the other columns only change what is shown.         *)
(* ExpireDetail stands for createReview too, which forgets the detail.     *)
(***************************************************************************)

CONSTANTS
    Handler,
    Station,
    User,
    NoUser,     \* a client that has not signed in, an administrator
    NoStation,  \* the row of a station that is not there
    NoPicks     \* a cache miss

Status == {"PENDING", "APPROVED", "REJECTED"}

Row == [status : Status, isActive : BOOLEAN, submittedBy : User \cup {NoUser}]

ASSUME UserAssumption == NoUser \notin User
ASSUME StationAssumption == Station # {} /\ NoStation \notin Row
ASSUME PicksAssumption == \A P \in SUBSET Station : P # NoPicks

VARIABLES
    skipApproval,  \* SKIP_STATION_APPROVAL of the deployment
    rows,          \* the row of each station
    favourites,    \* the rows of favorites
    details,       \* the stations whose detail is cached
    picks,         \* the cached top picks
    pc,            \* the call a handler issues next
    kind,          \* the operation it serves
    user,          \* the user who asks
    target,        \* the station that is asked for
    change,        \* what the administrator wants written
    held,          \* the stations read, to be cached and shown
    activated,     \* history: stations that updateStation has switched on
    contested      \* history: favourites with two requests at a time

stored == <<skipApproval, rows, favourites>>
cached == <<details, picks>>
request == <<kind, user, target, change>>
history == <<activated, contested>>
vars == <<stored, cached, pc, request, held, history>>

Kind == {"none", "detail", "picks", "submit", "add", "remove", "review", "update"}
Waiting == {"detail.get", "detail.find", "detail.set", "detail.flag", "picks.get",
            "picks.find", "picks.set", "add.find", "add.write", "remove.write",
            "admin.find", "admin.write"}
Decision == {"APPROVE", "REJECT"}

\* The isActive of UpdateStationDto, which can be left out.
Update == {"keep", "activate", "deactivate"}

TypeOK == /\ skipApproval \in BOOLEAN
          /\ rows \in [Station -> Row \cup {NoStation}]
          /\ favourites \subseteq (User \X Station)
          /\ details \subseteq Station
          /\ picks = NoPicks \/ picks \subseteq Station
          /\ pc \in [Handler -> {"idle"} \cup Waiting]
          /\ kind \in [Handler -> Kind]
          /\ user \in [Handler -> User \cup {NoUser}]
          /\ target \in [Handler -> Station]
          /\ change \in [Handler -> Decision \cup Update]
          /\ held \in [Handler -> SUBSET Station]
          /\ activated \subseteq Station
          /\ contested \subseteq (User \X Station)

Init == /\ skipApproval \in BOOLEAN
        /\ rows = [s \in Station |-> NoStation]
        /\ favourites = {}
        /\ details = {}
        /\ picks = NoPicks
        /\ pc = [h \in Handler |-> "idle"]
        /\ kind = [h \in Handler |-> "none"]
        /\ user = [h \in Handler |-> NoUser]
        /\ target \in [Handler -> {CHOOSE s \in Station : TRUE}]
        /\ change = [h \in Handler |-> "keep"]
        /\ held = [h \in Handler |-> {}]
        /\ activated = {}
        /\ contested = {}

-----------------------------------------------------------------------------
Goto(h, label) == pc' = [pc EXCEPT ![h] = label]

Comes(h, k, u, s, c, label) ==
    /\ pc[h] = "idle"
    /\ Goto(h, label)
    /\ kind' = [kind EXCEPT ![h] = k]
    /\ user' = [user EXCEPT ![h] = u]
    /\ target' = [target EXCEPT ![h] = s]
    /\ change' = [change EXCEPT ![h] = c]
    /\ UNCHANGED <<cached, held>>

\* A handler that adds or removes this favourite.
Toggling(h, f) == kind[h] \in {"add", "remove"} /\ <<user[h], target[h]>> = f

\* The request has its answer or its error.
Answer(h) == /\ Goto(h, "idle")
             /\ kind' = [kind EXCEPT ![h] = "none"]
             /\ user' = [user EXCEPT ![h] = NoUser]
             /\ change' = [change EXCEPT ![h] = "keep"]
             /\ held' = [held EXCEPT ![h] = {}]
             /\ contested' = {f \in contested : \E g \in Handler \ {h} : Toggling(g, f)}
             /\ UNCHANGED target

IsThere(s) == rows[s] # NoStation
IsActive(s) == IsThere(s) /\ rows[s].isActive

-----------------------------------------------------------------------------
(* Submission and administration                                           *)

SubmittedRow(u) == [status |-> IF skipApproval THEN "APPROVED" ELSE "PENDING",
                    isActive |-> skipApproval, submittedBy |-> u]

\* One transaction creates the row, its image and its ports; then findById
\* answers.
SubmitStation(h, u, s) ==
    /\ ~IsThere(s)
    /\ Comes(h, "submit", u, s, "keep", "detail.get")
    /\ rows' = [rows EXCEPT ![s] = SubmittedRow(u)]
    /\ UNCHANGED <<skipApproval, favourites, history>>

\* Created by an administrator: approved, and active unless the request says
\* otherwise.
CreateStation(s, active) ==
    /\ ~IsThere(s)
    /\ rows' = [rows EXCEPT ![s] = [status |-> "APPROVED", isActive |-> active,
                                    submittedBy |-> NoUser]]
    /\ UNCHANGED <<skipApproval, favourites, cached, pc, request, held, history>>

ReviewComes(h, s, decision) ==
    /\ Comes(h, "review", NoUser, s, decision, "admin.find")
    /\ UNCHANGED <<stored, history>>

UpdateComes(h, s, update) ==
    /\ Comes(h, "update", NoUser, s, update, "admin.find")
    /\ UNCHANGED <<stored, history>>

\* findUnique, before the write; a rejection without a reason ends here.
FindForAdmin(h) ==
    /\ pc[h] = "admin.find"
    /\ \/ IsThere(target[h]) /\ Goto(h, "admin.write") /\ UNCHANGED <<request, held, contested>>
       \/ ~IsThere(target[h]) /\ Answer(h)
       \/ IsThere(target[h]) /\ change[h] = "REJECT" /\ Answer(h)
    /\ UNCHANGED <<stored, cached, activated>>

\* Mutant: a rejection leaves isActive as it is.
ReviewedRowActive(row, decision) ==
    [row EXCEPT !.status = IF decision = "APPROVE" THEN "APPROVED" ELSE "REJECTED",
                !.isActive = decision = "APPROVE" \/ @]

\* Whatever the status was.
ReviewedRow(row, decision) ==
    [row EXCEPT !.status = IF decision = "APPROVE" THEN "APPROVED" ELSE "REJECTED",
                !.isActive = decision = "APPROVE"]

WriteReview(h) ==
    /\ pc[h] = "admin.write" /\ kind[h] = "review"
    /\ rows' = [rows EXCEPT ![target[h]] = ReviewedRow(@, change[h])]
    /\ activated' = activated \ {target[h]}
    /\ Answer(h)
    /\ UNCHANGED <<skipApproval, favourites, cached>>

\* What the request leaves out stays.
UpdatedRow(row, update) ==
    [row EXCEPT !.isActive = update = "activate" \/ (@ /\ update # "deactivate")]

WriteUpdate(h) ==
    /\ pc[h] = "admin.write" /\ kind[h] = "update"
    /\ rows' = [rows EXCEPT ![target[h]] = UpdatedRow(@, change[h])]
    /\ activated' = IF change[h] = "activate" THEN activated \cup {target[h]} ELSE activated
    /\ Answer(h)
    /\ UNCHANGED <<skipApproval, favourites, cached>>

-----------------------------------------------------------------------------
(* findById                                                                *)

DetailComes(h, u, s) == /\ Comes(h, "detail", u, s, "keep", "detail.get")
                        /\ UNCHANGED <<stored, history>>

\* Mutant: an entry that is read is stored for five minutes more.
GetDetailRefreshing(h) ==
    /\ pc[h] = "detail.get"
    /\ held' = [held EXCEPT ![h] = details \cap {target[h]}]
    /\ Goto(h, IF target[h] \in details THEN "detail.set" ELSE "detail.find")
    /\ UNCHANGED <<stored, cached, request, history>>

GetDetail(h) ==
    /\ pc[h] = "detail.get"
    /\ IF target[h] \in details
       THEN held' = [held EXCEPT ![h] = {target[h]}] /\ Goto(h, "detail.flag")
       ELSE held' = held /\ Goto(h, "detail.find")
    /\ UNCHANGED <<stored, cached, request, history>>

\* Mutant: a station that is not active is found as well.
FindableOfAny(s) == IsThere(s)

Findable(s) == IsActive(s)

FindDetail(h) ==
    /\ pc[h] = "detail.find"
    /\ \/ /\ Findable(target[h])
          /\ held' = [held EXCEPT ![h] = {target[h]}]
          /\ Goto(h, "detail.set")
          /\ UNCHANGED <<request, contested>>
       \/ ~Findable(target[h]) /\ Answer(h)
    /\ UNCHANGED <<stored, cached, activated>>

SetDetail(h) == /\ pc[h] = "detail.set"
                /\ details' = details \cup held[h]
                /\ Goto(h, "detail.flag")
                /\ UNCHANGED <<stored, picks, request, held, history>>

\* Whether it is a favourite is not part of what is cached.
IsFavorite(h) == <<user[h], target[h]>> \in favourites

\* The detail is answered with IsFavorite(h).
FlagDetail(h) == /\ pc[h] = "detail.flag"
                 /\ Answer(h)
                 /\ UNCHANGED <<stored, cached, activated>>

-----------------------------------------------------------------------------
(* Favourites                                                              *)

Contest(f) == contested' = contested \cup {g \in {f} : \E h \in Handler : Toggling(h, g)}

AddComes(h, u, s) == /\ Comes(h, "add", u, s, "keep", "add.find")
                     /\ Contest(<<u, s>>)
                     /\ UNCHANGED <<stored, activated>>

\* A station that is not active is found here, and not by findById after it.
FindForAdd(h) ==
    /\ pc[h] = "add.find"
    /\ \/ IsThere(target[h]) /\ Goto(h, "add.write") /\ UNCHANGED <<request, held, contested>>
       \/ ~IsThere(target[h]) /\ Answer(h)
    /\ UNCHANGED <<stored, cached, activated>>

\* Mutant: an upsert that does not create.
AddFavouriteUpdate(h) == /\ pc[h] = "add.write"
                         /\ Goto(h, "detail.get")
                         /\ UNCHANGED <<stored, cached, request, held, history>>

AddFavourite(h) ==
    /\ pc[h] = "add.write"
    /\ favourites' = favourites \cup {<<user[h], target[h]>>}
    /\ Goto(h, "detail.get")
    /\ UNCHANGED <<skipApproval, rows, cached, request, held, history>>

RemoveComes(h, u, s) == /\ Comes(h, "remove", u, s, "keep", "remove.write")
                        /\ Contest(<<u, s>>)
                        /\ UNCHANGED <<stored, activated>>

RemoveFavourite(h) ==
    /\ pc[h] = "remove.write"
    /\ favourites' = favourites \ {<<user[h], target[h]>>}
    /\ Goto(h, "detail.get")
    /\ UNCHANGED <<skipApproval, rows, cached, request, held, history>>

\* What getFavorites shows a user.
GetFavourites(u) == {s \in Station : <<u, s>> \in favourites /\ IsActive(s)}

\* What getMySubmissions shows a user, of whatever status.
GetMySubmissions(u) == {s \in Station : IsThere(s) /\ rows[s].submittedBy = u}

-----------------------------------------------------------------------------
(* findTopPicks                                                            *)

PicksCome(h, u, s) == /\ Comes(h, "picks", u, s, "keep", "picks.get")
                      /\ UNCHANGED <<stored, history>>

GetPicks(h) ==
    /\ pc[h] = "picks.get"
    /\ \/ picks = NoPicks /\ Goto(h, "picks.find") /\ UNCHANGED <<request, held, contested>>
       \/ picks # NoPicks /\ Answer(h)
    /\ UNCHANGED <<stored, cached, activated>>

\* Which of the stations that are active are near and score best is left open.
FindPicks(h) == /\ pc[h] = "picks.find"
                /\ \E best \in SUBSET {s \in Station : Findable(s)} :
                       held' = [held EXCEPT ![h] = best]
                /\ Goto(h, "picks.set")
                /\ UNCHANGED <<stored, cached, request, history>>

SetPicks(h) == /\ pc[h] = "picks.set"
               /\ picks' = held[h]
               /\ Answer(h)
               /\ UNCHANGED <<stored, details, activated>>

-----------------------------------------------------------------------------
\* The five minutes of an entry are over.
ExpireDetail(s) == /\ s \in details
                   /\ details' = details \ {s}
                   /\ UNCHANGED <<stored, picks, pc, request, held, history>>

ExpirePicks == /\ picks # NoPicks
               /\ picks' = NoPicks
               /\ UNCHANGED <<stored, details, pc, request, held, history>>

\* A call throws, or the process stops.
Fail(h) == /\ pc[h] # "idle"
           /\ Answer(h)
           /\ UNCHANGED <<stored, cached, activated>>

Continue(h) == \/ FindForAdmin(h) \/ WriteReview(h) \/ WriteUpdate(h)
               \/ GetDetail(h) \/ FindDetail(h) \/ SetDetail(h) \/ FlagDetail(h)
               \/ FindForAdd(h) \/ AddFavourite(h) \/ RemoveFavourite(h)
               \/ GetPicks(h) \/ FindPicks(h) \/ SetPicks(h)
               \/ Fail(h)

Arrive(h) == \E s \in Station :
    \/ \E d \in Decision : ReviewComes(h, s, d)
    \/ \E c \in Update : UpdateComes(h, s, c)
    \/ \E u \in User \cup {NoUser} : DetailComes(h, u, s) \/ PicksCome(h, u, s)
    \/ \E u \in User : SubmitStation(h, u, s) \/ AddComes(h, u, s) \/ RemoveComes(h, u, s)

Expire == ExpirePicks \/ \E s \in Station : ExpireDetail(s)

Next == \/ \E h \in Handler : Arrive(h) \/ Continue(h)
        \/ \E s \in Station, active \in BOOLEAN : CreateStation(s, active)
        \/ Expire

Spec == Init /\ [][Next]_vars

\* A request that waits for a call gets its answer or an error, and the cache
\* keeps an entry for the five minutes it was given.
Fairness == /\ \A h \in Handler : WF_vars(Continue(h))
            /\ WF_vars(ExpirePicks)
            /\ \A s \in Station : WF_vars(ExpireDetail(s))

FairSpec == Spec /\ Fairness

-----------------------------------------------------------------------------
\* A station that is active was approved, or an administrator switched it on
\* with updateStation after its last review: submitting, reviewing twice,
\* rejecting after an approval and failing half-way publish nothing else.
PublishedWasVetted == \A s \in Station :
    IsActive(s) => rows[s].status = "APPROVED" \/ s \in activated

\* The requests that are about to store a station in a cache, and the caches.
StoreLabels == {"detail.set", "picks.set"}
Storing(s) == {h \in Handler : pc[h] \in StoreLabels /\ s \in held[h]}
Cached(s) == s \in details \/ (picks # NoPicks /\ s \in picks)

\* What a step may do about a station that is hidden before it.
Fading(s) == /\ Storing(s)' \subseteq Storing(s)
             /\ Cached(s)' => Cached(s) \/ Storing(s)' # Storing(s)
             /\ \A h \in Handler : s \in held'[h] => s \in held[h] \/ s \in details

\* A late write of a cache can bring back a station that was hidden after it was
\* found, and once only: while a station is hidden no request comes to store it,
\* and one that had found it before stores it and is done with it.
StoredOnceMore == [][\A s \in Station : ~IsActive(s) => Fading(s)]_vars

\* The caches and the requests that hold a station to show it.
Shown(s) == Cached(s) \/ \E h \in Handler : s \in held[h]

\* A station that stays hidden disappears from the detail and the top picks,
\* though nothing forgets them when it is hidden: the entries expire, and the
\* requests that still hold it store it once more at most.
HiddenFades == \A s \in Station : <>[]~IsActive(s) => <>[]~Shown(s)

\* While a request waits for the detail that answers it, which for a station
\* that is hidden is a 404, what it did is in the user's own lists: a submission
\* among the submissions; a favourite that was added or removed, in the flag of
\* the detail and among the favourites, unless another request for the same
\* favourite runs at the same time.
OwnListsAgree == \A h \in Handler :
    pc[h] \in {"detail.get", "detail.find", "detail.set", "detail.flag"}
    => /\ kind[h] = "submit" => target[h] \in GetMySubmissions(user[h])
       /\ kind[h] \in {"add", "remove"} /\ <<user[h], target[h]>> \notin contested =>
              /\ IsFavorite(h) <=> kind[h] = "add"
              /\ IsActive(target[h]) =>
                     (target[h] \in GetFavourites(user[h]) <=> kind[h] = "add")
=============================================================================
