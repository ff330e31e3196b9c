--------------------------- MODULE StationsProofs ---------------------------
(***************************************************************************)
(* Proofs about StationListing: who sees a station, for any number of      *)
(* handlers, stations and users; how a station that is hidden fades from   *)
(* the cache; and about StationParts: the counts of ports and the primary  *)
(* image.                                                                  *)
(***************************************************************************)
EXTENDS StationListing, StationParts, FiniteSetTheorems, TLAPS

-----------------------------------------------------------------------------
(* The requests about stations                                             *)

\* Which operation waits for which call.  What an administrator writes to and
\* what a user has submitted is there, because no row is ever removed.
KindFits == \A h \in Handler :
    /\ pc[h] = "idle" <=> kind[h] = "none"
    /\ pc[h] \in {"add.find", "add.write"} => kind[h] = "add"
    /\ pc[h] = "remove.write" => kind[h] = "remove"
    /\ pc[h] = "admin.write" => IsThere(target[h])
    /\ kind[h] \in {"submit", "add", "remove"} => user[h] \in User
    /\ kind[h] = "submit" => /\ IsThere(target[h])
                             /\ rows[target[h]].submittedBy = user[h]

\* Two handlers at the same favourite are on record.
ContestsKnown == \A g, h \in Handler : \A f \in User \X Station :
    g # h /\ Toggling(g, f) /\ Toggling(h, f) => f \in contested

Detailing == {"detail.get", "detail.find", "detail.set", "detail.flag"}

FavouritesDone == \A h \in Handler :
    /\ pc[h] \in Detailing
    /\ kind[h] \in {"add", "remove"}
    /\ <<user[h], target[h]>> \notin contested
    => (<<user[h], target[h]>> \in favourites <=> kind[h] = "add")

IInv == TypeOK /\ KindFits /\ PublishedWasVetted /\ ContestsKnown /\ FavouritesDone

LEMMA InitIInv == Init => IInv
<1> SUFFICES ASSUME Init PROVE IInv
  OBVIOUS
<1> USE DEF Init
<1>1. (CHOOSE s \in Station : TRUE) \in Station
  BY StationAssumption
<1>2. TypeOK
  BY <1>1 DEF TypeOK, Kind, Waiting, Update, Decision, Row
<1>3. KindFits
  BY DEF KindFits
<1>4. PublishedWasVetted
  BY DEF PublishedWasVetted, IsActive, IsThere
<1>5. ContestsKnown
  BY DEF ContestsKnown, Toggling
<1>6. FavouritesDone
  BY DEF FavouritesDone
<1>7. QED
  BY <1>2, <1>3, <1>4, <1>5, <1>6 DEF IInv

\* A decision and an update keep a row a row, of the same user.
LEMMA ReviewedTyped ==
    ASSUME NEW row \in Row, NEW decision
    PROVE  /\ ReviewedRow(row, decision) \in Row
           /\ ReviewedRow(row, decision) # NoStation
           /\ ReviewedRow(row, decision).submittedBy = row.submittedBy
           /\ ReviewedRow(row, decision).isActive =>
                  ReviewedRow(row, decision).status = "APPROVED"
BY StationAssumption DEF ReviewedRow, Row, Status

LEMMA UpdatedTyped ==
    ASSUME NEW row \in Row, NEW update
    PROVE  /\ UpdatedRow(row, update) \in Row
           /\ UpdatedRow(row, update) # NoStation
           /\ UpdatedRow(row, update).submittedBy = row.submittedBy
           /\ UpdatedRow(row, update).status = row.status
           /\ UpdatedRow(row, update).isActive => row.isActive \/ update = "activate"
BY StationAssumption DEF UpdatedRow, Row, Status

\* What a step can do to TypeOK, one action at a time.
LEMMA NextTypeOK == IInv /\ [Next]_vars => TypeOK'
<1> SUFFICES ASSUME IInv, [Next]_vars PROVE TypeOK'
  OBVIOUS
<1> USE StationAssumption, UserAssumption, PicksAssumption
<1> USE DEF IInv, TypeOK, KindFits, Comes, Answer, Goto, Contest, Toggling, stored, cached,
            request, history, Kind, Waiting, Decision, Update, Row, Status, IsThere, IsActive
<1>1. ASSUME NEW h \in Handler, NEW u \in User, NEW s \in Station, SubmitStation(h, u, s)
      PROVE  TypeOK'
  BY <1>1 DEF SubmitStation, SubmittedRow
<1>2. ASSUME NEW s \in Station, NEW active \in BOOLEAN, CreateStation(s, active)
      PROVE  TypeOK'
  BY <1>2 DEF CreateStation
<1>3. ASSUME NEW h \in Handler, NEW s \in Station, NEW d \in Decision, ReviewComes(h, s, d)
      PROVE  TypeOK'
  BY <1>3 DEF ReviewComes
<1>4. ASSUME NEW h \in Handler, NEW s \in Station, NEW c \in Update, UpdateComes(h, s, c)
      PROVE  TypeOK'
  BY <1>4 DEF UpdateComes
<1>5. ASSUME NEW h \in Handler, NEW u \in User \cup {NoUser}, NEW s \in Station,
             DetailComes(h, u, s)
      PROVE  TypeOK'
  BY <1>5 DEF DetailComes
<1>6. ASSUME NEW h \in Handler, NEW u \in User \cup {NoUser}, NEW s \in Station,
             PicksCome(h, u, s)
      PROVE  TypeOK'
  BY <1>6 DEF PicksCome
<1>7. ASSUME NEW h \in Handler, NEW u \in User, NEW s \in Station, AddComes(h, u, s)
      PROVE  TypeOK'
  BY <1>7 DEF AddComes
<1>8. ASSUME NEW h \in Handler, NEW u \in User, NEW s \in Station, RemoveComes(h, u, s)
      PROVE  TypeOK'
  BY <1>8 DEF RemoveComes
<1>9. ASSUME NEW h \in Handler, FindForAdmin(h)
      PROVE  TypeOK'
  <2>1. CASE Goto(h, "admin.write") /\ UNCHANGED <<request, held, contested>>
    BY <1>9, <2>1 DEF FindForAdmin
  <2>2. CASE Answer(h)
    BY <1>9, <2>2 DEF FindForAdmin
  <2>3. QED
    BY <1>9, <2>1, <2>2 DEF FindForAdmin
<1>10. ASSUME NEW h \in Handler, WriteReview(h)
      PROVE  TypeOK'
  <2>1. rows' \in [Station -> Row \cup {NoStation}]
    BY <1>10, ReviewedTyped DEF WriteReview
  <2>2. QED
    BY <1>10, <2>1 DEF WriteReview
<1>11. ASSUME NEW h \in Handler, WriteUpdate(h)
      PROVE  TypeOK'
  <2>1. rows' \in [Station -> Row \cup {NoStation}]
    BY <1>11, UpdatedTyped DEF WriteUpdate
  <2>2. QED
    BY <1>11, <2>1 DEF WriteUpdate
<1>12. ASSUME NEW h \in Handler, GetDetail(h)
      PROVE  TypeOK'
  BY <1>12 DEF GetDetail
<1>13. ASSUME NEW h \in Handler, FindDetail(h)
      PROVE  TypeOK'
  BY <1>13 DEF FindDetail, Findable
<1>14. ASSUME NEW h \in Handler, SetDetail(h)
      PROVE  TypeOK'
  BY <1>14 DEF SetDetail
<1>15. ASSUME NEW h \in Handler, FlagDetail(h)
      PROVE  TypeOK'
  BY <1>15 DEF FlagDetail
<1>16. ASSUME NEW h \in Handler, FindForAdd(h)
      PROVE  TypeOK'
  BY <1>16 DEF FindForAdd
<1>17. ASSUME NEW h \in Handler, AddFavourite(h)
      PROVE  TypeOK'
  BY <1>17 DEF AddFavourite
<1>18. ASSUME NEW h \in Handler, RemoveFavourite(h)
      PROVE  TypeOK'
  BY <1>18 DEF RemoveFavourite
<1>19. ASSUME NEW h \in Handler, GetPicks(h)
      PROVE  TypeOK'
  BY <1>19 DEF GetPicks
<1>20. ASSUME NEW h \in Handler, FindPicks(h)
      PROVE  TypeOK'
  BY <1>20 DEF FindPicks, Findable
<1>21. ASSUME NEW h \in Handler, SetPicks(h)
      PROVE  TypeOK'
  BY <1>21 DEF SetPicks
<1>22. ASSUME NEW h \in Handler, Fail(h)
      PROVE  TypeOK'
  BY <1>22 DEF Fail
<1>23. ASSUME NEW s \in Station, ExpireDetail(s)
      PROVE  TypeOK'
  BY <1>23 DEF ExpireDetail
<1>24. ASSUME ExpirePicks
      PROVE  TypeOK'
  BY <1>24 DEF ExpirePicks
<1>25. CASE UNCHANGED vars
  BY <1>25 DEF vars
<1>26. QED
  BY <1>1, <1>2, <1>3, <1>4, <1>5, <1>6, <1>7, <1>8, <1>9, <1>10, <1>11, <1>12, <1>13, <1>14,
     <1>15, <1>16, <1>17, <1>18, <1>19, <1>20, <1>21, <1>22, <1>23, <1>24, <1>25 DEF Next,
     Arrive, Continue, Expire

\* A row that is there stays, with the user who has submitted it.
RowsStay == \A s \in Station :
    IsThere(s) => IsThere(s)' /\ rows[s]'.submittedBy = rows[s].submittedBy

LEMMA NextRowsStay == IInv /\ [Next]_vars => RowsStay
<1> SUFFICES ASSUME IInv, [Next]_vars PROVE RowsStay
  OBVIOUS
<1> USE DEF IInv, TypeOK, RowsStay, IsThere
<1>1. ASSUME NEW h \in Handler, WriteReview(h) PROVE RowsStay
  BY <1>1, ReviewedTyped DEF WriteReview, KindFits
<1>2. ASSUME NEW h \in Handler, WriteUpdate(h) PROVE RowsStay
  BY <1>2, UpdatedTyped DEF WriteUpdate, KindFits
<1>3. ASSUME NEW h \in Handler, NEW u \in User, NEW s \in Station, SubmitStation(h, u, s)
      PROVE  RowsStay
  BY <1>3 DEF SubmitStation
<1>4. ASSUME NEW s \in Station, NEW active \in BOOLEAN, CreateStation(s, active)
      PROVE  RowsStay
  BY <1>4 DEF CreateStation
<1>5. CASE UNCHANGED rows
  BY <1>5
<1>6. QED
  BY <1>1, <1>2, <1>3, <1>4, <1>5 DEF Next, Arrive, Continue, Expire, vars, stored, ReviewComes,
     UpdateComes, DetailComes, PicksCome, AddComes, RemoveComes, FindForAdmin, GetDetail,
     FindDetail,
     SetDetail, FlagDetail, FindForAdd, AddFavourite, RemoveFavourite, GetPicks, FindPicks,
     SetPicks, Fail, ExpireDetail, ExpirePicks

\* Requests go on as their operation says.
LEMMA NextKindFits == IInv /\ [Next]_vars => KindFits'
<1> SUFFICES ASSUME IInv, [Next]_vars PROVE KindFits'
  OBVIOUS
<1> USE StationAssumption, UserAssumption, NextRowsStay
<1> USE DEF IInv, TypeOK, KindFits, Comes, Answer, Goto, Contest, Toggling,
            stored, cached, request, history, IsThere, IsActive, RowsStay, Kind, Waiting,
            SubmittedRow, Row, Status
<1>1. ASSUME NEW h \in Handler, NEW u \in User, NEW s \in Station, SubmitStation(h, u, s)
      PROVE  KindFits'
  BY <1>1 DEF SubmitStation, SubmittedRow
<1>2. ASSUME NEW s \in Station, NEW active \in BOOLEAN, CreateStation(s, active)
      PROVE  KindFits'
  BY <1>2 DEF CreateStation
<1>3. ASSUME NEW h \in Handler, NEW s \in Station, NEW d \in Decision, ReviewComes(h, s, d)
      PROVE  KindFits'
  BY <1>3 DEF ReviewComes
<1>4. ASSUME NEW h \in Handler, NEW s \in Station, NEW c \in Update, UpdateComes(h, s, c)
      PROVE  KindFits'
  BY <1>4 DEF UpdateComes
<1>5. ASSUME NEW h \in Handler, NEW u \in User \cup {NoUser}, NEW s \in Station,
             DetailComes(h, u, s)
      PROVE  KindFits'
  BY <1>5 DEF DetailComes
<1>6. ASSUME NEW h \in Handler, NEW u \in User \cup {NoUser}, NEW s \in Station,
             PicksCome(h, u, s)
      PROVE  KindFits'
  BY <1>6 DEF PicksCome
<1>7. ASSUME NEW h \in Handler, NEW u \in User, NEW s \in Station, AddComes(h, u, s)
      PROVE  KindFits'
  BY <1>7 DEF AddComes
<1>8. ASSUME NEW h \in Handler, NEW u \in User, NEW s \in Station, RemoveComes(h, u, s)
      PROVE  KindFits'
  BY <1>8 DEF RemoveComes
<1>9. ASSUME NEW h \in Handler, FindForAdmin(h)
      PROVE  KindFits'
  BY <1>9 DEF FindForAdmin
<1>10. ASSUME NEW h \in Handler, WriteReview(h)
      PROVE  KindFits'
  BY <1>10 DEF WriteReview
<1>11. ASSUME NEW h \in Handler, WriteUpdate(h)
      PROVE  KindFits'
  BY <1>11 DEF WriteUpdate
<1>12. ASSUME NEW h \in Handler, GetDetail(h)
      PROVE  KindFits'
  BY <1>12 DEF GetDetail
<1>13. ASSUME NEW h \in Handler, FindDetail(h)
      PROVE  KindFits'
  BY <1>13 DEF FindDetail, Findable
<1>14. ASSUME NEW h \in Handler, SetDetail(h)
      PROVE  KindFits'
  BY <1>14 DEF SetDetail
<1>15. ASSUME NEW h \in Handler, FlagDetail(h)
      PROVE  KindFits'
  BY <1>15 DEF FlagDetail
<1>16. ASSUME NEW h \in Handler, FindForAdd(h)
      PROVE  KindFits'
  BY <1>16 DEF FindForAdd
<1>17. ASSUME NEW h \in Handler, AddFavourite(h)
      PROVE  KindFits'
  BY <1>17 DEF AddFavourite
<1>18. ASSUME NEW h \in Handler, RemoveFavourite(h)
      PROVE  KindFits'
  BY <1>18 DEF RemoveFavourite
<1>19. ASSUME NEW h \in Handler, GetPicks(h)
      PROVE  KindFits'
  BY <1>19 DEF GetPicks
<1>20. ASSUME NEW h \in Handler, FindPicks(h)
      PROVE  KindFits'
  BY <1>20 DEF FindPicks, Findable
<1>21. ASSUME NEW h \in Handler, SetPicks(h)
      PROVE  KindFits'
  BY <1>21 DEF SetPicks
<1>22. ASSUME NEW h \in Handler, Fail(h)
      PROVE  KindFits'
  BY <1>22 DEF Fail
<1>23. ASSUME NEW s \in Station, ExpireDetail(s)
      PROVE  KindFits'
  BY <1>23 DEF ExpireDetail
<1>24. ASSUME ExpirePicks
      PROVE  KindFits'
  BY <1>24 DEF ExpirePicks
<1>25. CASE UNCHANGED vars
  BY <1>25 DEF vars
<1>26. QED
  BY <1>1, <1>2, <1>3, <1>4, <1>5, <1>6, <1>7, <1>8, <1>9, <1>10, <1>11, <1>12, <1>13, <1>14,
     <1>15, <1>16, <1>17, <1>18, <1>19, <1>20, <1>21, <1>22, <1>23, <1>24, <1>25 DEF Next,
     Arrive, Continue, Expire

\* Only a decision to approve and an update to activate publish a station.
LEMMA NextPublished == IInv /\ [Next]_vars => PublishedWasVetted'
<1> SUFFICES ASSUME IInv, [Next]_vars PROVE PublishedWasVetted'
  OBVIOUS
<1> USE DEF IInv, TypeOK, PublishedWasVetted, IsActive, IsThere
<1>1. ASSUME NEW h \in Handler, WriteReview(h) PROVE PublishedWasVetted'
  BY <1>1, ReviewedTyped DEF WriteReview, KindFits
<1>2. ASSUME NEW h \in Handler, WriteUpdate(h) PROVE PublishedWasVetted'
  BY <1>2, UpdatedTyped DEF WriteUpdate, KindFits
<1>3. ASSUME NEW h \in Handler, NEW u \in User, NEW s \in Station, SubmitStation(h, u, s)
      PROVE  PublishedWasVetted'
  BY <1>3 DEF SubmitStation, SubmittedRow, history
<1>4. ASSUME NEW s \in Station, NEW active \in BOOLEAN, CreateStation(s, active)
      PROVE  PublishedWasVetted'
  BY <1>4 DEF CreateStation, history
<1>5. CASE UNCHANGED <<rows, activated>>
  BY <1>5
<1>6. QED
  BY <1>1, <1>2, <1>3, <1>4, <1>5 DEF Next, Arrive, Continue, Expire, vars, stored, history,
     ReviewComes, UpdateComes, DetailComes, PicksCome, AddComes, RemoveComes, FindForAdmin,
     GetDetail, FindDetail, SetDetail, FlagDetail, FindForAdd, AddFavourite, RemoveFavourite,
     GetPicks, FindPicks, SetPicks, Fail, ExpireDetail, ExpirePicks

\* Who comes for a favourite that another is at is put on record, and stays there
\* until one of the two is answered.
LEMMA NextContests == IInv /\ [Next]_vars => ContestsKnown'
<1> SUFFICES ASSUME IInv, [Next]_vars PROVE ContestsKnown'
  OBVIOUS
<1> USE StationAssumption, UserAssumption, PicksAssumption
<1> USE DEF IInv, TypeOK, KindFits, ContestsKnown, Comes, Answer, Goto, Contest, Toggling,
            stored, cached, request, history, IsThere, IsActive
<1>1. ASSUME NEW h \in Handler, NEW u \in User, NEW s \in Station, SubmitStation(h, u, s)
      PROVE  ContestsKnown'
  BY <1>1 DEF SubmitStation, SubmittedRow
<1>2. ASSUME NEW s \in Station, NEW active \in BOOLEAN, CreateStation(s, active)
      PROVE  ContestsKnown'
  BY <1>2 DEF CreateStation
<1>3. ASSUME NEW h \in Handler, NEW s \in Station, NEW d \in Decision, ReviewComes(h, s, d)
      PROVE  ContestsKnown'
  BY <1>3 DEF ReviewComes
<1>4. ASSUME NEW h \in Handler, NEW s \in Station, NEW c \in Update, UpdateComes(h, s, c)
      PROVE  ContestsKnown'
  BY <1>4 DEF UpdateComes
<1>5. ASSUME NEW h \in Handler, NEW u \in User \cup {NoUser}, NEW s \in Station,
             DetailComes(h, u, s)
      PROVE  ContestsKnown'
  BY <1>5 DEF DetailComes
<1>6. ASSUME NEW h \in Handler, NEW u \in User \cup {NoUser}, NEW s \in Station,
             PicksCome(h, u, s)
      PROVE  ContestsKnown'
  BY <1>6 DEF PicksCome
<1>7. ASSUME NEW h \in Handler, NEW u \in User, NEW s \in Station, AddComes(h, u, s)
      PROVE  ContestsKnown'
  BY <1>7 DEF AddComes
<1>8. ASSUME NEW h \in Handler, NEW u \in User, NEW s \in Station, RemoveComes(h, u, s)
      PROVE  ContestsKnown'
  BY <1>8 DEF RemoveComes
<1>9. ASSUME NEW h \in Handler, FindForAdmin(h)
      PROVE  ContestsKnown'
  BY <1>9 DEF FindForAdmin
<1>10. ASSUME NEW h \in Handler, WriteReview(h)
      PROVE  ContestsKnown'
  BY <1>10 DEF WriteReview
<1>11. ASSUME NEW h \in Handler, WriteUpdate(h)
      PROVE  ContestsKnown'
  BY <1>11 DEF WriteUpdate
<1>12. ASSUME NEW h \in Handler, GetDetail(h)
      PROVE  ContestsKnown'
  BY <1>12 DEF GetDetail
<1>13. ASSUME NEW h \in Handler, FindDetail(h)
      PROVE  ContestsKnown'
  BY <1>13 DEF FindDetail, Findable
<1>14. ASSUME NEW h \in Handler, SetDetail(h)
      PROVE  ContestsKnown'
  BY <1>14 DEF SetDetail
<1>15. ASSUME NEW h \in Handler, FlagDetail(h)
      PROVE  ContestsKnown'
  BY <1>15 DEF FlagDetail
<1>16. ASSUME NEW h \in Handler, FindForAdd(h)
      PROVE  ContestsKnown'
  BY <1>16 DEF FindForAdd
<1>17. ASSUME NEW h \in Handler, AddFavourite(h)
      PROVE  ContestsKnown'
  BY <1>17 DEF AddFavourite
<1>18. ASSUME NEW h \in Handler, RemoveFavourite(h)
      PROVE  ContestsKnown'
  BY <1>18 DEF RemoveFavourite
<1>19. ASSUME NEW h \in Handler, GetPicks(h)
      PROVE  ContestsKnown'
  BY <1>19 DEF GetPicks
<1>20. ASSUME NEW h \in Handler, FindPicks(h)
      PROVE  ContestsKnown'
  BY <1>20 DEF FindPicks, Findable
<1>21. ASSUME NEW h \in Handler, SetPicks(h)
      PROVE  ContestsKnown'
  BY <1>21 DEF SetPicks
<1>22. ASSUME NEW h \in Handler, Fail(h)
      PROVE  ContestsKnown'
  BY <1>22 DEF Fail
<1>23. ASSUME NEW s \in Station, ExpireDetail(s)
      PROVE  ContestsKnown'
  BY <1>23 DEF ExpireDetail
<1>24. ASSUME ExpirePicks
      PROVE  ContestsKnown'
  BY <1>24 DEF ExpirePicks
<1>25. CASE UNCHANGED vars
  BY <1>25 DEF vars
<1>26. QED
  BY <1>1, <1>2, <1>3, <1>4, <1>5, <1>6, <1>7, <1>8, <1>9, <1>10, <1>11, <1>12, <1>13, <1>14,
     <1>15, <1>16, <1>17, <1>18, <1>19, <1>20, <1>21, <1>22, <1>23, <1>24, <1>25 DEF Next,
     Arrive, Continue, Expire

\* A favourite that was written stays so until its request is answered, but for
\* the contested ones.
LEMMA NextFavourites == IInv /\ [Next]_vars => FavouritesDone'
<1> SUFFICES ASSUME IInv, [Next]_vars PROVE FavouritesDone'
  OBVIOUS
<1> USE StationAssumption, UserAssumption, PicksAssumption
<1> USE DEF IInv, TypeOK, KindFits, ContestsKnown, FavouritesDone, Detailing, Comes, Answer,
Goto, Contest, Toggling,
            stored, cached, request, history, IsThere, IsActive
<1>1. ASSUME NEW h \in Handler, NEW u \in User, NEW s \in Station, SubmitStation(h, u, s)
      PROVE  FavouritesDone'
  BY <1>1 DEF SubmitStation, SubmittedRow
<1>2. ASSUME NEW s \in Station, NEW active \in BOOLEAN, CreateStation(s, active)
      PROVE  FavouritesDone'
  BY <1>2 DEF CreateStation
<1>3. ASSUME NEW h \in Handler, NEW s \in Station, NEW d \in Decision, ReviewComes(h, s, d)
      PROVE  FavouritesDone'
  BY <1>3 DEF ReviewComes
<1>4. ASSUME NEW h \in Handler, NEW s \in Station, NEW c \in Update, UpdateComes(h, s, c)
      PROVE  FavouritesDone'
  BY <1>4 DEF UpdateComes
<1>5. ASSUME NEW h \in Handler, NEW u \in User \cup {NoUser}, NEW s \in Station,
             DetailComes(h, u, s)
      PROVE  FavouritesDone'
  BY <1>5 DEF DetailComes
<1>6. ASSUME NEW h \in Handler, NEW u \in User \cup {NoUser}, NEW s \in Station,
             PicksCome(h, u, s)
      PROVE  FavouritesDone'
  BY <1>6 DEF PicksCome
<1>7. ASSUME NEW h \in Handler, NEW u \in User, NEW s \in Station, AddComes(h, u, s)
      PROVE  FavouritesDone'
  BY <1>7 DEF AddComes
<1>8. ASSUME NEW h \in Handler, NEW u \in User, NEW s \in Station, RemoveComes(h, u, s)
      PROVE  FavouritesDone'
  BY <1>8 DEF RemoveComes
<1>9. ASSUME NEW h \in Handler, FindForAdmin(h)
      PROVE  FavouritesDone'
  BY <1>9 DEF FindForAdmin
<1>10. ASSUME NEW h \in Handler, WriteReview(h)
      PROVE  FavouritesDone'
  BY <1>10 DEF WriteReview
<1>11. ASSUME NEW h \in Handler, WriteUpdate(h)
      PROVE  FavouritesDone'
  BY <1>11 DEF WriteUpdate
<1>12. ASSUME NEW h \in Handler, GetDetail(h)
      PROVE  FavouritesDone'
  BY <1>12 DEF GetDetail
<1>13. ASSUME NEW h \in Handler, FindDetail(h)
      PROVE  FavouritesDone'
  BY <1>13 DEF FindDetail, Findable
<1>14. ASSUME NEW h \in Handler, SetDetail(h)
      PROVE  FavouritesDone'
  BY <1>14 DEF SetDetail
<1>15. ASSUME NEW h \in Handler, FlagDetail(h)
      PROVE  FavouritesDone'
  BY <1>15 DEF FlagDetail
<1>16. ASSUME NEW h \in Handler, FindForAdd(h)
      PROVE  FavouritesDone'
  BY <1>16 DEF FindForAdd
<1>17. ASSUME NEW h \in Handler, AddFavourite(h)
      PROVE  FavouritesDone'
  BY <1>17 DEF AddFavourite
<1>18. ASSUME NEW h \in Handler, RemoveFavourite(h)
      PROVE  FavouritesDone'
  BY <1>18 DEF RemoveFavourite
<1>19. ASSUME NEW h \in Handler, GetPicks(h)
      PROVE  FavouritesDone'
  BY <1>19 DEF GetPicks
<1>20. ASSUME NEW h \in Handler, FindPicks(h)
      PROVE  FavouritesDone'
  BY <1>20 DEF FindPicks, Findable
<1>21. ASSUME NEW h \in Handler, SetPicks(h)
      PROVE  FavouritesDone'
  BY <1>21 DEF SetPicks
<1>22. ASSUME NEW h \in Handler, Fail(h)
      PROVE  FavouritesDone'
  BY <1>22 DEF Fail
<1>23. ASSUME NEW s \in Station, ExpireDetail(s)
      PROVE  FavouritesDone'
  BY <1>23 DEF ExpireDetail
<1>24. ASSUME ExpirePicks
      PROVE  FavouritesDone'
  BY <1>24 DEF ExpirePicks
<1>25. CASE UNCHANGED vars
  BY <1>25 DEF vars
<1>26. QED
  BY <1>1, <1>2, <1>3, <1>4, <1>5, <1>6, <1>7, <1>8, <1>9, <1>10, <1>11, <1>12, <1>13, <1>14,
     <1>15, <1>16, <1>17, <1>18, <1>19, <1>20, <1>21, <1>22, <1>23, <1>24, <1>25 DEF Next,
     Arrive, Continue, Expire

LEMMA NextIInv == IInv /\ [Next]_vars => IInv'
BY NextTypeOK, NextKindFits, NextPublished, NextContests, NextFavourites DEF IInv

LEMMA Invariance == Spec => []IInv
BY InitIInv, NextIInv, PTL DEF Spec

\* The rows, the favourites, the caches and the requests keep their types.
THEOREM ListingTyped == Spec => []TypeOK
<1>1. IInv => TypeOK
  BY DEF IInv
<1>2. QED
  BY <1>1, Invariance, PTL

\* A station that is public was approved, or switched on by an administrator
\* after its last review.
THEOREM PublishedVetted == Spec => []PublishedWasVetted
<1>1. IInv => PublishedWasVetted
  BY DEF IInv
<1>2. QED
  BY <1>1, Invariance, PTL

\* What a request has submitted, added or removed is in the lists of its user
\* while it waits for its answer.
THEOREM ListsAgree == Spec => []OwnListsAgree
<1>1. IInv => OwnListsAgree
  <2> SUFFICES ASSUME IInv, NEW h \in Handler, pc[h] \in Detailing
               PROVE  /\ kind[h] = "submit" => target[h] \in GetMySubmissions(user[h])
                      /\ kind[h] \in {"add", "remove"} /\ <<user[h], target[h]>> \notin contested =>
                             /\ IsFavorite(h) <=> kind[h] = "add"
                             /\ IsActive(target[h]) =>
                                    (target[h] \in GetFavourites(user[h]) <=> kind[h] = "add")
    BY DEF OwnListsAgree, Detailing
  <2>1. target[h] \in Station
    BY DEF IInv, TypeOK
  <2>2. kind[h] = "submit" => target[h] \in GetMySubmissions(user[h])
    BY <2>1 DEF IInv, KindFits, GetMySubmissions
  <2>3. kind[h] \in {"add", "remove"} /\ <<user[h], target[h]>> \notin contested =>
            (<<user[h], target[h]>> \in favourites <=> kind[h] = "add")
    BY DEF IInv, FavouritesDone
  <2>4. QED
    BY <2>1, <2>2, <2>3 DEF IsFavorite, GetFavourites
<1>2. QED
  BY <1>1, Invariance, PTL

-----------------------------------------------------------------------------
(* How a hidden station fades                                              *)

\* A step that stores nothing, and by which nobody comes to hold anything.
Quiet == /\ details' \subseteq details /\ picks' \in {picks, NoPicks}
         /\ \A g \in Handler : /\ held'[g] \in {held[g], {}}
                               /\ pc'[g] \in StoreLabels => pc'[g] = pc[g]

LEMMA QuietFades == Quiet => \A s \in Station : Fading(s)
BY DEF Quiet, Fading, Storing, Cached

\* Requests come, are answered and go on without storing or finding a station.
LEMMA QuietSteps ==
    ASSUME TypeOK, NEW h \in Handler
    PROVE  /\ \A k, u, s, c : \A label \in Waiting \ StoreLabels :
                  Comes(h, k, u, s, c, label) => Quiet
           /\ Answer(h) /\ UNCHANGED cached => Quiet
           /\ \A label \in Waiting \ StoreLabels :
                  Goto(h, label) /\ UNCHANGED <<cached, held>> => Quiet
<1> USE DEF TypeOK, Quiet, StoreLabels, cached
<1>1. ASSUME NEW k, NEW u, NEW s, NEW c, NEW label \in Waiting \ StoreLabels,
             Comes(h, k, u, s, c, label)
      PROVE  Quiet
  BY <1>1 DEF Comes, Goto
<1>2. ASSUME Answer(h), UNCHANGED cached
      PROVE  Quiet
  BY <1>2 DEF Answer, Goto
<1>3. ASSUME NEW label \in Waiting \ StoreLabels, Goto(h, label), UNCHANGED <<cached, held>>
      PROVE  Quiet
  BY <1>3 DEF Goto
<1>4. QED
  BY <1>1, <1>2, <1>3, Zenon

LEMMA ArrivesQuietly == ASSUME TypeOK, NEW h \in Handler, Arrive(h) PROVE Quiet
<1>1. {"detail.get", "admin.find", "add.find", "remove.write", "picks.get"}
          \subseteq Waiting \ StoreLabels
  BY DEF Waiting, StoreLabels
<1>2. QED
  BY <1>1, QuietSteps DEF Arrive, SubmitStation, ReviewComes, UpdateComes, DetailComes,
     PicksCome, AddComes, RemoveComes

LEMMA ContinuesQuietly ==
    ASSUME TypeOK, NEW h \in Handler,
           \/ FindForAdmin(h) \/ WriteReview(h) \/ WriteUpdate(h) \/ FlagDetail(h)
           \/ FindForAdd(h) \/ AddFavourite(h) \/ RemoveFavourite(h) \/ GetPicks(h)
           \/ Fail(h)
    PROVE  Quiet
<1>1. {"admin.write", "add.write", "detail.get", "picks.find"} \subseteq Waiting \ StoreLabels
  BY DEF Waiting, StoreLabels
<1>2. CASE FindForAdmin(h) \/ FindForAdd(h) \/ GetPicks(h)
  BY <1>1, <1>2, QuietSteps DEF FindForAdmin, FindForAdd, GetPicks
<1>3. CASE WriteReview(h) \/ WriteUpdate(h) \/ FlagDetail(h) \/ Fail(h)
  BY <1>3, QuietSteps DEF WriteReview, WriteUpdate, FlagDetail, Fail
<1>4. CASE AddFavourite(h) \/ RemoveFavourite(h)
  BY <1>1, <1>4, QuietSteps DEF AddFavourite, RemoveFavourite
<1>5. QED
  BY <1>2, <1>3, <1>4

LEMMA NextFades ==
    ASSUME TypeOK, [Next]_vars, NEW s \in Station, ~IsActive(s)
    PROVE  Fading(s)
<1> USE DEF TypeOK, Fading, Storing, Cached, StoreLabels, stored, cached, request, history
<1>1. ASSUME Quiet PROVE Fading(s)
  BY <1>1, QuietFades
<1>2. ASSUME NEW h \in Handler, GetDetail(h) PROVE Fading(s)
  BY <1>2 DEF GetDetail, Goto
<1>3. ASSUME NEW h \in Handler, FindDetail(h) PROVE Fading(s)
  <2>1. CASE Answer(h)
    <3>1. UNCHANGED cached
      BY <1>3 DEF FindDetail
    <3>2. QED
      BY <1>1, <2>1, <3>1, QuietSteps
  <2>2. CASE /\ Findable(target[h]) /\ held' = [held EXCEPT ![h] = {target[h]}]
             /\ Goto(h, "detail.set") /\ UNCHANGED cached
    BY <2>2 DEF Goto, Findable
  <2>3. QED
    BY <1>3, <2>1, <2>2 DEF FindDetail
<1>4. ASSUME NEW h \in Handler, SetDetail(h) PROVE Fading(s)
  <2>1. /\ \A g \in Handler : held'[g] = held[g] /\ (pc'[g] \in StoreLabels => pc'[g] = pc[g])
        /\ pc[h] = "detail.set" /\ pc'[h] = "detail.flag"
        /\ details' = details \cup held[h] /\ picks' = picks
    BY <1>4 DEF SetDetail, Goto
  <2>2. s \notin held[h] \/ (h \in Storing(s) /\ h \notin Storing(s)')
    BY <2>1
  <2>3. QED
    BY <2>1, <2>2
<1>5. ASSUME NEW h \in Handler, FindPicks(h) PROVE Fading(s)
  <2>1. PICK best \in SUBSET {x \in Station : Findable(x)} :
            /\ held' = [held EXCEPT ![h] = best]
            /\ Goto(h, "picks.set") /\ UNCHANGED cached
    BY <1>5 DEF FindPicks
  <2>2. s \notin best
    BY <2>1 DEF Findable
  <2>3. QED
    BY <2>1, <2>2 DEF Goto
<1>6. ASSUME NEW h \in Handler, SetPicks(h) PROVE Fading(s)
  <2>1. /\ \A g \in Handler : held'[g] \in {held[g], {}} /\ pc'[g] \in {pc[g], "idle"}
        /\ pc[h] = "picks.set" /\ pc'[h] = "idle"
        /\ details' = details /\ picks' = held[h]
    BY <1>6 DEF SetPicks, Answer, Goto
  <2>2. s \notin held[h] \/ (h \in Storing(s) /\ h \notin Storing(s)')
    BY <2>1
  <2>3. QED
    BY <2>1, <2>2
<1>7. CASE Expire \/ UNCHANGED vars \/ \E x \in Station, active \in BOOLEAN :
              CreateStation(x, active)
  BY <1>1, <1>7 DEF Expire, ExpirePicks, ExpireDetail, CreateStation, vars, Quiet
<1>8. QED
  BY <1>1, <1>2, <1>3, <1>4, <1>5, <1>6, <1>7, ArrivesQuietly, ContinuesQuietly DEF Next,
     Continue

\* While a station is hidden each request that had found it stores it once more
\* at most, and no other ever does.
THEOREM HiddenIsStoredOnceMore == Spec => StoredOnceMore
<1>1. IInv /\ [Next]_vars =>
          [\A s \in Station : ~IsActive(s) => Fading(s)]_vars
  BY NextFades DEF IInv
<1>2. QED
  BY <1>1, Invariance, PTL DEF Spec, StoredOnceMore

-----------------------------------------------------------------------------
(* The ports and the images of a station                                   *)

\* What a request will write is what its operation asks for.
AskFits == \A h \in Request :
    /\ stage[h] = "create" => asked[h].status \in PortStatus
    /\ stage[h] = "update" => asked[h].port \in Port
    /\ stage[h] = "unset" => asked[h].primary
    /\ stage[h] = "store" => uncounted[h] = {}

\* A request that nobody has disturbed has counted the ports as they are.
TalliesTrue == \A h \in Request : stage[h] \in Counting /\ ~disturbed[h] =>
    /\ "total" \notin uncounted[h] => tally[h].total = Cardinality(Added)
    /\ "available" \notin uncounted[h] => tally[h].available = Cardinality(AvailablePorts)

\* Unless the last count was spoiled, it is right or somebody counts anew.
CountsTrue == ~spoiled =>
    /\ counts = MapToStationCard \/ \E h \in Request : stage[h] \in Counting
    /\ counts.available <= counts.total

Between(h) == stage[h] = "image" /\ asked[h].primary

\* Between taking the flag off and setting it there is no primary image, and
\* one request at most is there.
HeroTrue == ~heroSpoiled =>
    /\ \A g, h \in Request : Between(g) /\ Between(h) => g = h
    /\ \/ primary = {} /\ (hero => \E h \in Request : Between(h))
       \/ hero /\ (\E i \in Image : primary = {i}) /\ \A h \in Request : ~Between(h)

PInv == PartsTypeOK /\ AskFits /\ TalliesTrue /\ CountsTrue /\ HeroTrue

LEMMA CountsOfPorts ==
    /\ Cardinality(Added) \in Nat
    /\ Cardinality(AvailablePorts) \in Nat
    /\ Cardinality(AvailablePorts) <= Cardinality(Added)
<1>1. Added \in SUBSET Port /\ AvailablePorts \in SUBSET Added
  BY NoPortAssumption DEF Added, AvailablePorts, PortStatus
<1>2. IsFiniteSet(Added)
  BY <1>1, PortsFinite, FS_Subset
<1>3. IsFiniteSet(AvailablePorts) /\ Cardinality(AvailablePorts) <= Cardinality(Added)
  BY <1>1, <1>2, FS_Subset
<1>4. QED
  BY <1>2, <1>3, FS_CardinalityType

LEMMA InitPInv == PartsInit => PInv
<1> SUFFICES ASSUME PartsInit PROVE PInv
  OBVIOUS
<1> USE DEF PartsInit
<1>1. AvailablePorts = {}
  BY NoPortAssumption DEF AvailablePorts, PortStatus
<1>2. Cardinality(AvailablePorts) = 0
  BY <1>1, FS_EmptySet
<1>3. PartsTypeOK
  BY CountsOfPorts DEF PartsTypeOK, PortStatus, Count, Stage, Ask, Nothing, Both
<1>4. AskFits /\ TalliesTrue
  BY DEF AskFits, TalliesTrue, Counting
<1>5. CountsTrue
  BY <1>2, CountsOfPorts DEF CountsTrue, MapToStationCard
<1>6. HeroTrue
  BY DEF HeroTrue, Between
<1>7. QED
  BY <1>3, <1>4, <1>5, <1>6 DEF PInv

\* A port that is written disturbs who has begun to count.
LEMMA WritePortKeeps ==
    ASSUME PInv, NEW h \in Request, NEW p \in Port, NEW status \in PortStatus,
           stage[h] \in {"create", "update"}, WritePort(h, p, status)
    PROVE  PInv'
<1> USE DEF PInv, WritePort, NextStage
<1>1. PartsTypeOK'
  BY DEF PartsTypeOK, Stage, Counting, Both
<1>2. AskFits'
  BY DEF PartsTypeOK, AskFits
<1>3. TalliesTrue'
  <2> SUFFICES ASSUME NEW g \in Request, stage'[g] \in Counting, ~disturbed'[g]
               PROVE  uncounted'[g] = Both
    BY DEF TalliesTrue, Both
  <2>1. QED
    BY DEF PartsTypeOK, Counting
<1>4. CountsTrue'
  BY DEF PartsTypeOK, CountsTrue, Counting
<1>5. HeroTrue'
  BY DEF PartsTypeOK, HeroTrue, Between
<1>6. QED
  BY <1>1, <1>2, <1>3, <1>4, <1>5

LEMMA NextPInv == PInv /\ [PartsNext]_partsVars => PInv'
<1> SUFFICES ASSUME PInv, [PartsNext]_partsVars PROVE PInv'
  OBVIOUS
<1> USE DEF PInv, PartsTypeOK, NextStage, End, Begin, parts, partsHistory
<1>1. ASSUME NEW h \in Request, NEW status \in PortStatus, AddPort(h, status)
      PROVE  PInv'
  <2>1. PartsTypeOK'
    BY <1>1 DEF AddPort, Stage, Counting, Ask, Nothing, Count, Both
  <2>2. AskFits'
    BY <1>1 DEF AddPort, AskFits, Nothing, Counting, Both
  <2>3. TalliesTrue'
    BY <1>1, CountsOfPorts DEF AddPort, TalliesTrue, Counting, Added, AvailablePorts, Both,
       Count, AskFits
  <2>4. CountsTrue'
    BY <1>1, CountsOfPorts DEF AddPort, CountsTrue, Counting, Added, AvailablePorts,
       MapToStationCard
  <2>5. HeroTrue'
    BY <1>1 DEF AddPort, HeroTrue, Between, Nothing, AskFits, Counting
  <2>6. QED
    BY <2>1, <2>2, <2>3, <2>4, <2>5
<1>2. ASSUME NEW h \in Request, NEW p \in Port, NEW status \in PortStatus \cup {"keep"},
             UpdatePortRequest(h, p, status)
      PROVE  PInv'
  <2>1. PartsTypeOK'
    BY <1>2 DEF UpdatePortRequest, Stage, Counting, Ask, Nothing, Count, Both
  <2>2. AskFits'
    BY <1>2 DEF UpdatePortRequest, AskFits, Nothing, Counting, Both
  <2>3. TalliesTrue'
    BY <1>2, CountsOfPorts DEF UpdatePortRequest, TalliesTrue, Counting, Added, AvailablePorts,
       Both, Count, AskFits
  <2>4. CountsTrue'
    BY <1>2, CountsOfPorts DEF UpdatePortRequest, CountsTrue, Counting, Added, AvailablePorts,
       MapToStationCard
  <2>5. HeroTrue'
    BY <1>2 DEF UpdatePortRequest, HeroTrue, Between, Nothing, AskFits, Counting
  <2>6. QED
    BY <2>1, <2>2, <2>3, <2>4, <2>5
<1>3. ASSUME NEW h \in Request, NEW isPrimary \in BOOLEAN, AddStationImage(h, isPrimary)
      PROVE  PInv'
  <2>1. PartsTypeOK'
    BY <1>3 DEF AddStationImage, Stage, Counting, Ask, Nothing, Count, Both
  <2>2. AskFits'
    BY <1>3 DEF AddStationImage, AskFits, Nothing, Counting, Both
  <2>3. TalliesTrue'
    BY <1>3, CountsOfPorts DEF AddStationImage, TalliesTrue, Counting, Added, AvailablePorts,
       Both, Count, AskFits
  <2>4. CountsTrue'
    BY <1>3, CountsOfPorts DEF AddStationImage, CountsTrue, Counting, Added, AvailablePorts,
       MapToStationCard
  <2>5. HeroTrue'
    BY <1>3 DEF AddStationImage, HeroTrue, Between, Nothing, AskFits, Counting
  <2>6. QED
    BY <2>1, <2>2, <2>3, <2>4, <2>5
<1>4. ASSUME NEW h \in Request, NEW p \in Port, CreatePort(h, p)
      PROVE  PInv'
  BY <1>4, WritePortKeeps DEF CreatePort, AskFits
<1>5. ASSUME NEW h \in Request, UpdatePort(h)
      PROVE  PInv'
  <2>0. CASE asked[h].status # "keep"
    BY <1>5, <2>0, WritePortKeeps DEF UpdatePort, AskFits, Ask
  <2> SUFFICES ASSUME asked[h].status = "keep", stage[h] = "update", End(h),
                      UNCHANGED <<parts, partsHistory>>
               PROVE  PInv'
    BY <1>5, <2>0 DEF UpdatePort
  <2>1. PartsTypeOK'
    BY <1>5 DEF End, Stage, Counting, Ask, Nothing, Count, Both
  <2>2. AskFits'
    BY <1>5 DEF End, AskFits, Nothing, Counting, Both
  <2>3. TalliesTrue'
    BY <1>5, CountsOfPorts DEF End, TalliesTrue, Counting, Added, AvailablePorts, Both, Count,
       AskFits
  <2>4. CountsTrue'
    BY <1>5, CountsOfPorts DEF End, CountsTrue, Counting, Added, AvailablePorts,
       MapToStationCard
  <2>5. HeroTrue'
    BY <1>5 DEF End, HeroTrue, Between, Nothing, AskFits, Counting
  <2>6. QED
    BY <2>1, <2>2, <2>3, <2>4, <2>5
<1>6. ASSUME NEW h \in Request, NEW what \in Both, CountPorts(h, what)
      PROVE  PInv'
  <2>1. PartsTypeOK'
    <3> DEFINE n == Cardinality(IF what = "total" THEN Added ELSE AvailablePorts)
    <3>1. n \in Nat /\ tally' = [tally EXCEPT ![h] = [tally[h] EXCEPT ![what] = n]]
      BY <1>6, CountsOfPorts DEF CountPorts
    <3>2. [tally[h] EXCEPT ![what] = n] \in Count
      <4> HIDE DEF n
      <4>1. CASE what = "total"
        BY <3>1, <4>1 DEF Count
      <4>2. CASE what = "available"
        BY <3>1, <4>2 DEF Count
      <4>3. QED
        BY <4>1, <4>2 DEF Both
    <3> HIDE DEF n
    <3>3. tally' \in [Request -> Count]
      BY <3>1, <3>2
    <3>4. QED
      BY <1>6, <3>3 DEF CountPorts, Stage, Counting
  <2>2. AskFits'
    BY <1>6 DEF CountPorts, AskFits, Nothing, Counting, Both
  <2>3. TalliesTrue'
    BY <1>6, CountsOfPorts DEF CountPorts, TalliesTrue, Counting, Added, AvailablePorts, Both,
       Count, AskFits
  <2>4. CountsTrue'
    BY <1>6, CountsOfPorts DEF CountPorts, CountsTrue, Counting, Added, AvailablePorts,
       MapToStationCard
  <2>5. HeroTrue'
    BY <1>6 DEF CountPorts, HeroTrue, Between, Nothing, AskFits, Counting
  <2>6. QED
    BY <2>1, <2>2, <2>3, <2>4, <2>5
<1>7. ASSUME NEW h \in Request, StoreCounts(h)
      PROVE  PInv'
  <2>1. PartsTypeOK'
    BY <1>7 DEF StoreCounts, Stage, Counting, Ask, Nothing, Count, Both
  <2>2. AskFits'
    BY <1>7 DEF StoreCounts, AskFits, Nothing, Counting, Both
  <2>3. TalliesTrue'
    BY <1>7, CountsOfPorts DEF StoreCounts, TalliesTrue, Counting, Added, AvailablePorts, Both,
       Count, AskFits
  <2>4. CountsTrue'
    <3> SUFFICES ASSUME ~spoiled'
                 PROVE  /\ counts' = MapToStationCard
                        /\ counts'.available <= counts'.total
      BY <1>7 DEF StoreCounts, CountsTrue, MapToStationCard, Added, AvailablePorts
    <3>1. /\ tally[h].total = Cardinality(Added)
          /\ tally[h].available = Cardinality(AvailablePorts)
      BY <1>7 DEF StoreCounts, TalliesTrue, AskFits, Counting
    <3>2. counts' = tally[h] /\ tally[h] \in Count
      BY <1>7 DEF StoreCounts
    <3>3. tally[h] = [total |-> tally[h].total, available |-> tally[h].available]
      BY <3>2 DEF Count
    <3>4. QED
      BY <3>1, <3>2, <3>3, CountsOfPorts DEF MapToStationCard
  <2>5. HeroTrue'
    BY <1>7 DEF StoreCounts, HeroTrue, Between, Nothing, AskFits, Counting
  <2>6. QED
    BY <2>1, <2>2, <2>3, <2>4, <2>5
<1>8. ASSUME NEW h \in Request, UnsetPrimary(h)
      PROVE  PInv'
  <2>1. PartsTypeOK'
    BY <1>8 DEF UnsetPrimary, Overlaps, Stage, Counting, Ask, Nothing, Count, Both
  <2>2. AskFits'
    BY <1>8 DEF UnsetPrimary, Overlaps, AskFits, Nothing, Counting, Both
  <2>3. TalliesTrue'
    BY <1>8, CountsOfPorts DEF UnsetPrimary, Overlaps, TalliesTrue, Counting, Added,
       AvailablePorts, Both, Count, AskFits
  <2>4. CountsTrue'
    BY <1>8, CountsOfPorts DEF UnsetPrimary, Overlaps, CountsTrue, Counting, Added,
       AvailablePorts, MapToStationCard
  <2>5. HeroTrue'
    BY <1>8 DEF UnsetPrimary, Overlaps, HeroTrue, Between, Nothing, AskFits, Counting
  <2>6. QED
    BY <2>1, <2>2, <2>3, <2>4, <2>5
<1>9. ASSUME NEW h \in Request, NEW i \in Image, CreateImage(h, i)
      PROVE  PInv'
  <2>1. PartsTypeOK'
    BY <1>9 DEF CreateImage, Stage, Counting, Ask, Nothing, Count, Both
  <2>2. AskFits'
    BY <1>9 DEF CreateImage, AskFits, Nothing, Counting, Both
  <2>3. TalliesTrue'
    BY <1>9, CountsOfPorts DEF CreateImage, TalliesTrue, Counting, Added, AvailablePorts, Both,
       Count, AskFits
  <2>4. CountsTrue'
    BY <1>9, CountsOfPorts DEF CreateImage, CountsTrue, Counting, Added, AvailablePorts,
       MapToStationCard
  <2>5. HeroTrue'
    BY <1>9 DEF CreateImage, HeroTrue, Between, Nothing, AskFits, Counting
  <2>6. QED
    BY <2>1, <2>2, <2>3, <2>4, <2>5
<1>10. ASSUME NEW h \in Request, FailPart(h)
      PROVE  PInv'
  <2>1. PartsTypeOK'
    BY <1>10 DEF FailPart, Stage, Counting, Ask, Nothing, Count, Both
  <2>2. AskFits'
    BY <1>10 DEF FailPart, AskFits, Nothing, Counting, Both
  <2>3. TalliesTrue'
    BY <1>10, CountsOfPorts DEF FailPart, TalliesTrue, Counting, Added, AvailablePorts, Both,
       Count, AskFits
  <2>4. CountsTrue'
    BY <1>10, CountsOfPorts DEF FailPart, CountsTrue, Counting, Added, AvailablePorts,
       MapToStationCard
  <2>5. HeroTrue'
    BY <1>10 DEF FailPart, HeroTrue, Between, Nothing, AskFits, Counting
  <2>6. QED
    BY <2>1, <2>2, <2>3, <2>4, <2>5
<1>11. CASE UNCHANGED partsVars
  BY <1>11 DEF partsVars, asking, AskFits, TalliesTrue, CountsTrue, HeroTrue,
              Between, Added, AvailablePorts, MapToStationCard
<1>12. QED
  BY <1>1, <1>2, <1>3, <1>4, <1>5, <1>6, <1>7, <1>8, <1>9, <1>10, <1>11 DEF PartsNext

LEMMA PartsInvariance == PartsSpec => []PInv
BY InitPInv, NextPInv, PTL DEF PartsSpec

\* The ports, the images, the counts and the requests keep their types.
THEOREM PartsTyped == PartsSpec => []PartsTypeOK
<1>1. PInv => PartsTypeOK
  BY DEF PInv
<1>2. QED
  BY <1>1, PartsInvariance, PTL

\* The counts in the row are those of the ports once nobody counts, unless the
\* last count was spoiled.
THEOREM CountsAreOfPorts == PartsSpec => []CountsCatchUp
<1>1. PInv => CountsCatchUp
  BY DEF PInv, CountsTrue, CountsCatchUp, MapToStationDetail
<1>2. QED
  BY <1>1, PartsInvariance, PTL

\* A station that has had a primary image has exactly one, unless requests for
\* one have met or one has failed half-way.
THEOREM HeroIsUnique == PartsSpec => []OneHero
<1>1. PInv => OneHero
  BY DEF PInv, PartsTypeOK, HeroTrue, OneHero, Between
<1>2. QED
  BY <1>1, PartsInvariance, PTL
=============================================================================
