SPECIFICATION SearchSpec
CONSTANTS
    s1 = s1
    s2 = s2
    s3 = s3
    lekki = lekki
    NoHours = NoHours
    Closed = Closed
    AllDay = AllDay
    UnknownZone = UnknownZone
    NoWord = NoWord
    NoType = NoType
    NoRating = NoRating
    DayLength = 4
    Days = 2
    MidnightHour = 4
    Zone = {0, 1}
    Station = {s1, s2, s3}
    Row <- Rows
    Query <- Queries
    MaxLimit = 2
    NoCursor = NoCursor
    NoPage = NoPage
    MaxReviews = 3
    MaxTime = 3
    WalkLimit = {1, 2}
    DefaultLimit = 2
SYMMETRY Symmetry
INVARIANTS UntiedShownOnce FlagAgreesWithText CardsShowWhatWasAskedFor OpensAsAnnounced ReviewsShownOnce
CHECK_DEADLOCK FALSE
