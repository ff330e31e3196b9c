SPECIFICATION Spec
CONSTANTS
    r1 = r1
    r2 = r2
    r3 = r3
    r4 = r4
    u1 = u1
    u2 = u2
    NoUser = NoUser
    NoReview = NoReview
    NoEntry = NoEntry
    Request = {r1, r2, r3}
    User = {u1, u2}
SYMMETRY Symmetry
INVARIANTS OneReviewPerUser RatingCatchesUp FirstPageFresh DetailFresh
CHECK_DEADLOCK FALSE
