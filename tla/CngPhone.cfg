SPECIFICATION Spec
CONSTANTS
    h1 = h1
    h2 = h2
    p1 = p1
    p2 = p2
    d1 = d1
    d2 = d2
    NoPhone = NoPhone
    NoDoc = NoDoc
    NoQuote = NoQuote
    Handler = {h1, h2}
    Operation <- PhoneOperations
    Phone = {p1, p2}
    DocType = {d1}
    RequiredDoc = {d1}
    Choice <- OneChoice
    MaxAttempts = 1
    MaxChallenges = 3
SYMMETRY Symmetry
INVARIANTS PendingCodeUnverified VerifiedPhoneProven AttemptsBounded OpenChallengesBounded
CHECK_DEADLOCK FALSE
