SPECIFICATION Spec
CONSTANTS
    h1 = h1
    h2 = h2
    p1 = p1
    p2 = p2
    d1 = d1
    d2 = d2
    NoPhone = NoPhone
    NoDoc = NoDoc
    NoQuote = NoQuote
    Handler = {h1, h2}
    Operation <- AllOperations
    Phone = {p1}
    DocType = {d1}
    RequiredDoc = {d1}
    Choice <- OneChoice
    MaxAttempts = 1
    MaxChallenges = 1
PROPERTIES EditsOnlyDraft
CHECK_DEADLOCK FALSE
