SPECIFICATION Spec
CONSTANTS
    r1 = r1
    r2 = r2
    r3 = r3
    r4 = r4
    r5 = r5
    u1 = u1
    u2 = u2
    NoToken = NoToken
    Request = {r1, r2, r3, r4}
    User = {u1}
SYMMETRY Symmetry
INVARIANTS ParentSpent LateTokensWereUnderWay UsedOnceInTurn SessionsEndInTurn
CHECK_DEADLOCK FALSE
