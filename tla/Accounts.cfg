SPECIFICATION AccountsSpec
CONSTANTS
    h1 = h1
    h2 = h2
    e1 = e1
    e2 = e2
    g1 = g1
    g2 = g2
    n1 = n1
    NoEmail = NoEmail
    NoSub = NoSub
    NoName = NoName
    NoAccount = NoAccount
    Slot = {h1, h2}
    Email = {e1, e2}
    Sub = {g1, g2}
    Name = {n1}
SYMMETRY Symmetry
INVARIANTS IdentityKeepsItsAccount DeactivatedStaysOut
PROPERTIES NameSaid
CHECK_DEADLOCK FALSE
