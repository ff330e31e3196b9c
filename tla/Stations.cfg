SPECIFICATION StationsSpec
CONSTANTS
    h1 = h1
    h2 = h2
    s1 = s1
    u1 = u1
    p1 = p1
    p2 = p2
    i1 = i1
    i2 = i2
    i3 = i3
    NoUser = NoUser
    NoStation = NoStation
    NoPicks = NoPicks
    Handler = {h1, h2}
    Request = {h1, h2}
    Station = {s1}
    User = {u1}
    NoPort = NoPort
    Port = {p1, p2}
    Image = {i1, i2, i3}
INVARIANTS PublishedWasVetted OwnListsAgree CountsCatchUp OneHero
PROPERTIES StoredOnceMore HiddenFades
CHECK_DEADLOCK FALSE
