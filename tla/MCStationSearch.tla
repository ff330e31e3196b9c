--------------------------- MODULE MCStationSearch ---------------------------
EXTENDS StationSearch, ReviewPages, TLC

CONSTANTS s1, s2, s3, lekki

Hours(today, tomorrow) == [d \in Weekday |-> IF d = 0 THEN today ELSE tomorrow]
Between(open, close) == [open |-> open, close |-> close]
Port(connector, status, power) == [connector |-> connector, status |-> status, power |-> power]

\* Open all the time, without reviews, and with two ports that only together
\* are a fast CCS2, or one that is available.
Hub == [isActive |-> TRUE, type |-> "EV", name |-> {}, address |-> {}, area |-> {lekki},
        city |-> {}, avgRating |-> NoRating, rank |-> 1, distance |-> 0, zone |-> 0,
        hours |-> NoHours, cng |-> "none",
        ports |-> <<Port("CCS2", "IN_USE", 1), Port("TYPE2", "AVAILABLE", 2)>>]

\* A CNG station without ports, closed on the other day, at Hub's place.
Gas == [Hub EXCEPT !.type = "CNG", !.area = {}, !.city = {lekki}, !.avgRating = 4,
                   !.hours = Hours(Between(2, 2), Closed), !.cng = "AVAILABLE", !.ports = <<>>]

\* It ties with Gas by rating and name, and is ahead of it by a time.
Mall == [Hub EXCEPT !.avgRating = 4, !.distance = 1, !.zone = 1,
                    !.hours = Hours(Between(0, 3), Between(1, 2)),
                    !.ports = <<Port("CCS2", "AVAILABLE", 1), Port("CCS2", "OUT_OF_ORDER", 2)>>]

\* Its hours run past midnight.
Night == [Mall EXCEPT !.rank = 2, !.distance = 2, !.area = {}, !.zone = 0,
                      !.hours = Hours(AllDay, Between(3, 1)),
                      !.ports = <<Port("CCS2", "AVAILABLE", 2)>>]

Hidden == [Hub EXCEPT !.isActive = FALSE]

Rows == {Hub, Gas, Mall, Night, Hidden}

All == [endpoint |-> "all", city |-> NoWord, area |-> NoWord, search |-> NoWord,
        type |-> NoType, connectors |-> {}, statuses |-> {}, minPower |-> 0,
        radiusKm |-> 2, openNow |-> FALSE, limit |-> 1]
Nearby == [All EXCEPT !.endpoint = "nearby"]

Queries == {All,
            [All EXCEPT !.openNow = TRUE, !.limit = 2],
            [All EXCEPT !.search = lekki, !.type = "EV"],
            [All EXCEPT !.connectors = {"CCS2"}, !.minPower = 2, !.limit = 2],
            [All EXCEPT !.statuses = {"AVAILABLE"}, !.area = lekki, !.limit = 3],
            [All EXCEPT !.connectors = {"CCS2"}, !.statuses = {"AVAILABLE"}],
            [Nearby EXCEPT !.radiusKm = 1],
            [Nearby EXCEPT !.openNow = TRUE, !.limit = 2],
            [Nearby EXCEPT !.connectors = {"CCS2"}, !.minPower = 2, !.type = "EV",
                           !.radiusKm = 0]}

-----------------------------------------------------------------------------
(* A client walks through a list of stations or through the reviews of one; *)
(* the two walks share nothing, and are explored one beside the other.      *)

VARIABLE walks

SearchInit ==
    \/ walks = "stations" /\ Init /\ PagesInit /\ limit = DefaultLimit
    \/ walks = "reviews" /\ PagesInit /\ Init /\ query = All /\ now = 0
                         /\ rows = [s \in Station |-> Hub]

SearchNext == \/ walks = "stations" /\ Next /\ UNCHANGED <<pageVars, walks>>
              \/ walks = "reviews" /\ PagesNext /\ UNCHANGED <<vars, walks>>

SearchSpec == SearchInit /\ [][SearchNext]_<<vars, pageVars, walks>>

\* Nothing depends on which station it is.
Symmetry == Permutations(Station)
=============================================================================
