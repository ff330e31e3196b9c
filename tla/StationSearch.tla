---------------------------- MODULE StationSearch ----------------------------
(***************************************************************************)
(* A client that walks through a list of stations, page after page: all    *)
(* stations with filters (findAll), or the stations around a place         *)
(* (findNearby).  A page is an offset into a query that runs anew for each *)
(* page, over rows that administrators and reviews change meanwhile, and   *)
(* whether a station is open is read from the clock, card by card.         *)
(*                                                                         *)
(* A statement of the database is one step.  The ports are read after the  *)
(* stations: by a call of its own in findNearby, and in findAll by the     *)
(* statement that the include of its one call sends after the first.  Hero *)
(* images and favourites, fetched beside them, change nothing here.        *)
(***************************************************************************)
EXTENDS StationCards

CONSTANTS
    Station,
    Row,       \* the rows that a station can have
    Query,     \* the queries that clients ask
    MaxLimit,  \* the most stations on a page, 50
    NoWord,    \* a text filter that was not given
    NoType,    \* a type filter that was not given
    NoRating   \* the avgRating of a station without reviews

ASSUME LimitAssumption == MaxLimit \in Nat \ {0}
ASSUME QueryAssumption == \A q \in Query : q.limit \in Nat \ {0} /\ q.minPower \in Nat
ASSUME StationAssumption == IsFiniteSet(Station)

\* Powers are only compared, so that numbers of any kind stand for them.
Ports == Seq([connector : ConnectorType, status : PortStatus, power : Nat])

\* What a row holds, as far as its columns decide anything below.
ASSUME RowAssumption == \A row \in Row :
    /\ row.hours \in OperatingHours \cup {NoHours}
    /\ row.zone \in Zone \cup {UnknownZone}
    /\ row.ports \in Ports
    /\ row.rank \in Int /\ row.distance \in Int

VARIABLES
    rows,     \* the row of each station
    now,      \* the clock
    pc,       \* the call that the request for a page issues next
    query,    \* what the client asked for
    cursor,   \* the offset of the page
    page,     \* the rows found for the page, with their ports
    more,     \* whether there are more after them
    cards,    \* the page that was answered, until the next is asked for
    shown,    \* history: how often the walk has shown each station
    steady,   \* history: no row has changed since the walk began
    turned,   \* history: the minute changed while the page was mapped
    updated   \* history: stations whose row changed after the page was found
              \* and before their ports were read

table == <<rows, now>>
request == <<query, cursor, page, more>>
history == <<shown, steady, turned, updated>>
vars == <<table, pc, request, cards, history>>

Walking == {"find", "related", "map"}

Init == /\ rows \in [Station -> Row]
        /\ now \in Clock
        /\ pc = "find"
        /\ query \in Query
        /\ cursor = 0
        /\ page = <<>>
        /\ more = FALSE
        /\ cards = {}
        /\ shown = [s \in Station |-> 0]
        /\ steady = TRUE
        /\ turned = FALSE
        /\ updated = {}

-----------------------------------------------------------------------------
(* The queries                                                             *)

Contains(field, w) == w = NoWord \/ w \in field

MatchesText(row, q) ==
    /\ Contains(row.city, q.city)
    /\ Contains(row.area, q.area)
    /\ Contains(row.name \cup row.address \cup row.area \cup row.city, q.search)

MatchesType(row, q) == q.type \in {NoType, row.type}

FiltersPorts(q) == q.connectors # {} \/ q.statuses # {} \/ q.minPower > 0

\* One port has all that is asked for.
PortAsked(p, q) == /\ q.connectors = {} \/ p.connector \in q.connectors
                   /\ q.statuses = {} \/ p.status \in q.statuses
                   /\ p.power >= q.minPower

\* Mutant: one port has the connector, another the status or the power.
FindAllWhereAnyPort(row, q) ==
    /\ row.isActive
    /\ MatchesText(row, q)
    /\ MatchesType(row, q)
    /\ \A part \in {[q EXCEPT !.connectors = {}], [q EXCEPT !.statuses = {}, !.minPower = 0]} :
           FiltersPorts(part) => \E i \in DOMAIN row.ports : PortAsked(row.ports[i], part)

FindAllWhere(row, q) ==
    /\ row.isActive
    /\ MatchesText(row, q)
    /\ MatchesType(row, q)
    /\ FiltersPorts(q) => \E i \in DOMAIN row.ports : PortAsked(row.ports[i], q)

\* The filters for connectors, status and power are put together in findNearby
\* and are not part of the statement.
FindNearbyWhere(row, q) ==
    /\ row.isActive
    /\ MatchesType(row, q)
    /\ row.distance <= q.radiusKm

Where(row, q) == IF q.endpoint = "all" THEN FindAllWhere(row, q)
                                       ELSE FindNearbyWhere(row, q)

Matching == {s \in Station : Where(rows[s], query)}

\* Descending, which is nulls first.
RatedAbove(a, b) == /\ a.avgRating # b.avgRating
                    /\ \/ a.avgRating = NoRating
                       \/ b.avgRating # NoRating /\ a.avgRating > b.avgRating

Precedes(a, b) ==
    IF query.endpoint = "all"
    THEN RatedAbove(a, b) \/ (a.avgRating = b.avgRating /\ a.rank < b.rank)
    ELSE a.distance < b.distance

\* The order among stations that tie is the database's, anew for each page.
Orders == {order \in [1 .. Cardinality(Matching) -> Matching] :
              \A i, j \in DOMAIN order : i < j =>
                  /\ order[i] # order[j]
                  /\ ~Precedes(rows[order[j]], rows[order[i]])}

Limit == IF query.limit < MaxLimit THEN query.limit ELSE MaxLimit

-----------------------------------------------------------------------------
(* A request for a page                                                    *)

Least(a, b) == IF a < b THEN a ELSE b

\* take limit + 1, skip the offset; the one too many is taken off again.
FindPage ==
    /\ pc = "find"
    /\ \E order \in Orders :
           /\ page' = [i \in 1 .. Least(Limit, Len(order) - Least(cursor, Len(order)))
                          |-> [station |-> order[cursor + i],
                               row |-> rows[order[cursor + i]],
                               ports |-> <<>>]]
           /\ more' = (Len(order) > cursor + Limit)
    /\ pc' = "related"
    /\ cards' = {}
    /\ turned' = FALSE
    /\ updated' = {}
    /\ UNCHANGED <<table, query, cursor, shown, steady>>

\* The ports of the stations that were found, as they are by now.
FindRelated ==
    /\ pc = "related"
    /\ page' = [i \in DOMAIN page |-> [page[i] EXCEPT !.ports = rows[page[i].station].ports]]
    /\ pc' = "map"
    /\ UNCHANGED <<table, query, cursor, more, cards, history>>

\* The clock is read for the filter, the flag and the text of each card, one
\* card after the other; findNearby filters all its stations first.
FilterReading(i) == IF query.endpoint = "all" THEN 3 * i - 2 ELSE i
FlagReading(i) == IF query.endpoint = "all" THEN 3 * i - 1 ELSE Len(page) + 2 * i - 1
TextReading(i) == IF query.endpoint = "all" THEN 3 * i ELSE Len(page) + 2 * i

Kept(i, at) == query.openNow => IsStationOpen(page[i].row, at)

\* Mutant: the next page starts after the cards that were shown.
NextCursorShown(kept) == cursor + Cardinality(kept)

NextCursor(kept) == cursor + Limit

\* The minute changes after some of the readings, or after them all.
AnswerPage ==
    /\ pc = "map"
    /\ \E turn \in 0 .. 3 * Len(page) :
           LET At(reading) == IF reading <= turn THEN now ELSE Later(now, 1)
               kept == {i \in DOMAIN page : Kept(i, At(FilterReading(i)))}
           IN  /\ turned' = (turn < 3 * Len(page))
               /\ now' = IF turned' THEN Later(now, 1) ELSE now
               /\ cards' = {MapToStationCard(page[i].station, page[i].row, page[i].ports,
                                             At(FlagReading(i)), At(TextReading(i))) : i \in kept}
               /\ shown' = [s \in Station |->
                                shown[s] + Cardinality({i \in kept : page[i].station = s})]
               /\ cursor' = IF more THEN NextCursor(kept) ELSE cursor
    /\ pc' = IF more THEN "find" ELSE "done"
    /\ page' = <<>>
    /\ more' = FALSE
    /\ UNCHANGED <<rows, query, steady, updated>>

-----------------------------------------------------------------------------
(* What others do meanwhile                                                *)

\* An administrator, a review or a new status of a port.  Bound: one change in
\* a walk; there are all tables to begin with.
ChangeRow(s, row) == /\ pc \in Walking
                     /\ steady
                     /\ row # rows[s]
                     /\ rows' = [rows EXCEPT ![s] = row]
                     /\ steady' = FALSE
                     /\ updated' = IF pc = "related" THEN updated \cup {s} ELSE updated
                     /\ UNCHANGED <<now, pc, request, cards, shown, turned>>

Tick == /\ now' = Later(now, 1)
        /\ UNCHANGED <<rows, pc, request, cards, history>>

Next == \/ FindPage \/ FindRelated \/ AnswerPage
        \/ \E s \in Station, row \in Row : ChangeRow(s, row)
        \/ Tick

Spec == Init /\ [][Next]_vars

-----------------------------------------------------------------------------
TypeOK == /\ rows \in [Station -> Row]
          /\ now \in Clock
          /\ pc \in Walking \cup {"done"}
          /\ query \in Query
          /\ cursor \in Nat
          /\ page \in Seq([station : Station, row : Row, ports : Ports])
          /\ more \in BOOLEAN
          /\ shown \in [Station -> Nat]
          /\ steady \in BOOLEAN
          /\ turned \in BOOLEAN
          /\ updated \subseteq Station

\* No other station that the query finds takes the same place as this one.
Untied(s) == \A t \in Matching \ {s} :
    Precedes(rows[s], rows[t]) \/ Precedes(rows[t], rows[s])

\* A walk to the last page shows every station that the query finds exactly
\* once, if no row changed meanwhile and the station ties with no other: ties
\* of others do not move it.  With openNow a station is shown once if it is
\* open all the time, and otherwise at most once.  No station is shown that
\* the query does not find.
UntiedShownOnce == pc = "done" /\ steady =>
    \A s \in Station :
        /\ s \notin Matching => shown[s] = 0
        /\ s \in Matching /\ Untied(s) =>
               /\ shown[s] <= 1
               /\ ~query.openNow \/ Unrestricted(rows[s]) => shown[s] = 1

\* The flag of a card and the text beside it say the same, though each reads
\* the clock for itself: when the minute changes while a page is mapped, it
\* can change between the two of one card, and of one only.
Contradictory(c) == c.isOpenNow # (c.openingHoursText \in {"AlwaysOpen", "ClosesAt"})
FlagAgreesWithText ==
    LET torn == {c \in cards : Contradictory(c)}
    IN  Cardinality(torn) <= (IF turned THEN 1 ELSE 0)

\* A card shows what the query asked for, as computed for the card from the
\* ports: the connectors, the power and the status are found together.
ShowsPortsAsked(c) ==
    /\ query.connectors # {} =>
           \E x \in c.connectors : x.type \in query.connectors /\ x.powerKw >= query.minPower
    /\ query.minPower > 0 => \E x \in c.connectors : x.powerKw >= query.minPower
    /\ query.statuses = {"AVAILABLE"} =>
           c.statusSummary = "AVAILABLE" /\ c.portsAvailableCount > 0

\* Every card of findAll shows what was asked for, unless its station changed
\* after it was found for its ports and before they were read for the card; with
\* openNow all its cards are flagged open, but for one at most if the minute
\* changed while the page was mapped.
CardsShowWhatWasAskedFor == query.endpoint = "all" =>
    /\ \A c \in cards : c.station \in updated \/ ShowsPortsAsked(c)
    /\ query.openNow =>
           Cardinality({c \in cards : ~c.isOpenNow}) <= (IF turned THEN 1 ELSE 0)

\* What the README says of the query parameters of the nearby stations: they
\* are filtered by connector types, port status and minimum charger power.
NearbyShowsWhatWasAskedFor == query.endpoint = "nearby" /\ steady =>
    \A c \in cards : ShowsPortsAsked(c)

\* What the text announces comes true as long as the hours stay: a station
\* that "Opens at" a time opens on that day, and one that "Opens tomorrow"
\* does, if its hours do not run past midnight, tomorrow has hours, and they
\* are not only the hour after midnight.
Ordered(h) == h.open <= h.close
OpenOn(row, from, day) == \E k \in 0 .. 2 * DayLength :
    /\ WeekdayAt(Later(from, k), row.zone) = day
    /\ IsStationOpen(row, Later(from, k))
OpensAsAnnounced == \A s \in Station :
    LET row == rows[s]
        text == BuildOpeningHoursText(row, now)
        today == WeekdayAt(now, row.zone)
        tomorrow == (today + 1) % Days
    IN  /\ text = "OpensAt" /\ Ordered(HoursAt(row, now)) => OpenOn(row, now, today)
        /\ /\ text = "OpensTomorrow"
           /\ \/ row.hours[tomorrow] = AllDay
              \/ /\ row.hours[tomorrow] # Closed
                 /\ Ordered(row.hours[tomorrow])
                 /\ row.hours[tomorrow].close > 0
           => OpenOn(row, now, tomorrow)
=============================================================================
