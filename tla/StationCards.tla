---------------------------- MODULE StationCards ----------------------------
(***************************************************************************)
(* What the lists of stations compute from a row of stations: whether the  *)
(* station is open and what the card says about it, the summary of its     *)
(* ports, and the filters of the queries.  These are the private helpers   *)
(* of StationsService and the where clauses of its lists.                  *)
(*                                                                         *)
(* A day has DayLength times, 0 .. DayLength - 1, of which 0 stands for    *)
(* the hour after midnight; the clock counts them over Days weekdays and   *)
(* starts again.  A timezone is the number of times it is ahead.           *)
(***************************************************************************)
EXTENDS Integers, FiniteSets, Sequences, FiniteSetsExt

CONSTANTS
    DayLength,   \* times in a day
    Days,        \* weekdays
    MidnightHour,\* how the hour after midnight compares: as 0, or, where it is
                 \* formatted as 24, after every other time
    Zone,        \* timezones
    UnknownZone, \* a timezone that the formatter refuses with an error
    NoHours,     \* the null of operatingHours
    Closed,      \* a weekday that operatingHours does not have
    AllDay       \* a weekday with "24h"

ASSUME ClockAssumption == /\ DayLength \in Nat \ {0}
                          /\ Days \in Nat \ {0}
                          /\ MidnightHour \in {0, DayLength}
                          /\ Zone \subseteq Nat
                          /\ UnknownZone \notin Zone

Clock == 0 .. Days * DayLength - 1
Time == 0 .. DayLength - 1
Weekday == 0 .. Days - 1

DayHours == [open : Time, close : Time]
OperatingHours == [Weekday -> DayHours \cup {Closed, AllDay}]

ASSUME HoursAssumption == /\ NoHours \notin OperatingHours
                          /\ Closed # AllDay
                          /\ {Closed, AllDay} \cap DayHours = {}

\* A port as the lists select it.
ConnectorType == {"TYPE2", "CCS2", "CHADEMO"}
PortStatus == {"AVAILABLE", "IN_USE", "OUT_OF_ORDER", "UNKNOWN"}

\* The availabilityStatus of cngDetails, when there is one.
CngStatus == {"none", "AVAILABLE", "IN_USE", "OTHER"}

-----------------------------------------------------------------------------
(* Opening hours                                                           *)

Later(now, k) == (now + k) % (Days * DayLength)

WeekdayAt(now, zone) == Later(now, zone) \div DayLength

\* The times are compared as the strings they are formatted to.
TimeAt(now, zone) == LET t == Later(now, zone) % DayLength
                     IN  IF t = 0 THEN MidnightHour ELSE t

\* No hours mean always open, and so does a formatter that throws.
Unrestricted(row) == row.hours = NoHours \/ row.zone = UnknownZone

HoursAt(row, now) == row.hours[WeekdayAt(now, row.zone)]

\* Mutant: the closing time is taken for closed.
IsStationOpenExclusive(row, now) ==
    \/ Unrestricted(row)
    \/ HoursAt(row, now) = AllDay
    \/ /\ HoursAt(row, now) # Closed
       /\ HoursAt(row, now).open <= TimeAt(now, row.zone)
       /\ TimeAt(now, row.zone) < HoursAt(row, now).close

IsStationOpen(row, now) ==
    \/ Unrestricted(row)
    \/ HoursAt(row, now) = AllDay
    \/ /\ HoursAt(row, now) # Closed
       /\ HoursAt(row, now).open <= TimeAt(now, row.zone)
       /\ TimeAt(now, row.zone) <= HoursAt(row, now).close

\* "Open 24/7", "Closed today", "Opens at ...", "Closed . Opens tomorrow" and
\* "Closes at ..."; the time that follows is of the hours.
HoursText == {"AlwaysOpen", "ClosedToday", "OpensAt", "OpensTomorrow", "ClosesAt"}

\* "Opens tomorrow" does not look at the hours of tomorrow.
BuildOpeningHoursText(row, now) ==
    IF Unrestricted(row) THEN "AlwaysOpen"
    ELSE IF HoursAt(row, now) = Closed THEN "ClosedToday"
    ELSE IF HoursAt(row, now) = AllDay THEN "AlwaysOpen"
    ELSE IF TimeAt(now, row.zone) < HoursAt(row, now).open THEN "OpensAt"
    ELSE IF TimeAt(now, row.zone) > HoursAt(row, now).close THEN "OpensTomorrow"
    ELSE "ClosesAt"

-----------------------------------------------------------------------------
(* Ports                                                                   *)

CountAvailable(ports) ==
    Cardinality({i \in DOMAIN ports : ports[i].status = "AVAILABLE"})

\* The status of a CNG station without ports is the one in its details.
BuildStatusSummary(ports, cng) ==
    IF ports = <<>> THEN IF cng \in {"AVAILABLE", "IN_USE"} THEN cng ELSE "OUT_OF_SERVICE"
    ELSE IF CountAvailable(ports) > 0 THEN "AVAILABLE"
    ELSE IF \A i \in DOMAIN ports : ports[i].status = "OUT_OF_ORDER" THEN "OUT_OF_SERVICE"
    ELSE "IN_USE"

ConnectorsOf(ports) == {ports[i].connector : i \in DOMAIN ports}

PortsOfType(ports, c) == {i \in DOMAIN ports : ports[i].connector = c}

\* For each type of connector how many ports have it, and the strongest.
BuildConnectorSummary(ports) ==
    {[type |-> c,
      powerKw |-> Max({ports[i].power : i \in PortsOfType(ports, c)}),
      count |-> Cardinality(PortsOfType(ports, c))] : c \in ConnectorsOf(ports)}

\* mapToStationCard: the flag and the text read the clock one after the other.
MapToStationCard(station, row, ports, flagAt, textAt) ==
    [station |-> station,
     isOpenNow |-> IsStationOpen(row, flagAt),
     openingHoursText |-> BuildOpeningHoursText(row, textAt),
     statusSummary |-> BuildStatusSummary(ports, row.cng),
     portsAvailableCount |-> CountAvailable(ports),
     portsTotalCount |-> Len(ports),
     connectors |-> BuildConnectorSummary(ports)]
=============================================================================
