---------------------------- MODULE StationParts ----------------------------
(***************************************************************************)
(* The ports and the images of one station, as administrators add and      *)
(* update them, and what is kept about them elsewhere: the counts of ports *)
(* in the station's row, which the detail shows beside the ports it counts *)
(* itself, and the one image that is primary, which every card shows.      *)
(*                                                                         *)
(* Each step is one awaited call; the two counts of                        *)
(* updateStationPortCounts are issued together and read the ports one      *)
(* after the other, in either order.  The reads of the station, the port   *)
(* and the largest sortOrder decide nothing: nothing is ever deleted, and  *)
(* the prices, captions and order of ports and images are only shown.      *)
(***************************************************************************)
EXTENDS FiniteSets, Naturals

CONSTANTS
    Request,    \* slots for requests
    Port,
    Image,
    NoPort      \* a port that was not added yet, and a request that names none

PortStatus == {"AVAILABLE", "UNKNOWN"}  \* and others that count as UNKNOWN does

ASSUME PortsFinite == IsFiniteSet(Port)
ASSUME NoPortAssumption == NoPort \notin Port /\ NoPort \notin PortStatus

VARIABLES
    ports,      \* the status of each port, or NoPort
    images,     \* the images of the station
    primary,    \* those with isPrimary
    counts,     \* totalPorts and availablePorts in the row
    stage,      \* the call a request issues next
    asked,      \* what it asks for: a port and a status, or an image
    tally,      \* what it has counted
    uncounted,  \* the counts whose answer it waits for
    disturbed,  \* history: a port was written since its first count
    spoiled,    \* history: what was stored last was disturbed, or never stored
    hero,       \* history: the station has had a primary image
    heroSpoiled \* history: requests for a primary image overlapped, or one failed

parts == <<ports, images, primary, counts>>
asking == <<stage, asked, tally, uncounted>>
partsHistory == <<disturbed, spoiled, hero, heroSpoiled>>
partsVars == <<parts, asking, partsHistory>>

Counting == {"count", "store"}
Stage == {"idle", "create", "update", "unset", "image"} \cup Counting

\* A status of UpdatePortDto can be left out, and an image is primary or not.
Ask == [port : Port \cup {NoPort}, status : PortStatus \cup {"keep"}, primary : BOOLEAN]
Nothing == [port |-> NoPort, status |-> "keep", primary |-> FALSE]

Added == {p \in Port : ports[p] # NoPort}
AvailablePorts == {p \in Port : ports[p] = "AVAILABLE"}

\* As submitStation leaves it: unknown ports, counted, and an image or none.
PartsInit ==
    /\ ports \in [Port -> {NoPort, "UNKNOWN"}]
    /\ counts = [total |-> Cardinality(Added), available |-> 0]
    /\ images \in {{}} \cup {{i} : i \in Image}
    /\ primary = images
    /\ stage = [h \in Request |-> "idle"]
    /\ asked = [h \in Request |-> Nothing]
    /\ tally = [h \in Request |-> [total |-> 0, available |-> 0]]
    /\ uncounted = [h \in Request |-> {}]
    /\ disturbed = [h \in Request |-> FALSE]
    /\ spoiled = FALSE
    /\ hero = (images # {})
    /\ heroSpoiled = FALSE

-----------------------------------------------------------------------------
NextStage(h, label) == stage' = [stage EXCEPT ![h] = label]

Begin(h, ask, label) == /\ stage[h] = "idle"
                        /\ NextStage(h, label)
                        /\ asked' = [asked EXCEPT ![h] = ask]
                        /\ UNCHANGED <<parts, tally, uncounted, partsHistory>>

End(h) == /\ NextStage(h, "idle")
          /\ asked' = [asked EXCEPT ![h] = Nothing]
          /\ tally' = [tally EXCEPT ![h] = [total |-> 0, available |-> 0]]
          /\ uncounted' = [uncounted EXCEPT ![h] = {}]

-----------------------------------------------------------------------------
(* Ports                                                                   *)

AddPort(h, status) ==
    Begin(h, [Nothing EXCEPT !.status = status], "create")

UpdatePortRequest(h, p, status) ==
    /\ ports[p] # NoPort
    /\ Begin(h, [port |-> p, status |-> status, primary |-> FALSE], "update")

\* A port is written, which disturbs who has counted one already, and this
\* request begins to count.
Both == {"total", "available"}

WritePort(h, p, status) ==
    /\ ports' = [ports EXCEPT ![p] = status]
    /\ disturbed' = [g \in Request |->
                        disturbed[g] \/ (stage[g] \in Counting /\ uncounted[g] # Both)]
    /\ NextStage(h, "count")
    /\ uncounted' = [uncounted EXCEPT ![h] = Both]
    /\ UNCHANGED <<images, primary, counts, asked, tally, spoiled, hero, heroSpoiled>>

CreatePort(h, p) == /\ stage[h] = "create"
                    /\ ports[p] = NoPort
                    /\ WritePort(h, p, asked[h].status)

\* Mutant: the ports are counted only when one is added.
UpdatePortUncounted(h) ==
    /\ stage[h] = "update"
    /\ End(h)
    /\ ports' = IF asked[h].status = "keep" THEN ports
                ELSE [ports EXCEPT ![asked[h].port] = asked[h].status]
    /\ UNCHANGED <<images, primary, counts, partsHistory>>

\* Without a status nothing is counted.
UpdatePort(h) ==
    /\ stage[h] = "update"
    /\ \/ asked[h].status = "keep" /\ End(h) /\ UNCHANGED <<parts, partsHistory>>
       \/ asked[h].status # "keep" /\ WritePort(h, asked[h].port, asked[h].status)

-----------------------------------------------------------------------------
(* updateStationPortCounts                                                 *)

CountPorts(h, what) ==
    /\ stage[h] = "count"
    /\ what \in uncounted[h]
    /\ uncounted' = [uncounted EXCEPT ![h] = @ \ {what}]
    /\ tally' = [tally EXCEPT ![h][what] =
                     Cardinality(IF what = "total" THEN Added ELSE AvailablePorts)]
    /\ stage' = IF uncounted'[h] = {} THEN [stage EXCEPT ![h] = "store"] ELSE stage
    /\ UNCHANGED <<parts, asked, partsHistory>>

StoreCounts(h) == /\ stage[h] = "store"
                  /\ counts' = tally[h]
                  /\ spoiled' = disturbed[h]
                  /\ disturbed' = [disturbed EXCEPT ![h] = FALSE]
                  /\ End(h)
                  /\ UNCHANGED <<ports, images, primary, hero, heroSpoiled>>

-----------------------------------------------------------------------------
(* addStationImage                                                         *)

AddStationImage(h, isPrimary) ==
    Begin(h, [Nothing EXCEPT !.primary = isPrimary], IF isPrimary THEN "unset" ELSE "image")

\* Another request has taken the flag off and not yet created its image.
Overlaps(h) == \E g \in Request \ {h} : stage[g] = "image" /\ asked[g].primary

\* Mutant: the other images keep their flag.
UnsetPrimaryNot(h) == /\ stage[h] = "unset"
                      /\ NextStage(h, "image")
                      /\ UNCHANGED <<parts, asked, tally, uncounted, partsHistory>>

UnsetPrimary(h) == /\ stage[h] = "unset"
                   /\ primary' = {}
                   /\ NextStage(h, "image")
                   /\ heroSpoiled' = Overlaps(h)
                   /\ UNCHANGED <<ports, images, counts, asked, tally, uncounted,
                                  disturbed, spoiled, hero>>

CreateImage(h, i) ==
    /\ stage[h] = "image"
    /\ i \notin images
    /\ images' = images \cup {i}
    /\ primary' = IF asked[h].primary THEN primary \cup {i} ELSE primary
    /\ hero' = (hero \/ asked[h].primary)
    /\ End(h)
    /\ UNCHANGED <<ports, counts, disturbed, spoiled, heroSpoiled>>

-----------------------------------------------------------------------------
\* A call throws, or the process stops.
FailPart(h) ==
    /\ stage[h] # "idle"
    /\ End(h)
    /\ disturbed' = [disturbed EXCEPT ![h] = FALSE]
    /\ spoiled' = (spoiled \/ stage[h] \in Counting)
    /\ heroSpoiled' = (heroSpoiled \/ (stage[h] = "image" /\ asked[h].primary))
    /\ UNCHANGED <<parts, hero>>

PartsNext == \E h \in Request :
    \/ \E status \in PortStatus : AddPort(h, status)
    \/ \E p \in Port, status \in PortStatus \cup {"keep"} : UpdatePortRequest(h, p, status)
    \/ \E isPrimary \in BOOLEAN : AddStationImage(h, isPrimary)
    \/ \E p \in Port : CreatePort(h, p)
    \/ UpdatePort(h)
    \/ \E what \in Both : CountPorts(h, what)
    \/ StoreCounts(h)
    \/ UnsetPrimary(h)
    \/ \E i \in Image : CreateImage(h, i)
    \/ FailPart(h)

PartsSpec == PartsInit /\ [][PartsNext]_partsVars

-----------------------------------------------------------------------------
Count == [total : Nat, available : Nat]

PartsTypeOK ==
    /\ ports \in [Port -> PortStatus \cup {NoPort}]
    /\ images \subseteq Image
    /\ primary \subseteq images
    /\ counts \in Count
    /\ stage \in [Request -> Stage]
    /\ asked \in [Request -> Ask]
    /\ tally \in [Request -> Count]
    /\ uncounted \in [Request -> SUBSET Both]
    /\ disturbed \in [Request -> BOOLEAN]
    /\ spoiled \in BOOLEAN
    /\ hero \in BOOLEAN
    /\ heroSpoiled \in BOOLEAN

\* mapToStationCard counts the ports, mapToStationDetail shows what is stored.
MapToStationCard == [total |-> Cardinality(Added), available |-> Cardinality(AvailablePorts)]
MapToStationDetail == counts

\* What the row says of the ports, which the detail shows, is what the cards
\* count themselves, once nobody is counting, unless what was stored last was
\* counted around the write of another port or a request failed before it
\* stored its counts; the next request that counts undisturbed repairs both.
\* Before then too there are no more ports available than ports.
CountsCatchUp == ~spoiled =>
    /\ (\A h \in Request : stage[h] \notin Counting) => MapToStationDetail = MapToStationCard
    /\ counts.available <= counts.total

\* A station that has had a primary image has exactly one, between requests,
\* unless two requests that set it overlapped or one failed half-way; the next
\* that sets it alone repairs both.
OneHero == ~heroSpoiled /\ (\A h \in Request : stage[h] = "image" => ~asked[h].primary) =>
    IF hero THEN \E i \in Image : primary = {i} ELSE primary = {}
=============================================================================
