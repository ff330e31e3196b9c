---------------------------- MODULE SearchProofs ----------------------------
(***************************************************************************)
(* The lists of stations and the pages of reviews, for any stations, any   *)
(* questions, any length of the day and any number of reviews.             *)
(*                                                                         *)
(* What a card says of the hours rests on the arithmetic of the clock.     *)
(* What a card says of the ports and of the words rests on the page's      *)
(* holding rows that were found for what was asked.                        *)
(*                                                                         *)
(* The walk through the stations rests on places: the place of a station   *)
(* that ties with no other is how many precede it, in whatever order the   *)
(* database returns the rest.  As long as no row changes, those that the   *)
(* walk has shown are those with a place before its cursor.  The walk      *)
(* through the reviews rests on times: a page, however old, divides the    *)
(* reviews there were by the cursor of the next page, and what was not yet *)
(* there is at its own cursor or after it, unless it is noted as missed.   *)
(***************************************************************************)
EXTENDS StationSearch, ReviewPages, FiniteSetTheorems, SequenceTheorems,
        WellFoundedInduction, TLAPS

\* Among finitely many things one has the least number: those with a smaller
\* number than it are fewer than those with a smaller number than another.
LEMMA LeastValue ==
    ASSUME NEW S, IsFiniteSet(S), S # {}, NEW f \in [S -> Int]
    PROVE  \E i \in S : \A j \in S : f[i] <= f[j]
<1> DEFINE Below(i) == {j \in S : f[j] < f[i]}
           T == {Below(i) : i \in S}
<1>1. T \subseteq FiniteSubsetsOf(S) /\ T # {}
  <2>1. \A i \in S : Below(i) \in SUBSET S
    OBVIOUS
  <2>2. FiniteSubsetsOf(S) = SUBSET S
    BY FS_FiniteSubsetsOfFinite
  <2>3. \A X \in T : X \in SUBSET S
    BY <2>1
  <2>4. PICK i \in S : TRUE
    OBVIOUS
  <2>5. Below(i) \in T
    BY <2>4
  <2>6. QED
    BY <2>2, <2>3, <2>5
<1>2. PICK X \in T : \A Y \in T : <<Y, X>> \notin StrictSubsetOrdering(S)
  BY <1>1, FS_StrictSubsetOrderingWellFounded, WFMin
<1>3. PICK i \in S : X = Below(i)
  BY <1>2
<1>4. ASSUME NEW j \in S, f[j] < f[i]
      PROVE  FALSE
  <2>1. /\ Below(j) \subseteq X /\ Below(j) # X /\ Below(j) \in T
        /\ Below(j) \subseteq S /\ X \subseteq S
    <3>1. j \in X /\ j \notin Below(j)
      BY <1>3, <1>4
    <3>2. \A k \in S : f[k] < f[j] => f[k] < f[i]
      BY <1>4
    <3>3. QED
      BY <1>3, <3>1, <3>2
  <2>2. QED
    BY <1>2, <2>1 DEF StrictSubsetOrdering
<1>5. QED
  BY <1>4

-----------------------------------------------------------------------------
(* The clock                                                               *)

\* A number is its quotient times the divisor, and its remainder.
LEMMA Division ==
    ASSUME NEW x \in Int, NEW m \in Nat \ {0}
    PROVE  /\ x \div m \in Int /\ x % m \in 0 .. m - 1
           /\ x = m * (x \div m) + (x % m)
<1>1. x \div m \in Int
  OBVIOUS
<1>2. x % m \in 0 .. m - 1
  OBVIOUS
<1>3. x = m * (x \div m) + (x % m)
  OBVIOUS
<1>4. QED
  BY <1>1, <1>2, <1>3

LEMMA DivisionUnique ==
    ASSUME NEW m \in Nat \ {0}, NEW q \in Int, NEW r \in 0 .. m - 1
    PROVE  (m * q + r) \div m = q /\ (m * q + r) % m = r
OBVIOUS

\* What is added may be added before or after the clock starts again.
LEMMA Modular ==
    ASSUME NEW x \in Int, NEW k \in Int, NEW m \in Nat \ {0}
    PROVE  ((x % m) + k) % m = (x + k) % m
<1>1. PICK q \in Int, r \in Int : x = m * q + r /\ x % m = r
  <2>1. x \div m \in Int /\ x % m \in 0 .. m - 1 /\ x = m * (x \div m) + (x % m)
    BY Division
  <2>2. x % m \in Int
    BY <2>1
  <2>3. QED
    BY <2>1, <2>2
<1>2. PICK p \in Int, s \in 0 .. m - 1 : r + k = m * p + s
  <2>1. r + k \in Int
    OBVIOUS
  <2>2. QED
    BY <2>1, Division
<1>3. (r + k) % m = s
  BY <1>2, DivisionUnique
<1>4. q + p \in Int /\ x + k = m * (q + p) + s
  BY <1>1, <1>2
<1>5. (m * (q + p) + s) % m = s
  BY <1>4, DivisionUnique
<1>6. QED
  BY <1>1, <1>3, <1>4, <1>5

\* The days of the clock are weekdays, and the remainders are times of a day.
LEMMA ClockTyped ==
    /\ Days * DayLength \in Nat \ {0}
    /\ \A x \in Clock : /\ x \in Nat /\ x \div DayLength \in Weekday
                        /\ x % DayLength \in Time
                        /\ x = DayLength * (x \div DayLength) + (x % DayLength)
<1>1. /\ Days \in Nat \ {0} /\ DayLength \in Nat \ {0}
  BY ClockAssumption
<1>2. Days * DayLength \in Nat \ {0}
  BY <1>1
<1>3. ASSUME NEW x \in Clock
      PROVE  /\ x \in Nat /\ x \div DayLength \in Weekday
             /\ x % DayLength \in Time
             /\ x = DayLength * (x \div DayLength) + (x % DayLength)
  <2> DEFINE q == x \div DayLength
             r == x % DayLength
  <2>1. x \in Nat /\ x < Days * DayLength
    BY <1>2 DEF Clock
  <2>2. q \in Int /\ r \in 0 .. DayLength - 1 /\ x = DayLength * q + r
    BY <1>1, <2>1, Division
  <2> HIDE DEF q, r
  <2>3. q >= 0 /\ q < Days
    BY <1>1, <2>1, <2>2
  <2>4. q \in Weekday
    BY <1>1, <2>2, <2>3 DEF Weekday
  <2>5. QED
    BY <2>1, <2>2, <2>4 DEF q, r, Time
<1>4. QED
  BY <1>2, <1>3

\* A time later is on the clock, and twice later is later by the sum.
LEMMA LaterTyped ==
    /\ \A x, k \in Nat : Later(x, k) \in Clock
    /\ \A x, j, k \in Nat : Later(Later(x, j), k) = Later(x, j + k)
<1>1. Days * DayLength \in Nat \ {0}
  BY ClockTyped
<1> DEFINE m == Days * DayLength
<1> HIDE DEF m
<1>2. \A x, k \in Nat : (x + k) % m \in 0 .. m - 1
  BY <1>1, Division DEF m
<1>3. \A x, j, k \in Nat : (((x + j) % m) + k) % m = (x + (j + k)) % m
  <2>1. ASSUME NEW x \in Nat, NEW j \in Nat, NEW k \in Nat
        PROVE  (((x + j) % m) + k) % m = ((x + j) + k) % m
    <3>1. x + j \in Int /\ k \in Int /\ m \in Nat \ {0}
      BY <1>1 DEF m
    <3>2. QED
      BY <3>1, Modular
  <2>2. QED
    BY <2>1
<1>4. QED
  BY <1>2, <1>3 DEF Later, Clock, m

\* Where k times after now it is the time r of a day d.
LEMMA TimeThen ==
    ASSUME NEW x \in Clock, NEW z \in Nat, NEW k \in Nat, NEW d \in Int, NEW r \in Time,
           Later(x, z) + k = DayLength * d + r,
           NEW e \in Weekday, d = e \/ (d = Days /\ e = 0)
    PROVE  Later(Later(x, k), z) = DayLength * e + r
<1>1. /\ Days \in Nat \ {0} /\ DayLength \in Nat \ {0} /\ x \in Nat
      /\ Days * DayLength \in Nat \ {0}
  BY ClockAssumption, ClockTyped
<1> DEFINE m == Days * DayLength
<1>2. Later(Later(x, k), z) = Later(Later(x, z), k)
  BY <1>1, LaterTyped
<1>3. Later(Later(x, z), k) = (DayLength * d + r) % m
  BY DEF Later
<1>4. DayLength * e + r \in 0 .. m - 1
  <2>1. e + 1 <= Days /\ e \in Nat /\ r \in Nat /\ r < DayLength
    BY <1>1 DEF Weekday, Time
  <2>2. DayLength * (e + 1) <= DayLength * Days /\ DayLength * e >= 0
    BY <1>1, <2>1
  <2>3. QED
    BY <1>1, <2>1, <2>2
<1>5. \E q \in {0, 1} : DayLength * d + r = m * q + (DayLength * e + r)
  <2>1. CASE d = e
    BY <1>1, <1>4, <2>1
  <2>2. CASE d = Days /\ e = 0
    BY <1>1, <1>4, <2>2 DEF Time
  <2>3. QED
    BY <2>1, <2>2
<1>6. (DayLength * d + r) % m = DayLength * e + r
  <2> HIDE DEF m
  <2>1. m \in Nat \ {0}
    BY <1>1 DEF m
  <2>2. PICK q \in {0, 1} : DayLength * d + r = m * q + (DayLength * e + r)
    BY <1>5
  <2>3. q \in Int
    BY <2>2
  <2>4. (m * q + (DayLength * e + r)) % m = DayLength * e + r
    BY <1>4, <2>1, <2>3, DivisionUnique
  <2>5. QED
    BY <2>2, <2>4
<1>7. QED
  BY <1>2, <1>3, <1>6

-----------------------------------------------------------------------------
(* Opening hours                                                           *)

\* Where the hours of a station restrict it there is an entry for each day.
LEMMA HoursTyped ==
    ASSUME NEW row \in Row, NEW x \in Clock, ~Unrestricted(row)
    PROVE  /\ row.zone \in Nat /\ Later(x, row.zone) \in Clock
           /\ WeekdayAt(x, row.zone) \in Weekday
           /\ TimeAt(x, row.zone) \in 0 .. DayLength
           /\ \A d \in Weekday : row.hours[d] \in DayHours \cup {Closed, AllDay}
           /\ HoursAt(row, x) \in DayHours \cup {Closed, AllDay}
<1>1. row.hours \in OperatingHours /\ row.zone \in Zone
  BY RowAssumption DEF Unrestricted
<1>2. row.zone \in Nat /\ x \in Nat /\ DayLength \in Nat \ {0}
  BY <1>1, ClockAssumption, ClockTyped
<1>3. Later(x, row.zone) \in Clock
  BY <1>2, LaterTyped
<1>4. /\ WeekdayAt(x, row.zone) \in Weekday
      /\ Later(x, row.zone) % DayLength \in Time
  BY <1>3, ClockTyped DEF WeekdayAt
<1>5. TimeAt(x, row.zone) \in 0 .. DayLength
  BY <1>2, <1>4, ClockAssumption DEF TimeAt, Time
<1>6. \A d \in Weekday : row.hours[d] \in DayHours \cup {Closed, AllDay}
  BY <1>1 DEF OperatingHours
<1>7. QED
  BY <1>2, <1>3, <1>4, <1>5, <1>6 DEF HoursAt

\* The hours of a day are two times of that day.
LEMMA DayHoursTyped ==
    \A h \in DayHours : /\ h # Closed /\ h # AllDay
                        /\ h.open \in Nat /\ h.open < DayLength
                        /\ h.close \in Nat /\ h.close < DayLength
BY HoursAssumption, ClockAssumption DEF DayHours, Time

\* Read at one time, the flag of a card and its text agree.
LEMMA FlagIsText ==
    ASSUME NEW row \in Row, NEW x \in Clock
    PROVE  IsStationOpen(row, x) <=>
               BuildOpeningHoursText(row, x) \in {"AlwaysOpen", "ClosesAt"}
<1>1. CASE Unrestricted(row)
  BY <1>1 DEF IsStationOpen, BuildOpeningHoursText
<1>2. CASE ~Unrestricted(row) /\ HoursAt(row, x) \in {Closed, AllDay}
  BY <1>2, HoursAssumption DEF IsStationOpen, BuildOpeningHoursText
<1>3. CASE ~Unrestricted(row) /\ HoursAt(row, x) \notin {Closed, AllDay}
  <2> DEFINE h == HoursAt(row, x)
             t == TimeAt(x, row.zone)
  <2>1. h \in DayHours /\ t \in Nat
    BY <1>3, HoursTyped, ClockAssumption
  <2>2. h.open \in Nat /\ h.close \in Nat
    BY <2>1, DayHoursTyped
  <2>3. IsStationOpen(row, x) <=> h.open <= t /\ t <= h.close
    BY <1>3 DEF IsStationOpen
  <2>4. BuildOpeningHoursText(row, x) =
            IF t < h.open THEN "OpensAt" ELSE IF t > h.close THEN "OpensTomorrow"
            ELSE "ClosesAt"
    BY <1>3 DEF BuildOpeningHoursText
  <2> HIDE DEF h, t
  <2>5. CASE t < h.open
    BY <2>1, <2>2, <2>3, <2>4, <2>5
  <2>6. CASE t > h.close
    BY <2>1, <2>2, <2>3, <2>4, <2>6
  <2>7. CASE h.open <= t /\ t <= h.close
    BY <2>1, <2>2, <2>3, <2>4, <2>7
  <2>8. QED
    BY <2>1, <2>2, <2>5, <2>6, <2>7
<1>4. QED
  BY <1>1, <1>2, <1>3

\* A station is open at a time of a day within the hours of that day.
LEMMA OpenThen ==
    ASSUME NEW row \in Row, ~Unrestricted(row), NEW x \in Clock, NEW k \in 0 .. 2 * DayLength,
           NEW d \in Int, NEW r \in Time, NEW e \in Weekday, d = e \/ (d = Days /\ e = 0),
           Later(x, row.zone) + k = DayLength * d + r,
           \/ row.hours[e] = AllDay
           \/ /\ row.hours[e] \in DayHours
              /\ row.hours[e].open <= r /\ r <= row.hours[e].close /\ r # 0
    PROVE  OpenOn(row, x, e)
<1>1. k \in Nat /\ row.zone \in Nat /\ DayLength \in Nat \ {0}
  BY HoursTyped, ClockAssumption
<1>2. Later(Later(x, k), row.zone) = DayLength * e + r
  BY <1>1, TimeThen
<1>3. (DayLength * e + r) \div DayLength = e /\ (DayLength * e + r) % DayLength = r
  <2>1. e \in Int /\ r \in 0 .. DayLength - 1
    BY ClockAssumption DEF Weekday, Time
  <2>2. QED
    BY <1>1, <2>1, DivisionUnique
<1>4. /\ WeekdayAt(Later(x, k), row.zone) = e
      /\ r # 0 => TimeAt(Later(x, k), row.zone) = r
  BY <1>2, <1>3 DEF WeekdayAt, TimeAt
<1>5. IsStationOpen(row, Later(x, k))
  BY <1>4, DayHoursTyped DEF IsStationOpen, HoursAt
<1>6. QED
  BY <1>4, <1>5 DEF OpenOn

\* A station opens when its text says it does.
LEMMA Announced ==
    ASSUME NEW row \in Row, NEW x \in Clock
    PROVE  LET text == BuildOpeningHoursText(row, x)
               today == WeekdayAt(x, row.zone)
               tomorrow == (today + 1) % Days
           IN  /\ text = "OpensAt" /\ Ordered(HoursAt(row, x)) => OpenOn(row, x, today)
               /\ /\ text = "OpensTomorrow"
                  /\ \/ row.hours[tomorrow] = AllDay
                     \/ /\ row.hours[tomorrow] # Closed
                        /\ Ordered(row.hours[tomorrow])
                        /\ row.hours[tomorrow].close > 0
                  => OpenOn(row, x, tomorrow)
<1> DEFINE text == BuildOpeningHoursText(row, x)
           today == WeekdayAt(x, row.zone)
           tomorrow == (today + 1) % Days
           h == HoursAt(row, x)
           t == Later(x, row.zone) % DayLength
           clock == TimeAt(x, row.zone)
<1>1. DayLength \in Nat \ {0} /\ Days \in Nat \ {0} /\ MidnightHour \in {0, DayLength}
  BY ClockAssumption
<1>2. ASSUME text \in {"OpensAt", "OpensTomorrow"}
      PROVE  /\ ~Unrestricted(row) /\ h \in DayHours /\ today \in Weekday
             /\ h.open \in 0 .. DayLength - 1 /\ h.close \in 0 .. DayLength - 1
             /\ t \in 0 .. DayLength - 1
             /\ clock = IF t = 0 THEN MidnightHour ELSE t
             /\ Later(x, row.zone) = DayLength * today + t
             /\ text = "OpensAt" => clock < h.open
  <2>1. /\ ~Unrestricted(row) /\ h \notin {Closed, AllDay}
        /\ text = "OpensAt" => clock < h.open
    BY <1>2 DEF BuildOpeningHoursText
  <2>2. h \in DayHours /\ Later(x, row.zone) \in Clock /\ today \in Weekday
    BY <2>1, HoursTyped
  <2>3. h.open \in 0 .. DayLength - 1 /\ h.close \in 0 .. DayLength - 1
    BY <2>2, <1>1 DEF DayHours, Time
  <2>4. t \in 0 .. DayLength - 1 /\ Later(x, row.zone) = DayLength * today + t
    BY <2>2, ClockTyped DEF Time, WeekdayAt
  <2>5. QED
    BY <2>1, <2>2, <2>3, <2>4 DEF TimeAt
<1>6. row.hours[today] = h
  BY DEF HoursAt
<1> HIDE DEF text, today, tomorrow, h, t, clock
<1>3. ASSUME text = "OpensAt", Ordered(h)
      PROVE  OpenOn(row, x, today)
  <2>1. t < h.open /\ h.open <= h.close
    BY <1>1, <1>2, <1>3 DEF Ordered
  <2>2. PICK k \in 0 .. 2 * DayLength :
            /\ Later(x, row.zone) + k = DayLength * today + h.open
            /\ h.open # 0 /\ h.open \in Time /\ today \in Int
    <3>1. /\ h.open - t \in 0 .. 2 * DayLength
          /\ Later(x, row.zone) + (h.open - t) = DayLength * today + h.open
          /\ h.open # 0 /\ h.open \in Time /\ today \in Int
      BY <1>1, <1>2, <1>3, <2>1 DEF Time, Weekday
    <3>2. QED
      BY <3>1
  <2>3. /\ row.hours[today] \in DayHours
        /\ row.hours[today].open <= h.open /\ h.open <= row.hours[today].close
    BY <1>2, <1>3, <1>6, <2>1
  <2>4. ~Unrestricted(row) /\ today \in Weekday
    BY <1>2, <1>3
  <2>5. QED
    BY <2>2, <2>3, <2>4, OpenThen
<1>4. ASSUME text = "OpensTomorrow",
             \/ row.hours[tomorrow] = AllDay
             \/ /\ row.hours[tomorrow] # Closed
                /\ Ordered(row.hours[tomorrow])
                /\ row.hours[tomorrow].close > 0
      PROVE  OpenOn(row, x, tomorrow)
  <2>1. /\ tomorrow \in Weekday /\ today + 1 \in Int
        /\ today + 1 = tomorrow \/ (today + 1 = Days /\ tomorrow = 0)
    <3>1. today \in Int /\ today + 1 \in Int /\ 0 <= today /\ today + 1 <= Days
      BY <1>1, <1>2, <1>4 DEF Weekday
    <3>2. CASE today + 1 < Days
      <4>1. (Days * 0 + (today + 1)) % Days = today + 1
        BY <1>1, <3>1, <3>2, DivisionUnique
      <4>2. Days * 0 + (today + 1) = today + 1
        BY <1>1, <3>1
      <4>3. tomorrow = today + 1
        BY <4>1, <4>2 DEF tomorrow
      <4>4. QED
        BY <1>1, <3>1, <3>2, <4>3 DEF Weekday
    <3>3. CASE today + 1 = Days
      <4>1. (Days * 1 + 0) % Days = 0
        BY <1>1, DivisionUnique
      <4>2. Days * 1 + 0 = today + 1
        BY <1>1, <3>3
      <4>3. tomorrow = 0
        BY <4>1, <4>2 DEF tomorrow
      <4>4. QED
        BY <1>1, <3>1, <3>3, <4>3 DEF Weekday
    <3>4. QED
      BY <1>1, <3>1, <3>2, <3>3
  <2>2. ASSUME NEW r \in Time
        PROVE  /\ DayLength - t + r \in 0 .. 2 * DayLength
               /\ Later(x, row.zone) + (DayLength - t + r) = DayLength * (today + 1) + r
    <3>1. today \in Int /\ t \in Int /\ DayLength \in Int /\ r \in Int
      BY <1>1, <1>2, <1>4 DEF Time, Weekday
    <3>2. DayLength * (today + 1) = DayLength * today + DayLength
      BY <3>1
    <3>3. DayLength * today \in Int
      BY <3>1
    <3>4. Later(x, row.zone) = DayLength * today + t
      BY <1>2, <1>4
    <3>5. Later(x, row.zone) + (DayLength - t + r) = DayLength * (today + 1) + r
      BY <3>1, <3>2, <3>3, <3>4
    <3>6. QED
      BY <1>1, <1>2, <1>4, <3>5 DEF Time
  <2>3. CASE row.hours[tomorrow] = AllDay
    <3>1. 0 \in Time
      BY <1>1 DEF Time
    <3>2. QED
      BY <1>2, <1>4, <2>1, <2>2, <2>3, <3>1, OpenThen
  <2>4. CASE row.hours[tomorrow] # AllDay
    <3> DEFINE g == row.hours[tomorrow]
    <3>1. g \in DayHours /\ g.open <= g.close /\ g.close > 0
      BY <1>2, <1>4, <2>1, <2>4, HoursTyped DEF Ordered
    <3>2. g.close \in Time /\ g.close # 0 /\ g.close <= g.close
      BY <1>1, <3>1 DEF DayHours, Time
    <3>3. QED
      BY <1>2, <1>4, <2>1, <2>2, <3>1, <3>2, OpenThen
  <2>5. QED
    BY <2>3, <2>4
<1>5. QED
  BY <1>3, <1>4 DEF text, today, tomorrow, h

-----------------------------------------------------------------------------
(* Cards                                                                   *)

LEMMA PortsTyped ==
    ASSUME NEW ports \in Ports
    PROVE  /\ DOMAIN ports = 1 .. Len(ports) /\ Len(ports) \in Nat
           /\ \A j \in DOMAIN ports : ports[j].power \in Nat
<1>1. DOMAIN ports = 1 .. Len(ports) /\ Len(ports) \in Nat
  BY DEF Ports
<1>2. ASSUME NEW j \in DOMAIN ports
      PROVE  ports[j].power \in Nat
  <2>1. ports[j] \in [connector : ConnectorType, status : PortStatus, power : Nat]
    BY <1>1, ElementOfSeq DEF Ports
  <2>2. QED
    BY <2>1
<1>3. QED
  BY <1>1, <1>2

\* A connector that a card shows is as strong as any of its ports.
LEMMA StrongestShown ==
    ASSUME NEW ports \in Ports, NEW i \in DOMAIN ports
    PROVE  \E x \in BuildConnectorSummary(ports) :
               /\ x.type = ports[i].connector
               /\ x.powerKw \in Nat /\ x.powerKw >= ports[i].power
<1> DEFINE c == ports[i].connector
           P == PortsOfType(ports, c)
           T == {ports[j].power : j \in P}
<1>1. /\ DOMAIN ports = 1 .. Len(ports) /\ Len(ports) \in Nat
      /\ \A j \in DOMAIN ports : ports[j].power \in Nat
  BY PortsTyped
<1>2. IsFiniteSet(P) /\ i \in P /\ P \subseteq DOMAIN ports
  <2>1. IsFiniteSet(DOMAIN ports)
    BY <1>1, FS_Interval
  <2>2. P \in SUBSET DOMAIN ports /\ i \in P
    BY DEF PortsOfType
  <2>3. QED
    BY <2>1, <2>2, FS_Subset
<1>3. PICK k \in P : \A j \in P : -ports[k].power <= -ports[j].power
  <2> DEFINE f == [j \in P |-> -ports[j].power]
  <2>1. f \in [P -> Int] /\ \A j \in P : f[j] = -ports[j].power
    BY <1>1, <1>2
  <2> HIDE DEF f
  <2>2. \E k \in P : \A j \in P : f[k] <= f[j]
    BY <1>2, <2>1, LeastValue
  <2>3. QED
    BY <2>1, <2>2
<1>4. ports[k].power \in T /\ \A y \in T : ports[k].power >= y
  BY <1>1, <1>2, <1>3
<1>5. Max(T) \in T /\ \A y \in T : Max(T) >= y
  BY <1>4 DEF Max
<1>6. Max(T) >= ports[i].power
  BY <1>2, <1>5
<1>7. c \in ConnectorsOf(ports)
  BY DEF ConnectorsOf
<1>8. [type |-> c, powerKw |-> Max(T), count |-> Cardinality(P)]
          \in BuildConnectorSummary(ports)
  BY <1>7 DEF BuildConnectorSummary
<1>9. Max(T) \in Nat
  BY <1>1, <1>2, <1>5
<1>10. QED
  BY <1>6, <1>8, <1>9

\* A card of a row that findAll finds shows what was asked for.
LEMMA FoundShowsPorts ==
    ASSUME NEW s, NEW row \in Row, query \in Query, FindAllWhere(row, query), NEW a, NEW b
    PROVE  ShowsPortsAsked(MapToStationCard(s, row, row.ports, a, b))
<1> DEFINE c == MapToStationCard(s, row, row.ports, a, b)
<1>1. /\ c.connectors = BuildConnectorSummary(row.ports)
      /\ c.statusSummary = BuildStatusSummary(row.ports, row.cng)
      /\ c.portsAvailableCount = CountAvailable(row.ports)
  BY DEF MapToStationCard
<1>2. /\ row.ports \in Ports /\ query.minPower \in Nat
      /\ DOMAIN row.ports = 1 .. Len(row.ports) /\ Len(row.ports) \in Nat
      /\ \A j \in DOMAIN row.ports : row.ports[j].power \in Nat
  BY RowAssumption, QueryAssumption, PortsTyped
<1> HIDE DEF c
<1>3. ASSUME ~FiltersPorts(query)
      PROVE  ShowsPortsAsked(c)
  BY <1>2, <1>3 DEF FiltersPorts, ShowsPortsAsked
<1>4. ASSUME FiltersPorts(query)
      PROVE  ShowsPortsAsked(c)
  <2>1. PICK i \in DOMAIN row.ports : PortAsked(row.ports[i], query)
    BY <1>4 DEF FindAllWhere
  <2>2. PICK x \in c.connectors :
            /\ x.type = row.ports[i].connector
            /\ x.powerKw \in Nat /\ x.powerKw >= row.ports[i].power
    BY <1>1, <1>2, StrongestShown
  <2>3. x.powerKw >= query.minPower
    <3>1. row.ports[i].power >= query.minPower /\ row.ports[i].power \in Nat
      BY <1>2, <2>1 DEF PortAsked
    <3>2. QED
      BY <1>2, <2>2, <3>1
  <2>4. query.connectors # {} => x.type \in query.connectors
    BY <2>1, <2>2 DEF PortAsked
  <2>5. ASSUME query.statuses = {"AVAILABLE"}
        PROVE  c.statusSummary = "AVAILABLE" /\ c.portsAvailableCount > 0
    <3> DEFINE A == {j \in DOMAIN row.ports : row.ports[j].status = "AVAILABLE"}
    <3>1. i \in A
      BY <2>1, <2>5 DEF PortAsked
    <3>2. IsFiniteSet(A)
      <4>1. IsFiniteSet(DOMAIN row.ports)
        BY <1>2, FS_Interval
      <4>2. A \in SUBSET DOMAIN row.ports
        OBVIOUS
      <4>3. QED
        BY <4>1, <4>2, FS_Subset
    <3>3. Cardinality(A) \in Nat /\ Cardinality(A) # 0
      BY <3>1, <3>2, FS_CardinalityType, FS_EmptySet
    <3>4. CountAvailable(row.ports) > 0 /\ row.ports # <<>>
      BY <3>1, <3>3 DEF CountAvailable
    <3>5. QED
      BY <1>1, <3>4 DEF BuildStatusSummary
  <2>6. QED
    BY <2>2, <2>3, <2>4, <2>5 DEF ShowsPortsAsked
<1>5. QED
  BY <1>3, <1>4 DEF c

-----------------------------------------------------------------------------
(* The walk through the stations                                           *)

Total == Cardinality(Matching)

\* How many stations the query puts before this one.
PlaceOf(s) == Cardinality({t \in Matching : Precedes(rows[t], rows[s])})

\* How many stations are on the page at the cursor.
Window == Least(Limit, Total - Least(cursor, Total))

\* A page of findAll is of stations that were found for what was asked.  Their
\* rows stay till the ports are read, and the ports are those they were found
\* for, but for the stations that are noted as updated.
FoundAsAsked == query.endpoint = "all" => \A i \in DOMAIN page :
    /\ FindAllWhere(page[i].row, query)
    /\ pc = "related" /\ page[i].station \notin updated =>
           rows[page[i].station] = page[i].row
    /\ pc = "map" /\ page[i].station \notin updated =>
           page[i].ports = page[i].row.ports

\* While no row changes, a page has what is at its place in the order; where
\* that is, is certain of the stations that tie with no other.
PageInPlace == steady /\ pc \in {"related", "map"} =>
    /\ Len(page) = Window
    /\ more <=> Total > cursor + Limit
    /\ \A i \in DOMAIN page : /\ page[i].station \in Matching
                              /\ page[i].row = rows[page[i].station]
    /\ \A s \in Matching : Untied(s) =>
           \A i \in DOMAIN page : page[i].station = s <=> cursor + i = PlaceOf(s) + 1

\* Those before the cursor have been shown, and those from it on have not.
AlwaysShown(s) == ~query.openNow \/ Unrestricted(rows[s])
Passed(s) == pc = "done" \/ PlaceOf(s) < cursor
ShownInTurn == steady => \A s \in Station :
    /\ s \notin Matching => shown[s] = 0
    /\ s \in Matching /\ Untied(s) =>
           /\ shown[s] <= 1
           /\ ~Passed(s) => shown[s] = 0
           /\ Passed(s) /\ AlwaysShown(s) => shown[s] = 1

SearchInv == /\ TypeOK /\ FoundAsAsked /\ PageInPlace /\ ShownInTurn
             /\ FlagAgreesWithText /\ CardsShowWhatWasAskedFor

\* A set without two members is small.
LEMMA AtMostOne ==
    ASSUME NEW S, \A x, y \in S : x = y
    PROVE  /\ IsFiniteSet(S) /\ Cardinality(S) \in {0, 1}
           /\ S # {} => Cardinality(S) = 1
           /\ S = {} => Cardinality(S) = 0
<1>1. CASE S = {}
  BY <1>1, FS_EmptySet
<1>2. CASE S # {}
  <2>1. PICK x \in S : S = {x}
    BY <1>2
  <2>2. IsFiniteSet({x}) /\ Cardinality({x}) = 1
    BY FS_Singleton
  <2>3. QED
    BY <1>2, <2>1, <2>2
<1>3. QED
  BY <1>1, <1>2

\* The stations that a query finds are finitely many, and the page at a cursor
\* is within them.
LEMMA PageBounds ==
    ASSUME TypeOK
    PROVE  /\ Limit \in Nat \ {0} /\ cursor \in Nat
           /\ IsFiniteSet(Matching) /\ Matching \subseteq Station
           /\ Total \in Nat /\ Window \in Nat
           /\ \A i \in 1 .. Window : cursor + i \in 1 .. Total
           /\ Total > cursor + Limit => Window = Limit
           /\ ~(Total > cursor + Limit) /\ cursor < Total => cursor + Window = Total
<1>1. Limit \in Nat \ {0} /\ cursor \in Nat
  BY LimitAssumption, QueryAssumption DEF TypeOK, Limit
<1>2. IsFiniteSet(Matching) /\ Matching \subseteq Station
  <2>1. Matching \in SUBSET Station
    BY DEF Matching
  <2>2. QED
    BY <2>1, StationAssumption, FS_Subset
<1>3. Total \in Nat
  BY <1>2, FS_CardinalityType DEF Total
<1>4. QED
  BY <1>1, <1>2, <1>3 DEF Window, Least

\* Nothing is ahead of itself; so every station has a place.
LEMMA PlaceTyped ==
    ASSUME TypeOK, NEW s \in Matching
    PROVE  PlaceOf(s) \in Nat /\ PlaceOf(s) < Total
<1> DEFINE D == {t \in Matching : Precedes(rows[t], rows[s])}
<1>1. IsFiniteSet(Matching) /\ Total \in Nat /\ s \in Station
  BY PageBounds
<1>2. rows[s].rank \in Int /\ rows[s].distance \in Int
  BY <1>1, RowAssumption DEF TypeOK
<1>3. ~Precedes(rows[s], rows[s])
  BY <1>2 DEF Precedes, RatedAbove
<1>4. D \in SUBSET Matching /\ s \notin D
  BY <1>3
<1>5. IsFiniteSet(D) /\ Cardinality(D) <= Total /\ Cardinality(D) # Total
  BY <1>1, <1>4, FS_Subset DEF Total
<1>6. Cardinality(D) \in Nat
  BY <1>5, FS_CardinalityType
<1>7. QED
  BY <1>1, <1>5, <1>6 DEF PlaceOf

\* In whatever order the database puts those that tie, a station that ties with
\* no other is at its place.
LEMMA PlaceInOrder ==
    ASSUME TypeOK, NEW order \in Orders, NEW s \in Matching, Untied(s),
           NEW k \in 1 .. Total
    PROVE  order[k] = s <=> k = PlaceOf(s) + 1
<1>1. /\ order \in [1 .. Total -> Matching] /\ DOMAIN order = 1 .. Total
      /\ \A i, j \in 1 .. Total : i < j =>
             order[i] # order[j] /\ ~Precedes(rows[order[j]], rows[order[i]])
  BY DEF Orders, Total
<1>2. IsFiniteSet(Matching) /\ Total \in Nat
  BY PageBounds
<1>3. order \in Injection(1 .. Total, Matching)
  BY <1>1, <1>2 DEF Injection, IsInjective
<1>4. order \in Surjection(1 .. Total, Matching)
  <2>1. IsFiniteSet(1 .. Total) /\ Cardinality(1 .. Total) = Total
    BY <1>2, FS_Interval
  <2>2. QED
    BY <1>2, <1>3, <2>1, FS_Injection DEF Total
<1>5. PICK p \in 1 .. Total : order[p] = s
  BY <1>4 DEF Surjection
<1> DEFINE D == {t \in Matching : Precedes(rows[t], rows[s])}
           f == [j \in 1 .. p - 1 |-> order[j]]
<1>6. f \in [1 .. p - 1 -> D]
  <2>1. ASSUME NEW j \in 1 .. p - 1
        PROVE  order[j] \in D
    <3>1. j \in 1 .. Total /\ j < p
      BY <1>2, <1>5
    <3>2. order[j] \in Matching /\ order[j] # s /\ ~Precedes(rows[s], rows[order[j]])
      BY <1>1, <1>5, <3>1
    <3>3. QED
      BY <3>2 DEF Untied
  <2>2. QED
    BY <2>1
<1>7. \A t \in D : \E j \in 1 .. p - 1 : f[j] = t
  <2>1. ASSUME NEW t \in D
        PROVE  \E j \in 1 .. p - 1 : f[j] = t
    <3>1. PICK j \in 1 .. Total : order[j] = t
      BY <1>4, <2>1 DEF Surjection
    <3>2. ~(p < j)
      BY <1>1, <1>5, <2>1, <3>1
    <3>3. p # j
      <4>1. rows[s].rank \in Int /\ rows[s].distance \in Int
        BY PageBounds, RowAssumption DEF TypeOK
      <4>2. ~Precedes(rows[s], rows[s])
        BY <4>1 DEF Precedes, RatedAbove
      <4>3. QED
        BY <1>5, <2>1, <3>1, <4>2
    <3>4. j \in 1 .. p - 1
      BY <1>2, <1>5, <3>1, <3>2, <3>3
    <3>5. QED
      BY <3>1, <3>4
  <2>2. QED
    BY <2>1
<1>8. \A i, j \in 1 .. p - 1 : f[i] = f[j] => i = j
  <2>1. ASSUME NEW i \in 1 .. p - 1, NEW j \in 1 .. p - 1, f[i] = f[j]
        PROVE  i = j
    <3>1. i \in 1 .. Total /\ j \in 1 .. Total /\ order[i] = order[j]
      BY <1>2, <1>5, <2>1
    <3>2. QED
      BY <1>1, <3>1
  <2>2. QED
    BY <2>1
<1> HIDE DEF f
<1>9. f \in Bijection(1 .. p - 1, D)
  BY <1>6, <1>7, <1>8 DEF Bijection, Injection, Surjection, IsInjective
<1>10. Cardinality(D) = p - 1
  <2>1. p - 1 \in Nat /\ 1 \in Int /\ p - 1 \in Int
    BY <1>2, <1>5
  <2>2. IsFiniteSet(1 .. p - 1) /\ Cardinality(1 .. p - 1) = p - 1
    BY <2>1, FS_Interval
  <2>3. ExistsBijection(1 .. p - 1, D)
    BY <1>9 DEF ExistsBijection
  <2>4. QED
    BY <2>2, <2>3, FS_Bijection
<1>11. order[k] = s <=> k = p
  BY <1>1, <1>2, <1>5
<1>12. p = PlaceOf(s) + 1
  BY <1>2, <1>5, <1>10 DEF PlaceOf
<1>13. QED
  BY <1>11, <1>12

-----------------------------------------------------------------------------
LEMMA InitSearch == Init => SearchInv
<1> SUFFICES ASSUME Init PROVE SearchInv
  OBVIOUS
<1>1. TypeOK
  <2>1. <<>> \in Seq([station : Station, row : Row, ports : Ports])
    OBVIOUS
  <2>2. shown \in [Station -> Nat] /\ pc \in Walking /\ cursor \in Nat
    BY DEF Init, Walking
  <2>3. QED
    BY <2>1, <2>2 DEF Init, TypeOK
<1>2. DOMAIN page = {} /\ pc = "find" /\ cursor = 0 /\ shown = [s \in Station |-> 0]
  BY DEF Init
<1>3. FoundAsAsked /\ PageInPlace
  BY <1>2 DEF FoundAsAsked, PageInPlace
<1>4. ShownInTurn
  <2>1. \A s \in Matching : PlaceOf(s) \in Nat
    BY <1>1, PlaceTyped
  <2>2. \A s \in Matching : ~Passed(s)
    BY <1>2, <2>1 DEF Passed
  <2>3. QED
    BY <1>2, <2>2 DEF ShownInTurn
<1>5. cards = {} /\ turned = FALSE
  BY DEF Init
<1>6. FlagAgreesWithText
  <2>1. {c \in cards : Contradictory(c)} = {}
    BY <1>5
  <2>2. QED
    BY <1>5, <2>1, FS_EmptySet DEF FlagAgreesWithText
<1>7. CardsShowWhatWasAskedFor
  <2>1. {c \in cards : ~c.isOpenNow} = {}
    BY <1>5
  <2>2. QED
    BY <1>5, <2>1, FS_EmptySet DEF CardsShowWhatWasAskedFor
<1>8. QED
  BY <1>1, <1>3, <1>4, <1>6, <1>7 DEF SearchInv

\* The page that is found, as the order of the database has it.
Entry(s) == [station |-> s, row |-> rows[s], ports |-> <<>>]

LEMMA PageFound ==
    ASSUME TypeOK, FindPage
    PROVE  /\ \E order \in Orders :
                  /\ \A i \in 1 .. Window : order[cursor + i] \in Matching
                  /\ page' = [i \in 1 .. Window |-> Entry(order[cursor + i])]
           /\ DOMAIN page' = 1 .. Window /\ Len(page') = Window
           /\ \A i \in DOMAIN page' : /\ page'[i].station \in Matching
                                      /\ page'[i] = Entry(page'[i].station)
           /\ page' \in Seq([station : Station, row : Row, ports : Ports])
           /\ more' = (Total > cursor + Limit)
<1>1. PICK order \in Orders :
        /\ page' = [i \in 1 .. Least(Limit, Len(order) - Least(cursor, Len(order)))
                       |-> Entry(order[cursor + i])]
        /\ more' = (Len(order) > cursor + Limit)
  BY DEF FindPage, Entry
<1>2. /\ Total \in Nat /\ Window \in Nat /\ Matching \subseteq Station
      /\ \A i \in 1 .. Window : cursor + i \in 1 .. Total
  BY PageBounds
<1>3. order \in [1 .. Total -> Matching]
  BY DEF Orders, Total
<1>4. Len(order) = Total
  <2>1. order \in Seq(Matching)
    BY <1>2, <1>3, SeqDef
  <2>2. QED
    BY <1>2, <1>3, <2>1
<1>5. \A i \in 1 .. Window : order[cursor + i] \in Matching
  BY <1>2, <1>3
<1>6. page' = [i \in 1 .. Window |-> Entry(order[cursor + i])]
  BY <1>1, <1>4 DEF Window
<1>7. ASSUME NEW s \in Matching
      PROVE  Entry(s) \in [station : Station, row : Row, ports : Ports] /\ Entry(s).station = s
  <2>1. s \in Station /\ rows[s] \in Row
    BY <1>2 DEF TypeOK
  <2>2. <<>> \in Ports
    BY DEF Ports
  <2>3. QED
    BY <2>1, <2>2 DEF Entry
<1>8. page' \in [1 .. Window -> [station : Station, row : Row, ports : Ports]]
  BY <1>5, <1>6, <1>7
<1>9. page' \in Seq([station : Station, row : Row, ports : Ports])
  <2> DEFINE R == [station : Station, row : Row, ports : Ports]
  <2>1. page' \in [1 .. Window -> R] /\ Window \in Nat
    BY <1>2, <1>8
  <2> HIDE DEF R
  <2>2. page' \in Seq(R)
    BY <2>1, SeqDef
  <2>3. QED
    BY <2>2 DEF R
<1>10. DOMAIN page' = 1 .. Window /\ Len(page') = Window
  BY <1>2, <1>8, <1>9
<1>11. \A i \in DOMAIN page' : /\ page'[i].station \in Matching
                               /\ page'[i] = Entry(page'[i].station)
  BY <1>5, <1>6, <1>7, <1>10
<1>12. QED
  BY <1>1, <1>4, <1>5, <1>6, <1>9, <1>10, <1>11

\* While rows and query stay, so do the stations that are found and their places.
LEMMA SameTable ==
    ASSUME rows' = rows, query' = query
    PROVE  /\ Matching' = Matching /\ Total' = Total /\ Limit' = Limit
           /\ \A s : PlaceOf(s)' = PlaceOf(s) /\ (Untied(s)' <=> Untied(s))
           /\ \A s : AlwaysShown(s)' <=> AlwaysShown(s)
<1>1. \A a : Where(a, query)' <=> Where(a, query)
  BY DEF Where
<1>2. \A a, b : Precedes(a, b)' <=> Precedes(a, b)
  BY DEF Precedes
<1>3. Matching' = Matching
  BY DEF Matching
<1>4. Total' = Total /\ Limit' = Limit
  BY <1>3 DEF Total, Limit
<1>5. \A s : PlaceOf(s)' = PlaceOf(s)
  BY <1>2, <1>3 DEF PlaceOf
<1>6. \A s : Untied(s)' <=> Untied(s)
  BY <1>2, <1>3 DEF Untied
<1>7. \A s : AlwaysShown(s)' <=> AlwaysShown(s)
  BY DEF AlwaysShown
<1>8. QED
  BY <1>3, <1>4, <1>5, <1>6, <1>7

\* What a page holds.
LEMMA PageTyped ==
    ASSUME TypeOK, NEW i \in DOMAIN page
    PROVE  page[i].row \in Row /\ page[i].station \in Station
<1> DEFINE R == [station : Station, row : Row, ports : Ports]
<1>1. page \in Seq(R) /\ DOMAIN page = 1 .. Len(page)
  BY DEF TypeOK
<1>2. page[i] \in R
  <2> HIDE DEF R
  <2>1. QED
    BY <1>1, ElementOfSeq
<1>3. QED
  BY <1>2

\* Nothing is said of an answer that is no more.
LEMMA NoCards ==
    ASSUME cards' = {}, turned' = FALSE
    PROVE  FlagAgreesWithText' /\ CardsShowWhatWasAskedFor'
<1>1. {c \in cards' : Contradictory(c)} = {}
  OBVIOUS
<1>2. {c \in cards' : ~c.isOpenNow} = {}
  OBVIOUS
<1>3. QED
  BY <1>1, <1>2, FS_EmptySet DEF FlagAgreesWithText, CardsShowWhatWasAskedFor, ShowsPortsAsked

LEMMA SameCards ==
    ASSUME FlagAgreesWithText, CardsShowWhatWasAskedFor, UNCHANGED <<cards, turned, query>>,
           updated \subseteq updated'
    PROVE  FlagAgreesWithText' /\ CardsShowWhatWasAskedFor'
BY DEF FlagAgreesWithText, CardsShowWhatWasAskedFor, ShowsPortsAsked, Contradictory

LEMMA FindKeeps == ASSUME SearchInv, FindPage PROVE SearchInv'
<1>1. TypeOK /\ ShownInTurn
  BY DEF SearchInv
<1>2. /\ UNCHANGED <<rows, now, query, cursor, shown, steady>> /\ pc = "find"
      /\ pc' = "related" /\ cards' = {} /\ turned' = FALSE /\ updated' = {}
  BY DEF FindPage, table
<1>3. /\ DOMAIN page' = 1 .. Window /\ Len(page') = Window
      /\ \A i \in DOMAIN page' : /\ page'[i].station \in Matching
                                 /\ page'[i] = Entry(page'[i].station)
      /\ page' \in Seq([station : Station, row : Row, ports : Ports])
      /\ more' = (Total > cursor + Limit)
  BY <1>1, PageFound
<1>4. /\ Matching' = Matching /\ Total' = Total /\ Limit' = Limit
      /\ \A s : PlaceOf(s)' = PlaceOf(s) /\ (Untied(s)' <=> Untied(s))
      /\ \A s : AlwaysShown(s)' <=> AlwaysShown(s)
  BY <1>2, SameTable
<1>5. Window' = Window
  BY <1>2, <1>4 DEF Window, Least
<1>6. TypeOK'
  <2>1. more' \in BOOLEAN /\ pc' \in Walking
    BY <1>2, <1>3 DEF Walking
  <2>2. QED
    BY <1>1, <1>2, <1>3, <2>1 DEF TypeOK
<1>7. FoundAsAsked'
  <2>1. ASSUME query.endpoint = "all", NEW s \in Matching
        PROVE  FindAllWhere(rows[s], query)
    BY <2>1 DEF Matching, Where
  <2>2. \A i \in DOMAIN page' : page'[i].row = rows[page'[i].station]
    BY <1>3 DEF Entry
  <2>3. QED
    BY <1>2, <1>3, <2>1, <2>2 DEF FoundAsAsked
<1>8. PageInPlace'
  <2>1. \A i \in DOMAIN page' : page'[i].row = rows[page'[i].station]
    BY <1>3 DEF Entry
  <2>2. ASSUME NEW s \in Matching, Untied(s), NEW i \in DOMAIN page'
        PROVE  page'[i].station = s <=> cursor + i = PlaceOf(s) + 1
    <3>1. PICK order \in Orders : page' = [j \in 1 .. Window |-> Entry(order[cursor + j])]
      BY <1>1, PageFound
    <3>2. page'[i].station = order[cursor + i]
      BY <1>3, <3>1 DEF Entry
    <3>3. cursor + i \in 1 .. Total
      BY <1>1, <1>3, PageBounds
    <3>4. QED
      BY <1>1, <2>2, <3>2, <3>3, PlaceInOrder
  <2>3. QED
    BY <1>2, <1>3, <1>4, <1>5, <2>1, <2>2 DEF PageInPlace
<1>9. ShownInTurn'
  <2>1. \A s : Passed(s)' <=> Passed(s)
    BY <1>2, <1>4 DEF Passed
  <2>2. QED
    BY <1>1, <1>2, <1>4, <2>1 DEF ShownInTurn
<1>10. QED
  BY <1>2, <1>6, <1>7, <1>8, <1>9, NoCards DEF SearchInv

LEMMA RelatedKeeps == ASSUME SearchInv, FindRelated PROVE SearchInv'
<1>1. TypeOK /\ FoundAsAsked /\ ShownInTurn /\ PageInPlace
  BY DEF SearchInv
<1>2. /\ UNCHANGED <<rows, now, query, cursor, more, cards, shown, steady, turned, updated>>
      /\ pc = "related" /\ pc' = "map"
      /\ page' = [i \in DOMAIN page |->
                     [page[i] EXCEPT !.ports = rows[page[i].station].ports]]
  BY DEF FindRelated, table, history
<1> DEFINE R == [station : Station, row : Row, ports : Ports]
<1>3. /\ page \in Seq(R) /\ DOMAIN page = 1 .. Len(page) /\ Len(page) \in Nat
      /\ \A i \in DOMAIN page : page[i] \in R
  <2>1. page \in Seq(R)
    BY <1>1 DEF TypeOK
  <2> HIDE DEF R
  <2>2. QED
    BY <2>1, ElementOfSeq
<1>4. ASSUME NEW i \in DOMAIN page
      PROVE  /\ page'[i] \in R
             /\ page'[i].station = page[i].station /\ page'[i].row = page[i].row
             /\ page'[i].ports = rows[page[i].station].ports
  <2>1. rows[page[i].station].ports \in Ports
    BY <1>1, <1>3, RowAssumption DEF TypeOK
  <2>2. QED
    BY <1>2, <1>3, <2>1
<1>5. /\ DOMAIN page' = DOMAIN page /\ page' \in Seq(R) /\ Len(page') = Len(page)
  <2>1. page' \in [1 .. Len(page) -> R]
    BY <1>2, <1>3, <1>4
  <2> HIDE DEF R
  <2>2. page' \in Seq(R)
    BY <1>3, <2>1, SeqDef
  <2>3. QED
    BY <1>3, <2>1, <2>2
<1>6. TypeOK'
  <2>1. pc' \in Walking
    BY <1>2 DEF Walking
  <2>2. QED
    BY <1>1, <1>2, <1>5, <2>1 DEF TypeOK
<1>7. FoundAsAsked'
  BY <1>1, <1>2, <1>4, <1>5 DEF FoundAsAsked
<1>8. /\ Matching' = Matching /\ Total' = Total /\ Limit' = Limit
      /\ \A s : PlaceOf(s)' = PlaceOf(s) /\ (Untied(s)' <=> Untied(s))
      /\ \A s : AlwaysShown(s)' <=> AlwaysShown(s)
  BY <1>2, SameTable
<1>9. PageInPlace'
  <2>1. Window' = Window
    BY <1>2, <1>8 DEF Window, Least
  <2>2. \A i \in DOMAIN page : /\ page'[i].station = page[i].station
                               /\ page'[i].row = page[i].row
    BY <1>4
  <2>3. ASSUME steady
        PROVE  /\ Len(page') = Window /\ (more <=> Total > cursor + Limit)
               /\ \A i \in DOMAIN page : /\ page'[i].station \in Matching
                                         /\ page'[i].row = rows[page'[i].station]
               /\ \A t \in Matching : Untied(t) =>
                      \A i \in DOMAIN page :
                          page'[i].station = t <=> cursor + i = PlaceOf(t) + 1
    BY <1>1, <1>2, <1>5, <2>2, <2>3 DEF PageInPlace
  <2>4. DOMAIN page' = DOMAIN page
    BY <1>5
  <2>5. PageInPlace'
    BY <1>2, <1>8, <2>1, <2>3, <2>4 DEF PageInPlace
  <2>6. QED
    BY <2>5
<1>10. ShownInTurn'
  <2>1. \A s : Passed(s)' <=> Passed(s)
    BY <1>2, <1>8 DEF Passed
  <2>2. QED
    BY <1>1, <1>2, <1>8, <2>1 DEF ShownInTurn
<1>11. QED
  BY <1>2, <1>6, <1>7, <1>9, <1>10, SameCards DEF SearchInv

\* What others do changes no page, and ends what is said of unchanged rows.
LEMMA OthersKeep ==
    ASSUME SearchInv,
           \/ \E s \in Station, row \in Row : ChangeRow(s, row)
           \/ Tick
           \/ UNCHANGED vars
    PROVE  SearchInv'
<1>1. TypeOK /\ FoundAsAsked /\ ShownInTurn /\ PageInPlace
  BY DEF SearchInv
<1>2. UNCHANGED <<pc, query, cursor, page, more, cards, shown, turned>>
  BY DEF ChangeRow, Tick, vars, request, history, table
<1>3. /\ updated \subseteq updated' /\ updated' \subseteq Station
      /\ pc = "related" => \A s \in Station \ updated' : rows'[s] = rows[s]
  BY <1>1 DEF ChangeRow, Tick, vars, request, history, table, TypeOK
<1>4. /\ (rows' = rows /\ steady' = steady) \/ ~steady'
      /\ rows' \in [Station -> Row] /\ now' \in Clock /\ steady' \in BOOLEAN
  <2>1. CASE \E s \in Station, row \in Row : ChangeRow(s, row)
    BY <1>1, <2>1 DEF ChangeRow, TypeOK
  <2>2. CASE Tick
    <3>1. now \in Nat /\ 1 \in Nat
      BY <1>1, ClockTyped DEF TypeOK
    <3>2. QED
      BY <1>1, <2>2, <3>1, LaterTyped DEF Tick, history, TypeOK
  <2>3. CASE UNCHANGED vars
    BY <1>1, <2>3 DEF vars, history, table, TypeOK
  <2>4. QED
    BY <2>1, <2>2, <2>3
<1>5. TypeOK' /\ FoundAsAsked'
  <2>1. TypeOK'
    BY <1>1, <1>2, <1>3, <1>4 DEF TypeOK
  <2>2. \A i \in DOMAIN page : page[i].station \in Station
    BY <1>1, PageTyped
  <2>3. FoundAsAsked'
    BY <1>1, <1>2, <1>3, <2>2 DEF FoundAsAsked
  <2>4. QED
    BY <2>1, <2>3
<1>6. PageInPlace' /\ ShownInTurn'
  <2>1. CASE rows' = rows /\ steady' = steady
    <3>1. /\ Matching' = Matching /\ Total' = Total /\ Limit' = Limit
          /\ \A s : PlaceOf(s)' = PlaceOf(s) /\ (Untied(s)' <=> Untied(s))
          /\ \A s : AlwaysShown(s)' <=> AlwaysShown(s)
      BY <1>2, <2>1, SameTable
    <3>2. Window' = Window /\ \A s : Passed(s)' <=> Passed(s)
      BY <1>2, <3>1 DEF Window, Least, Passed
    <3>3. PageInPlace'
      BY <1>1, <1>2, <2>1, <3>1, <3>2 DEF PageInPlace
    <3>4. ShownInTurn'
      BY <1>1, <1>2, <2>1, <3>1, <3>2 DEF ShownInTurn
    <3>5. QED
      BY <3>3, <3>4
  <2>2. CASE ~steady'
    BY <2>2 DEF PageInPlace, ShownInTurn
  <2>3. QED
    BY <1>4, <2>1, <2>2
<1>7. FlagAgreesWithText' /\ CardsShowWhatWasAskedFor'
  BY <1>2, <1>3, SameCards DEF SearchInv
<1>8. QED
  BY <1>5, <1>6, <1>7 DEF SearchInv

-----------------------------------------------------------------------------
(* The answer                                                              *)

\* What the clock says at a reading, if the minute changes after "turn" readings.
Read(turn, reading) == IF reading <= turn THEN now ELSE Later(now, 1)
KeptBy(turn) == {i \in DOMAIN page : Kept(i, Read(turn, FilterReading(i)))}
CardOf(turn, i) == MapToStationCard(page[i].station, page[i].row, page[i].ports,
                                    Read(turn, FlagReading(i)), Read(turn, TextReading(i)))

LEMMA Answered ==
    ASSUME AnswerPage
    PROVE  \E turn \in 0 .. 3 * Len(page) :
               /\ turned' \in BOOLEAN /\ (turned' <=> turn < 3 * Len(page))
               /\ now' = IF turned' THEN Later(now, 1) ELSE now
               /\ cards' = {CardOf(turn, i) : i \in KeptBy(turn)}
               /\ shown' = [s \in Station |->
                       shown[s] + Cardinality({i \in KeptBy(turn) : page[i].station = s})]
               /\ cursor' = IF more THEN cursor + Limit ELSE cursor
<1>1. PICK turn \in 0 .. 3 * Len(page) :
        /\ turned' = (turn < 3 * Len(page))
        /\ now' = IF turned' THEN Later(now, 1) ELSE now
        /\ cards' = {CardOf(turn, i) : i \in KeptBy(turn)}
        /\ shown' = [s \in Station |->
                shown[s] + Cardinality({i \in KeptBy(turn) : page[i].station = s})]
        /\ cursor' = IF more THEN cursor + Limit ELSE cursor
  BY DEF AnswerPage, Read, KeptBy, CardOf, NextCursor
<1>2. turned' \in BOOLEAN /\ (turned' <=> turn < 3 * Len(page))
  <2> DEFINE early == turn < 3 * Len(page)
  <2>1. turned' = early /\ early \in BOOLEAN
    BY <1>1
  <2> HIDE DEF early
  <2>2. turned' \in BOOLEAN /\ (turned' <=> early)
    BY <2>1, Zenon
  <2>3. QED
    BY <2>2 DEF early
<1>3. QED
  BY <1>1, <1>2

\* The readings of a card follow one another, and no two cards share one.
LEMMA Readings ==
    ASSUME TypeOK, NEW i \in DOMAIN page
    PROVE  /\ FlagReading(i) \in Nat /\ FilterReading(i) \in Nat
           /\ TextReading(i) = FlagReading(i) + 1 /\ TextReading(i) <= 3 * Len(page)
           /\ query.endpoint = "all" => FlagReading(i) = FilterReading(i) + 1
           /\ \A j \in DOMAIN page : FlagReading(i) = FlagReading(j) => i = j
<1>1. DOMAIN page = 1 .. Len(page) /\ Len(page) \in Nat
  BY DEF TypeOK
<1>2. CASE query.endpoint = "all"
  BY <1>1, <1>2 DEF FlagReading, FilterReading, TextReading
<1>3. CASE query.endpoint # "all"
  BY <1>1, <1>3 DEF FlagReading, FilterReading, TextReading
<1>4. QED
  BY <1>2, <1>3

\* The clock says the same at two readings with no change of the minute between.
LEMMA SameReading ==
    ASSUME NEW turn \in Nat, NEW n \in Nat, Read(turn, n) # Read(turn, n + 1)
    PROVE  turn = n
BY DEF Read

LEMMA ReadTyped == ASSUME TypeOK, NEW turn, NEW n PROVE Read(turn, n) \in Clock
<1>1. now \in Clock /\ now \in Nat /\ 1 \in Nat
  BY ClockTyped DEF TypeOK
<1>2. QED
  BY <1>1, LaterTyped DEF Read

\* The flag and the text of a card differ only where the minute changes.
LEMMA TornCard ==
    ASSUME TypeOK, NEW turn \in Nat, NEW i \in DOMAIN page, Contradictory(CardOf(turn, i))
    PROVE  turn = FlagReading(i)
<1>1. page[i].row \in Row
  BY PageTyped
<1> DEFINE a == Read(turn, FlagReading(i))
           b == Read(turn, TextReading(i))
<1>2. a \in Clock /\ b \in Clock
  BY ReadTyped
<1>3. /\ CardOf(turn, i).isOpenNow = IsStationOpen(page[i].row, a)
      /\ CardOf(turn, i).openingHoursText = BuildOpeningHoursText(page[i].row, b)
  BY DEF CardOf, MapToStationCard
<1> HIDE DEF a, b
<1>4. IsStationOpen(page[i].row, a) <=>
          BuildOpeningHoursText(page[i].row, a) \in {"AlwaysOpen", "ClosesAt"}
  BY <1>1, <1>2, FlagIsText
<1>5. IsStationOpen(page[i].row, a) \in BOOLEAN
  BY DEF IsStationOpen
<1>6. a # b
  BY <1>3, <1>4, <1>5 DEF Contradictory
<1>7. QED
  BY <1>6, Readings, SameReading DEF a, b

\* The cards of an answer of which something holds, that holds of one at most.
LEMMA AnswerFlags ==
    ASSUME SearchInv, AnswerPage
    PROVE  FlagAgreesWithText'
<1> DEFINE torn == {c \in cards' : Contradictory(c)}
<1>1. TypeOK /\ Len(page) \in Nat
  BY DEF SearchInv, TypeOK
<1>2. PICK turn \in 0 .. 3 * Len(page) :
          /\ turned' <=> turn < 3 * Len(page)
          /\ cards' = {CardOf(turn, i) : i \in KeptBy(turn)}
  BY Answered
<1>3. turn \in Nat
  BY <1>1
<1>4. \A c \in torn : \E i \in DOMAIN page : c = CardOf(turn, i) /\ turn = FlagReading(i)
  BY <1>1, <1>2, <1>3, TornCard DEF KeptBy
<1>5. \A c, d \in torn : c = d
  BY <1>1, <1>4, Readings
<1>6. CASE ~turned'
  <2>1. turn = 3 * Len(page)
    BY <1>1, <1>2, <1>6
  <2>2. torn = {}
    BY <1>1, <1>3, <1>4, <2>1, Readings
  <2>3. QED
    BY <1>6, <2>2, FS_EmptySet DEF FlagAgreesWithText
<1>7. CASE turned'
  <2>1. Cardinality(torn) <= 1
    <3> HIDE DEF torn
    <3>1. Cardinality(torn) \in {0, 1}
      BY <1>5, AtMostOne
    <3>2. QED
      BY <3>1
  <2>2. QED
    BY <1>7, <2>1 DEF FlagAgreesWithText
<1>8. QED
  BY <1>6, <1>7

LEMMA AnswerAsAsked ==
    ASSUME SearchInv, AnswerPage
    PROVE  CardsShowWhatWasAskedFor'
<1>1. /\ TypeOK /\ FoundAsAsked /\ Len(page) \in Nat /\ pc = "map"
      /\ query' = query /\ updated' = updated
  BY DEF SearchInv, TypeOK, AnswerPage
<1>2. PICK turn \in 0 .. 3 * Len(page) :
          /\ turned' <=> turn < 3 * Len(page)
          /\ cards' = {CardOf(turn, i) : i \in KeptBy(turn)}
  BY Answered
<1>3. turn \in Nat
  BY <1>1
<1> SUFFICES ASSUME query.endpoint = "all" PROVE CardsShowWhatWasAskedFor'
  BY <1>1 DEF CardsShowWhatWasAskedFor
<1>4. ASSUME NEW i \in DOMAIN page
      PROVE  CardOf(turn, i).station \in updated \/ ShowsPortsAsked(CardOf(turn, i))
  <2> SUFFICES ASSUME page[i].station \notin updated
               PROVE  ShowsPortsAsked(CardOf(turn, i))
    BY DEF CardOf, MapToStationCard
  <2>1. page[i].row \in Row
    BY <1>1, PageTyped
  <2>2. page[i].ports = page[i].row.ports /\ FindAllWhere(page[i].row, query)
    BY <1>1 DEF FoundAsAsked
  <2>3. query \in Query
    BY <1>1 DEF TypeOK
  <2>4. QED
    BY <2>1, <2>2, <2>3, FoundShowsPorts DEF CardOf
<1>5. \A c : ShowsPortsAsked(c)' <=> ShowsPortsAsked(c)
  BY <1>1 DEF ShowsPortsAsked
<1>6. \A c \in cards' : c.station \in updated \/ ShowsPortsAsked(c)
  BY <1>2, <1>4 DEF KeptBy
<1> DEFINE shut == {c \in cards' : ~c.isOpenNow}
<1>7. ASSUME query.openNow
      PROVE  Cardinality(shut) <= IF turned' THEN 1 ELSE 0
  <2>1. ASSUME NEW i \in KeptBy(turn), ~CardOf(turn, i).isOpenNow
        PROVE  i \in DOMAIN page /\ turn = FilterReading(i)
    <3>1. i \in DOMAIN page /\ IsStationOpen(page[i].row, Read(turn, FilterReading(i)))
      BY <1>7 DEF KeptBy, Kept
    <3>2. ~IsStationOpen(page[i].row, Read(turn, FlagReading(i)))
      BY <2>1 DEF CardOf, MapToStationCard
    <3>3. FlagReading(i) = FilterReading(i) + 1 /\ FilterReading(i) \in Nat
      BY <1>1, <3>1, Readings
    <3>4. Read(turn, FilterReading(i)) # Read(turn, FilterReading(i) + 1)
      BY <3>1, <3>2, <3>3
    <3>5. QED
      BY <1>3, <3>1, <3>3, <3>4, SameReading
  <2>2. \A c \in shut : \E i \in DOMAIN page : c = CardOf(turn, i) /\ turn = FilterReading(i)
    BY <1>2, <2>1
  <2>3. \A c, d \in shut : c = d
    BY <1>1, <2>2, Readings
  <2>4. CASE ~turned'
    <3>1. turn = 3 * Len(page)
      BY <1>1, <1>2, <2>4
    <3>2. shut = {}
      BY <1>1, <1>3, <2>2, <3>1, Readings
    <3>3. Cardinality(shut) = 0
      BY <3>2, FS_EmptySet
    <3>4. QED
      BY <2>4, <3>3
  <2>5. CASE turned'
    <3> HIDE DEF shut
    <3>1. Cardinality(shut) \in {0, 1}
      BY <2>3, AtMostOne
    <3>2. QED
      BY <2>5, <3>1
  <2>6. QED
    BY <2>4, <2>5
<1>8. QED
  BY <1>1, <1>5, <1>6, <1>7 DEF CardsShowWhatWasAskedFor

\* A station that ties with no other is on the page where its place is, and is
\* shown there unless openNow leaves it out.
LEMMA AnswerShows ==
    ASSUME SearchInv, AnswerPage
    PROVE  /\ shown' \in [Station -> Nat] /\ cursor' \in Nat
           /\ ShownInTurn'
<1>1. /\ TypeOK /\ PageInPlace /\ ShownInTurn /\ pc = "map"
      /\ UNCHANGED <<rows, query, steady>>
      /\ pc' = IF more THEN "find" ELSE "done"
  BY DEF SearchInv, AnswerPage
<1>2. PICK turn \in 0 .. 3 * Len(page) :
          /\ shown' = [s \in Station |->
                  shown[s] + Cardinality({i \in KeptBy(turn) : page[i].station = s})]
          /\ cursor' = IF more THEN cursor + Limit ELSE cursor
  BY Answered
<1>3. /\ DOMAIN page = 1 .. Len(page) /\ Len(page) \in Nat /\ cursor \in Nat
      /\ shown \in [Station -> Nat] /\ more \in BOOLEAN
  BY <1>1 DEF TypeOK
<1> DEFINE N(s) == Cardinality({i \in KeptBy(turn) : page[i].station = s})
<1>4. \A s : /\ IsFiniteSet({i \in KeptBy(turn) : page[i].station = s})
             /\ N(s) \in Nat
  <2>1. ASSUME NEW s
        PROVE  IsFiniteSet({i \in KeptBy(turn) : page[i].station = s})
    <3>1. {i \in KeptBy(turn) : page[i].station = s} \in SUBSET (1 .. Len(page))
      BY <1>3 DEF KeptBy
    <3>2. IsFiniteSet(1 .. Len(page))
      BY <1>3, FS_Interval
    <3>3. QED
      BY <3>1, <3>2, FS_Subset
  <2>2. QED
    BY <2>1, FS_CardinalityType
<1>5. shown' = [s \in Station |-> shown[s] + N(s)]
  BY <1>2
<1>6. shown' \in [Station -> Nat] /\ \A s \in Station : shown'[s] = shown[s] + N(s)
  <2>1. \A s : N(s) \in Nat
    BY <1>4
  <2> HIDE DEF N
  <2>2. ASSUME NEW s \in Station
        PROVE  shown[s] + N(s) \in Nat
    <3>1. shown[s] \in Nat /\ N(s) \in Nat
      BY <1>3, <2>1
    <3> DEFINE n == N(s)
    <3> HIDE DEF n
    <3>2. n \in Nat
      BY <3>1 DEF n
    <3>3. shown[s] + n \in Nat
      BY <3>1, <3>2
    <3>4. QED
      BY <3>3 DEF n
  <2>3. QED
    BY <1>5, <2>2
<1>7. cursor' \in Nat
  BY <1>1, <1>2, <1>3, PageBounds
<1>8. /\ Matching' = Matching /\ Total' = Total
      /\ \A s : PlaceOf(s)' = PlaceOf(s) /\ (Untied(s)' <=> Untied(s))
      /\ \A s : AlwaysShown(s)' <=> AlwaysShown(s)
  BY <1>1, SameTable
<1> HIDE DEF N
<1>9. ASSUME steady, NEW s \in Station, s \notin Matching
      PROVE  shown'[s] = 0
  <2>1. shown[s] = 0
    BY <1>1, <1>9 DEF ShownInTurn
  <2>2. \A i \in DOMAIN page : page[i].station # s
    BY <1>1, <1>9 DEF PageInPlace
  <2>3. {i \in KeptBy(turn) : page[i].station = s} = {}
    BY <2>2 DEF KeptBy
  <2>4. N(s) = 0
    BY <2>3, FS_EmptySet DEF N
  <2>5. QED
    BY <1>6, <2>1, <2>4
<1>10. ASSUME steady, NEW s \in Matching, Untied(s)
       PROVE  /\ shown'[s] <= 1
              /\ ~Passed(s)' => shown'[s] = 0
              /\ Passed(s)' /\ AlwaysShown(s) => shown'[s] = 1
  <2>1. /\ s \in Station /\ PlaceOf(s) \in Nat /\ PlaceOf(s) < Total
        /\ Limit \in Nat \ {0} /\ Total \in Nat /\ Window \in Nat
        /\ Total > cursor + Limit => Window = Limit
        /\ ~(Total > cursor + Limit) /\ cursor < Total => cursor + Window = Total
    BY <1>1, PageBounds, PlaceTyped
  <2>2. /\ Len(page) = Window /\ (more <=> Total > cursor + Limit)
        /\ \A i \in DOMAIN page : page[i].station = s <=> cursor + i = PlaceOf(s) + 1
        /\ \A i \in DOMAIN page : page[i].row = rows[page[i].station]
    BY <1>1, <1>10 DEF PageInPlace
  <2>3. /\ shown[s] \in Nat /\ shown[s] <= 1
        /\ ~(PlaceOf(s) < cursor) => shown[s] = 0
        /\ PlaceOf(s) < cursor /\ AlwaysShown(s) => shown[s] = 1
    BY <1>1, <1>3, <1>10, <2>1 DEF ShownInTurn, Passed
  <2>4. shown'[s] = shown[s] + N(s) /\ N(s) \in Nat
    BY <1>4, <1>6, <2>1
  <2>5. Passed(s)' <=> pc' = "done" \/ PlaceOf(s) < cursor'
    BY <1>8 DEF Passed
  <2>6. CASE PlaceOf(s) < cursor
    <3>1. \A i \in DOMAIN page : page[i].station # s
      BY <1>3, <2>1, <2>2, <2>6
    <3>2. {i \in KeptBy(turn) : page[i].station = s} = {}
      BY <3>1 DEF KeptBy
    <3>3. N(s) = 0
      BY <3>2, FS_EmptySet DEF N
    <3>4. PlaceOf(s) < cursor'
      BY <1>2, <1>3, <2>1, <2>6
    <3>5. QED
      BY <2>3, <2>4, <2>5, <2>6, <3>3, <3>4
  <2>7. CASE ~(PlaceOf(s) < cursor) /\ ~(PlaceOf(s) < cursor + Window)
    <3>1. \A i \in DOMAIN page : page[i].station # s
      BY <1>3, <2>1, <2>2, <2>7
    <3>2. {i \in KeptBy(turn) : page[i].station = s} = {}
      BY <3>1 DEF KeptBy
    <3>3. N(s) = 0
      BY <3>2, FS_EmptySet DEF N
    <3>4. more
      BY <1>3, <2>1, <2>2, <2>7
    <3>5. pc' # "done" /\ cursor' = cursor + Window
      BY <1>1, <1>2, <2>1, <2>2, <3>4
    <3>6. QED
      BY <2>3, <2>4, <2>5, <2>7, <3>3, <3>5
  <2>8. CASE ~(PlaceOf(s) < cursor) /\ PlaceOf(s) < cursor + Window
    <3>1. PICK k \in DOMAIN page : cursor + k = PlaceOf(s) + 1
      <4>1. PlaceOf(s) + 1 - cursor \in 1 .. Window
        BY <1>3, <2>1, <2>8
      <4>2. cursor + (PlaceOf(s) + 1 - cursor) = PlaceOf(s) + 1
        BY <1>3, <2>1
      <4>3. QED
        BY <1>3, <2>2, <4>1, <4>2
    <3> DEFINE S == {i \in KeptBy(turn) : page[i].station = s}
    <3>2. \A i \in S : i = k
      BY <1>3, <2>1, <2>2, <3>1 DEF KeptBy
    <3>3. N(s) \in {0, 1} /\ (S # {} => N(s) = 1)
      BY <3>2, AtMostOne DEF N
    <3>4. ASSUME AlwaysShown(s)
          PROVE  S # {}
      <4>1. page[k].station = s /\ page[k].row = rows[s]
        BY <2>2, <3>1
      <4>2. Kept(k, Read(turn, FilterReading(k)))
        BY <3>4, <4>1 DEF AlwaysShown, Kept, IsStationOpen
      <4>3. k \in S
        BY <4>1, <4>2 DEF KeptBy
      <4>4. QED
        BY <4>3
    <3>5. Passed(s)'
      <4>1. CASE more
        BY <1>2, <2>1, <2>2, <2>5, <2>8, <4>1
      <4>2. CASE ~more
        BY <1>1, <2>5, <4>2
      <4>3. QED
        BY <4>1, <4>2
    <3> HIDE DEF S
    <3>6. QED
      BY <2>3, <2>4, <2>8, <3>3, <3>4, <3>5
  <2>9. QED
    BY <2>6, <2>7, <2>8
<1>11. ShownInTurn'
  BY <1>1, <1>8, <1>9, <1>10 DEF ShownInTurn
<1>12. QED
  BY <1>6, <1>7, <1>11

LEMMA AnswerKeeps == ASSUME SearchInv, AnswerPage PROVE SearchInv'
<1>1. TypeOK /\ now \in Nat /\ 1 \in Nat
  BY ClockTyped DEF SearchInv, TypeOK
<1>2. /\ UNCHANGED <<rows, query, steady, updated>> /\ page' = <<>> /\ more' = FALSE
      /\ pc' \in {"find", "done"}
  BY DEF AnswerPage
<1>3. PICK turn \in 0 .. 3 * Len(page) :
          turned' \in BOOLEAN /\ now' = IF turned' THEN Later(now, 1) ELSE now
  BY Answered
<1>4. now' \in Clock
  BY <1>1, <1>3, LaterTyped DEF TypeOK
<1>5. <<>> \in Seq([station : Station, row : Row, ports : Ports]) /\ DOMAIN <<>> = {}
  OBVIOUS
<1>6. TypeOK'
  <2>1. pc' \in Walking \cup {"done"} /\ more' \in BOOLEAN
    BY <1>2 DEF Walking
  <2>2. QED
    BY <1>1, <1>2, <1>3, <1>4, <1>5, <2>1, AnswerShows DEF TypeOK
<1>7. FoundAsAsked' /\ PageInPlace'
  BY <1>2, <1>5 DEF FoundAsAsked, PageInPlace
<1>8. QED
  BY <1>6, <1>7, AnswerShows, AnswerFlags, AnswerAsAsked DEF SearchInv

\* Every step keeps the invariant.
LEMMA NextSearch == SearchInv /\ [Next]_vars => SearchInv'
BY FindKeeps, RelatedKeeps, AnswerKeeps, OthersKeep DEF Next

LEMMA SearchInvariance == Spec => []SearchInv
BY InitSearch, NextSearch, PTL DEF Spec

\* What the walk through the stations, its page and the clock can hold.
THEOREM SearchTyped == Spec => []TypeOK
<1>1. SearchInv => TypeOK
  BY DEF SearchInv
<1>2. QED
  BY <1>1, SearchInvariance, PTL

\* Whatever the order in which the database returns stations that tie, a walk
\* of any number of pages shows the others once each.
THEOREM UntiedAreShownOnce == Spec => []UntiedShownOnce
<1>1. SearchInv => UntiedShownOnce
  BY DEF SearchInv, ShownInTurn, UntiedShownOnce, Passed, AlwaysShown
<1>2. QED
  BY <1>1, SearchInvariance, PTL

\* However many cards a page has, only one can contradict itself.
THEOREM FlagsAgree == Spec => []FlagAgreesWithText
<1>1. SearchInv => FlagAgreesWithText
  BY DEF SearchInv
<1>2. QED
  BY <1>1, SearchInvariance, PTL

\* Every card of findAll shows what was asked for, unless its station changed
\* after it was found and before its ports were read for the card.
THEOREM CardsAsAsked == Spec => []CardsShowWhatWasAskedFor
<1>1. SearchInv => CardsShowWhatWasAskedFor
  BY DEF SearchInv
<1>2. QED
  BY <1>1, SearchInvariance, PTL

\* What the text of a station announces comes true, in every timezone, for every
\* length of the day and whichever way the hour after midnight is formatted.
THEOREM OpenAsAnnounced == Spec => []OpensAsAnnounced
<1>1. SearchInv => OpensAsAnnounced
  <2> SUFFICES ASSUME SearchInv PROVE OpensAsAnnounced
    OBVIOUS
  <2>1. \A s \in Station : rows[s] \in Row /\ now \in Clock
    BY DEF SearchInv, TypeOK
  <2>2. QED
    BY <2>1, Announced DEF OpensAsAnnounced
<1>2. QED
  BY <1>1, SearchInvariance, PTL

-----------------------------------------------------------------------------
(* The pages of the reviews                                                *)

\* The reviews for the page at a cursor, when b were there.
Elements(c, b) == {i \in b : c = NoCursor \/ posts[i] < c}

\* A page, however old, has the newest reviews there were before its cursor, and
\* the cursor of the next tells those it has from those it has not.  What was
\* not there is at the cursor or after it, or was missed.
Truthful(p, c) ==
    /\ p \in PageOf
    /\ p.base \subseteq visible
    /\ c # NoCursor =>
          /\ c <= time
          /\ \A i \in DOMAIN posts \ p.base : posts[i] >= c \/ i \in missed
    /\ p.reviews \subseteq Elements(c, p.base)
    /\ IF p.next = NoCursor THEN p.reviews = Elements(c, p.base)
       ELSE /\ \E i \in p.reviews : posts[i] = p.next
            /\ \A i \in p.reviews : posts[i] >= p.next
            /\ \A i \in Elements(c, p.base) \ p.reviews : posts[i] <= p.next

PagesTruthful == /\ \A c \in Cursor : pages[c] # NoPage => Truthful(pages[c], c)
                 /\ at = "set" => Truthful(found, after)

PostsInTime == \A i \in DOMAIN posts : posts[i] <= time

\* The walk has shown what is at its cursor or after it, of the reviews that
\* were there when it began, and nothing that is before its cursor.
Walked ==
    /\ base \subseteq visible
    /\ \A i \in Review : seen[i] \in {0, 1}
    /\ at # "done" /\ after = NoCursor => \A i \in Review : seen[i] = 0
    /\ after # NoCursor =>
          /\ at # "done"
          /\ \E j \in visible : posts[j] = after
          /\ \A i \in Review : seen[i] = 1 => i \in visible /\ posts[i] >= after
          /\ \A i \in base \ missed : posts[i] >= after => SameMoment(i) \/ seen[i] = 1
    /\ at = "done" => \A i \in base \ missed : SameMoment(i) \/ seen[i] = 1

PagesInv == PagesTypeOK /\ PostsInTime /\ PagesTruthful /\ Walked

\* The invariant holds before anything is written or read.
LEMMA InitPages == PagesInit => PagesInv
<1> SUFFICES ASSUME PagesInit PROVE PagesInv
  OBVIOUS
<1>0. posts = <<>> /\ DOMAIN posts = {} /\ Len(posts) = 0 /\ posts \in Seq(0 .. MaxTime)
  BY DEF PagesInit
<1>1. PagesTypeOK
  <2>1. pages \in [Cursor -> PageOf \cup {NoPage}] /\ seen \in [Review -> Nat]
    BY DEF PagesInit
  <2>2. after \in Cursor /\ found \in PageOf \cup {NoPage}
    BY DEF PagesInit, Cursor
  <2>3. visible = {} /\ forgetting \in Nat /\ base = {} /\ missed = {}
    BY DEF PagesInit
  <2>4. QED
    BY <1>0, <2>1, <2>2, <2>3, PagesBoundAssumption DEF PagesInit, PagesTypeOK
<1>2. PostsInTime /\ PagesTruthful
  BY <1>0 DEF PagesInit, PostsInTime, PagesTruthful
<1>3. Walked
  BY <1>0 DEF PagesInit, Walked
<1>4. QED
  BY <1>1, <1>2, <1>3 DEF PagesInv

\* The reviews are numbered from 1 on, and each has its time.
LEMMA ReviewsTyped ==
    ASSUME PagesTypeOK
    PROVE  /\ DOMAIN posts = 1 .. Len(posts) /\ Len(posts) \in Nat
           /\ DOMAIN posts \subseteq Review /\ visible \subseteq DOMAIN posts
           /\ \A i \in DOMAIN posts : posts[i] \in 0 .. MaxTime /\ posts[i] \in Nat
BY PagesBoundAssumption DEF PagesTypeOK, Review

\* The cursors but the first are times, and a page is of reviews.
LEMMA CursorTyped ==
    /\ \A c \in Cursor : c # NoCursor => c \in 0 .. MaxTime /\ c \in Nat
    /\ \A p \in PageOf : /\ p.reviews \in SUBSET Review /\ p.next \in Cursor
                         /\ p.base \in SUBSET Review
BY PagesBoundAssumption DEF Cursor, PageOf

\* What a page says stays true when reviews are written and stored, and when
\* time passes.
LEMMA TruthStays ==
    ASSUME PagesTypeOK, NEW p, NEW c \in Cursor, Truthful(p, c),
           posts' \in Seq(0 .. MaxTime), Len(posts) <= Len(posts'),
           \A i \in DOMAIN posts : posts'[i] = posts[i],
           \A i \in DOMAIN posts' \ DOMAIN posts : posts'[i] >= time,
           time <= time', time' \in Nat, visible \subseteq visible',
           missed \subseteq missed'
    PROVE  Truthful(p, c)'
<1>1. /\ DOMAIN posts = 1 .. Len(posts) /\ Len(posts) \in Nat
      /\ DOMAIN posts' = 1 .. Len(posts') /\ Len(posts') \in Nat
      /\ \A i \in DOMAIN posts : posts[i] \in Nat
      /\ visible \subseteq DOMAIN posts
  BY ReviewsTyped
<1>2. \A i \in 1 .. Len(posts') : posts'[i] \in 0 .. MaxTime
  BY ElementOfSeq
<1>3. p \in PageOf /\ p.base \subseteq visible
  BY DEF Truthful
<1>4. \A i \in p.base : i \in DOMAIN posts /\ posts'[i] = posts[i]
  BY <1>1, <1>3
<1>5. Elements(c, p.base)' = Elements(c, p.base)
  BY <1>4 DEF Elements
<1>6. ASSUME c # NoCursor
      PROVE  c <= time' /\ \A i \in DOMAIN posts' \ p.base : posts'[i] >= c \/ i \in missed'
  <2>1. c \in Nat /\ c <= time /\ time \in Nat
    BY <1>6, CursorTyped, PagesBoundAssumption DEF Truthful, PagesTypeOK
  <2>2. ASSUME NEW i \in DOMAIN posts' \ p.base
        PROVE  posts'[i] >= c \/ i \in missed'
    <3>1. CASE i \in DOMAIN posts
      BY <1>6, <2>2, <3>1 DEF Truthful
    <3>2. CASE i \notin DOMAIN posts
      <4>1. posts'[i] >= time /\ posts'[i] \in Int
        BY <1>1, <1>2, <3>2, PagesBoundAssumption
      <4>2. QED
        BY <2>1, <4>1
    <3>3. QED
      BY <3>1, <3>2
  <2>3. QED
    BY <2>1, <2>2
<1>7. /\ p.reviews \subseteq Elements(c, p.base)
      /\ \A i \in Elements(c, p.base) : posts'[i] = posts[i]
  BY <1>4 DEF Truthful, Elements
<1>8. IF p.next = NoCursor THEN p.reviews = Elements(c, p.base)
       ELSE /\ \E i \in p.reviews : posts'[i] = p.next
            /\ \A i \in p.reviews : posts'[i] >= p.next
            /\ \A i \in Elements(c, p.base) \ p.reviews : posts'[i] <= p.next
  BY <1>7 DEF Truthful
<1>9. QED
  BY <1>3, <1>5, <1>6, <1>7, <1>8 DEF Truthful

\* The page that is read from the database is one that its cursor promises.
LEMMA FoundTruthful ==
    ASSUME PagesInv, FindReviews
    PROVE  found' \in PageOf /\ Truthful(found, after)'
<1> DEFINE S == Before(after)
<1>1. PICK P \in Newest(S) : found' = [reviews |-> P, next |-> CursorAfter(P, S),
                                       base |-> visible]
  BY DEF FindReviews
<1>2. /\ DOMAIN posts = 1 .. Len(posts) /\ Len(posts) \in Nat
      /\ DOMAIN posts \subseteq Review /\ visible \subseteq DOMAIN posts
      /\ \A i \in DOMAIN posts : posts[i] \in 0 .. MaxTime /\ posts[i] \in Nat
  BY ReviewsTyped DEF PagesInv
<1>3. S = Elements(after, visible) /\ S \subseteq DOMAIN posts
  BY <1>2 DEF Before, Elements
<1>4. /\ P \in SUBSET S /\ Cardinality(P) = Min({limit, Cardinality(S)})
      /\ \A i \in P, j \in S \ P : posts[i] >= posts[j]
  BY DEF Newest
<1>5. IsFiniteSet(S) /\ IsFiniteSet(P)
  <2>1. IsFiniteSet(DOMAIN posts)
    BY <1>2, FS_Interval
  <2>2. IsFiniteSet(S)
    BY <1>3, <2>1, FS_Subset
  <2>3. QED
    BY <1>4, <2>2, FS_Subset
<1>6. ASSUME P # S
      PROVE  /\ CursorAfter(P, S) \in Cursor /\ CursorAfter(P, S) # NoCursor
             /\ \E i \in P : posts[i] = CursorAfter(P, S)
             /\ \A i \in P : posts[i] >= CursorAfter(P, S)
             /\ \A i \in S \ P : posts[i] <= CursorAfter(P, S)
  <2>1. P # {}
    <3>1. limit \in Nat \ {0}
      BY WalkLimitAssumption DEF PagesInv, PagesTypeOK
    <3>2. Cardinality(S) \in Nat \ {0}
      BY <1>4, <1>5, <1>6, FS_CardinalityType, FS_EmptySet
    <3>3. \E x \in {limit, Cardinality(S)} : \A y \in {limit, Cardinality(S)} : x =< y
      BY <3>1, <3>2
    <3>4. Min({limit, Cardinality(S)}) \in {limit, Cardinality(S)}
      BY <3>3 DEF Min
    <3>5. QED
      BY <1>4, <3>1, <3>2, <3>4, FS_EmptySet
  <2>2. PICK i \in P : \A j \in P : posts[i] <= posts[j]
    <3>1. [j \in P |-> posts[j]] \in [P -> Int]
      BY <1>2, <1>3, <1>4
    <3>2. QED
      BY <1>5, <2>1, <3>1, LeastValue
  <2> DEFINE T == {posts[j] : j \in P}
  <2>3. posts[i] \in T /\ \A y \in T : posts[i] =< y
    BY <2>2
  <2>4. Min(T) \in T /\ \A y \in T : Min(T) =< y
    BY <2>3 DEF Min
  <2>5. CursorAfter(P, S) = Min(T)
    BY <1>6 DEF CursorAfter
  <2>6. PICK k \in P : posts[k] = CursorAfter(P, S)
    BY <2>4, <2>5
  <2>7. CursorAfter(P, S) \in 0 .. MaxTime
    BY <1>2, <1>3, <1>4, <2>6
  <2>8. CursorAfter(P, S) \in Cursor /\ CursorAfter(P, S) # NoCursor
    BY <2>7, CursorAssumption, PagesBoundAssumption DEF Cursor
  <2>9. \A j \in P : posts[j] >= CursorAfter(P, S)
    BY <1>2, <1>3, <1>4, <2>4, <2>5, <2>7
  <2>10. \A j \in S \ P : posts[j] <= CursorAfter(P, S)
    BY <1>2, <1>3, <1>4, <2>6
  <2>11. QED
    BY <2>6, <2>8, <2>9, <2>10
<1>7. P = S => CursorAfter(P, S) = NoCursor
  BY DEF CursorAfter
<1>8. CursorAfter(P, S) \in Cursor
  BY <1>6, <1>7 DEF Cursor
<1>9. found' \in PageOf
  BY <1>1, <1>2, <1>3, <1>4, <1>8 DEF PageOf
<1>10. ASSUME after # NoCursor
       PROVE  after <= time
  BY <1>2, <1>10 DEF PagesInv, Walked, PostsInTime
<1>11. /\ found'.reviews = P /\ found'.next = CursorAfter(P, S)
       /\ found'.base = visible
  BY <1>1
<1>12. UNCHANGED <<posts, time, visible, after>> /\ missed' = missed \cup (DOMAIN posts \ visible)
  BY DEF FindReviews, writing
<1>13. Elements(after, found.base)' = S
  BY <1>3, <1>11, <1>12 DEF Elements
<1>14. QED
  BY <1>2, <1>3, <1>4, <1>6, <1>7, <1>9, <1>10, <1>11, <1>12, <1>13 DEF Truthful

\* An answer takes the walk to the cursor of the next page.
LEMMA AnswerWalks ==
    ASSUME PagesInv, NEW p, Truthful(p, after), at \in {"get", "set"}, Answer(p),
           UNCHANGED <<posts, visible, missed>>
    PROVE  /\ Walked' /\ seen' \in [Review -> Nat] /\ after' \in Cursor
           /\ at' \in {"get", "done"} /\ base' \subseteq Review
<1>1. /\ DOMAIN posts \subseteq Review /\ visible \subseteq DOMAIN posts
      /\ \A i \in DOMAIN posts : posts[i] \in 0 .. MaxTime /\ posts[i] \in Nat
  BY ReviewsTyped DEF PagesInv
<1>2. /\ p.reviews \in SUBSET Review /\ p.next \in Cursor
      /\ p.base \subseteq visible
      /\ p.next # NoCursor => p.next \in Nat
  BY CursorTyped DEF Truthful
<1>3. /\ base \subseteq visible
      /\ after # NoCursor => after \in Nat
      /\ \A i \in Review : seen[i] \in {0, 1}
  BY CursorTyped DEF PagesInv, PagesTypeOK, Walked
<1>4. \A i \in p.reviews : /\ i \in visible /\ i \in DOMAIN posts
                           /\ after # NoCursor => posts[i] < after
  BY <1>1, <1>2 DEF Truthful, Elements
<1>w. /\ after = NoCursor => \A i \in Review : seen[i] = 0
      /\ after # NoCursor =>
            /\ \A i \in Review : seen[i] = 1 => i \in visible /\ posts[i] >= after
            /\ \A i \in base \ missed : posts[i] >= after => SameMoment(i) \/ seen[i] = 1
  BY DEF PagesInv, Walked
<1>5. \A i \in p.reviews : seen[i] = 0
  <2>1. CASE after = NoCursor
    BY <1>2, <1>w, <2>1
  <2>2. ASSUME after # NoCursor, NEW i \in p.reviews
        PROVE  seen[i] = 0
    <3>1. posts[i] < after /\ posts[i] \in Nat /\ after \in Nat /\ i \in Review
      BY <1>1, <1>2, <1>3, <1>4, <2>2
    <3>2. ~(posts[i] >= after)
      BY <3>1
    <3>3. seen[i] # 1 /\ seen[i] \in {0, 1}
      BY <1>3, <1>w, <2>2, <3>1, <3>2
    <3>4. QED
      BY <3>3
  <2>3. QED
    BY <2>1, <2>2
<1>6. /\ seen' = [i \in Review |-> seen[i] + IF i \in p.reviews THEN 1 ELSE 0]
      /\ base' = (IF after = NoCursor THEN p.base ELSE base)
      /\ after' = p.next
      /\ at' = (IF p.next = NoCursor THEN "done" ELSE "get")
  BY DEF Answer
<1>7. \A i \in Review : /\ seen'[i] \in {0, 1}
                        /\ seen'[i] = 1 <=> seen[i] = 1 \/ i \in p.reviews
  BY <1>3, <1>5, <1>6
<1>8. base' \subseteq visible /\ base' \subseteq Review
  BY <1>1, <1>2, <1>3, <1>6
<1>9. \A i \in Review : seen'[i] = 1 => i \in visible
  BY <1>4, <1>7, <1>w
<1>10. \A i \in base' \ missed : i \in Elements(after, p.base) \/ SameMoment(i) \/ seen[i] = 1
  <2>1. CASE after = NoCursor
    BY <1>6, <2>1 DEF Elements
  <2>2. CASE after # NoCursor
    <3>1. \A i \in base \ missed : posts[i] < after => i \in p.base
      BY <1>1, <1>3, <2>2 DEF Truthful
    <3>2. QED
      BY <1>1, <1>3, <1>6, <1>w, <2>2, <3>1 DEF Elements
  <2>3. QED
    BY <2>1, <2>2
<1>11. \A i \in DOMAIN posts : SameMoment(i)' <=> SameMoment(i)
  BY DEF SameMoment
<1>12. \A i \in base' : i \in DOMAIN posts /\ i \in Review
  BY <1>1, <1>8
<1>13. CASE p.next = NoCursor
  <2>1. p.reviews = Elements(after, p.base)
    BY <1>13 DEF Truthful
  <2>2. \A i \in base' \ missed : SameMoment(i)' \/ seen'[i] = 1
    BY <1>7, <1>10, <1>11, <1>12, <2>1
  <2>3. Walked'
    BY <1>6, <1>7, <1>8, <1>13, <2>2 DEF Walked
  <2>4. QED
    BY <1>2, <1>3, <1>6, <1>8, <2>3
<1>14. CASE p.next # NoCursor
  <2>1. PICK j \in p.reviews : posts[j] = p.next
    BY <1>14 DEF Truthful
  <2>2. j \in visible
    BY <1>4
  <2>3. ASSUME NEW i \in Review, seen'[i] = 1
        PROVE  posts[i] >= p.next
    <3>1. CASE i \in p.reviews
      BY <1>14, <3>1 DEF Truthful
    <3>2. CASE i \notin p.reviews
      <4>1. seen[i] = 1 /\ after # NoCursor
        BY <1>7, <1>w, <2>3, <3>2
      <4>2. posts[i] >= after /\ p.next < after
        BY <1>4, <1>w, <2>1, <4>1
      <4>3. QED
        BY <1>1, <1>2, <1>3, <1>9, <1>14, <2>3, <4>1, <4>2
    <3>3. QED
      BY <3>1, <3>2
  <2>4. ASSUME NEW i \in base' \ missed, posts[i] >= p.next
        PROVE  SameMoment(i) \/ seen'[i] = 1
    <3>1. CASE i \in Elements(after, p.base) \ p.reviews
      <4>1. posts[i] = posts[j]
        BY <1>1, <1>2, <1>12, <1>14, <2>1, <2>4, <3>1 DEF Truthful
      <4>2. i # j /\ j \in visible
        BY <1>4, <3>1
      <4>3. QED
        BY <4>1, <4>2 DEF SameMoment
    <3>2. QED
      BY <1>7, <1>10, <1>12, <3>1
  <2>5. Walked'
    BY <1>6, <1>7, <1>8, <1>9, <1>11, <1>12, <1>14, <2>1, <2>2, <2>3, <2>4 DEF Walked
  <2>6. QED
    BY <1>2, <1>3, <1>6, <1>8, <2>5
<1>15. QED
  BY <1>13, <1>14

\* Every step of the walk, of the writers and of the clock keeps the invariant.
LEMMA NextPages == PagesInv /\ [PagesNext]_pageVars => PagesInv'
<1> SUFFICES ASSUME PagesInv, [PagesNext]_pageVars PROVE PagesInv'
  OBVIOUS
<1>1. PagesTypeOK /\ PostsInTime /\ PagesTruthful /\ Walked
  BY DEF PagesInv
<1>2. /\ DOMAIN posts = 1 .. Len(posts) /\ Len(posts) \in Nat
      /\ DOMAIN posts \subseteq Review /\ visible \subseteq DOMAIN posts
      /\ \A i \in DOMAIN posts : posts[i] \in 0 .. MaxTime /\ posts[i] \in Nat
      /\ time \in 0 .. MaxTime /\ time \in Nat
  BY <1>1, ReviewsTyped, PagesBoundAssumption DEF PagesTypeOK
\* While nothing is written and no time passes, the pages that are kept stay true.
<1>3. ASSUME UNCHANGED <<posts, time, visible, missed>>, PagesTypeOK', Walked',
             \A c \in Cursor : pages'[c] # NoPage => Truthful(pages'[c], c),
             at' = "set" => Truthful(found', after')
      PROVE  PagesInv'
  <2>1. PostsInTime'
    BY <1>1, <1>3 DEF PostsInTime
  <2>2. \A p, c : Truthful(p, c)' <=> Truthful(p, c)
    BY <1>3 DEF Truthful, Elements
  <2>3. PagesTruthful'
    BY <1>3, <2>2 DEF PagesTruthful
  <2>4. QED
    BY <1>3, <2>1, <2>3 DEF PagesInv
<1>4. \A c \in Cursor : pages[c] # NoPage => Truthful(pages[c], c)
  BY <1>1 DEF PagesTruthful
<1>5. ASSUME UNCHANGED <<posts, visible, at, after, seen, base, missed>>
      PROVE  Walked'
  BY <1>1, <1>5 DEF Walked, SameMoment
<1>6. CASE GetPage /\ pages[after] = NoPage
  <2>1. /\ UNCHANGED <<writing, pages, limit, found, after, seen, base, missed>>
        /\ at = "get" /\ at' = "find"
    BY <1>6 DEF GetPage
  <2>2. PagesTypeOK'
    BY <1>1, <2>1 DEF PagesTypeOK, writing
  <2>3. Walked'
    BY <1>1, <2>1 DEF Walked, SameMoment, writing
  <2>4. QED
    BY <1>3, <1>4, <2>1, <2>2, <2>3 DEF writing
<1>7. CASE GetPage /\ pages[after] # NoPage
  <2>1. /\ UNCHANGED <<writing, pages, limit, found, missed>>
        /\ at = "get" /\ Answer(pages[after])
    BY <1>7 DEF GetPage
  <2>2. Truthful(pages[after], after)
    BY <1>1, <1>4, <1>7 DEF PagesTypeOK
  <2>3. /\ Walked' /\ seen' \in [Review -> Nat] /\ after' \in Cursor
        /\ at' \in {"get", "done"} /\ base' \subseteq Review
    BY <2>1, <2>2, AnswerWalks DEF writing
  <2>4. PagesTypeOK'
    BY <1>1, <2>1, <2>3 DEF PagesTypeOK, writing
  <2>5. QED
    BY <1>3, <1>4, <2>1, <2>3, <2>4 DEF writing
<1>8. CASE FindReviews
  <2>1. /\ UNCHANGED <<posts, time, visible, forgetting>>
        /\ UNCHANGED <<pages, limit, after, seen, base>>
        /\ at = "find" /\ at' = "set" /\ missed' = missed \cup (DOMAIN posts \ visible)
    BY <1>8 DEF FindReviews, writing
  <2>2. found' \in PageOf /\ Truthful(found, after)'
    BY <1>8, FoundTruthful
  <2>3. PagesTypeOK'
    BY <1>1, <1>2, <2>1, <2>2 DEF PagesTypeOK
  <2>4. Walked'
    BY <1>1, <2>1 DEF Walked, SameMoment
  <2>5. \A p, c : c \in Cursor /\ Truthful(p, c) => Truthful(p, c)'
    BY <2>1 DEF Truthful, Elements
  <2>6. PagesTruthful'
    BY <1>4, <2>1, <2>2, <2>5 DEF PagesTruthful
  <2>7. PostsInTime'
    BY <1>1, <2>1 DEF PostsInTime
  <2>8. QED
    BY <2>3, <2>4, <2>6, <2>7 DEF PagesInv
<1>9. CASE SetPage
  <2>1. /\ UNCHANGED <<writing, limit, missed>> /\ at = "set" /\ Answer(found)
        /\ pages' = [pages EXCEPT ![after] = found] /\ found' = NoPage
    BY <1>9 DEF SetPage
  <2>2. Truthful(found, after) /\ found \in PageOf
    BY <1>1, <2>1 DEF PagesTruthful, Truthful
  <2>3. /\ Walked' /\ seen' \in [Review -> Nat] /\ after' \in Cursor
        /\ at' \in {"get", "done"} /\ base' \subseteq Review
    BY <2>1, <2>2, AnswerWalks DEF writing
  <2>4. PagesTypeOK'
    BY <1>1, <2>1, <2>2, <2>3 DEF PagesTypeOK, writing
  <2>5. \A c \in Cursor : pages'[c] # NoPage => Truthful(pages'[c], c)
    BY <1>1, <1>4, <2>1, <2>2 DEF PagesTypeOK
  <2>6. QED
    BY <1>3, <2>1, <2>3, <2>4, <2>5 DEF writing
<1>10. CASE WalkAgain
  <2>1. /\ UNCHANGED <<writing, pages, limit, found, missed>> /\ at' = "get"
        /\ after' = NoCursor /\ base' = {} /\ seen' = [i \in Review |-> 0]
    BY <1>10 DEF WalkAgain
  <2>2. PagesTypeOK'
    BY <1>1, <2>1, PagesBoundAssumption DEF PagesTypeOK, writing, Cursor
  <2>3. Walked'
    BY <1>2, <2>1 DEF Walked, writing
  <2>4. QED
    BY <1>3, <1>4, <2>1, <2>2, <2>3 DEF writing
<1>11. CASE \E c \in Cursor : ExpirePage(c)
  <2>1. PICK c \in Cursor : ExpirePage(c)
    BY <1>11
  <2>2. /\ UNCHANGED <<writing, walk>>
        /\ pages' = [pages EXCEPT ![c] = NoPage]
    BY <2>1 DEF ExpirePage
  <2>3. PagesTypeOK'
    BY <1>1, <2>2 DEF PagesTypeOK, writing, walk
  <2>4. \A d \in Cursor : pages'[d] # NoPage => Truthful(pages'[d], d)
    BY <1>1, <1>4, <2>2 DEF PagesTypeOK
  <2>5. QED
    BY <1>1, <1>3, <1>5, <2>2, <2>3, <2>4 DEF writing, walk, PagesTruthful
<1>12. CASE ForgetFirstPage
  <2>1. /\ UNCHANGED <<posts, time, visible, walk>> /\ forgetting' \in Nat
        /\ pages' = IF limit = DefaultLimit
                    THEN [pages EXCEPT ![NoCursor] = NoPage] ELSE pages
    BY <1>1, <1>12 DEF ForgetFirstPage, PagesTypeOK
  <2>2. PagesTypeOK'
    BY <1>1, <2>1 DEF PagesTypeOK, walk
  <2>3. \A d \in Cursor : pages'[d] # NoPage => Truthful(pages'[d], d)
    BY <1>1, <1>4, <2>1 DEF PagesTypeOK
  <2>4. QED
    BY <1>1, <1>3, <1>5, <2>1, <2>2, <2>3 DEF walk, PagesTruthful
\* What is written or stored makes no page untrue.
<1>13. ASSUME UNCHANGED <<pages, walk>>, PagesTypeOK', PostsInTime',
              Len(posts) <= Len(posts'),
              \A i \in DOMAIN posts : posts'[i] = posts[i],
              \A i \in DOMAIN posts' \ DOMAIN posts : posts'[i] >= time,
              time <= time', visible \subseteq visible'
       PROVE  PagesInv'
  <2>1. /\ posts' \in Seq(0 .. MaxTime) /\ time' \in Nat /\ missed' = missed
        /\ DOMAIN posts' = 1 .. Len(posts') /\ Len(posts') \in Nat
    BY <1>13, PagesBoundAssumption DEF PagesTypeOK, walk
  <2>2. \A p, c : c \in Cursor /\ Truthful(p, c) => Truthful(p, c)'
    BY <1>1, <1>13, <2>1, TruthStays
  <2>3. PagesTruthful'
    BY <1>1, <1>13, <2>2 DEF PagesTruthful, PagesTypeOK, walk
  <2>4. /\ \A i \in visible : i \in DOMAIN posts /\ posts'[i] = posts[i]
        /\ \A i \in visible : SameMoment(i) => SameMoment(i)'
    BY <1>2, <1>13 DEF SameMoment
  <2>5. Walked'
    BY <1>1, <1>13, <2>4 DEF Walked, walk
  <2>6. QED
    BY <1>13, <2>3, <2>5 DEF PagesInv
<1>14. CASE WriteReview
  <2>1. /\ posts' = Append(posts, time) /\ Len(posts) < MaxReviews
        /\ UNCHANGED <<time, visible, forgetting, pages, walk>>
    BY <1>14 DEF WriteReview
  <2>2. /\ posts' \in Seq(0 .. MaxTime) /\ Len(posts') = Len(posts) + 1
        /\ DOMAIN posts' = 1 .. Len(posts) + 1
        /\ \A i \in DOMAIN posts : posts'[i] = posts[i]
        /\ posts'[Len(posts) + 1] = time
    BY <1>1, <1>2, <2>1 DEF PagesTypeOK
  <2>3. PagesTypeOK'
    BY <1>1, <1>2, <2>1, <2>2, PagesBoundAssumption DEF PagesTypeOK, walk
  <2>4. \A i \in DOMAIN posts' \ DOMAIN posts : i = Len(posts) + 1 /\ posts'[i] >= time
    BY <1>2, <2>2
  <2>5. PostsInTime'
    BY <1>1, <1>2, <2>1, <2>2, <2>4 DEF PostsInTime
  <2>6. QED
    BY <1>2, <1>13, <2>1, <2>2, <2>3, <2>4, <2>5
<1>15. CASE PassTime
  <2>1. /\ time < MaxTime /\ time' = time + 1
        /\ UNCHANGED <<posts, visible, forgetting, pages, walk>>
    BY <1>15 DEF PassTime
  <2>2. PagesTypeOK'
    BY <1>1, <1>2, <2>1, PagesBoundAssumption DEF PagesTypeOK, walk
  <2>3. PostsInTime'
    BY <1>1, <1>2, <2>1 DEF PostsInTime
  <2>4. QED
    BY <1>2, <1>13, <2>1, <2>2, <2>3
<1>16. CASE UNCHANGED pageVars
  <2>1. UNCHANGED <<writing, pages, walk>>
    BY <1>16 DEF pageVars
  <2>2. PagesTypeOK'
    BY <1>1, <2>1 DEF PagesTypeOK, writing, walk
  <2>3. QED
    BY <1>1, <1>3, <1>5, <2>1, <2>2 DEF writing, walk, PagesTruthful
<1>17. CASE \E i \in DOMAIN posts : ReviewStored(i)
  <2>1. PICK i \in DOMAIN posts : ReviewStored(i)
    BY <1>17
  <2>2. /\ visible' = visible \cup {i} /\ forgetting' = forgetting + 1
        /\ UNCHANGED <<posts, time, pages, walk>>
    BY <2>1 DEF ReviewStored
  <2>3. PagesTypeOK'
    BY <1>1, <2>2 DEF PagesTypeOK, walk
  <2>4. PostsInTime'
    BY <1>1, <2>2 DEF PostsInTime
  <2>5. QED
    BY <1>2, <1>13, <2>2, <2>3, <2>4
<1>18. QED
  BY <1>6, <1>7, <1>8, <1>9, <1>10, <1>11, <1>12, <1>14, <1>15, <1>16, <1>17 DEF PagesNext

LEMMA PagesInvariance == PagesSpec => []PagesInv
BY InitPages, NextPages, PTL DEF PagesSpec

\* What the walk, the cache and the clock of the reviews can hold.
THEOREM PagesTyped == PagesSpec => []PagesTypeOK
<1>1. PagesInv => PagesTypeOK
  BY DEF PagesInv
<1>2. QED
  BY <1>1, PagesInvariance, PTL

\* Whatever is written meanwhile and however old the pages are that the cache
\* answers with, a walk to the end has shown every review once that was there
\* when it began, but for those of one millisecond and those that were on their
\* way into the database when a page was read; and it has shown none twice.
THEOREM ReviewsAreShownOnce == PagesSpec => []ReviewsShownOnce
<1>1. PagesInv => ReviewsShownOnce
  BY DEF PagesInv, Walked, ReviewsShownOnce
<1>2. QED
  BY <1>1, PagesInvariance, PTL
=============================================================================
