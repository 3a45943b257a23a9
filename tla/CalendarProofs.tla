----------------------------- MODULE CalendarProofs -----------------------------
(***************************************************************************)
(* Theorems about the windows of all resolutions, for any years and any    *)
(* instant of them: the windows tile time, the database has the same ones, *)
(* and requests are widened to whole windows.                              *)
(***************************************************************************)
EXTENDS MCCalendar, SequenceTheorems, WellFoundedInduction, TLAPS

-------------------------------------------------------------------------------
(***************************************************************************)
(* Induction: a set of numbers that has 0 and, with each number, the next, *)
(* has them all, since a least one outside it would have a predecessor.    *)
(***************************************************************************)
LEMMA LeastNumber ==
    ASSUME NEW T \in SUBSET Nat, T # {}
    PROVE  \E n \in T : \A k \in T : ~(k < n)
<1>1. \E n \in T : \A k \in T : ~(<<k, n>> \in OpToRel(<, Nat))
  BY NatLessThanWellFounded, WFMin
<1> QED
  BY <1>1 DEF OpToRel

LEMMA Induction ==
    ASSUME NEW S, 0 \in S, \A n \in Nat : n \in S => n + 1 \in S
    PROVE  \A n \in Nat : n \in S
<1> DEFINE T == Nat \ S
<1> SUFFICES ASSUME T # {} PROVE FALSE
  OBVIOUS
<1>1. PICK n \in T : \A k \in T : ~(k < n)
  <2>1. T \in SUBSET Nat
    OBVIOUS
  <2> HIDE DEF T
  <2> QED
    BY <2>1, LeastNumber
<1>2. n - 1 \in Nat /\ n - 1 \in S
  BY <1>1
<1> QED
  BY <1>1, <1>2

-------------------------------------------------------------------------------
(***************************************************************************)
(* Truncate.                                                               *)
(***************************************************************************)
\* An instant, the window of a length that it is in, and the number of that window.
LEMMA TruncateType ==
    ASSUME NEW d \in Nat \ {0}, NEW t \in Int
    PROVE  /\ t \div d \in Int /\ t % d \in 0 .. d - 1
           /\ Truncate(t, d) \in Int /\ Truncate(t, d) = d * (t \div d)
           /\ Truncate(t, d) <= t /\ t < Truncate(t, d) + d
<1>1. t \div d \in Int /\ t % d \in 0 .. d - 1
  OBVIOUS
<1>2. t = d * (t \div d) + (t % d)
  OBVIOUS
<1>3. d * (t \div d) \in Int
  BY <1>1
<1> QED
  BY <1>1, <1>2, <1>3 DEF Truncate

\* The next multiple of a number is that number further.
LEMMA NextMultiple ==
    ASSUME NEW d \in Nat \ {0}, NEW j \in Int, NEW k \in Int, j < k
    PROVE  d * j + d <= d * k
OBVIOUS

\* The only multiple at most d before an instant.
LEMMA TruncateUnique ==
    ASSUME NEW d \in Nat \ {0}, NEW t \in Int, NEW k \in Int, d * k <= t, t < d * k + d
    PROVE  Truncate(t, d) = d * k
<1> DEFINE j == t \div d
<1>1. /\ j \in Int /\ d * j \in Int /\ d * k \in Int
      /\ Truncate(t, d) = d * j /\ d * j <= t /\ t < d * j + d
  <2>1. /\ j \in Int /\ Truncate(t, d) = d * j
        /\ Truncate(t, d) <= t /\ t < Truncate(t, d) + d
    BY TruncateType
  <2> HIDE DEF j
  <2> QED
    BY <2>1
<1> HIDE DEF j
<1>2. ~(j < k)
  BY <1>1, NextMultiple
<1>3. ~(k < j)
  BY <1>1, NextMultiple
<1> QED
  BY <1>1, <1>2, <1>3

\* Shifting by a multiple.
LEMMA TruncateShift ==
    ASSUME NEW d \in Nat \ {0}, NEW t \in Int, NEW k \in Int
    PROVE  Truncate(t + d * k, d) = Truncate(t, d) + d * k
<1> DEFINE j == t \div d
<1>1. /\ j \in Int /\ d * j \in Int /\ d * k \in Int
      /\ Truncate(t, d) = d * j /\ d * j <= t /\ t < d * j + d
  <2>1. /\ j \in Int /\ Truncate(t, d) = d * j
        /\ Truncate(t, d) <= t /\ t < Truncate(t, d) + d
    BY TruncateType
  <2> HIDE DEF j
  <2> QED
    BY <2>1
<1> HIDE DEF j
<1> DEFINE i == j + k
           u == t + d * k
<1>2. i \in Int /\ d * i = d * j + d * k /\ u \in Int
  BY <1>1
<1>3. d * i <= u /\ u < d * i + d
  BY <1>1, <1>2
<1> HIDE DEF i, u
<1>4. Truncate(u, d) = d * i
  BY <1>2, <1>3, TruncateUnique
<1> QED
  BY <1>1, <1>2, <1>4 DEF u

-------------------------------------------------------------------------------
(***************************************************************************)
(* Up to a day, windows start at the multiples of their length.            *)
(***************************************************************************)
\* StartMinute, which takes the minutes past n off and then the seconds, truncates.
LEMMA StartMinuteIsMultiple ==
    ASSUME NEW t \in Int, NEW n \in {1, 3, 5, 15, 30}
    PROVE  StartMinute(t, n) = Truncate(t, n * Minute)
<1>1. CASE n = 1
  BY <1>1 DEF StartMinute, Truncate, MinuteOf, Minute
<1>2. CASE n = 3
  BY <1>2 DEF StartMinute, Truncate, MinuteOf, Minute
<1>3. CASE n = 5
  BY <1>3 DEF StartMinute, Truncate, MinuteOf, Minute
<1>4. CASE n = 15
  BY <1>4 DEF StartMinute, Truncate, MinuteOf, Minute
<1>5. CASE n = 30
  BY <1>5 DEF StartMinute, Truncate, MinuteOf, Minute
<1> QED
  BY <1>1, <1>2, <1>3, <1>4, <1>5

\* So does StartHour, although it looks at the hour of the day only.
LEMMA StartHourIsMultiple ==
    ASSUME NEW t \in Int, NEW n \in {1, 2, 4, 6, 12, 24}
    PROVE  StartHour(t, n) = Truncate(t, n * Hour)
<1>1. CASE n = 1
  BY <1>1 DEF StartHour, Truncate, HourOf, Hour, Minute
<1>2. CASE n = 2
  BY <1>2 DEF StartHour, Truncate, HourOf, Hour, Minute
<1>3. CASE n = 4
  BY <1>3 DEF StartHour, Truncate, HourOf, Hour, Minute
<1>4. CASE n = 6
  BY <1>4 DEF StartHour, Truncate, HourOf, Hour, Minute
<1>5. CASE n = 12
  BY <1>5 DEF StartHour, Truncate, HourOf, Hour, Minute
<1>6. CASE n = 24
  BY <1>6 DEF StartHour, Truncate, HourOf, Hour, Minute
<1> QED
  BY <1>1, <1>2, <1>3, <1>4, <1>5, <1>6

\* The resolutions whose windows are all equally long, and how long.
EvenResolutions == MinuteResolutions \cup HourResolutions

Length(r) == IF r \in MinuteResolutions THEN MinutesIn(r) * Minute ELSE HoursIn(r) * Hour

\* How many minutes, or hours, the resolutions have.
LEMMA MinutesInValues ==
    ASSUME NEW r \in MinuteResolutions
    PROVE  MinutesIn(r) \in {1, 3, 5, 15, 30}
<1>1. CASE r = "1"
  BY <1>1 DEF MinutesIn
<1>2. CASE r = "3"
  BY <1>2 DEF MinutesIn
<1>3. CASE r = "5"
  BY <1>3 DEF MinutesIn
<1>4. CASE r = "15"
  BY <1>4 DEF MinutesIn
<1>5. CASE r = "30"
  BY <1>5 DEF MinutesIn
<1> QED
  BY <1>1, <1>2, <1>3, <1>4, <1>5 DEF MinuteResolutions

LEMMA HoursInValues ==
    ASSUME NEW r \in HourResolutions
    PROVE  /\ HoursIn(r) \in {1, 2, 4, 6, 12, 24}
           /\ r = "1D" => HoursIn(r) = 24
<1>1. CASE r \in {"60", "1H"}
  BY <1>1 DEF HoursIn
<1>2. CASE r \in {"120", "2H"}
  BY <1>2 DEF HoursIn
<1>3. CASE r \in {"240", "4H"}
  BY <1>3 DEF HoursIn
<1>4. CASE r \in {"360", "6H"}
  BY <1>4 DEF HoursIn
<1>5. CASE r \in {"720", "12H"}
  BY <1>5 DEF HoursIn
<1>6. CASE r = "1D"
  BY <1>6 DEF HoursIn
<1> QED
  BY <1>1, <1>2, <1>3, <1>4, <1>5, <1>6 DEF HourResolutions

\* Every resolution is even, a month or the week, and never two of them.
LEMMA KindsOfResolutions ==
    /\ \A r \in HourResolutions : r \notin MinuteResolutions
    /\ \A r \in MonthResolutions : r \notin EvenResolutions
    /\ "1W" \notin EvenResolutions /\ "1W" \notin MonthResolutions
    /\ AvailableResolutions = EvenResolutions \cup MonthResolutions \cup {"1W"}
    /\ "1D" \in HourResolutions /\ "30" \in MinuteResolutions
    /\ "1" \in MinuteResolutions /\ Length("1") = Minute
BY DEF MinuteResolutions, HourResolutions, MonthResolutions, EvenResolutions,
   AvailableResolutions, Length, MinutesIn, Minute

\* A day is a whole number of windows, so that windows start where days start.
LEMMA LengthType ==
    ASSUME NEW r \in EvenResolutions
    PROVE  Length(r) \in Nat \ {0} /\ \E k \in Nat : Day = Length(r) * k
<1>1. CASE r \in MinuteResolutions
  <2>1. Length(r) = MinutesIn(r) * 2 /\ MinutesIn(r) \in {1, 3, 5, 15, 30}
    BY <1>1, MinutesInValues DEF Length, Minute
  <2>2. PICK k \in {1440, 480, 288, 96, 48} : 2880 = (MinutesIn(r) * 2) * k
    <3>1. /\ 2880 = (1 * 2) * 1440 /\ 2880 = (3 * 2) * 480 /\ 2880 = (5 * 2) * 288
          /\ 2880 = (15 * 2) * 96 /\ 2880 = (30 * 2) * 48
      OBVIOUS
    <3> QED
      BY <2>1, <3>1
  <2>3. Day = Length(r) * k /\ k \in Nat
    BY <2>1, <2>2 DEF Day, Hour, Minute
  <2> QED
    BY <2>1, <2>3
<1>2. CASE r \in HourResolutions
  <2>1. Length(r) = HoursIn(r) * 120 /\ HoursIn(r) \in {1, 2, 4, 6, 12, 24}
    BY <1>2, HoursInValues, KindsOfResolutions DEF Length, Hour, Minute
  <2>2. PICK k \in {24, 12, 6, 4, 2, 1} : 2880 = (HoursIn(r) * 120) * k
    <3>1. /\ 2880 = (1 * 120) * 24 /\ 2880 = (2 * 120) * 12 /\ 2880 = (4 * 120) * 6
          /\ 2880 = (6 * 120) * 4 /\ 2880 = (12 * 120) * 2 /\ 2880 = (24 * 120) * 1
      OBVIOUS
    <3> QED
      BY <2>1, <3>1
  <2>3. Day = Length(r) * k /\ k \in Nat
    BY <2>1, <2>2 DEF Day, Hour, Minute
  <2> QED
    BY <2>1, <2>3
<1> QED
  BY <1>1, <1>2 DEF EvenResolutions

\* What ToDuration and GetResolutionStartTimestampByTime do for them.
LEMMA EvenWindows ==
    ASSUME NEW r \in EvenResolutions, NEW t \in Int
    PROVE  /\ Open(r, t) = Truncate(t, Length(r))
           /\ \A m, y : ToDuration(r, m, y) = Length(r)
<1>k. r \notin MonthResolutions /\ r # "1W"
  BY KindsOfResolutions
<1>1. CASE r \in MinuteResolutions
  <2>k. r \notin HourResolutions
    BY <1>1, KindsOfResolutions
  <2>1. MinutesIn(r) \in {1, 3, 5, 15, 30}
    BY <1>1, MinutesInValues
  <2>2. Open(r, t) = StartMinute(t, MinutesIn(r)) /\ Length(r) = MinutesIn(r) * Minute
    BY <1>1, <1>k, <2>k DEF Open, GetResolutionStartTimestampByTime, Length
  <2>3. \A m, y : ToDuration(r, m, y) = MinutesIn(r) * Minute
    BY <1>1, <1>k, <2>k DEF ToDuration
  <2> QED
    BY <2>1, <2>2, <2>3, StartMinuteIsMultiple
<1>2. CASE r \in HourResolutions
  <2>1. HoursIn(r) \in {1, 2, 4, 6, 12, 24} /\ r \notin MinuteResolutions
    BY <1>2, HoursInValues, KindsOfResolutions
  <2>2. Open(r, t) = StartHour(t, HoursIn(r)) /\ Length(r) = HoursIn(r) * Hour
    BY <1>2, <1>k, <2>1 DEF Open, GetResolutionStartTimestampByTime, Length
  <2>3. \A m, y : ToDuration(r, m, y) = HoursIn(r) * Hour
    BY <1>2, <1>k, <2>1 DEF ToDuration
  <2> QED
    BY <2>1, <2>2, <2>3, StartHourIsMultiple
<1> QED
  BY <1>1, <1>2 DEF EvenResolutions

\* The multiples of a length tile time.
LEMMA EvenTiles ==
    ASSUME NEW d \in Nat \ {0}, NEW t \in Int
    PROVE  LET open == Truncate(t, d)
               close == open + d - 1
           IN  /\ open <= t /\ t <= close /\ open \in Int /\ close \in Int
               /\ Truncate(open, d) = open
               /\ Truncate(close, d) = open
               /\ Truncate(close + 1, d) = close + 1
               /\ Truncate(open - 1, d) = open - d
<1> DEFINE k == t \div d
           open == d * k
           close == open + d - 1
<1>1. /\ Truncate(t, d) = open /\ k \in Int
      /\ Truncate(t, d) <= t /\ t < Truncate(t, d) + d
  BY TruncateType
<1> HIDE DEF k
<1>2. open \in Int /\ d * (k + 1) = open + d /\ d * (k - 1) = open - d
  BY <1>1
<1>3. Truncate(open, d) = open /\ Truncate(close, d) = open
  <2>1. open <= close /\ close < open + d /\ close \in Int
    BY <1>2
  <2>2. open = d * k /\ open < open + d
    BY <1>2
  <2>3. d * k <= close /\ close < d * k + d /\ d * k <= open /\ open < d * k + d
    BY <1>2, <2>1
  <2> HIDE DEF open, close
  <2>4. open \in Int /\ close \in Int /\ k \in Int
    BY <1>1, <1>2, <2>1
  <2>5. Truncate(open, d) = d * k
    BY ONLY <2>3, <2>4, TruncateUnique, d \in Nat \ {0}
  <2>6. Truncate(close, d) = d * k
    BY ONLY <2>3, <2>4, TruncateUnique, d \in Nat \ {0}
  <2> QED
    BY <2>2, <2>5, <2>6
<1>4. Truncate(close + 1, d) = close + 1
  <2> DEFINE i == k + 1
             u == close + 1
  <2>1. i \in Int /\ u \in Int /\ d * i <= u /\ u < d * i + d /\ u = d * i
    BY <1>1, <1>2
  <2> HIDE DEF i, u, close, open
  <2>2. Truncate(u, d) = d * i
    BY <2>1, TruncateUnique
  <2> QED
    BY <2>1, <2>2 DEF u
<1>5. Truncate(open - 1, d) = open - d
  <2> DEFINE i == k - 1
             u == open - 1
  <2>1. i \in Int /\ u \in Int /\ d * i <= u /\ u < d * i + d /\ open - d = d * i
    BY <1>1, <1>2
  <2> HIDE DEF i, u, close, open
  <2>2. Truncate(u, d) = d * i
    BY <2>1, TruncateUnique
  <2> QED
    BY <2>1, <2>2 DEF u
<1> QED
  BY <1>1, <1>2, <1>3, <1>4, <1>5

\* AggregateTimestamp puts the minute of an instant into the window of the instant.
LEMMA AggregateEven ==
    ASSUME NEW r \in EvenResolutions, NEW t \in Int
    PROVE  AggregateTimestamp(Open("1", t), r) = Open(r, t)
<1> DEFINE u == Open("1", t)
<1>1. u = Truncate(t, 2) /\ u = t - (t % 2) /\ u \in Int
  <2>1. "1" \in EvenResolutions /\ Length("1") = 2
    BY KindsOfResolutions DEF EvenResolutions, Minute
  <2>2. u = Truncate(t, 2)
    BY <2>1, EvenWindows
  <2> HIDE DEF u
  <2> QED
    BY <2>2 DEF Truncate
<1>k. r \notin MonthResolutions /\ r # "1W"
  BY KindsOfResolutions
<1> HIDE DEF u
<1>2. CASE r \in MinuteResolutions
  <2>k. r \notin HourResolutions
    BY <1>2, KindsOfResolutions
  <2>1. AggregateTimestamp(u, r) = AggregateMinutes(u, MinutesIn(r))
    BY <1>2, <1>k, <2>k DEF AggregateTimestamp
  <2>2. Open(r, t) = StartMinute(t, MinutesIn(r))
    BY <1>2, <1>k, <2>k DEF Open, GetResolutionStartTimestampByTime
  <2>3. \A n \in {1, 3, 5, 15, 30} : AggregateMinutes(u, n) = StartMinute(t, n)
    <3>1. AggregateMinutes(u, 1) = StartMinute(t, 1)
      BY <1>1 DEF AggregateMinutes, StartMinute, Truncate, MinuteOf, Minute
    <3>2. AggregateMinutes(u, 3) = StartMinute(t, 3)
      BY <1>1 DEF AggregateMinutes, StartMinute, Truncate, MinuteOf, Minute
    <3>3. AggregateMinutes(u, 5) = StartMinute(t, 5)
      BY <1>1 DEF AggregateMinutes, StartMinute, Truncate, MinuteOf, Minute
    <3>4. AggregateMinutes(u, 15) = StartMinute(t, 15)
      BY <1>1 DEF AggregateMinutes, StartMinute, Truncate, MinuteOf, Minute
    <3>5. AggregateMinutes(u, 30) = StartMinute(t, 30)
      BY <1>1 DEF AggregateMinutes, StartMinute, Truncate, MinuteOf, Minute
    <3> QED
      BY <3>1, <3>2, <3>3, <3>4, <3>5
  <2> QED
    BY <1>2, <2>1, <2>2, <2>3, MinutesInValues DEF u
<1>3. CASE r \in HourResolutions
  <2>k. r \notin MinuteResolutions
    BY <1>3, KindsOfResolutions
  <2>1. AggregateTimestamp(u, r) = AggregateHours(u, HoursIn(r))
    BY <1>3, <1>k, <2>k DEF AggregateTimestamp
  <2>2. Open(r, t) = StartHour(t, HoursIn(r))
    BY <1>3, <1>k, <2>k DEF Open, GetResolutionStartTimestampByTime
  <2>3. \A n \in {1, 2, 4, 6, 12, 24} : AggregateHours(u, n) = StartHour(t, n)
    <3>1. AggregateHours(u, 1) = StartHour(t, 1)
      BY <1>1 DEF AggregateHours, StartHour, Truncate, HourOf, Hour, Minute
    <3>2. AggregateHours(u, 2) = StartHour(t, 2)
      BY <1>1 DEF AggregateHours, StartHour, Truncate, HourOf, Hour, Minute
    <3>3. AggregateHours(u, 4) = StartHour(t, 4)
      BY <1>1 DEF AggregateHours, StartHour, Truncate, HourOf, Hour, Minute
    <3>4. AggregateHours(u, 6) = StartHour(t, 6)
      BY <1>1 DEF AggregateHours, StartHour, Truncate, HourOf, Hour, Minute
    <3>5. AggregateHours(u, 12) = StartHour(t, 12)
      BY <1>1 DEF AggregateHours, StartHour, Truncate, HourOf, Hour, Minute
    <3>6. AggregateHours(u, 24) = StartHour(t, 24)
      BY <1>1 DEF AggregateHours, StartHour, Truncate, HourOf, Hour, Minute
    <3> QED
      BY <3>1, <3>2, <3>3, <3>4, <3>5, <3>6
  <2> QED
    BY <1>3, <2>1, <2>2, <2>3, HoursInValues DEF u
<1> QED
  BY <1>2, <1>3 DEF EvenResolutions

\* The database, which counts from another day, has the same windows.
LEMMA DatabaseEven ==
    ASSUME NEW r \in EvenResolutions, NEW t \in Int
    PROVE  /\ DateTrunc(CandleQuery(r), t) = Open(r, t)
           /\ r \notin {"30", "1H"} => DateTrunc(GetResolution(r), t) = Open(r, t)
<1>1. PICK k \in Nat : Day = Length(r) * k
  BY LengthType
<1>2. Reference = Length(r) * (-366 * k)
  <2>1. Reference = Day * (-366)
    BY DEF Reference, YearStart, LeapDaysBefore
  <2> QED
    BY <1>1, <2>1, LengthType
<1>3. Reference + Truncate(t - Reference, Length(r)) = Open(r, t)
  <2> DEFINE j == 366 * k
  <2>1. j \in Int /\ -Reference = Length(r) * j /\ t - Reference = t + Length(r) * j
        /\ Reference \in Int
    BY <1>2, LengthType
  <2> HIDE DEF j
  <2>2. Truncate(t + Length(r) * j, Length(r)) = Truncate(t, Length(r)) + Length(r) * j
    BY <2>1, LengthType, TruncateShift
  <2>3. Truncate(t, Length(r)) \in Int
    BY LengthType, TruncateType
  <2> QED
    BY <2>1, <2>2, <2>3, EvenWindows
<1>k. r \notin MonthResolutions /\ r # "1W"
  BY KindsOfResolutions
<1>4. ASSUME NEW unit \in {"minute", "hour", "day"}, NEW n,
             Length(r) = n * (CASE unit = "minute" -> Minute [] unit = "hour" -> Hour
                                [] unit = "day" -> Day [] OTHER -> 0)
      PROVE  DateTrunc(<<unit, n>>, t) = Open(r, t)
  BY <1>3, <1>4 DEF DateTrunc
<1>5. CASE r \in MinuteResolutions
  <2>1. r \notin HourResolutions
    BY <1>5, KindsOfResolutions
  <2>2. CandleQuery(r) = <<"minute", MinutesIn(r)>>
    BY <1>5, <1>k, <2>1, KindsOfResolutions DEF CandleQuery
  <2>3. r # "30" => GetResolution(r) = <<"minute", MinutesIn(r)>>
    BY <1>5, <1>k, <2>1, KindsOfResolutions DEF GetResolution
  <2>4. Length(r) = MinutesIn(r) * Minute
    BY <1>5 DEF Length
  <2> QED
    BY <1>4, <2>2, <2>3, <2>4
<1>6. CASE r \in HourResolutions \ {"1D"}
  <2>1. r \notin MinuteResolutions
    BY <1>6, KindsOfResolutions
  <2>2. CandleQuery(r) = <<"hour", HoursIn(r)>>
    BY <1>6, <1>k, <2>1, KindsOfResolutions DEF CandleQuery
  <2>3. r # "1H" => GetResolution(r) = <<"hour", HoursIn(r)>>
    BY <1>6, <1>k, <2>1, KindsOfResolutions DEF GetResolution
  <2>4. Length(r) = HoursIn(r) * Hour
    BY <1>6, <2>1 DEF Length
  <2> QED
    BY <1>4, <2>2, <2>3, <2>4
<1>7. CASE r = "1D"
  <2>1. r \notin MinuteResolutions /\ r \in HourResolutions
    BY <1>7, KindsOfResolutions DEF HourResolutions
  <2>2. CandleQuery(r) = <<"day", 1>> /\ GetResolution(r) = <<"day", 1>>
    BY <1>7, <1>k, <2>1 DEF CandleQuery, GetResolution
  <2>4. Length(r) = 1 * Day
    BY <1>7, <2>1, HoursInValues DEF Length, Day, Hour, Minute
  <2> QED
    BY <1>4, <2>2, <2>4
<1> QED
  BY <1>5, <1>6, <1>7 DEF EvenResolutions

-------------------------------------------------------------------------------
(***************************************************************************)
(* Years.                                                                  *)
(***************************************************************************)
LeapDay(y) == IF IsLeap(y) THEN 1 ELSE 0

\* A year has 365 days, or 366.
LEMMA YearLength ==
    ASSUME NEW y \in Int
    PROVE  /\ YearStart(y) \in Int
           /\ YearStart(y + 1) = YearStart(y) + 365 + LeapDay(y)
<1> DEFINE fours(x) == (x - 1) \div 4
           hundreds(x) == (x - 1) \div 100
           periods(x) == (x - 1) \div 400
<1>1. fours(y + 1) = fours(y) + (IF y % 4 = 0 THEN 1 ELSE 0)
  OBVIOUS
<1>2. hundreds(y + 1) = hundreds(y) + (IF y % 100 = 0 THEN 1 ELSE 0)
  OBVIOUS
<1>3. periods(y + 1) = periods(y) + (IF y % 400 = 0 THEN 1 ELSE 0)
  OBVIOUS
<1>4. (y % 100 = 0 => y % 4 = 0) /\ (y % 400 = 0 => y % 100 = 0)
  OBVIOUS
<1>5. fours(y) \in Int /\ hundreds(y) \in Int /\ periods(y) \in Int
  OBVIOUS
<1>6. /\ YearStart(y) = 365 * (y - 2001) + fours(y) - hundreds(y) + periods(y)
                         - LeapDaysBefore(2001)
      /\ YearStart(y + 1) = 365 * (y - 2000) + fours(y + 1) - hundreds(y + 1) + periods(y + 1)
                         - LeapDaysBefore(2001)
  BY DEF YearStart, LeapDaysBefore
<1>7. LeapDaysBefore(2001) = 485
  BY DEF LeapDaysBefore
<1> HIDE DEF fours, hundreds, periods
<1> QED
  BY <1>1, <1>2, <1>3, <1>4, <1>5, <1>6, <1>7 DEF LeapDay, IsLeap

\* A year begins after the years before it end.
LEMMA YearsAscend ==
    ASSUME NEW x \in Int, NEW y \in Int, x < y
    PROVE  YearStart(x + 1) <= YearStart(y)
<1>1. PICK n \in Nat : y = x + 1 + n
  <2>1. y - x - 1 \in Nat /\ y = x + 1 + (y - x - 1)
    OBVIOUS
  <2> QED
    BY <2>1
<1> DEFINE S == {k \in Nat : YearStart(x + 1) <= YearStart(x + 1 + k)}
<1>2. 0 \in S
  BY YearLength
<1>3. \A k \in Nat : k \in S => k + 1 \in S
  <2> SUFFICES ASSUME NEW k \in S PROVE k + 1 \in S
    OBVIOUS
  <2>1. YearStart(x + 1 + k + 1) = YearStart(x + 1 + k) + 365 + LeapDay(x + 1 + k)
    BY YearLength
  <2>2. /\ x + 1 + k + 1 = x + 1 + (k + 1)
        /\ YearStart(x + 1) \in Int /\ YearStart(x + 1 + k) \in Int
    BY YearLength
  <2> QED
    BY <2>1, <2>2 DEF LeapDay
<1> HIDE DEF S
<1>4. n \in S
  BY <1>2, <1>3, Induction
<1> QED
  BY <1>1, <1>4 DEF S

\* The days of the years of the clock, and a margin.
Inside(d) == d \in Int /\ YearStart(FirstYear - 2) <= d /\ d < YearStart(LastYear + 2)

\* A day is of one year only.
LEMMA YearOfDayIs ==
    ASSUME NEW d \in Int, NEW y \in Years, YearStart(y) <= d, d < YearStart(y + 1)
    PROVE  YearOfDay(d) = y
<1>1. \A x \in Years : YearStart(x) <= d /\ d < YearStart(x + 1) => x = y
  <2> SUFFICES ASSUME NEW x \in Years, YearStart(x) <= d, d < YearStart(x + 1) PROVE x = y
    OBVIOUS
  <2>1. /\ x \in Int /\ y \in Int
        /\ YearStart(x) \in Int /\ YearStart(x + 1) \in Int
        /\ YearStart(y) \in Int /\ YearStart(y + 1) \in Int
    BY YearsAssumption, YearLength
  <2>2. ~(x < y)
    BY <2>1, YearsAscend
  <2>3. ~(y < x)
    BY <2>1, YearsAscend
  <2> QED
    BY <2>1, <2>2, <2>3
<1> QED
  BY <1>1 DEF YearOfDay

\* Every day inside is of a year.
LEMMA YearOfDayExists ==
    ASSUME NEW d, Inside(d)
    PROVE  /\ YearOfDay(d) \in Years
           /\ YearStart(YearOfDay(d)) <= d /\ d < YearStart(YearOfDay(d) + 1)
<1> DEFINE lo == FirstYear - 2
           S == {n \in Nat : d < YearStart(lo + n) =>
                       \E y \in lo .. lo + n - 1 : YearStart(y) <= d /\ d < YearStart(y + 1)}
<1>1. lo \in Int /\ d \in Int /\ YearStart(lo) <= d
  BY ClockAssumption DEF Inside
<1> HIDE DEF lo
<1>2. 0 \in S
  BY <1>1, YearLength
<1>3. \A n \in Nat : n \in S => n + 1 \in S
  <2> SUFFICES ASSUME NEW n \in S, d < YearStart(lo + (n + 1))
               PROVE  \E y \in lo .. lo + (n + 1) - 1 : YearStart(y) <= d /\ d < YearStart(y + 1)
    OBVIOUS
  <2>1. CASE d < YearStart(lo + n)
    BY <1>1, <2>1
  <2>2. CASE ~(d < YearStart(lo + n))
    <3>1. lo + n \in lo .. lo + (n + 1) - 1 /\ lo + n + 1 = lo + (n + 1)
      BY <1>1
    <3>2. YearStart(lo + n) <= d
      BY <1>1, <2>2, YearLength
    <3> QED
      BY <3>1, <3>2
  <2> QED
    BY <2>1, <2>2
<1> HIDE DEF S
<1>4. LastYear - FirstYear + 4 \in S
  BY <1>2, <1>3, Induction, ClockAssumption
<1>5. lo + (LastYear - FirstYear + 4) = LastYear + 2
  BY ClockAssumption DEF lo
<1>6. \E y \in lo .. LastYear + 1 : YearStart(y) <= d /\ d < YearStart(y + 1)
  BY <1>1, <1>4, <1>5, ClockAssumption DEF S, Inside
<1>7. Years = lo .. LastYear + 1
  BY ClockAssumption DEF SomeYears, lo
<1> QED
  BY <1>6, <1>7 DEF YearOfDay

-------------------------------------------------------------------------------
(***************************************************************************)
(* Months.                                                                 *)
(***************************************************************************)
\* The first days of the months, counted from that of the year.
LEMMA MonthStarts ==
    ASSUME NEW y \in Int
    PROVE  /\ MonthStart(y, 1) = YearStart(y)
           /\ MonthStart(y, 2) = YearStart(y) + 31
           /\ MonthStart(y, 3) = YearStart(y) + 59 + LeapDay(y)
           /\ MonthStart(y, 4) = YearStart(y) + 90 + LeapDay(y)
           /\ MonthStart(y, 5) = YearStart(y) + 120 + LeapDay(y)
           /\ MonthStart(y, 6) = YearStart(y) + 151 + LeapDay(y)
           /\ MonthStart(y, 7) = YearStart(y) + 181 + LeapDay(y)
           /\ MonthStart(y, 8) = YearStart(y) + 212 + LeapDay(y)
           /\ MonthStart(y, 9) = YearStart(y) + 243 + LeapDay(y)
           /\ MonthStart(y, 10) = YearStart(y) + 273 + LeapDay(y)
           /\ MonthStart(y, 11) = YearStart(y) + 304 + LeapDay(y)
           /\ MonthStart(y, 12) = YearStart(y) + 334 + LeapDay(y)
           /\ MonthStart(y, 13) = YearStart(y) + 365 + LeapDay(y)
<1>1. YearStart(y) \in Int
  BY YearLength
<1>2. MonthStart(y, 13) = YearStart(y) + 365 + LeapDay(y)
  BY YearLength DEF MonthStart
<1>3. LeapDay(y) \in Int
  BY DEF LeapDay
<1> QED
  BY <1>1, <1>2, <1>3 DEF MonthStart, LeapDay

\* How many days a month has.
MonthLength(m, y) ==
    IF m \in {1, 3, 5, 7, 8, 10, 12} THEN 31
    ELSE IF m = 2 THEN 28 + LeapDay(y) ELSE 30

\* From the first of a month to the first of the next one.
LEMMA MonthLengths ==
    ASSUME NEW y \in Int, NEW m \in 1 .. 12
    PROVE  /\ MonthStart(y, m) \in Int /\ MonthStart(y, m + 1) \in Int
           /\ MonthStart(y, m + 1) = MonthStart(y, m) + MonthLength(m, y)
           /\ MonthLength(m, y) \in Int
           /\ MonthStart(y, m) < MonthStart(y, m + 1)
           /\ YearStart(y) <= MonthStart(y, m) /\ MonthStart(y, m + 1) <= YearStart(y + 1)
<1>1. YearStart(y) \in Int /\ LeapDay(y) \in 0 .. 1
      /\ YearStart(y + 1) = YearStart(y) + 365 + LeapDay(y)
  BY YearLength DEF LeapDay
<1>2. m \in {1, 2, 3, 4, 5, 6, 7, 8, 9, 10, 11, 12}
  OBVIOUS
<1>3. MonthLength(m, y) \in Int /\ MonthLength(m, y) > 0
  BY <1>1 DEF MonthLength
<1>4. CASE m \in {1, 2, 3, 4}
  BY <1>1, <1>4, MonthStarts DEF MonthLength
<1>5. CASE m \in {5, 6, 7, 8}
  BY <1>1, <1>5, MonthStarts DEF MonthLength
<1>6. CASE m \in {9, 10, 11, 12}
  BY <1>1, <1>6, MonthStarts DEF MonthLength
<1> QED
  BY <1>2, <1>3, <1>4, <1>5, <1>6

\* A month begins after the months before it end.
LEMMA MonthsAscend ==
    ASSUME NEW y \in Int, NEW m \in 1 .. 12, NEW n \in 1 .. 12, m < n
    PROVE  MonthStart(y, m + 1) <= MonthStart(y, n)
<1>1. YearStart(y) \in Int /\ LeapDay(y) \in 0 .. 1
  BY YearLength DEF LeapDay
<1>2. m \in {1, 2, 3, 4, 5, 6, 7, 8, 9, 10, 11} /\ n \in {2, 3, 4, 5, 6, 7, 8, 9, 10, 11, 12}
  OBVIOUS
<1> DEFINE f == [i \in 1 .. 13 |-> MonthStart(y, i) - YearStart(y)]
<1>3. \A i \in 1 .. 11 : \A j \in 1 .. 12 : i < j => f[i + 1] <= f[j]
  <2>1. /\ f[1] = 0 /\ f[2] = 31 /\ f[3] = 59 + LeapDay(y) /\ f[4] = 90 + LeapDay(y)
        /\ f[5] = 120 + LeapDay(y) /\ f[6] = 151 + LeapDay(y) /\ f[7] = 181 + LeapDay(y)
        /\ f[8] = 212 + LeapDay(y) /\ f[9] = 243 + LeapDay(y) /\ f[10] = 273 + LeapDay(y)
        /\ f[11] = 304 + LeapDay(y) /\ f[12] = 334 + LeapDay(y)
    BY <1>1, MonthStarts
  <2> HIDE DEF f
  <2> SUFFICES ASSUME NEW i \in 1 .. 11, NEW j \in 1 .. 12, i < j PROVE f[i + 1] <= f[j]
    OBVIOUS
  <2>2. i \in {1, 2, 3, 4, 5, 6, 7, 8, 9, 10, 11}
    OBVIOUS
  <2>3. j \in {1, 2, 3, 4, 5, 6, 7, 8, 9, 10, 11, 12}
    OBVIOUS
  <2> QED
    BY <1>1, <2>1, <2>2, <2>3
<1>4. MonthStart(y, m + 1) \in Int /\ MonthStart(y, n) \in Int
  BY MonthLengths
<1>5. m \in 1 .. 11
  BY <1>2
<1>6. f[m + 1] <= f[n]
  <2> HIDE DEF f
  <2> QED
    BY <1>3, <1>5
<1>7. f[m + 1] = MonthStart(y, m + 1) - YearStart(y) /\ f[n] = MonthStart(y, n) - YearStart(y)
  OBVIOUS
<1> HIDE DEF f
<1> QED
  BY <1>1, <1>4, <1>6, <1>7

\* An instant of a month.
LEMMA MonthAt ==
    ASSUME NEW y \in Years, NEW m \in 1 .. 12, NEW t \in Int,
           Day * MonthStart(y, m) <= t, t < Day * MonthStart(y, m + 1)
    PROVE  YearOf(t) = y /\ MonthOf(t) = m
<1>1. y \in Int
  BY YearsAssumption
<1>2. /\ MonthStart(y, m) \in Int /\ MonthStart(y, m + 1) \in Int
      /\ YearStart(y) \in Int /\ YearStart(y + 1) \in Int
      /\ YearStart(y) <= MonthStart(y, m) /\ MonthStart(y, m + 1) <= YearStart(y + 1)
  <2>1. YearStart(y) \in Int /\ YearStart(y + 1) \in Int
    BY <1>1, YearLength
  <2> QED
    BY <1>1, <2>1, MonthLengths
<1>3. DayOf(t) \in Int /\ MonthStart(y, m) <= DayOf(t) /\ DayOf(t) < MonthStart(y, m + 1)
  BY <1>2 DEF DayOf, Day, Hour, Minute
<1>4. YearOf(t) = y
  BY <1>2, <1>3, YearOfDayIs DEF YearOf
<1>5. \A n \in 1 .. 12 :
          MonthStart(y, n) <= DayOf(t) /\ DayOf(t) < MonthStart(y, n + 1) => n = m
  <2> SUFFICES ASSUME NEW n \in 1 .. 12,
                      MonthStart(y, n) <= DayOf(t), DayOf(t) < MonthStart(y, n + 1)
               PROVE  n = m
    OBVIOUS
  <2>1. MonthStart(y, n) \in Int /\ MonthStart(y, n + 1) \in Int
    BY <1>1, MonthLengths
  <2>2. ~(m < n)
    BY <1>1, <1>2, <1>3, <2>1, MonthsAscend
  <2>3. ~(n < m)
    BY <1>1, <1>2, <1>3, <2>1, MonthsAscend
  <2> QED
    BY <2>2, <2>3
<1> QED
  BY <1>3, <1>4, <1>5 DEF MonthOf

\* Every instant inside is of a month.
LEMMA MonthExists ==
    ASSUME NEW t \in Int, Inside(DayOf(t))
    PROVE  /\ YearOf(t) \in Years /\ MonthOf(t) \in 1 .. 12
           /\ Day * MonthStart(YearOf(t), MonthOf(t)) <= t
           /\ t < Day * MonthStart(YearOf(t), MonthOf(t) + 1)
<1> DEFINE y == YearOf(t)
           d == DayOf(t)
<1>1. y \in Years /\ YearStart(y) <= d /\ d < YearStart(y + 1)
  BY YearOfDayExists DEF YearOf
<1>2. y \in Int /\ d \in Int
  BY <1>1, YearsAssumption DEF Inside
<1>3. \E n \in 1 .. 12 : MonthStart(y, n) <= d /\ d < MonthStart(y, n + 1)
  <2> HIDE DEF y, d
  <2>1. YearStart(y) \in Int /\ LeapDay(y) \in 0 .. 1
        /\ YearStart(y + 1) = YearStart(y) + 365 + LeapDay(y)
    BY <1>2, YearLength DEF LeapDay
  <2>2. SUFFICES ASSUME \A n \in 1 .. 12 : ~(MonthStart(y, n) <= d /\ d < MonthStart(y, n + 1))
                 PROVE  FALSE
    OBVIOUS
  <2>3. /\ ~(MonthStart(y, 1) <= d /\ d < MonthStart(y, 2))
        /\ ~(MonthStart(y, 2) <= d /\ d < MonthStart(y, 3))
        /\ ~(MonthStart(y, 3) <= d /\ d < MonthStart(y, 4))
        /\ ~(MonthStart(y, 4) <= d /\ d < MonthStart(y, 5))
        /\ ~(MonthStart(y, 5) <= d /\ d < MonthStart(y, 6))
        /\ ~(MonthStart(y, 6) <= d /\ d < MonthStart(y, 7))
        /\ ~(MonthStart(y, 7) <= d /\ d < MonthStart(y, 8))
        /\ ~(MonthStart(y, 8) <= d /\ d < MonthStart(y, 9))
        /\ ~(MonthStart(y, 9) <= d /\ d < MonthStart(y, 10))
        /\ ~(MonthStart(y, 10) <= d /\ d < MonthStart(y, 11))
        /\ ~(MonthStart(y, 11) <= d /\ d < MonthStart(y, 12))
        /\ ~(MonthStart(y, 12) <= d /\ d < MonthStart(y, 13))
    BY <2>2
  <2> QED
    BY <1>1, <1>2, <2>1, <2>3, MonthStarts
<1>4. /\ MonthOf(t) \in 1 .. 12
      /\ MonthStart(y, MonthOf(t)) <= d /\ d < MonthStart(y, MonthOf(t) + 1)
  BY <1>3 DEF MonthOf
<1> DEFINE m == MonthOf(t)
<1>5. MonthStart(y, m) \in Int /\ MonthStart(y, m + 1) \in Int
  BY <1>2, <1>4, MonthLengths
<1> HIDE DEF y, m
<1>6. Day * MonthStart(y, m) <= t /\ t < Day * MonthStart(y, m + 1)
  BY <1>4, <1>5 DEF m, DayOf, Day, Hour, Minute
<1> QED
  BY <1>1, <1>4, <1>6 DEF y, m

\* The windows of months.
LEMMA MonthWindows ==
    ASSUME NEW r \in MonthResolutions, NEW t \in Int
    PROVE  /\ Open(r, t) = Day * MonthStart(YearOf(t), MonthOf(t))
           /\ AggregateTimestamp(t, r) = Open(r, t)
           /\ DateTrunc(CandleQuery(r), t) = Open(r, t)
           /\ DateTrunc(GetResolution(r), t) = Open(r, t)
           /\ \A m, y : ToDuration(r, m, y) = MonthDuration(m, y)
           /\ \A to : TruncateInterval(t, to, r) =
                  <<Open(r, t), Day * MonthStart(YearOf(to), MonthOf(to) + 1) - 1>>
<1>1. r \notin MinuteResolutions /\ r \notin HourResolutions /\ r # "1W" /\ r # "30" /\ r # "1D"
  BY KindsOfResolutions DEF EvenResolutions
<1>2. Open(r, t) = StartMonth(t)
  BY <1>1 DEF Open, GetResolutionStartTimestampByTime
<1>3. AggregateTimestamp(t, r) = AggregateMonth(t)
  BY <1>1 DEF AggregateTimestamp
<1>4. CandleQuery(r) = <<"month", 1>> /\ GetResolution(r) = <<"month", 1>>
  BY <1>1 DEF CandleQuery, GetResolution
<1>5. DateTrunc(<<"month", 1>>, t) = StartMonth(t)
  BY DEF DateTrunc
<1>6. \A m, y : ToDuration(r, m, y) = MonthDuration(m, y)
  BY <1>1 DEF ToDuration
<1>7. \A to : TruncateInterval(t, to, r) =
                  <<StartMonth(t), Day * MonthStart(YearOf(to), MonthOf(to) + 1) - 1>>
  BY DEF TruncateInterval, StartMonth
<1> QED
  BY <1>2, <1>3, <1>4, <1>5, <1>6, <1>7 DEF StartMonth, AggregateMonth

\* ToDuration is right about months where every fourth year is a leap year.
LEMMA MonthDurationIs ==
    ASSUME NEW y \in Years, NEW m \in 1 .. 12, EveryFourthIsLeap
    PROVE  MonthDuration(m, y) = Day * MonthLength(m, y)
<1>1. y \in Int
  BY YearsAssumption
<1>2. y % 4 = 0 <=> IsLeap(y)
  BY DEF EveryFourthIsLeap, IsLeap
<1>3. CASE m \in {1, 3, 5, 7, 8, 10, 12}
  BY <1>3 DEF MonthDuration, MonthLength
<1>4. CASE m = 2
  BY <1>2, <1>4 DEF MonthDuration, MonthLength, LeapDay
<1>5. CASE m \notin {1, 3, 5, 7, 8, 10, 12} /\ m # 2
  BY <1>5 DEF MonthDuration, MonthLength
<1> QED
  BY <1>3, <1>4, <1>5

\* The first instants of a month and of the next one.
LEMMA MonthBounds ==
    ASSUME NEW t \in Int, Inside(DayOf(t))
    PROVE  LET y == YearOf(t)
               m == MonthOf(t)
               open == Day * MonthStart(y, m)
               next == Day * MonthStart(y, m + 1)
           IN  /\ open \in Int /\ next \in Int /\ open <= t /\ t < next
               /\ YearOf(open) = y /\ MonthOf(open) = m
               /\ YearOf(next - 1) = y /\ MonthOf(next - 1) = m
               /\ next = open + Day * MonthLength(m, y)
               /\ Inside(DayOf(next)) =>
                      Day * MonthStart(YearOf(next), MonthOf(next)) = next
<1> DEFINE y == YearOf(t)
           m == MonthOf(t)
           open == Day * MonthStart(y, m)
           next == Day * MonthStart(y, m + 1)
<1>1. y \in Years /\ m \in 1 .. 12 /\ open <= t /\ t < next
  BY MonthExists
<1>2. y \in Int
  BY <1>1, YearsAssumption
<1> HIDE DEF y, m
<1>3. /\ MonthStart(y, m) \in Int /\ MonthStart(y, m + 1) \in Int
      /\ MonthStart(y, m + 1) = MonthStart(y, m) + MonthLength(m, y)
      /\ MonthLength(m, y) \in Int
  BY <1>1, <1>2, MonthLengths
<1>4. open \in Int /\ next \in Int /\ open < next /\ next = open + Day * MonthLength(m, y)
  BY <1>1, <1>3 DEF Day, Hour, Minute
<1>5. YearOf(open) = y /\ MonthOf(open) = m
  BY <1>1, <1>4, MonthAt
<1>6. YearOf(next - 1) = y /\ MonthOf(next - 1) = m
  <2> DEFINE u == next - 1
  <2>1. u \in Int /\ open <= u /\ u < next
    BY <1>4
  <2> HIDE DEF u
  <2>2. YearOf(u) = y /\ MonthOf(u) = m
    BY <1>1, <2>1, MonthAt
  <2> QED
    BY <2>2 DEF u
<1>7. ASSUME Inside(DayOf(next))
      PROVE  Day * MonthStart(YearOf(next), MonthOf(next)) = next
  <2> DEFINE x == YearOf(next)
             n == MonthOf(next)
  <2>1. x \in Years /\ n \in 1 .. 12 /\ Day * MonthStart(x, n) <= next
        /\ next < Day * MonthStart(x, n + 1)
    BY <1>4, <1>7, MonthExists
  <2>2. x \in Int
    BY <2>1, YearsAssumption
  <2> HIDE DEF x, n
  <2>3. DayOf(next) = MonthStart(y, m + 1)
    BY <1>3 DEF DayOf, Day, Hour, Minute
  <2>4. /\ MonthStart(x, n) \in Int /\ MonthStart(x, n + 1) \in Int
        /\ YearStart(x) <= MonthStart(x, n) /\ MonthStart(x, n + 1) <= YearStart(x + 1)
        /\ YearStart(x) \in Int /\ YearStart(x + 1) \in Int
    <3>1. YearStart(x) \in Int /\ YearStart(x + 1) \in Int
      BY <2>2, YearLength
    <3> QED
      BY <2>1, <2>2, <3>1, MonthLengths
  <2>5. MonthStart(x, n) <= MonthStart(y, m + 1) /\ MonthStart(y, m + 1) < MonthStart(x, n + 1)
    BY <1>3, <2>1, <2>4 DEF Day, Hour, Minute
  <2>6. CASE m < 12
    <3> DEFINE k == m + 1
    <3>1. k \in 1 .. 12
      BY <1>1, <2>6
    <3> HIDE DEF k
    <3>2. MonthStart(y, k + 1) \in Int /\ MonthStart(y, k) < MonthStart(y, k + 1)
          /\ MonthStart(y, k) \in Int
      BY <1>2, <3>1, MonthLengths
    <3>3. Day * MonthStart(y, k) <= next /\ next < Day * MonthStart(y, k + 1)
      BY <3>2 DEF k, Day, Hour, Minute
    <3>4. x = y /\ n = k
      BY <1>1, <1>4, <3>1, <3>3, MonthAt DEF x, n
    <3> QED
      BY <3>4 DEF x, n, k
  <2>7. CASE m = 12
    <3>1. MonthStart(y, m + 1) = YearStart(y + 1) /\ y + 1 \in Int
      BY <1>2, <2>7 DEF MonthStart
    <3>2. MonthStart(y + 1, 1) = YearStart(y + 1) /\ YearStart(y + 1) \in Int
      BY <3>1, MonthStarts, YearLength
    <3>3. ~(x < y + 1)
      BY <2>2, <2>4, <2>5, <3>1, <3>2, YearsAscend
    <3>4. ~(y + 1 < x)
      <4>1. YearStart(y + 2) > YearStart(y + 1) /\ YearStart(y + 2) \in Int
        <5>1. y + 2 = (y + 1) + 1
          BY <1>2
        <5>2. LeapDay(y + 1) \in 0 .. 1
          BY DEF LeapDay
        <5> QED
          BY <3>1, <3>2, <5>1, <5>2, YearLength
      <4>2. y + 1 < x => YearStart((y + 1) + 1) <= YearStart(x)
        BY <2>2, <3>1, YearsAscend
      <4>3. (y + 1) + 1 = y + 2
        BY <1>2
      <4> QED
        BY <2>4, <2>5, <3>1, <3>2, <4>1, <4>2, <4>3
    <3>5. x = y + 1
      BY <1>2, <2>2, <3>3, <3>4
    <3>6. n = 1
      <4>1. MonthStart(x, 1 + 1) \in Int /\ MonthStart(x, 1) < MonthStart(x, 1 + 1)
            /\ MonthStart(x, 1) \in Int
        <5>1. YearStart(x) \in Int
          BY <2>2, YearLength
        <5>2. MonthStart(x, 1) = YearStart(x) /\ MonthStart(x, 2) = YearStart(x) + 31
          BY <2>2, MonthStarts
        <5>3. 1 + 1 = 2
          OBVIOUS
        <5> QED
          BY <5>1, <5>2, <5>3
      <4>2. Day * MonthStart(x, 1) <= next /\ next < Day * MonthStart(x, 1 + 1)
        BY <3>1, <3>2, <3>5, <4>1 DEF Day, Hour, Minute
      <4> QED
        BY <1>4, <2>1, <4>2, MonthAt DEF n
    <3> QED
      BY <3>1, <3>2, <3>5, <3>6 DEF x, n
  <2> QED
    BY <1>1, <2>6, <2>7
<1> HIDE DEF open, next
<1> QED
  BY <1>1, <1>4, <1>5, <1>6, <1>7 DEF y, m, open, next

-------------------------------------------------------------------------------
(***************************************************************************)
(* Weeks: however firstDayOfISOWeek searches, the windows are those of     *)
(* seven days from Monday.                                                 *)
(***************************************************************************)
Monday(d) == d - Weekday(d)

\* The Monday of a day is the last multiple of seven; Mondays ascend with the days.
LEMMA Mondays ==
    ASSUME NEW d \in Int
    PROVE  /\ Monday(d) \in Int /\ Monday(d) <= d /\ d < Monday(d) + 7
           /\ Monday(d) = 7 * (d \div 7)
           /\ \A e \in Int : e <= d => Monday(e) <= Monday(d)
           /\ \A e \in Int : e < Monday(d) => Monday(e) <= Monday(d) - 7
           /\ \A e \in Int : Monday(d) <= e => Monday(d) <= Monday(e)
           /\ Monday(Monday(d)) = Monday(d)
BY DEF Monday, Weekday

\* The ISO week of a day whose Thursday is in the year y.
LEMMA ISOWeekIs ==
    ASSUME NEW d \in Int, NEW y \in Years,
           YearStart(y) <= Monday(d) + 3, Monday(d) + 3 < YearStart(y + 1)
    PROVE  ISOWeek(d) = [year |-> y, week |-> (Monday(d) + 3 - YearStart(y)) \div 7 + 1]
<1>1. Monday(d) + 3 \in Int
  BY Mondays
<1>2. YearOfDay(Monday(d) + 3) = y
  BY <1>1, YearOfDayIs
<1> DEFINE thursday == d - Weekday(d) + 3
<1>3. ISOWeek(d) = [year |-> YearOfDay(thursday),
                    week |-> (thursday - YearStart(YearOfDay(thursday))) \div 7 + 1]
  BY Zenon DEF ISOWeek
<1>4. thursday = Monday(d) + 3
  BY DEF Monday
<1> HIDE DEF thursday
<1>5. YearOfDay(thursday) = y
  BY <1>2, <1>4
<1>6. ISOWeek(d) = [year |-> y, week |-> (thursday - YearStart(y)) \div 7 + 1]
  BY <1>3, <1>5
<1>7. (thursday - YearStart(y)) \div 7 + 1 = (Monday(d) + 3 - YearStart(y)) \div 7 + 1
  <2>1. YearStart(y) \in Int /\ Monday(d) \in Int
    BY YearsAssumption, YearLength, Mondays
  <2> QED
    BY <1>4, <2>1
<1> QED
  BY <1>6, <1>7

\* The loop that looks for the first day of the year stops at the Monday of the week
\* with its first Thursday.
FirstMonday(y) == Monday(YearStart(y) + 3)

FirstDayOfYear(day, y) == FirstFrom(day, LAMBDA d : ISOWeek(d).year >= y)
FirstDayOfWeek(day, week) == FirstFrom(day, LAMBDA d : ISOWeek(d).week >= week)

LEMMA FirstLoop ==
    ASSUME NEW y \in Years, y - 1 \in Years, NEW monday,
           monday = Monday(MonthStart(y - 1, 12) - 1)
    PROVE  FirstDayOfYear(monday, y) = FirstMonday(y)
<1> DEFINE s == YearStart(y)
           first == FirstMonday(y)
<1>1. y \in Int /\ y - 1 \in Int
  BY YearsAssumption
<1>2. s \in Int /\ YearStart(y - 1) \in Int /\ s = YearStart(y - 1) + 365 + LeapDay(y - 1)
      /\ LeapDay(y - 1) \in 0 .. 1 /\ YearStart(y + 1) \in Int /\ s + 365 <= YearStart(y + 1)
  <2>1. (y - 1) + 1 = y
    BY <1>1
  <2>2. YearStart(y) = YearStart(y - 1) + 365 + LeapDay(y - 1) /\ YearStart(y - 1) \in Int
    BY <1>1, <2>1, YearLength
  <2>3. YearStart(y) \in Int /\ YearStart(y + 1) = YearStart(y) + 365 + LeapDay(y)
    BY <1>1, YearLength
  <2> QED
    BY <2>2, <2>3 DEF LeapDay
<1>3. MonthStart(y - 1, 12) = s - 31
  BY <1>1, <1>2, MonthStarts
<1>4. monday = Monday(s - 32)
  BY <1>2, <1>3
<1> HIDE DEF s
<1>5. /\ monday \in Int /\ first \in Int /\ monday < first /\ first <= monday + 53 * 7
      /\ s <= first + 3 /\ first + 3 < s + 7 /\ first - 4 < s /\ s - 38 <= monday
      /\ Monday(first) = first
  <2>1. first = Monday(s + 3)
    BY DEF FirstMonday, s
  <2>2. s + 3 \in Int /\ s - 32 \in Int
    BY <1>2
  <2>3. first \in Int /\ first <= s + 3 /\ s + 3 < first + 7 /\ Monday(first) = first
    BY <2>1, <2>2, Mondays
  <2>4. monday \in Int /\ monday <= s - 32 /\ s - 32 < monday + 7
    BY <1>4, <2>2, Mondays
  <2> QED
    BY <1>2, <2>3, <2>4
<1>6. \A d \in Int : monday <= d /\ d < first => ISOWeek(d).year = y - 1
  <2> SUFFICES ASSUME NEW d \in Int, monday <= d, d < first PROVE ISOWeek(d).year = y - 1
    OBVIOUS
  <2>1. Monday(d) \in Int /\ d < Monday(d) + 7 /\ Monday(d) <= first - 7
    BY <1>5, Mondays
  <2>2. YearStart(y - 1) <= Monday(d) + 3 /\ Monday(d) + 3 < YearStart((y - 1) + 1)
    BY <1>1, <1>2, <1>5, <2>1 DEF s
  <2> QED
    BY <2>2, ISOWeekIs
<1>7. ISOWeek(first).year = y
  <2>1. YearStart(y) <= Monday(first) + 3 /\ Monday(first) + 3 < YearStart(y + 1)
    BY <1>2, <1>5 DEF s
  <2> QED
    BY <1>5, <2>1, ISOWeekIs
<1>8. \A d \in monday .. monday + 53 * 7 :
          (ISOWeek(d).year >= y /\ \A e \in monday .. d - 1 : ~(ISOWeek(e).year >= y))
              <=> d = first
  <2> SUFFICES ASSUME NEW d \in monday .. monday + 53 * 7
               PROVE  (ISOWeek(d).year >= y
                           /\ \A e \in monday .. d - 1 : ~(ISOWeek(e).year >= y))
                      <=> d = first
    OBVIOUS
  <2>1. CASE d < first
    BY <1>1, <1>5, <1>6, <2>1
  <2>2. CASE d > first
    <3>1. first \in monday .. d - 1
      BY <1>5, <2>2
    <3> QED
      BY <1>1, <1>7, <2>2, <3>1
  <2>3. CASE d = first
    <3>1. \A e \in monday .. d - 1 : ISOWeek(e).year = y - 1
      BY <1>5, <1>6, <2>3
    <3> QED
      BY <1>1, <1>7, <2>3, <3>1
  <2> QED
    BY <1>5, <2>1, <2>2, <2>3
<1>9. first \in monday .. monday + 53 * 7
  BY <1>5
<1> HIDE DEF first
<1> QED
  BY <1>8, <1>9 DEF FirstDayOfYear, FirstFrom, first

\* The loop that looks for the first day of the week stops at its Monday.
LEMMA SecondLoop ==
    ASSUME NEW d \in Int, NEW y \in Years,
           NEW week, week = (Monday(d) + 3 - YearStart(y)) \div 7 + 1,
           YearStart(y) <= Monday(d) + 3, Monday(d) + 3 < YearStart(y + 1)
    PROVE  FirstDayOfWeek(FirstMonday(y), week) = Monday(d)
<1> DEFINE s == YearStart(y)
           first == FirstMonday(y)
           last == Monday(d)
<1>1. y \in Int
  BY YearsAssumption
<1>2. s \in Int /\ YearStart(y + 1) \in Int /\ YearStart(y + 1) <= s + 366
  <2>1. YearStart(y) \in Int /\ YearStart(y + 1) = YearStart(y) + 365 + LeapDay(y)
    BY <1>1, YearLength
  <2> QED
    BY <2>1 DEF LeapDay
<1>3. last \in Int /\ last = 7 * (d \div 7) /\ Monday(last) = last
  BY Mondays
<1>4. s <= last + 3 /\ last + 3 < YearStart(y + 1)
  OBVIOUS
<1>5. first = Monday(s + 3)
  BY DEF FirstMonday
<1> HIDE DEF s, last, first
<1>6. /\ first \in Int /\ first <= last /\ last <= first + 53 * 7 /\ s <= first + 3
      /\ first + 3 < s + 7
  BY <1>2, <1>3, <1>4, <1>5 DEF Monday, Weekday
<1>7. ISOWeek(last).week = week /\ week \in Int
  <2>1. ISOWeek(last) = [year |-> y, week |-> (Monday(last) + 3 - YearStart(y)) \div 7 + 1]
    BY <1>3, <1>4, ISOWeekIs DEF s
  <2> QED
    BY <1>2, <1>3, <2>1 DEF last, s
<1>8. \A e \in Int : first <= e /\ e < last => ISOWeek(e).week < week
  <2> SUFFICES ASSUME NEW e \in Int, first <= e, e < last PROVE ISOWeek(e).week < week
    OBVIOUS
  <2>1. /\ Monday(e) \in Int /\ Monday(e) <= last - 7 /\ first <= Monday(e)
    <3>1. Monday(e) <= Monday(last) - 7
      BY <1>3, Mondays
    <3>2. Monday(s + 3) <= Monday(e)
      BY <1>2, <1>5, Mondays
    <3> QED
      BY <1>3, <1>5, <3>1, <3>2, Mondays
  <2>2. YearStart(y) <= Monday(e) + 3 /\ Monday(e) + 3 < YearStart(y + 1)
    BY <1>2, <1>3, <1>4, <1>6, <2>1 DEF s
  <2>3. ISOWeek(e) = [year |-> y, week |-> (Monday(e) + 3 - YearStart(y)) \div 7 + 1]
    BY <2>2, ISOWeekIs
  <2>4. week = (last + 3 - s) \div 7 + 1
    BY DEF last, s
  <2>5. (Monday(e) + 3 - s) \div 7 + 1 < (last + 3 - s) \div 7 + 1
    BY <1>2, <1>3, <2>1
  <2> QED
    BY <2>3, <2>4, <2>5 DEF s
<1>9. \A e \in first .. first + 53 * 7 :
          (ISOWeek(e).week >= week /\ \A x \in first .. e - 1 : ~(ISOWeek(x).week >= week))
              <=> e = last
  <2> SUFFICES ASSUME NEW e \in first .. first + 53 * 7
               PROVE  (ISOWeek(e).week >= week
                           /\ \A x \in first .. e - 1 : ~(ISOWeek(x).week >= week))
                      <=> e = last
    OBVIOUS
  <2>0. \A x \in Int : first <= x /\ x < last => ~(ISOWeek(x).week >= week)
    <3> SUFFICES ASSUME NEW x \in Int, first <= x, x < last PROVE ~(ISOWeek(x).week >= week)
      OBVIOUS
    <3>1. ISOWeek(x).week < week /\ ISOWeek(x).week \in Int
      <4>1. /\ Monday(x) \in Int /\ first <= Monday(x) /\ Monday(x) <= last - 7
        <5>1. Monday(x) <= Monday(last) - 7
          BY <1>3, Mondays
        <5>2. Monday(s + 3) <= Monday(x)
          BY <1>2, <1>5, Mondays
        <5> QED
          BY <1>3, <1>5, <5>1, <5>2, Mondays
      <4>2. YearStart(y) <= Monday(x) + 3 /\ Monday(x) + 3 < YearStart(y + 1)
        BY <1>2, <1>3, <1>4, <1>6, <4>1 DEF s
      <4>3. ISOWeek(x) = [year |-> y, week |-> (Monday(x) + 3 - YearStart(y)) \div 7 + 1]
        BY <4>2, ISOWeekIs
      <4> QED
        BY <1>2, <1>8, <4>1, <4>3 DEF s
    <3> QED
      BY <1>7, <3>1
  <2>1. CASE e < last
    BY <2>0, <1>6, <2>1
  <2>2. CASE e > last
    <3>1. last \in first .. e - 1
      BY <1>3, <1>6, <2>2
    <3> QED
      BY <1>7, <2>2, <3>1
  <2>3. CASE e = last
    <3>1. \A x \in first .. e - 1 : x \in Int /\ first <= x /\ x < last
      BY <1>3, <1>6, <2>3
    <3> QED
      BY <1>7, <2>0, <2>3, <3>1
  <2> QED
    BY <1>3, <1>6, <2>1, <2>2, <2>3
<1>10. last \in first .. first + 53 * 7
  BY <1>3, <1>6
<1> QED
  BY <1>9, <1>10 DEF FirstDayOfWeek, FirstFrom, first, last

\* The days whose weeks the two loops find.
InsideWeek(d) == d \in Int /\ YearStart(FirstYear - 1) <= Monday(d) + 3
                           /\ Monday(d) + 3 < YearStart(LastYear + 2)

\* StartWeek, by way of the two loops, truncates to seven days.
LEMMA WeekWindows ==
    ASSUME NEW t \in Int, InsideWeek(DayOf(t))
    PROVE  StartWeek(t) = Truncate(t, 7 * Day)
<1> DEFINE d == DayOf(t)
           y == YearOfDay(Monday(d) + 3)
           week == (Monday(d) + 3 - YearStart(y)) \div 7 + 1
<1>1. d \in Int /\ Monday(d) \in Int
  BY Mondays DEF InsideWeek
<1>2. FirstYear - 2 \in Int /\ YearStart(FirstYear - 2) \in Int /\ YearStart(FirstYear - 1) \in Int
      /\ YearStart(FirstYear - 2) <= YearStart(FirstYear - 1)
  <2>1. FirstYear - 2 \in Int /\ (FirstYear - 2) + 1 = FirstYear - 1 /\ FirstYear - 1 \in Int
    BY ClockAssumption
  <2>2. YearStart(FirstYear - 1) = YearStart(FirstYear - 2) + 365 + LeapDay(FirstYear - 2)
        /\ YearStart(FirstYear - 2) \in Int
    BY <2>1, YearLength
  <2> QED
    BY <2>1, <2>2 DEF LeapDay
<1> HIDE DEF d
<1>3. Inside(Monday(d) + 3)
  BY <1>1, <1>2 DEF Inside, InsideWeek, d
<1>4. y \in Years /\ YearStart(y) <= Monday(d) + 3 /\ Monday(d) + 3 < YearStart(y + 1)
  BY <1>3, YearOfDayExists
<1>5. y - 1 \in Years
  <2>1. y \in Int /\ YearStart(y + 1) \in Int
    <3> HIDE DEF y
    <3>1. y \in Int /\ y + 1 \in Int
      BY <1>4, YearsAssumption
    <3> QED
      BY <3>1, YearLength
  <2>2. FirstYear - 1 \in Int
    BY ClockAssumption
  <2>3. ~(y < FirstYear - 1)
    <3>1. y < FirstYear - 1 => YearStart(y + 1) <= YearStart(FirstYear - 1)
      BY <2>1, <2>2, YearsAscend
    <3>2. YearStart(FirstYear - 1) <= Monday(d) + 3
      BY DEF InsideWeek, d
    <3> HIDE DEF y
    <3> QED
      BY <1>1, <1>2, <1>4, <2>1, <3>1, <3>2
  <2> QED
    BY <1>4, <2>1, <2>3, ClockAssumption DEF SomeYears
<1> HIDE DEF y
<1>6. ISOWeek(d) = [year |-> y, week |-> week]
  BY <1>1, <1>4, ISOWeekIs
<1>7. FirstDayOfISOWeek(y, week) = Monday(d)
  <2> DEFINE monday == Monday(MonthStart(y - 1, 12) - 1)
  <2> HIDE DEF week
  <2>1. FirstDayOfYear(monday, y) = FirstMonday(y)
    BY <1>4, <1>5, FirstLoop
  <2>2. FirstDayOfWeek(FirstMonday(y), week) = Monday(d)
    <3>1. week = (Monday(d) + 3 - YearStart(y)) \div 7 + 1
      BY DEF week
    <3> QED
      BY <1>1, <1>4, <3>1, SecondLoop
  <2> QED
    <3>1. FirstDayOfISOWeek(y, week) = FirstDayOfWeek(FirstDayOfYear(monday, y), week)
      BY Zenon DEF FirstDayOfISOWeek, FirstDayOfYear, FirstDayOfWeek, Monday
    <3> QED
      BY <2>1, <2>2, <3>1
<1>8. StartWeek(t) = Day * Monday(d)
  BY <1>6, <1>7 DEF StartWeek, d
<1> QED
  BY <1>8 DEF Truncate, Monday, Weekday, d, DayOf, Day, Hour, Minute

\* What the operators do for the week.
LEMMA WeekKind ==
    ASSUME NEW t
    PROVE  /\ Open("1W", t) = StartWeek(t)
           /\ AggregateTimestamp(t, "1W") = StartWeek(t)
           /\ \A m, y : ToDuration("1W", m, y) = 7 * Day
           /\ "1W" \notin EvenResolutions /\ "1W" \notin MonthResolutions
<1>1. "1W" \notin MinuteResolutions /\ "1W" \notin HourResolutions /\ "1W" \notin MonthResolutions
  BY KindsOfResolutions DEF EvenResolutions
<1>2. Open("1W", t) = StartWeek(t)
  BY <1>1 DEF Open, GetResolutionStartTimestampByTime
<1>3. AggregateTimestamp(t, "1W") = AggregateWeek(t)
  BY <1>1 DEF AggregateTimestamp
<1>4. AggregateWeek(t) = StartWeek(t)
  BY DEF AggregateWeek, StartWeek
<1>5. \A m, y : ToDuration("1W", m, y) = 7 * Day
  BY <1>1 DEF ToDuration
<1> QED
  BY <1>1, <1>2, <1>3, <1>4, <1>5 DEF EvenResolutions

-------------------------------------------------------------------------------
(***************************************************************************)
(* The instants the calendar covers: those of the clock, and around them.  *)
(***************************************************************************)
\* The clock runs over whole years, and two years before it and one after it are inside.
LEMMA ClockDays ==
    /\ YearStart(FirstYear) \in Int /\ YearStart(LastYear + 1) \in Int
    /\ YearStart(FirstYear) < YearStart(LastYear + 1)
    /\ TheStart = Day * YearStart(FirstYear) /\ TheEnd = Day * YearStart(LastYear + 1)
    /\ TheStart \in Int /\ TheEnd \in Int
    /\ YearStart(FirstYear - 1) \in Int /\ YearStart(FirstYear - 1) <= YearStart(FirstYear) - 365
    /\ YearStart(FirstYear - 2) \in Int /\ YearStart(FirstYear - 2) <= YearStart(FirstYear) - 730
    /\ YearStart(LastYear + 2) \in Int /\ YearStart(LastYear + 1) + 365 <= YearStart(LastYear + 2)
<1>1. /\ FirstYear \in Int /\ LastYear \in Int /\ FirstYear <= LastYear
      /\ FirstYear - 1 \in Int /\ FirstYear - 2 \in Int /\ LastYear + 1 \in Int
      /\ (FirstYear - 1) + 1 = FirstYear /\ (FirstYear - 2) + 1 = FirstYear - 1
      /\ (LastYear + 1) + 1 = LastYear + 2
  BY ClockAssumption
<1>2. \A y \in Int : LeapDay(y) \in 0 .. 1
  BY DEF LeapDay
<1>3. /\ YearStart(FirstYear - 2) \in Int
      /\ YearStart(FirstYear - 1) = YearStart(FirstYear - 2) + 365 + LeapDay(FirstYear - 2)
  BY <1>1, YearLength
<1>4. /\ YearStart(FirstYear - 1) \in Int
      /\ YearStart(FirstYear) = YearStart(FirstYear - 1) + 365 + LeapDay(FirstYear - 1)
  BY <1>1, YearLength
<1>5. /\ YearStart(LastYear + 1) \in Int
      /\ YearStart(LastYear + 2) = YearStart(LastYear + 1) + 365 + LeapDay(LastYear + 1)
  BY <1>1, YearLength
<1>6. /\ YearStart(FirstYear) \in Int
      /\ YearStart(FirstYear + 1) = YearStart(FirstYear) + 365 + LeapDay(FirstYear)
  BY <1>1, YearLength
<1>7. YearStart(FirstYear + 1) <= YearStart(LastYear + 1)
  BY <1>1, YearsAscend
<1>8. /\ LeapDay(FirstYear - 2) \in 0 .. 1 /\ LeapDay(FirstYear - 1) \in 0 .. 1
      /\ LeapDay(LastYear + 1) \in 0 .. 1 /\ LeapDay(FirstYear) \in 0 .. 1
  BY <1>1, <1>2
<1> QED
  BY <1>3, <1>4, <1>5, <1>6, <1>7, <1>8 DEF TheStart, TheEnd, Day, Hour, Minute

\* Instants up to 400 days before and 40 days after the clock are inside.
LEMMA NearTheClock ==
    ASSUME NEW t \in Int, TheStart - 400 * Day <= t, t < TheEnd + 40 * Day
    PROVE  Inside(DayOf(t)) /\ (TheStart - 360 * Day <= t => InsideWeek(DayOf(t)))
<1> DEFINE d == DayOf(t)
<1>1. /\ d \in Int /\ YearStart(FirstYear) - 400 <= d /\ d < YearStart(LastYear + 1) + 40
      /\ TheStart - 360 * Day <= t => YearStart(FirstYear) - 360 <= d
  BY ClockDays DEF DayOf, Day, Hour, Minute
<1> HIDE DEF d
<1>2. Monday(d) \in Int /\ Monday(d) <= d /\ d < Monday(d) + 7
  BY <1>1, Mondays
<1>3. Inside(d)
  BY <1>1, ClockDays DEF Inside
<1>4. YearStart(FirstYear) - 360 <= d => InsideWeek(d)
  BY <1>1, <1>2, ClockDays DEF InsideWeek
<1> QED
  BY <1>1, <1>3, <1>4 DEF d

\* The minute of an instant is on the same day.
LEMMA MinuteOfTheDay ==
    ASSUME NEW t \in Int
    PROVE  /\ Open("1", t) \in Int /\ Open("1", t) <= t /\ t <= Open("1", t) + 1
           /\ DayOf(Open("1", t)) = DayOf(t)
<1>1. "1" \in EvenResolutions /\ Length("1") = 2
  BY KindsOfResolutions DEF EvenResolutions, Minute
<1>2. Open("1", t) = t - (t % 2)
  BY <1>1, EvenWindows DEF Truncate
<1> QED
  BY <1>2 DEF DayOf, Day, Hour, Minute

-------------------------------------------------------------------------------
(***************************************************************************)
(* The clock.                                                              *)
(***************************************************************************)
ClockInv ==
    /\ now \in Int /\ TheStart <= now /\ now < TheEnd
    /\ from \in Int /\ now - 340 * Day <= from /\ from <= now

\* The clock stays in its years, and requests look back 340 days at most.
LEMMA ClockInvHolds == Spec => []ClockInv
<1>1. Init => ClockInv
  BY ClockDays DEF Init, ClockInv, Day, Hour, Minute
<1>2. ClockInv /\ [Next]_<<now, from>> => ClockInv'
  <2> SUFFICES ASSUME ClockInv, [Next]_<<now, from>> PROVE ClockInv'
    OBVIOUS
  <2>0. TheStart \in Int /\ TheEnd \in Int
    BY ClockDays
  <2>1. CASE Next
    <3>1. NextStop \in Int /\ now <= NextStop
      BY <2>0 DEF NextStop, Stretch, ClockInv, Day, Hour, Minute
    <3>2. now' \in Int /\ TheStart <= now' /\ now' < TheEnd
      BY <2>0, <2>1, <3>1 DEF Next, ClockInv
    <3>3. PICK days \in Lookback : from' = now' - days * Day
      BY <2>1 DEF Next
    <3>4. days \in 0 .. 340
      BY LookbackAssumption
    <3>5. from' \in Int /\ now' - 340 * Day <= from' /\ from' <= now'
      <4>1. Day = 2880
        BY DEF Day, Hour, Minute
      <4>2. ASSUME NEW n \in Int, NEW span \in Int, NEW start, 0 <= span, span <= 340 * 2880,
                   start = n - span
            PROVE  start \in Int /\ n - 340 * 2880 <= start /\ start <= n
        BY <4>2
      <4>3. days * Day \in Int /\ 0 <= days * Day /\ days * Day <= 340 * 2880
        BY <3>4, <4>1
      <4>4. now' \in Int
        BY <3>2
      <4>5. from' \in Int /\ now' - 340 * 2880 <= from' /\ from' <= now'
        BY <3>3, <4>2, <4>3, <4>4
      <4> QED
        BY <4>1, <4>5
    <3> QED
      BY <3>2, <3>5 DEF ClockInv, TheStart, TheEnd
  <2>2. CASE UNCHANGED <<now, from>>
    BY <2>2 DEF ClockInv, TheStart, TheEnd
  <2> QED
    BY <2>1, <2>2
<1> QED
  BY <1>1, <1>2, PTL DEF Spec

\* GetCandleByResolution groups the stored deals by the windows of the live candles, for
\* every resolution but the week, whatever the instant; and so does the table
\* GetResolution, but for "30" and "1H".
THEOREM DatabaseHasTheWindowsHolds == Spec => []DatabaseHasTheWindows
<1>1. ClockInv => DatabaseHasTheWindows
  <2> SUFFICES ASSUME ClockInv PROVE DatabaseHasTheWindows
    OBVIOUS
  <2>1. now \in Int
    BY DEF ClockInv
  <2>2. \A r \in EvenResolutions :
            /\ DateTrunc(CandleQuery(r), now) = Open(r, now)
            /\ r \notin {"30", "1H"} => DateTrunc(GetResolution(r), now) = Open(r, now)
    BY <2>1, DatabaseEven
  <2>3. \A r \in MonthResolutions :
            /\ DateTrunc(CandleQuery(r), now) = Open(r, now)
            /\ DateTrunc(GetResolution(r), now) = Open(r, now)
    BY <2>1, MonthWindows
  <2>4. \A r \in AvailableResolutions \ {"1W"} : r \in EvenResolutions \/ r \in MonthResolutions
    BY KindsOfResolutions
  <2> QED
    BY <2>2, <2>3, <2>4 DEF DatabaseHasTheWindows
<1> QED
  BY <1>1, ClockInvHolds, PTL

-------------------------------------------------------------------------------
(***************************************************************************)
(* The windows tile time.                                                  *)
(***************************************************************************)
Tiles(r, t) ==
    LET open == Open(r, t)
        next == NextOpen(r, open)
    IN  /\ open <= t /\ t < next
        /\ Open(r, open) = open
        /\ Open(r, next - 1) = open
        /\ Open(r, next) = next
        /\ CalculateCloseTime(open, r) \in {next - 1, next}
        /\ AggregateTimestamp(Open("1", t), r) = open

\* CalculateCloseTime is the last nanosecond before the border.
LEMMA TilesByClose ==
    ASSUME NEW r, NEW t \in Int, NEW open \in Int, NEW close \in Int,
           Open(r, t) = open, CalculateCloseTime(open, r) = close,
           NextOpen(r, open) = close + 1,
           open <= t, t <= close, Open(r, open) = open, Open(r, close) = open,
           Open(r, close + 1) = close + 1, AggregateTimestamp(Open("1", t), r) = open
    PROVE  Tiles(r, t)
<1>1. (close + 1) - 1 = close /\ t < close + 1
  OBVIOUS
<1> QED
  BY <1>1 DEF Tiles

\* Windows up to a day tile time.
LEMMA EvenResolutionsTile ==
    ASSUME NEW r \in EvenResolutions, NEW t \in Int
    PROVE  Tiles(r, t)
<1> DEFINE d == Length(r)
           open == Truncate(t, d)
           close == open + d - 1
<1>1. d \in Nat \ {0}
  BY LengthType
<1> HIDE DEF d
<1>2. /\ open <= t /\ t <= close /\ open \in Int /\ close \in Int
      /\ Truncate(open, d) = open /\ Truncate(close, d) = open
      /\ Truncate(close + 1, d) = close + 1
  BY <1>1, EvenTiles
<1> HIDE DEF open, close
<1>3. \A u \in Int : Open(r, u) = Truncate(u, d)
  BY EvenWindows DEF d
<1>4. CalculateCloseTime(open, r) = close /\ NextOpen(r, open) = close + 1
  BY <1>1, <1>2, EvenWindows DEF CalculateCloseTime, NextOpen, close, d
<1>5. Open(r, t) = open
  BY <1>3 DEF open
<1>6. close + 1 \in Int
  BY <1>2
<1>7. Open(r, open) = open /\ Open(r, close) = open /\ Open(r, close + 1) = close + 1
  BY <1>2, <1>3, <1>6
<1>8. AggregateTimestamp(Open("1", t), r) = open
  BY <1>5, AggregateEven
<1> QED
  BY ONLY <1>2, <1>4, <1>5, <1>7, <1>8, TilesByClose, t \in Int

\* So do months, in years in which every fourth is a leap year.
LEMMA MonthsTile ==
    ASSUME NEW r \in MonthResolutions, NEW t \in Int, TheStart <= t, t < TheEnd,
           EveryFourthIsLeap
    PROVE  Tiles(r, t)
<1> DEFINE y == YearOf(t)
           m == MonthOf(t)
           open == Day * MonthStart(y, m)
           next == Day * MonthStart(y, m + 1)
           u == Open("1", t)
<1>1. Inside(DayOf(t))
  BY NearTheClock, ClockDays DEF Day, Hour, Minute
<1>2. y \in Years /\ m \in 1 .. 12
  BY <1>1, MonthExists
<1>3. /\ open \in Int /\ next \in Int /\ open <= t /\ t < next
      /\ YearOf(open) = y /\ MonthOf(open) = m
      /\ YearOf(next - 1) = y /\ MonthOf(next - 1) = m
      /\ next = open + Day * MonthLength(m, y)
      /\ Inside(DayOf(next)) => Day * MonthStart(YearOf(next), MonthOf(next)) = next
  BY <1>1, MonthBounds
<1>4. \A x \in Int : Open(r, x) = Day * MonthStart(YearOf(x), MonthOf(x))
  BY MonthWindows
<1>5. CalculateCloseTime(open, r) = next - 1 /\ NextOpen(r, open) = next
  <2>1. ToDuration(r, m, y) = Day * MonthLength(m, y)
    BY <1>2, MonthWindows, MonthDurationIs
  <2>2. Day * MonthLength(m, y) \in Int
    <3>1. y \in Int
      BY <1>2, YearsAssumption
    <3>2. MonthLength(m, y) \in Int
      BY <1>2, <3>1, MonthLengths
    <3> QED
      BY <3>2 DEF Day, Hour, Minute
  <2>3. /\ CalculateCloseTime(open, r) = open + ToDuration(r, m, y) - 1
        /\ NextOpen(r, open) = open + ToDuration(r, m, y)
    BY <1>3 DEF CalculateCloseTime, NextOpen
  <2> HIDE DEF open, next, y, m
  <2> QED
    BY <1>3, <2>1, <2>2, <2>3
<1>6. Inside(DayOf(next))
  <2>1. y \in Int
    BY <1>2, YearsAssumption
  <2> HIDE DEF y, m
  <2>2. /\ MonthStart(y, m) \in Int /\ MonthStart(y, m + 1) \in Int
        /\ MonthStart(y, m + 1) = MonthStart(y, m) + MonthLength(m, y)
        /\ MonthLength(m, y) \in 28 .. 31
    <3>1. LeapDay(y) \in 0 .. 1
      BY DEF LeapDay
    <3>2. MonthLength(m, y) \in 28 .. 31
      BY <3>1 DEF MonthLength
    <3> QED
      BY <1>2, <2>1, <3>2, MonthLengths
  <2>3. next <= t + 31 * 2880
    BY <1>3, <2>2 DEF open, next, Day, Hour, Minute
  <2> HIDE DEF next
  <2>4. TheStart - 400 * Day <= next /\ next < TheEnd + 40 * Day
    BY <1>3, <2>3, ClockDays DEF Day, Hour, Minute
  <2> QED
    BY <1>3, <2>4, NearTheClock
<1>7. AggregateTimestamp(u, r) = open
  <2>1. u \in Int /\ DayOf(u) = DayOf(t)
    BY MinuteOfTheDay
  <2>2. YearOf(u) = y /\ MonthOf(u) = m
    BY <2>1 DEF YearOf, MonthOf
  <2>3. AggregateTimestamp(u, r) = Open(r, u)
    BY <2>1, MonthWindows
  <2> QED
    BY <1>4, <2>1, <2>2, <2>3
<1>8. Open(r, t) = open /\ Open(r, open) = open /\ Open(r, next - 1) = open /\ Open(r, next) = next
  <2>1. next - 1 \in Int
    BY <1>3
  <2>2. Open(r, next - 1) = open
    BY <1>3, <1>4, <2>1
  <2> QED
    BY <1>3, <1>4, <1>6, <2>2
<1> HIDE DEF y, m, open, next, u
<1>9. (next - 1) + 1 = next /\ t <= next - 1
  BY <1>3
<1> QED
  BY <1>3, <1>5, <1>7, <1>8, <1>9 DEF Tiles, u

\* And weeks.
LEMMA WeeksTile ==
    ASSUME NEW t \in Int, TheStart <= t, t < TheEnd
    PROVE  Tiles("1W", t)
<1> DEFINE d == 7 * Day
           open == Truncate(t, d)
           close == open + d - 1
           u == Open("1", t)
<1>1. d \in Nat \ {0} /\ d = 20160 /\ Day = 2880
  BY DEF Day, Hour, Minute
<1> HIDE DEF d
<1>2. /\ open <= t /\ t <= close /\ open \in Int /\ close \in Int
      /\ Truncate(open, d) = open /\ Truncate(close, d) = open
      /\ Truncate(close + 1, d) = close + 1
  BY <1>1, EvenTiles
<1>3. \A x \in Int : TheStart - 360 * Day <= x /\ x < TheEnd + 40 * Day
          => Open("1W", x) = Truncate(x, d)
  <2> SUFFICES ASSUME NEW x \in Int, TheStart - 360 * Day <= x, x < TheEnd + 40 * Day
               PROVE  Open("1W", x) = Truncate(x, d)
    OBVIOUS
  <2>1. InsideWeek(DayOf(x))
    BY <1>1, NearTheClock, ClockDays
  <2> QED
    BY <2>1, WeekWindows, WeekKind DEF d
<1>4. close = open + d - 1
  OBVIOUS
<1> HIDE DEF open, close
<1>5. CalculateCloseTime(open, "1W") = close /\ NextOpen("1W", open) = close + 1
  <2>1. NextOpen("1W", open) = open + d
    BY WeekKind DEF NextOpen, d
  <2>2. CalculateCloseTime(open, "1W") = close
    BY <1>4, WeekKind DEF CalculateCloseTime, d
  <2> QED
    BY <1>1, <1>2, <1>4, <2>1, <2>2
<1>6. /\ Open("1W", t) = open /\ Open("1W", open) = open /\ Open("1W", close) = open
      /\ Open("1W", close + 1) = close + 1
  <2>1. /\ TheStart - 360 * Day <= open /\ open < TheEnd + 40 * Day
        /\ TheStart - 360 * Day <= close /\ close < TheEnd + 40 * Day
        /\ TheStart - 360 * Day <= close + 1 /\ close + 1 < TheEnd + 40 * Day
        /\ TheStart - 360 * Day <= t /\ t < TheEnd + 40 * Day
        /\ close + 1 \in Int
    BY <1>1, <1>2, <1>4, ClockDays
  <2> QED
    BY <1>2, <1>3, <2>1 DEF open
<1>7. AggregateTimestamp(u, "1W") = open
  <2>1. u \in Int /\ u <= t /\ t <= u + 1 /\ DayOf(u) = DayOf(t)
    BY MinuteOfTheDay
  <2> HIDE DEF u
  <2>2. Truncate(u, d) = Truncate(t, d)
    BY <1>1, <2>1 DEF Truncate, DayOf
  <2>3. TheStart - 360 * Day <= u /\ u < TheEnd + 40 * Day
    BY <1>1, <2>1, ClockDays
  <2>4. Open("1W", u) = Truncate(u, d)
    BY <1>3, <2>1, <2>3
  <2> QED
    BY <2>2, <2>4, WeekKind DEF open
<1> QED
  BY <1>2, <1>5, <1>6, <1>7 DEF Tiles, u

\* The windows of every resolution tile time, weeks and months too, and Aggregator puts
\* the candle of a minute into the window that the live candles have: in any years in
\* which every fourth is a leap year, as ToDuration has it.
THEOREM WindowsTileTimeHolds ==
    ASSUME EveryFourthIsLeap
    PROVE  Spec => []WindowsTileTime
<1>1. ClockInv => WindowsTileTime
  <2> SUFFICES ASSUME ClockInv PROVE WindowsTileTime
    OBVIOUS
  <2>1. now \in Int /\ TheStart <= now /\ now < TheEnd
    BY DEF ClockInv
  <2>2. \A r \in EvenResolutions : Tiles(r, now)
    BY <2>1, EvenResolutionsTile
  <2>3. \A r \in MonthResolutions : Tiles(r, now)
    BY <2>1, MonthsTile
  <2>4. Tiles("1W", now)
    BY <2>1, WeeksTile
  <2>5. \A r \in AvailableResolutions : Tiles(r, now)
    BY <2>2, <2>3, <2>4, KindsOfResolutions
  <2> QED
    BY <2>5 DEF WindowsTileTime, Tiles
<1> QED
  BY <1>1, ClockInvHolds, PTL

-------------------------------------------------------------------------------
(***************************************************************************)
(* Requests.                                                               *)
(***************************************************************************)
\* The interval of a request holds every window it touches, and no two more.
Holds(r, start, end, interval) ==
    LET first == Open(r, start)
        last == CalculateCloseTime(Open(r, end), r)
    IN  /\ interval[1] <= first /\ last <= interval[2]
        /\ Open(r, interval[1]) = interval[1]
        /\ Open(r, interval[1]) >= Open(r, first - 1)
        /\ interval[2] <= last + 1

\* Where the windows are the multiples of a length.
LEMMA MultiplesHold ==
    ASSUME NEW r \in AvailableResolutions \ MonthResolutions, NEW d \in Nat \ {0},
           NEW start \in Int, NEW end \in Int,
           \A m, y : ToDuration(r, m, y) = d,
           \A x \in {start, end, Truncate(start, d) - 1, Truncate(start, d) - d} :
               Open(r, x) = Truncate(x, d)
    PROVE  Holds(r, start, end, TruncateInterval(start, end, r))
<1> DEFINE first == Truncate(start, d)
           last == Truncate(end, d) + d - 1
<1>1. TruncateInterval(start, end, r) = <<Truncate(start - d, d), Truncate(end + d, d)>>
  BY DEF TruncateInterval
<1>2. Truncate(start - d, d) = first - d /\ Truncate(end + d, d) = Truncate(end, d) + d
  <2>0. d \in Int
    OBVIOUS
  <2>1. \A x, k \in Int : Truncate(x + d * k, d) = Truncate(x, d) + d * k
    BY TruncateShift
  <2>2. \A x \in Int : /\ Truncate(x - d, d) = Truncate(x, d) - d
                       /\ Truncate(x + d, d) = Truncate(x, d) + d
    <3> SUFFICES ASSUME NEW x \in Int
                 PROVE  /\ Truncate(x - d, d) = Truncate(x, d) - d
                        /\ Truncate(x + d, d) = Truncate(x, d) + d
      OBVIOUS
    <3> DEFINE one == 1
               less == -1
    <3>1. one \in Int /\ less \in Int /\ d * one = d /\ d * less = -d
      BY <2>0
    <3> HIDE DEF one, less
    <3>2. x + d * one = x + d /\ x + d * less = x - d /\ Truncate(x, d) \in Int
      BY <2>0, <3>1, TruncateType
    <3>3. /\ Truncate(x + d * one, d) = Truncate(x, d) + d * one
          /\ Truncate(x + d * less, d) = Truncate(x, d) + d * less
      BY <2>1, <3>1
    <3> QED
      BY <2>0, <3>1, <3>2, <3>3
  <2> QED
    BY <2>2
<1>3. first \in Int /\ last \in Int /\ Truncate(end, d) \in Int
  BY TruncateType
<1>4. Truncate(first - 1, d) = first - d
  BY EvenTiles
<1>5. Truncate(first - d, d) = first - d
  <2>1. Truncate(first + d * (-1), d) = Truncate(first, d) + d * (-1)
    BY <1>3, TruncateShift
  <2>2. Truncate(first, d) = first
    BY EvenTiles
  <2> HIDE DEF first
  <2>3. first + d * (-1) = first - d
    BY <1>3
  <2> QED
    BY <2>1, <2>2, <2>3
<1>6. CalculateCloseTime(Open(r, end), r) = last
  BY DEF CalculateCloseTime
<1>7. /\ Open(r, start) = first /\ Open(r, first - 1) = first - d
      /\ Open(r, first - d) = first - d
  BY <1>4, <1>5
<1>8. last + 1 = Truncate(end, d) + d
  BY <1>3
<1> DEFINE interval == <<first - d, last + 1>>
<1>9. TruncateInterval(start, end, r) = interval /\ interval[1] = first - d
      /\ interval[2] = last + 1
  BY <1>1, <1>2, <1>8
<1> HIDE DEF first, last, interval
<1>10. first - d <= first /\ last <= last + 1 /\ first - d >= first - d /\ last + 1 <= last + 1
  BY <1>3
<1> QED
  BY <1>6, <1>7, <1>9, <1>10 DEF Holds

\* Months: the interval is that of the first and the last month.
LEMMA MonthsHold ==
    ASSUME NEW r \in MonthResolutions, NEW start \in Int, NEW end \in Int,
           TheStart - 340 * Day <= start, start <= end, end < TheEnd,
           EveryFourthIsLeap
    PROVE  Holds(r, start, end, TruncateInterval(start, end, r))
<1> DEFINE first == Open(r, start)
           next == Day * MonthStart(YearOf(end), MonthOf(end) + 1)
<1>1. Inside(DayOf(start)) /\ Inside(DayOf(end))
  BY NearTheClock, ClockDays DEF Day, Hour, Minute
<1>2. TruncateInterval(start, end, r) = <<first, next - 1>>
  BY MonthWindows
<1>3. first \in Int /\ first <= start /\ Open(r, first) = first
      /\ start - 31 * Day <= first
  <2> DEFINE y == YearOf(start)
             m == MonthOf(start)
  <2>1. first = Day * MonthStart(y, m)
    BY MonthWindows
  <2>2. /\ first \in Int /\ first <= start /\ start < Day * MonthStart(y, m + 1)
        /\ YearOf(first) = y /\ MonthOf(first) = m
    BY <1>1, <2>1, MonthBounds
  <2>3. Open(r, first) = Day * MonthStart(YearOf(first), MonthOf(first))
    BY <2>2, MonthWindows
  <2>4. y \in Int /\ m \in 1 .. 12
    BY <1>1, MonthExists, YearsAssumption
  <2> HIDE DEF y, m, first
  <2>5. MonthStart(y, m) \in Int /\ MonthStart(y, m + 1) \in Int
        /\ MonthStart(y, m + 1) <= MonthStart(y, m) + 31
    <3>1. LeapDay(y) \in 0 .. 1
      BY DEF LeapDay
    <3>2. MonthLength(m, y) \in Int /\ MonthLength(m, y) <= 31
      BY <3>1 DEF MonthLength
    <3>3. /\ MonthStart(y, m) \in Int /\ MonthStart(y, m + 1) \in Int
          /\ MonthStart(y, m + 1) = MonthStart(y, m) + MonthLength(m, y)
      BY <2>4, MonthLengths
    <3> QED
      BY <3>2, <3>3
  <2> QED
    BY <2>1, <2>2, <2>3, <2>5 DEF Day, Hour, Minute
<1>4. Open(r, first - 1) <= first
  <2> HIDE DEF first
  <2> DEFINE t == first - 1
  <2>1. t \in Int /\ Inside(DayOf(t))
    BY <1>3, NearTheClock, ClockDays DEF Day, Hour, Minute
  <2> HIDE DEF t
  <2>2. Open(r, t) \in Int /\ Open(r, t) <= t
    BY <2>1, MonthWindows, MonthBounds
  <2> QED
    BY <1>3, <2>2 DEF t
<1>5. CalculateCloseTime(Open(r, end), r) = next - 1 /\ next \in Int
  <2> DEFINE y == YearOf(end)
             m == MonthOf(end)
             open == Day * MonthStart(y, m)
  <2>1. y \in Years /\ m \in 1 .. 12
    BY <1>1, MonthExists
  <2>2. /\ open \in Int /\ next \in Int /\ next = open + Day * MonthLength(m, y)
        /\ YearOf(open) = y /\ MonthOf(open) = m
    BY <1>1, MonthBounds
  <2>3. Open(r, end) = open
    BY MonthWindows
  <2>4. ToDuration(r, m, y) = Day * MonthLength(m, y)
    BY <2>1, MonthWindows, MonthDurationIs
  <2>5. Day * MonthLength(m, y) \in Int
    <3>1. y \in Int
      BY <2>1, YearsAssumption
    <3>2. MonthLength(m, y) \in Int
      BY <2>1, <3>1, MonthLengths
    <3> QED
      BY <3>2 DEF Day, Hour, Minute
  <2>6. CalculateCloseTime(open, r) = open + ToDuration(r, m, y) - 1
    BY <2>2 DEF CalculateCloseTime
  <2> HIDE DEF open, next, y, m
  <2> QED
    BY <2>2, <2>3, <2>4, <2>5, <2>6
<1> HIDE DEF first, next
<1>6. /\ first <= first /\ next - 1 <= next - 1 /\ next - 1 <= (next - 1) + 1
      /\ first >= Open(r, first - 1)
  <2>1. Open(r, first - 1) \in Int
    <3> DEFINE t == first - 1
    <3>1. t \in Int /\ Inside(DayOf(t))
      BY <1>3, NearTheClock, ClockDays DEF Day, Hour, Minute
    <3> HIDE DEF t
    <3>2. Open(r, t) \in Int
      BY <3>1, MonthWindows, MonthBounds
    <3> QED
      BY <3>2 DEF t
  <2> QED
    BY <1>3, <1>4, <1>5, <2>1
<1> QED
  BY <1>2, <1>3, <1>5, <1>6 DEF Holds, first

\* A sequence of three words is known by them.
LEMMA ThreeWords ==
    ASSUME NEW W, NEW s \in Seq(W), NEW a \in W, NEW b \in W, NEW c \in W,
           Len(s) = 3, s[1] = a, s[2] = b, s[3] = c
    PROVE  s = <<a, b, c>>
<1> DEFINE t == <<a, b, c>>
<1>1. t \in Seq(W) /\ Len(t) = 3 /\ t[1] = a /\ t[2] = b /\ t[3] = c
  OBVIOUS
<1> HIDE DEF t
<1>2. \A i \in 1 .. Len(s) : s[i] = t[i]
  BY <1>1
<1>3. s = t
  BY <1>1, <1>2, SeqEqual
<1> QED
  BY <1>3 DEF t

\* What flipMarkets makes of a name of two parts.
LEMMA PartsSwapped ==
    ASSUME NEW W, NEW left \in W, NEW slash \in W, NEW right \in W, NEW between \in W
    PROVE  LET name == <<left, slash, right>>
           IN  SubSeq(name, 3, 3) \o <<between>> \o SubSeq(name, 1, 1)
                   = <<right, between, left>>
<1> DEFINE name == <<left, slash, right>>
           end == SubSeq(name, 3, 3)
           start == SubSeq(name, 1, 1)
           one == <<between>>
<1>1. name \in Seq(W) /\ Len(name) = 3 /\ name[1] = left /\ name[3] = right
  OBVIOUS
<1>2. one \in Seq(W) /\ Len(one) = 1 /\ one[1] = between
  OBVIOUS
<1> HIDE DEF name, one
<1>3. end \in Seq(W) /\ Len(end) = 1 /\ end[1] = right
  BY <1>1, SubSeqProperties
<1>4. start \in Seq(W) /\ Len(start) = 1 /\ start[1] = left
  BY <1>1, SubSeqProperties
<1> HIDE DEF end, start
<1> DEFINE two == end \o one
<1>5. two \in Seq(W) /\ Len(two) = 2 /\ two[1] = right /\ two[2] = between
  BY <1>2, <1>3, ConcatProperties
<1> HIDE DEF two
<1> DEFINE three == two \o start
<1>6. /\ three \in Seq(W) /\ Len(three) = 3
      /\ three[1] = right /\ three[2] = between /\ three[3] = left
  BY <1>4, <1>5, ConcatProperties
<1> HIDE DEF three
<1>7. three = <<right, between, left>>
  BY <1>6, ThreeWords
<1> QED
  BY <1>7 DEF three, two, one, end, start, name

\* What normalizeMarketName makes of it.
LEMMA SlashReplaced ==
    ASSUME NEW W, NEW left \in W, NEW slash \in W, NEW right \in W, NEW between \in W,
           NEW slashes, left \notin slashes, slash \in slashes, right \notin slashes,
           NEW name, name = <<left, slash, right>>
    PROVE  [i \in DOMAIN name |-> IF name[i] \in slashes THEN between ELSE name[i]]
                   = <<left, between, right>>
<1>1. DOMAIN name = 1 .. 3 /\ name[1] = left /\ name[2] = slash /\ name[3] = right
      /\ name \in Seq(W)
  OBVIOUS
<1> DEFINE answer == [i \in 1 .. 3 |-> IF name[i] \in slashes THEN between ELSE name[i]]
<1>2. answer \in Seq(W) /\ Len(answer) = 3
      /\ answer[1] = left /\ answer[2] = between /\ answer[3] = right
  BY <1>1
<1> HIDE DEF answer
<1>3. answer = <<left, between, right>>
  BY <1>2, ThreeWords
<1>4. [i \in DOMAIN name |-> IF name[i] \in slashes THEN between ELSE name[i]] = answer
  BY <1>1 DEF answer
<1> QED
  BY <1>3, <1>4

\* The handler and the client of the exchange arrive at the same name.
LEMMA MarketOfTheRequest ==
    NormalizeMarketName(<<"BTC", "/", "ETH">>) = FlipMarkets(<<"ETH", "/", "BTC">>)
<1> DEFINE W == {"BTC", "ETH", "/", "_"}
           name == <<"ETH", "/", "BTC">>
<1>0. "BTC" \in W /\ "ETH" \in W /\ "/" \in W /\ "_" \in W
  OBVIOUS
<1> HIDE DEF W
<1>1. "/" \in Range(name)
  BY DEF Range
<1>2. (CHOOSE i \in DOMAIN name : name[i] = "/" /\ \A j \in 1 .. i - 1 : name[j] # "/") = 2
  <2>1. DOMAIN name = {1, 2, 3} /\ name[1] = "ETH" /\ name[2] = "/" /\ name[3] = "BTC"
    OBVIOUS
  <2> HIDE DEF name
  <2>2. \A i \in DOMAIN name :
            (name[i] = "/" /\ \A j \in 1 .. i - 1 : name[j] # "/") <=> i = 2
    BY <2>1
  <2> QED
    BY <2>1, <2>2
<1>3. FlipMarkets(name) = SubSeq(name, 2 + 1, Len(name)) \o <<"_">> \o SubSeq(name, 1, 2 - 1)
  BY <1>1, <1>2 DEF FlipMarkets
<1>4. Len(name) = 3 /\ 2 + 1 = 3 /\ 2 - 1 = 1
  OBVIOUS
<1>5. FlipMarkets(name) = SubSeq(name, 3, 3) \o <<"_">> \o SubSeq(name, 1, 1)
  BY <1>3, <1>4
<1>6. FlipMarkets(name) = <<"BTC", "_", "ETH">>
  BY <1>0, <1>5, PartsSwapped, Zenon
<1>7. NormalizeMarketName(<<"BTC", "/", "ETH">>) = <<"BTC", "_", "ETH">>
  <2> DEFINE slashes == {"%2F", "/"}
             asked == <<"BTC", "/", "ETH">>
             between == "_"
             left == "BTC"
             slash == "/"
             right == "ETH"
  <2>1. left \notin slashes /\ slash \in slashes /\ right \notin slashes
    OBVIOUS
  <2>2. NormalizeMarketName(asked)
            = [i \in DOMAIN asked |-> IF asked[i] \in slashes THEN between ELSE asked[i]]
    BY DEF NormalizeMarketName
  <2>3. left \in W /\ slash \in W /\ right \in W /\ between \in W
    BY <1>0
  <2>4. asked = <<left, slash, right>>
    OBVIOUS
  <2> HIDE DEF slashes, asked, between, left, slash, right
  <2>5. [i \in DOMAIN asked |-> IF asked[i] \in slashes THEN between ELSE asked[i]]
            = <<left, between, right>>
    BY <2>1, <2>3, <2>4, SlashReplaced
  <2> QED
    BY <2>2, <2>5 DEF asked, left, between, right
<1> QED
  BY <1>6, <1>7

\* Only an empty market makes an empty name.
LEMMA NamesAreNotEmpty ==
    /\ NormalizeMarketName(<<>>) = <<>>
    /\ NormalizeMarketName(<<"BTC", "/", "ETH">>) # <<>>
<1>1. NormalizeMarketName(<<>>) = <<>>
  BY DEF NormalizeMarketName
<1>2. DOMAIN NormalizeMarketName(<<"BTC", "/", "ETH">>) = 1 .. 3
  <2> DEFINE asked == <<"BTC", "/", "ETH">>
  <2>1. DOMAIN asked = 1 .. 3
    OBVIOUS
  <2> HIDE DEF asked
  <2>2. DOMAIN NormalizeMarketName(asked) = 1 .. 3
    BY <2>1 DEF NormalizeMarketName
  <2> QED
    BY <2>2 DEF asked
<1>3. DOMAIN <<>> # 1 .. 3
  OBVIOUS
<1> QED
  BY <1>1, <1>2, <1>3

\* IsNotExist, of the resolutions and of one that does not exist.
LEMMA NotExist ==
    /\ IsNotExist("7") /\ \A r \in AvailableResolutions : ~IsNotExist(r)
BY DEF IsNotExist, AvailableResolutions, MinuteResolutions, HourResolutions, MonthResolutions

\* Which requests are answered.
Request(r, start, end) ==
    [market |-> <<"BTC", "/", "ETH">>, interval |-> r, from |-> <<start>>, to |-> <<end>>]

Answered(r, req, interval) ==
    /\ \A part \in {"market", "from", "to"} :
          GetCandleChart([req EXCEPT ![part] = <<>>]).status = 400
    /\ IsNotExist(r) => GetCandleChart(req).status = 400
    /\ ~IsNotExist(r) =>
          /\ GetCandleChart(req).market = FlipMarkets(<<"ETH", "/", "BTC">>)
          /\ GetCandleChart(req).interval = interval

LEMMA Answers ==
    ASSUME NEW r, NEW start, NEW end
    PROVE  Answered(r, Request(r, start, end), TruncateInterval(start, end, r))
<1> DEFINE asked == <<"BTC", "/", "ETH">>
           req == [market |-> asked, interval |-> r, from |-> <<start>>, to |-> <<end>>]
<1>1. NormalizeMarketName(<<>>) = <<>> /\ NormalizeMarketName(asked) # <<>>
      /\ NormalizeMarketName(asked) = FlipMarkets(<<"ETH", "/", "BTC">>)
  BY NamesAreNotEmpty, MarketOfTheRequest
<1> HIDE DEF asked
<1>2. /\ req.market = asked /\ req.interval = r /\ req.from = <<start>> /\ req.to = <<end>>
      /\ req.from # <<>> /\ req.to # <<>> /\ req.from[1] = start /\ req.to[1] = end
  OBVIOUS
<1>3. \A part \in {"market", "from", "to"} :
          GetCandleChart([req EXCEPT ![part] = <<>>]).status = 400
  <2>1. GetCandleChart([req EXCEPT !["market"] = <<>>]).status = 400
    BY <1>1 DEF GetCandleChart
  <2>2. GetCandleChart([req EXCEPT !["from"] = <<>>]).status = 400
    BY DEF GetCandleChart, IllegalUnixTimestamp
  <2>3. GetCandleChart([req EXCEPT !["to"] = <<>>]).status = 400
    BY DEF GetCandleChart, IllegalUnixTimestamp
  <2> QED
    BY <2>1, <2>2, <2>3
<1>4. IsNotExist(r) => GetCandleChart(req).status = 400
  BY <1>2 DEF GetCandleChart
<1>5. ASSUME ~IsNotExist(r)
      PROVE  /\ GetCandleChart(req).market = NormalizeMarketName(asked)
             /\ GetCandleChart(req).interval = TruncateInterval(start, end, r)
  <2> HIDE DEF req
  <2>1. GetCandleChart(req) =
            [status |-> 200, market |-> NormalizeMarketName(asked),
             query |-> CandleQuery(r), interval |-> TruncateInterval(start, end, r)]
    BY <1>1, <1>2, <1>5 DEF GetCandleChart
  <2> QED
    BY <2>1
<1> QED
  BY <1>1, <1>3, <1>4, <1>5 DEF Answered, Request, asked

\* A chart request is answered if all its parts are there, and only then; the market is
\* asked for by the name it is stored under, and the interval is widened to hold every
\* window whole that it touches, and not two windows more.
THEOREM RequestsHoldWholeWindowsHolds ==
    ASSUME EveryFourthIsLeap
    PROVE  Spec => []RequestsHoldWholeWindows
<1>1. ClockInv => RequestsHoldWholeWindows
  <2> SUFFICES ASSUME ClockInv PROVE RequestsHoldWholeWindows
    OBVIOUS
  <2>1. /\ now \in Int /\ TheStart <= now /\ now < TheEnd
        /\ from \in Int /\ now - 340 * Day <= from /\ from <= now
    BY DEF ClockInv
  <2>2. TheStart - 340 * Day <= from
    BY <2>1, ClockDays DEF Day, Hour, Minute
  <2>3. \A r \in EvenResolutions : Holds(r, from, now, TruncateInterval(from, now, r))
    <3> SUFFICES ASSUME NEW r \in EvenResolutions
                 PROVE  Holds(r, from, now, TruncateInterval(from, now, r))
      OBVIOUS
    <3> DEFINE d == Length(r)
    <3>1. d \in Nat \ {0} /\ r \in AvailableResolutions \ MonthResolutions
      BY LengthType, KindsOfResolutions
    <3>2. \A m, y : ToDuration(r, m, y) = d
      BY <2>1, EvenWindows
    <3>3. \A x \in Int : Open(r, x) = Truncate(x, d)
      BY EvenWindows
    <3> HIDE DEF d
    <3>4. Truncate(from, d) - 1 \in Int /\ Truncate(from, d) - d \in Int
      <4>1. Truncate(from, d) \in Int
        BY <2>1, <3>1, TruncateType
      <4> QED
        BY <3>1, <4>1
    <3> QED
      BY <2>1, <3>1, <3>2, <3>3, <3>4, MultiplesHold
  <2>4. \A r \in MonthResolutions : Holds(r, from, now, TruncateInterval(from, now, r))
    BY <2>1, <2>2, MonthsHold
  <2>5. Holds("1W", from, now, TruncateInterval(from, now, "1W"))
    <3> DEFINE d == 7 * Day
               first == Truncate(from, d)
    <3>1. d \in Nat \ {0} /\ d = 20160 /\ Day = 2880
      BY DEF Day, Hour, Minute
    <3>2. "1W" \in AvailableResolutions \ MonthResolutions
      BY KindsOfResolutions
    <3>3. \A m, y : ToDuration("1W", m, y) = d
      BY WeekKind
    <3> HIDE DEF d
    <3>4. first \in Int /\ first <= from /\ from < first + d
      BY <2>1, <3>1, TruncateType
    <3>5. \A x \in Int : InsideWeek(DayOf(x)) => Open("1W", x) = Truncate(x, d)
      BY WeekWindows, WeekKind DEF d
    <3>6. InsideWeek(DayOf(from)) /\ InsideWeek(DayOf(now))
      BY <2>1, <2>2, <3>1, NearTheClock, ClockDays
    <3> HIDE DEF first
    <3>7. InsideWeek(DayOf(first - 1)) /\ InsideWeek(DayOf(first - d))
      <4>1. /\ first - 1 \in Int /\ first - d \in Int
            /\ TheStart - 360 * Day <= first - 1 /\ first - 1 < TheEnd + 40 * Day
            /\ TheStart - 360 * Day <= first - d /\ first - d < TheEnd + 40 * Day
        BY <2>1, <2>2, <3>1, <3>4, ClockDays
      <4>2. /\ TheStart - 400 * Day <= first - 1 /\ TheStart - 400 * Day <= first - d
        BY <3>1, <4>1, ClockDays
      <4> QED
        BY <4>1, <4>2, NearTheClock
    <3>8. \A x \in {from, now, first - 1, first - d} : Open("1W", x) = Truncate(x, d)
      BY <2>1, <3>1, <3>4, <3>5, <3>6, <3>7
    <3> QED
      BY <2>1, <3>1, <3>2, <3>3, <3>8, MultiplesHold DEF first
  <2>6. \A r \in AvailableResolutions : Holds(r, from, now, TruncateInterval(from, now, r))
    BY <2>3, <2>4, <2>5, KindsOfResolutions
  <2> SUFFICES ASSUME NEW r \in AvailableResolutions \cup {"7"}
               PROVE  LET req == [market |-> <<"BTC", "/", "ETH">>, interval |-> r,
                                  from |-> <<from>>, to |-> <<now>>]
                          answer == GetCandleChart(req)
                          interval == answer.interval
                          first == Open(r, from)
                          last == CalculateCloseTime(Open(r, now), r)
                      IN  /\ \A part \in {"market", "from", "to"} :
                                GetCandleChart([req EXCEPT ![part] = <<>>]).status = 400
                          /\ IF IsNotExist(r) THEN answer.status = 400
                             ELSE /\ answer.market = FlipMarkets(<<"ETH", "/", "BTC">>)
                                  /\ interval[1] <= first /\ last <= interval[2]
                                  /\ Open(r, interval[1]) = interval[1]
                                  /\ Open(r, interval[1]) >= Open(r, first - 1)
                                  /\ interval[2] <= last + 1
    BY DEF RequestsHoldWholeWindows
  <2> DEFINE flipped == FlipMarkets(<<"ETH", "/", "BTC">>)
             req == Request(r, from, now)
             answer == GetCandleChart(req)
  <2>7. /\ \A part \in {"market", "from", "to"} :
               GetCandleChart([req EXCEPT ![part] = <<>>]).status = 400
        /\ IsNotExist(r) => answer.status = 400
        /\ ~IsNotExist(r) => answer.market = flipped
                          /\ answer.interval = TruncateInterval(from, now, r)
    <3>1. Answered(r, req, TruncateInterval(from, now, r))
      BY Answers
    <3> HIDE DEF req
    <3> QED
      BY <3>1 DEF Answered
  <2>8. ~IsNotExist(r) => r \in AvailableResolutions
    BY NotExist
  <2> HIDE DEF flipped, answer
  <2>9. ~IsNotExist(r) =>
            /\ answer.market = flipped
            /\ Holds(r, from, now, answer.interval)
    BY <2>6, <2>7, <2>8
  <2> QED
    BY <2>7, <2>9 DEF Holds, flipped, answer, Request
<1> QED
  BY <1>1, ClockInvHolds, PTL
===============================================================================
