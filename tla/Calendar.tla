-------------------------------- MODULE Calendar --------------------------------
(***************************************************************************)
(* The windows of all resolutions, weeks and months among them: where a    *)
(* window starts (aggregator.go), how long it lasts (resolution.go), what  *)
(* the database is asked to group by (candle.go) and which interval a      *)
(* chart query asks for (handler/candle.go).                               *)
(*                                                                         *)
(* Instants are ticks since Monday, 1 January 2001, in UTC, two to a       *)
(* minute: the even tick is an instant inside the minute, the odd one its  *)
(* last nanosecond.  Go's zero time, from which Truncate counts, is a      *)
(* whole number of weeks before.                                           *)
(***************************************************************************)
EXTENDS Integers, Sequences, FiniteSets, Functions

CONSTANT Years   \* the years of the instants, one more on either side

ASSUME YearsAssumption == Years \subseteq Int

Minute == 2
Hour == 60 * Minute
Day == 24 * Hour

-------------------------------------------------------------------------------
(***************************************************************************)
(* The Gregorian calendar of Go's package time.  Days are numbered like    *)
(* ticks, Monday is weekday 0.                                             *)
(***************************************************************************)
IsLeap(y) == y % 4 = 0 /\ (y % 100 # 0 \/ y % 400 = 0)

LeapDaysBefore(y) == (y - 1) \div 4 - (y - 1) \div 100 + (y - 1) \div 400

YearStart(y) == 365 * (y - 2001) + LeapDaysBefore(y) - LeapDaysBefore(2001)

\* time.Date(y, m, 1): the month after December is the next January.
MonthStart(y, m) ==
    IF m = 13 THEN YearStart(y + 1)
    ELSE YearStart(y) + <<0, 31, 59, 90, 120, 151, 181, 212, 243, 273, 304, 334>>[m]
                      + (IF m > 2 /\ IsLeap(y) THEN 1 ELSE 0)

DayOf(t) == t \div Day
HourOf(t) == (t \div Hour) % 24
MinuteOf(t) == (t \div Minute) % 60
Truncate(t, d) == t - (t % d)

YearOfDay(d) == CHOOSE y \in Years : YearStart(y) <= d /\ d < YearStart(y + 1)
YearOf(t) == YearOfDay(DayOf(t))
MonthOf(t) == LET y == YearOf(t)
              IN  CHOOSE m \in 1 .. 12 :
                      MonthStart(y, m) <= DayOf(t) /\ DayOf(t) < MonthStart(y, m + 1)

Weekday(d) == d % 7

\* The year and number of an ISO week are those of its Thursday.
ISOWeek(d) == LET thursday == d - Weekday(d) + 3
                  y == YearOfDay(thursday)
              IN  [year |-> y, week |-> (thursday - YearStart(y)) \div 7 + 1]

-------------------------------------------------------------------------------
(***************************************************************************)
(* Resolutions and how long their windows last.                            *)
(***************************************************************************)
MinuteResolutions == {"1", "3", "5", "15", "30"}
HourResolutions == {"60", "120", "240", "360", "720", "1D", "1H", "2H", "4H", "6H", "12H"}
MonthResolutions == {"1MH", "1M"}
AvailableResolutions == MinuteResolutions \cup HourResolutions \cup MonthResolutions \cup {"1W"}

IsNotExist(r) == r \notin AvailableResolutions

\* How many minutes or hours: what the names say.
MinutesIn(r) == CASE r = "1" -> 1 [] r = "3" -> 3 [] r = "5" -> 5
                  [] r = "15" -> 15 [] r = "30" -> 30
HoursIn(r) == CASE r \in {"60", "1H"} -> 1 [] r \in {"120", "2H"} -> 2
                [] r \in {"240", "4H"} -> 4 [] r \in {"360", "6H"} -> 6
                [] r \in {"720", "12H"} -> 12 [] r = "1D" -> 24

\* A bug: February always has 28 days.
MonthDurationNoLeap(m, y) ==
    Day * (CASE m \in {1, 3, 5, 7, 8, 10, 12} -> 31 [] m = 2 -> 28 [] OTHER -> 30)

\* Every fourth year counts as a leap year.
MonthDuration(m, y) ==
    Day * (CASE m \in {1, 3, 5, 7, 8, 10, 12} -> 31
             [] m = 2 -> IF y % 4 = 0 THEN 29 ELSE 28
             [] OTHER -> 30)

ToDuration(r, m, y) ==
    CASE r \in MinuteResolutions -> MinutesIn(r) * Minute
      [] r \in HourResolutions -> HoursIn(r) * Hour
      [] r = "1W" -> 7 * Day
      [] r \in MonthResolutions -> MonthDuration(m, y)

\* openTime + duration - 1ns.
CalculateCloseTime(openTime, r) ==
    openTime + ToDuration(r, MonthOf(openTime), YearOf(openTime)) - 1

-------------------------------------------------------------------------------
(***************************************************************************)
(* The start of a window.                                                  *)
(***************************************************************************)
\* A bug: the seconds are kept.
StartMinuteUntruncated(t, n) == t - (MinuteOf(t) % n) * Minute

StartMinute(t, n) == Truncate(t - (MinuteOf(t) % n) * Minute, Minute)
StartHour(t, n) == Truncate(t - (HourOf(t) % n) * Hour, Hour)
StartMonth(t) == Day * MonthStart(YearOf(t), MonthOf(t))

\* A loop of firstDayOfISOWeek: day after day until Reached holds, which it does
\* within a year of 53 weeks.
FirstFrom(day, Reached(_)) ==
    CHOOSE d \in day .. day + 53 * 7 :
        Reached(d) /\ \A e \in day .. d - 1 : ~Reached(e)

\* Back to Monday from 30 November of the year before, then forward to the
\* first day of the year, then to that of the week.
FirstDayOfISOWeek(y, week) ==
    LET novemberEnd == MonthStart(y - 1, 12) - 1
        monday == novemberEnd - Weekday(novemberEnd)
        firstOfYear == FirstFrom(monday, LAMBDA d : ISOWeek(d).year >= y)
    IN  FirstFrom(firstOfYear, LAMBDA d : ISOWeek(d).week >= week)

StartWeek(t) == LET w == ISOWeek(DayOf(t)) IN Day * FirstDayOfISOWeek(w.year, w.week)

GetResolutionStartTimestampByTime(r, t) ==
    CASE r \in MinuteResolutions -> StartMinute(t, MinutesIn(r))
      [] r \in HourResolutions -> StartHour(t, HoursIn(r))
      [] r \in MonthResolutions -> StartMonth(t)
      [] r = "1W" -> StartWeek(t)

(***************************************************************************)
(* AggregateCandleToChartByResolution: the window a candle of a finer      *)
(* resolution is added to.  Unlike StartMinute, the minutes keep their     *)
(* seconds; minute candles have none.                                      *)
(***************************************************************************)
AggregateMinutes(openTime, n) == openTime - (MinuteOf(openTime) % n) * Minute
AggregateHours(openTime, n) == Truncate(openTime - (HourOf(openTime) % n) * Hour, Hour)
AggregateMonth(openTime) == Day * MonthStart(YearOf(openTime), MonthOf(openTime))
AggregateWeek(openTime) ==
    LET w == ISOWeek(DayOf(openTime)) IN Day * FirstDayOfISOWeek(w.year, w.week)

AggregateTimestamp(openTime, r) ==
    CASE r \in MinuteResolutions -> AggregateMinutes(openTime, MinutesIn(r))
      [] r \in HourResolutions -> AggregateHours(openTime, HoursIn(r))
      [] r \in MonthResolutions -> AggregateMonth(openTime)
      [] r = "1W" -> AggregateWeek(openTime)

-------------------------------------------------------------------------------
(***************************************************************************)
(* What the database is asked.                                             *)
(***************************************************************************)
\* GetCandleByResolution: unit and size of the groups.
CandleQuery(r) ==
    CASE r \in MinuteResolutions -> <<"minute", MinutesIn(r)>>
      [] r \in HourResolutions \ {"1D"} -> <<"hour", HoursIn(r)>>
      [] r = "1D" -> <<"day", 1>>
      [] r \in MonthResolutions -> <<"month", 1>>
      [] r = "1W" -> <<"week", 1>>

\* A second table, GetResolution: half an hour is three minutes, and "1H" is
\* missing.
GetResolution(r) ==
    CASE r = "30" -> <<"minute", 3>>
      [] r \in MinuteResolutions \ {"30"} -> <<"minute", MinutesIn(r)>>
      [] r \in HourResolutions \ {"1D", "1H"} -> <<"hour", HoursIn(r)>>
      [] r = "1D" -> <<"day", 1>>
      [] r \in MonthResolutions -> <<"month", 1>>
      [] r = "1W" -> <<"week", 1>>
      [] OTHER -> <<"", 0>>

\* MongoDB counts bins from 1 January 2000 and starts weeks on Sunday.
Reference == Day * YearStart(2000)

DateTrunc(query, t) ==
    LET unit == query[1]
        bin == query[2] * (CASE unit = "minute" -> Minute [] unit = "hour" -> Hour
                             [] unit = "day" -> Day [] OTHER -> 0)
    IN  CASE unit = "week" -> Truncate(t, Day) - Day * ((Weekday(DayOf(t)) + 1) % 7)
          [] unit = "month" -> StartMonth(t)
          [] OTHER -> Reference + Truncate(t - Reference, bin)

(***************************************************************************)
(* truncateInterval: the interval a chart request is widened to.           *)
(***************************************************************************)
\* A bug: the end is only rounded down.
TruncateIntervalDown(from, to, r) ==
    LET length == ToDuration(r, 0, YearOf(from))
    IN  <<Truncate(from - length, length), Truncate(to, length)>>

TruncateInterval(from, to, r) ==
    IF r \in MonthResolutions
    THEN <<Day * MonthStart(YearOf(from), MonthOf(from)),
           Day * MonthStart(YearOf(to), MonthOf(to) + 1) - 1>>
    ELSE LET length == ToDuration(r, 0, YearOf(from))
         IN  <<Truncate(from - length, length), Truncate(to + length, length)>>

(***************************************************************************)
(* GetCandleChart, of the HTTP handler.  A request has a name, whose       *)
(* slashes may be escaped, an interval in capitals, and two instants,      *)
(* <<>> when there is no whole number.                                     *)
(***************************************************************************)
NormalizeMarketName(market) ==
    [i \in DOMAIN market |-> IF market[i] \in {"%2F", "/"} THEN "_" ELSE market[i]]

\* The exchange names a market the other way round: the client of its API swaps
\* what is left and right of the first slash.
FlipMarkets(name) ==
    IF "/" \notin Range(name) THEN name
    ELSE LET index == CHOOSE i \in DOMAIN name :
                          name[i] = "/" /\ \A j \in 1 .. i - 1 : name[j] # "/"
         IN  SubSeq(name, index + 1, Len(name)) \o <<"_">> \o SubSeq(name, 1, index - 1)

IllegalUnixTimestamp == [status |-> 400]

GetCandleChart(req) ==
    CASE NormalizeMarketName(req.market) = <<>> \/ IsNotExist(req.interval) ->
             [status |-> 400]
      [] req.from = <<>> \/ req.to = <<>> -> IllegalUnixTimestamp
      [] OTHER -> [status |-> 200, market |-> NormalizeMarketName(req.market),
                   query |-> CandleQuery(req.interval),
                   interval |-> TruncateInterval(req.from[1], req.to[1], req.interval)]
===============================================================================
