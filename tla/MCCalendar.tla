------------------------------- MODULE MCCalendar -------------------------------
(***************************************************************************)
(* A clock that walks through the calendar, and a chart request that ends  *)
(* at it: the operators of Calendar against what windows should be.        *)
(***************************************************************************)
EXTENDS Calendar

CONSTANTS
    FirstYear, LastYear,  \* the clock runs from the one to the end of the other
    Lookback              \* the days a request may span

VARIABLES now, from

SomeYears == FirstYear - 2 .. LastYear + 1

ASSUME ClockAssumption ==
    FirstYear \in Int /\ LastYear \in Int /\ FirstYear <= LastYear /\ Years = SomeYears
ASSUME LookbackAssumption == Lookback \subseteq 0 .. 340

\* ToDuration takes every fourth year for a leap year: 2100 is the next that is not.
EveryFourthIsLeap == \A y \in Years : y % 4 = 0 => IsLeap(y)

TheEnd == Day * YearStart(LastYear + 1)

TheStart == Day * YearStart(FirstYear)

\* The clock stops at every tick of the first hour, and at the first and the last
\* tick of the other hours of that day and of the other days: what happens within
\* an hour or a day does not depend on which it is.
Stretch == IF now < TheStart + Hour THEN 1 ELSE IF now < TheStart + Day THEN Hour ELSE Day

NextStop == IF Stretch = 1 \/ now % Stretch # 0 THEN now + 1 ELSE now + Stretch - 1

Init == now = TheStart /\ from = now

Next ==
    /\ NextStop < TheEnd
    /\ now' = NextStop
    /\ \E days \in Lookback : from' = now' - days * Day

Spec == Init /\ [][Next]_<<now, from>>

Open(r, t) == GetResolutionStartTimestampByTime(r, t)

\* Where the window that starts at open ends, by the length ToDuration gives it.
NextOpen(r, open) == open + ToDuration(r, MonthOf(open), YearOf(open))

\* The windows of a resolution tile time, weeks and months too: two functions that
\* know nothing of each other, GetResolutionStartTimestampByTime and ToDuration, agree
\* on where the window of an instant ends and the next one starts, down to the last
\* nanosecond.  Aggregator puts the candle of the minute into the same window.  A candle
\* closes at that border: CalculateCloseTime takes the nanosecond before it, the tests
\* of the live candles (candle/current_candles_test.go) the border itself, and the
\* property has no opinion on which of the two it should be.
WindowsTileTime ==
    \A r \in AvailableResolutions :
        LET open == Open(r, now)
            next == NextOpen(r, open)
        IN  /\ open <= now /\ now < next
            /\ Open(r, open) = open
            /\ Open(r, next - 1) = open
            /\ Open(r, next) = next
            /\ CalculateCloseTime(open, r) \in {next - 1, next}
            /\ AggregateTimestamp(Open("1", now), r) = open

\* GetCandleByResolution groups the stored deals by the windows of the live
\* candles, for every resolution but the week, and so would the table
\* GetResolution, but for the half hour, which it calls three minutes, and "1H",
\* which it lacks.
DatabaseHasTheWindows ==
    /\ \A r \in AvailableResolutions \ {"1W"} :
          DateTrunc(CandleQuery(r), now) = Open(r, now)
    /\ \A r \in AvailableResolutions \ {"1W", "30", "1H"} :
          DateTrunc(GetResolution(r), now) = Open(r, now)

\* A chart request (GetCandleChart) is answered if all its parts are there, and only
\* then.  The market is asked for by the name it is stored under (flipMarkets), and the
\* interval is widened (truncateInterval) to hold every window whole that it touches,
\* and not two windows more.
RequestsHoldWholeWindows ==
    \A r \in AvailableResolutions \cup {"7"} :
        LET req == [market |-> <<"BTC", "/", "ETH">>, interval |-> r,
                    from |-> <<from>>, to |-> <<now>>]
            answer == GetCandleChart(req)
            interval == answer.interval
            first == Open(r, from)
            last == CalculateCloseTime(Open(r, now), r)
        IN  /\ \A part \in {"market", "from", "to"} :
                  GetCandleChart([req EXCEPT ![part] = <<>>]).status = 400
            /\ IF IsNotExist(r) THEN answer.status = 400
               ELSE /\ answer.market = FlipMarkets(<<"ETH", "/", "BTC">>)
                    /\ interval[1] <= first /\ last <= interval[2]
                    /\ Open(r, interval[1]) = interval[1]
                    /\ Open(r, interval[1]) >= Open(r, first - 1)
                    /\ interval[2] <= last + 1

\* The test of aggregateWeekCandlesToChart has the week chart of Monday, 20
\* January 2020, start on that day: so should those of GetCandleByResolution.
WeekChartsStartOnMonday ==
    DateTrunc(CandleQuery("1W"), now) = Open("1W", now)
===============================================================================
