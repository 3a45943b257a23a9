-------------------------------- MODULE Candles --------------------------------
(***************************************************************************)
(* Candles, their windows and the pure operations on them: domain.Candle,  *)
(* Candle.ContainsTs, CalculateCloseTime, the start of a window, the fresh *)
(* candle, updateCandle and ChartToCurrentCandle.                          *)
(*                                                                         *)
(* Time is counted in ticks.  The last tick of a window stands for its     *)
(* last nanosecond, which CalculateCloseTime takes off the window; every   *)
(* other tick stands for an instant well inside it.                        *)
(***************************************************************************)
EXTENDS Decimals

CONSTANTS
    Markets,      \* the traded markets
    Resolutions,  \* the candle resolutions ("1", "60", "1D", ...)
    Duration,     \* Duration[r]: the length of a window of resolution r, in ticks
    Prices,       \* the prices deals are made at
    Amounts       \* the amounts traded, in the smallest unit of the asset

ASSUME ResolutionAssumption == Duration \in [Resolutions -> Nat \ {0}]
ASSUME PriceAssumption == Prices \subseteq Decimal
ASSUME AmountAssumption == Amounts \subseteq Nat \ {0}

Candle == [symbol : Markets, resolution : Resolutions,
           open : Decimal, high : Decimal, low : Decimal, close : Decimal,
           volume : Nat, openTime : Nat, closeTime : Nat]

NoCandle == [symbol |-> "none"]

Deal == [market : Markets, createdAt : Nat, price : Prices, amount : Amounts]

-------------------------------------------------------------------------------
(***************************************************************************)
(* Windows.  Every resolution up to a day starts its windows at multiples  *)
(* of its length (getStartMinuteTs and getStartHourTs work within the hour *)
(* and the day, of which all lengths are divisors).                        *)
(***************************************************************************)
WindowStart(r, t) == t - (t % Duration[r])

\* The next window starts here.
WindowEnd(r, t) == WindowStart(r, t) + Duration[r]

\* One tick short of the end of the window: openTime + duration - 1ns.
CloseTime(openTime, r) == openTime + Duration[r] - 1

ContainsTs(c, t) == c.openTime <= t /\ c.closeTime > t

\* The instant is not the last nanosecond of a window of any resolution.
InsideWindows(t) == \A r \in Resolutions : t + 1 # WindowEnd(r, t)

-------------------------------------------------------------------------------
(***************************************************************************)
(* buildFreshCandle: the empty candle of the window that contains t.       *)
(***************************************************************************)
FreshCandle(m, r, t) ==
    [symbol |-> m, resolution |-> r,
     open |-> ZeroDecimal, high |-> ZeroDecimal,
     low |-> ZeroDecimal, close |-> ZeroDecimal,
     volume |-> 0,
     openTime |-> WindowStart(r, t),
     closeTime |-> CloseTime(WindowStart(r, t), r)]

\* The fresh candle of a refresh inherits the last price of the old one.
Inherit(fresh, old) ==
    [fresh EXCEPT !.open = old.close, !.high = old.close,
                  !.low = old.close, !.close = old.close]

(***************************************************************************)
(* updateCandle: the deal opens a candle without volume, closes it, and    *)
(* moves its extremes.                                                     *)
(***************************************************************************)
\* The high is taken without comparing it with the old one.
UpdateCandleHigh(c, d) ==
    [c EXCEPT !.open = IF c.volume = 0 THEN d.price ELSE @,
              !.volume = @ + d.amount,
              !.close = d.price,
              !.high = d.price,
              !.low = Lower(@, d.price)]

UpdateCandle(c, d) ==
    [c EXCEPT !.open = IF c.volume = 0 THEN d.price ELSE @,
              !.volume = @ + d.amount,
              !.close = d.price,
              !.high = Higher(@, d.price),
              !.low = Lower(@, d.price)]

-------------------------------------------------------------------------------
(***************************************************************************)
(* What the deals collection answers for one bucket, and the candle        *)
(* ChartToCurrentCandle makes of its last row.                             *)
(***************************************************************************)
Chart == [o : Prices, h : Prices, l : Prices, c : Prices, v : Nat \ {0}]

NoChart == [o |-> "none"]

ChartToCurrentCandle(chart, m, r, t) ==
    [symbol |-> m, resolution |-> r,
     open |-> chart.o, high |-> chart.h, low |-> chart.l, close |-> chart.c,
     volume |-> chart.v,
     openTime |-> t, closeTime |-> CloseTime(t, r)]

\* Every price the candle shows lies between its low and its high.
InEnvelope(c) ==
    /\ ValueOrder(c.low, c.open) <= 0
    /\ ValueOrder(c.low, c.close) <= 0
    /\ ValueOrder(c.open, c.high) <= 0
    /\ ValueOrder(c.close, c.high) <= 0

\* The same with what carries it through updateCandle: all prices are prices
\* of deals or absent, and a candle with volume has a low and a last price.
PricedCandle(c) ==
    /\ InEnvelope(c)
    /\ {c.open, c.high, c.low, c.close} \subseteq Prices \cup {ZeroDecimal}
    /\ c.volume # 0 => c.low # ZeroDecimal /\ c.close # ZeroDecimal
===============================================================================
