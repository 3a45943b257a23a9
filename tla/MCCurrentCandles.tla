--------------------------- MODULE MCCurrentCandles ---------------------------
(***************************************************************************)
(* Small instances of CurrentCandles.  A minute is two ticks, the second   *)
(* of which is its last nanosecond; an "hour" is two minutes.              *)
(***************************************************************************)
EXTENDS CurrentCandles, FiniteSetsExt

MinuteAndHour == [r \in Resolutions |-> IF r = "1" THEN 2 ELSE 4]

Cents(n) == [coef |-> n, exp |-> -2]

\* Prices with two decimals.
UniformPrices == {Cents(100), Cents(250)}

\* The deals in the database when the service starts, for MCStored.
StoredDeals == {[market |-> "btc", at |-> 0, price |-> Cents(250), amount |-> 2]}

\* What the aggregation over StoredDeals returns at instant t.
ChartOf(m, r, t) ==
    LET rows == {d \in StoredDeals : /\ d.market = m
                                     /\ WindowStart(r, d.at) = WindowStart(r, t)
                                     /\ d.at <= t}
        last == CHOOSE d \in rows : \A e \in rows : e.at <= d.at
        first == CHOOSE d \in rows : \A e \in rows : d.at <= e.at
        highest == CHOOSE d \in rows : \A e \in rows : e.price.coef <= d.price.coef
        lowest == CHOOSE d \in rows : \A e \in rows : d.price.coef <= e.price.coef
    IN  IF rows = {} THEN NoChart
        ELSE [o |-> first.price, h |-> highest.price, l |-> lowest.price,
              c |-> last.price, v |-> MapThenSumSet(LAMBDA d : d.amount, rows)]

MCStored ==
    [m \in Markets |-> [r \in Resolutions |-> [t \in Instants |-> ChartOf(m, r, t)]]]

\* No instant is the last nanosecond of a window.
WholeMinutes == {0, 2, 4, 6}

\* The instances are among those the theorems are about.
ASSUME TheoremsApply ==
    /\ InstantsInside /\ UniformScale(Prices) /\ MaxSkew = 0
    /\ ChartsPriced /\ DatabaseNests /\ DatabaseWaits
===============================================================================
