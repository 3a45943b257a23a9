-------------------------------- MODULE MCCharts --------------------------------
(***************************************************************************)
(* Deals handled one after the other, each first by the live candles and   *)
(* then by the database: what the live candle, the chart query and the     *)
(* aggregation of minutes to hours make of them.  Every deal is handled    *)
(* before its windows are over, and no refresh intervenes; CurrentCandles  *)
(* has both.                                                               *)
(***************************************************************************)
EXTENDS Queries

CONSTANTS
    Minute, Hour,  \* the two resolutions
    MaxLen,        \* bound: deals
    LimitNumbers   \* the numbers asked for as a limit of trades

\* The unit of a price with this exponent and of an average, which has four decimals,
\* in the finer of the two.
PriceUnit(exp) == IF exp + 4 >= 0 THEN 10^(exp + 4) ELSE 1
AverageUnit(exp) == IF exp + 4 >= 0 THEN 1 ELSE 10^(0 - exp - 4)

\* A window is a whole number of milliseconds long, and the hour of minutes.
ASSUME DurationAssumption == \A r \in Resolutions : Duration[r] % 2 = 0
ASSUME PairAssumption ==
    /\ Minute = MinuteUnit /\ {Minute, Hour} \subseteq Resolutions
    /\ Duration[Hour] % Duration[Minute] = 0

\* Prices have one number of decimals; CompareDecimal128 does not order others.
ASSUME ScaleAssumption == UniformScale(Prices)

\* Powers of ten are positive.
ASSUME UnitAssumption == \A p \in Prices : PriceUnit(p.exp) > 0 /\ AverageUnit(p.exp) > 0

\* A market has a name: a trades request without one is refused.
ASSUME MarketAssumption == "" \notin Markets

ASSUME LimitAssumption == LimitNumbers \subseteq Int

VARIABLES docs, live

Times == {t \in 0 .. Duration[Hour] - 1 : InsideWindows(t)}
Windows == {<<m, r, WindowStart(r, t)>> : m \in Markets, r \in Resolutions, t \in Times}

Init ==
    /\ docs = <<>>
    /\ live = [w \in Windows |-> FreshCandle(w[1], w[2], w[3])]

Handle(d) ==
    /\ Len(docs) < MaxLen
    /\ live' = [w \in Windows |-> IF w[1] = d.market /\ ContainsTs(live[w], d.createdAt)
                                  THEN UpdateCandle(live[w], d) ELSE live[w]]
    /\ docs' = Append(docs, Document(d))

Next == \E m \in Markets, t \in Times, p \in Prices, a \in Amounts, b \in BOOLEAN :
            /\ b <=> a = 1
            /\ Handle([market |-> m, createdAt |-> t, price |-> p, amount |-> a,
                       isBuyerMaker |-> b])

Spec == Init /\ [][Next]_<<docs, live>>

Symmetry == Permutations(Markets)

TwoDecimals == {[coef |-> n, exp |-> -2] : n \in {1, 100, 250}}

MinuteAndHour == Minute :> 4 @@ Hour :> 8

AroundLimits == {-1, 0, 1, 2, 999, 1000, 1001}

Answer(m, r) == GetChart(docs, m, r, 0, Duration[Hour] - 1)

Within(d, w) == d.market = w[1] /\ WindowStart(w[2], d.createdAt) = w[3]

OfWindow(w) == {i \in DOMAIN docs : Within(docs[i], w)}

\* The documents of a window came in the order of their time, no two at once.
InOrder(w) ==
    \A i, j \in OfWindow(w) : i < j => docs[i].createdAt < docs[j].createdAt

\* A live candle is the summary of the deals of its window, in the order they
\* came: the first and last price, the highest and lowest by value, and the sum of
\* the amounts (updateCandle, compareDecimal128).
CandleSummarises ==
    \A w \in Windows :
        LET deals == OfWindow(w)
            prices == PricesOf(docs, deals)
        IN  deals # {} =>
                /\ live[w].open = docs[Min(deals)].price
                /\ live[w].close = docs[Max(deals)].price
                /\ live[w].high = Highest(prices) /\ live[w].low = Lowest(prices)
                /\ live[w].volume = Volume(docs, deals)

\* What a chart request answers for a window is what the updates told of its
\* live candle: a row for each candle with deals, the range and volume always,
\* open and close if the deals came in the order of their time.
ChartsTellLiveCandles ==
    \A m \in Markets, r \in Resolutions :
        /\ Answer(m, r).symbol = m
        /\ {row.t : row \in Answer(m, r).rows} =
               {w[3] : w \in {x \in Windows : x[1] = m /\ x[2] = r /\ live[x].volume # 0}}
        /\ \A row \in Answer(m, r).rows :
              LET c == live[<<m, r, row.t>>]
              IN  /\ row.h = Number(c.high) /\ row.l = Number(c.low) /\ row.v = c.volume
                  /\ InOrder(<<m, r, row.t>>) =>
                        row.o = Number(c.open) /\ row.c = Number(c.close)

\* The minute candles of a market in the order of time, as Aggregator is given them.
MinuteCandles(m) ==
    LET traded == {w \in Windows : w[1] = m /\ w[2] = Minute /\ live[w].volume # 0}
    IN  {[i \in DOMAIN s |-> live[s[i]]] :
             s \in {q \in SetToSeqs(traded) : \A i, j \in DOMAIN q : i < j => q[i][3] <= q[j][3]}}

\* Minutes put together give the hour: its first open, last close and volume
\* (AggregateCandleToChartByResolution).
AggregationKeepsTotals ==
    \A m \in Markets : \A candles \in MinuteCandles(m) : \A row \in AggregateCandles(candles, Hour) :
        LET c == live[<<m, Hour, row.t>>]
        IN  /\ row.v = c.volume
            /\ InOrder(<<m, Hour, row.t>>) => row.o = c.open /\ row.c = c.close

-------------------------------------------------------------------------------
AsRow(c) == [t |-> c.openTime, o |-> c.open, h |-> c.high, l |-> c.low, c |-> c.close,
             v |-> c.volume]

\* The three pipelines over one interval (GetCandles of each market, and of all markets
\* GenerateMinuteCandles and Kline.Get) give the same minute candles, whether or not a
\* minute is cut by the interval.
MinutePipelinesAgree ==
    \A from \in Times : \A to \in {t \in Times : from <= t} :
        LET rows == UNION {GetCandles(docs, m, Minute, StoredTime(from), StoredTime(to)) :
                               m \in Markets}
        IN  /\ {AsRow(c) : c \in GenerateMinuteCandles(docs, from, to)} = rows
            /\ {AsRow(k) : k \in Klines(docs, from, to)} = rows

End == Duration[Hour] - 1

\* The average lies between the prices low and high but for half a unit.
NearPrice(average, low, high, exp) ==
    LET p == PriceUnit(exp)
        a == AverageUnit(exp)
    IN  /\ 2 * p * low - a <= 2 * a * average
        /\ 2 * a * average <= 2 * p * high + a

Summed(ks, Of(_)) == MapThenSumSet(Of, ks)

\* The statistics of a market from an instant on (GetTickerPriceChangeStatistics) are
\* those of its klines put together: volumes, quotes and counts add up, the extremes
\* and the first and last times are theirs.  The average price lies between low and
\* high but for half a unit of its last decimal, and so do the quotes of the takers.
StatisticsSumUpKlines ==
    \A from \in Times : \A s \in Statistics(docs, Markets, from) :
        LET all == {k \in Klines(docs, from, End) : k.symbol = s.symbol}
            \* one kline of each minute, whatever its open and close are
            ks == {CHOOSE k \in all : k.openTime = t : t \in {k.openTime : k \in all}}
            first == CHOOSE k \in ks : \A j \in ks : k.openTime <= j.openTime
            last == CHOOSE k \in ks : \A j \in ks : j.openTime <= k.openTime
        IN  /\ s.volume = Summed(ks, LAMBDA k : k.volume)
            /\ s.quoteVolume = Summed(ks, LAMBDA k : k.quotes)
            /\ s.count = Summed(ks, LAMBDA k : k.trades)
            /\ s.highPrice = Highest({k.high : k \in ks})
            /\ s.lowPrice = Lowest({k.low : k \in ks})
            /\ s.openTime = first.first /\ s.closeTime = last.last
            /\ \E k \in all : k.openTime = first.openTime /\ k.open = s.openPrice
            /\ \E k \in all : k.openTime = last.openTime /\ k.close = s.lastPrice
            /\ NearPrice(s.weightedAvgPrice, s.lowPrice.coef, s.highPrice.coef, s.openPrice.exp)
            /\ \A k \in all :
                  /\ k.openTime <= k.first /\ k.first <= k.last /\ k.last < k.closeTime
                  /\ k.low.coef * k.takerAssets <= k.takerQuotes
                  /\ k.takerQuotes <= k.high.coef * k.takerAssets

Limits == {[kind |-> "missing"], [kind |-> "text"]}
          \cup {[kind |-> "number", number |-> n] : n \in LimitNumbers}

\* What neither the code nor the description of the API takes for a limit.
NoLimit(p) ==
    p.kind = "text" \/ (p.kind = "number" /\ (p.number < 1 \/ p.number > 1000))

\* A trades request whose limit is between 1 and 999 is answered with the latest trades
\* of the market, each once, the newest first, as many as there are up to the limit;
\* the gRPC handler answers the same.  A limit below 1 or above 1000, or one that is no
\* number, is refused.  Nothing is said of 1000 itself and of a missing limit: the code
\* refuses both, api/openapi.yaml:151 says "Default 500; max 1000."
NewestTradesFirst ==
    \A m \in Markets, p \in Limits : \A r \in ApiV1TradesGet(docs, m, p) :
        LET n == Len(r.body)
            shown == {r.body[k].id : k \in 1 .. n}
            mine == {i \in DOMAIN docs : docs[i].market = m}
        IN  /\ NoLimit(p) => r = Response(400, <<>>)
            /\ p.kind = "number" /\ p.number \in 1 .. 999 =>
                  /\ r.code = 200 /\ Cardinality(shown) = n /\ shown \subseteq mine
                  /\ n = p.number \/ (n < p.number /\ shown = mine)
                  /\ \A j, k \in 1 .. n : j < k => r.body[j].time >= r.body[k].time
                  /\ \A k \in 1 .. n : \A i \in mine \ shown :
                        docs[i].createdAt <= r.body[k].time
                  /\ r.body \in GrpcGetLastTrades(docs, m, p.number)
===============================================================================
