--------------------------------- MODULE Charts ---------------------------------
(***************************************************************************)
(* Charts: the rows Storage.GetCandles computes from the stored deals, and *)
(* the rows Aggregator makes of finer candles.  A chart's parallel slices  *)
(* are rows here.                                                          *)
(*                                                                         *)
(* The database keeps milliseconds: an odd tick shares its millisecond     *)
(* with the tick before, and the last nanosecond of a window with the      *)
(* instants before it.                                                     *)
(***************************************************************************)
EXTENDS Candles, Sequences, SequencesExt, FiniteSetsExt, Functions

\* SaveDeal's document: primitive.NewDateTimeFromTime cuts the nanoseconds off.
StoredTime(createdAt) == createdAt - (createdAt % 2)

Document(d) == [d EXCEPT !.createdAt = StoredTime(@)]

Highest(prices) == CHOOSE p \in prices : \A q \in prices : ValueOrder(q, p) <= 0
Lowest(prices) == CHOOSE p \in prices : \A q \in prices : ValueOrder(p, q) <= 0

PricesOf(docs, S) == {docs[i].price : i \in S}

(***************************************************************************)
(* GetCandles: the documents of the market in the interval, both ends      *)
(* included, sorted by time and grouped by window; the first price of a    *)
(* group is its open, the last its close.  The order of documents of one   *)
(* millisecond is the database's choice, so a group has several rows.      *)
(***************************************************************************)
Matching(docs, m, from, to) ==
    {i \in DOMAIN docs : /\ docs[i].market = m
                         /\ from <= docs[i].createdAt /\ docs[i].createdAt <= to}

Earliest(docs, S) == {i \in S : \A j \in S : docs[i].createdAt <= docs[j].createdAt}
Latest(docs, S) == {i \in S : \A j \in S : docs[j].createdAt <= docs[i].createdAt}

\* A bug: the documents are sorted the other way round.
RowsUnsorted(docs, S, t) ==
    [t : {t}, o : PricesOf(docs, Latest(docs, S)), c : PricesOf(docs, Earliest(docs, S)),
     h : {Highest(PricesOf(docs, S))}, l : {Lowest(PricesOf(docs, S))},
     v : {MapThenSumSet(LAMBDA i : docs[i].amount, S)}]

Rows(docs, S, t) ==
    [t : {t}, o : PricesOf(docs, Earliest(docs, S)), c : PricesOf(docs, Latest(docs, S)),
     h : {Highest(PricesOf(docs, S))}, l : {Lowest(PricesOf(docs, S))},
     v : {MapThenSumSet(LAMBDA i : docs[i].amount, S)}]

GetCandles(docs, m, r, from, to) ==
    LET S == Matching(docs, m, from, to)
        Group(t) == {i \in S : WindowStart(r, docs[i].createdAt) = t}
    IN  UNION {Rows(docs, Group(t), t) : t \in {WindowStart(r, docs[i].createdAt) : i \in S}}

\* The JSON number of a decimal, a float: its value, in units that every price of
\* the instance is a whole number of.
Number(d) == Scaled(d, -6)

\* MakeChartResponse, of GetChart: the rows as numbers, under the market's name.
MakeChartResponse(m, rows) ==
    [symbol |-> m,
     rows |-> {[t |-> row.t, o |-> Number(row.o), h |-> Number(row.h), l |-> Number(row.l),
                c |-> Number(row.c), v |-> row.v] : row \in rows}]

GetChart(docs, m, r, from, to) == MakeChartResponse(m, GetCandles(docs, m, r, from, to))

(***************************************************************************)
(* Aggregator: candles of a resolution made of finer ones, one after the   *)
(* other.                                                                  *)
(***************************************************************************)
\* A bug: the earlier candle gives the close.
CompareSwapped(c, k) ==
    [open |-> IF c.openTime < k.openTime THEN k.open ELSE c.open,
     close |-> IF c.openTime < k.openTime THEN c.close ELSE k.close,
     high |-> IF CompareDecimal128(c.high, k.high) = -1 THEN k.high ELSE ZeroDecimal,
     low |-> IF CompareDecimal128(c.low, k.low) = 1 THEN k.low ELSE ZeroDecimal,
     volume |-> c.volume + k.volume,
     openTime |-> k.openTime]

\* The high and the low are set only if they are those of the second candle.
Compare(c, k) ==
    [open |-> IF c.openTime < k.openTime THEN c.open ELSE k.open,
     close |-> IF c.openTime < k.openTime THEN k.close ELSE c.close,
     high |-> IF CompareDecimal128(c.high, k.high) = -1 THEN k.high ELSE ZeroDecimal,
     low |-> IF CompareDecimal128(c.low, k.low) = 1 THEN k.low ELSE ZeroDecimal,
     volume |-> c.volume + k.volume,
     openTime |-> k.openTime]

\* GenerateChart, for one entry of the map.
Row(t, c) == [t |-> t, o |-> c.open, h |-> c.high, l |-> c.low, c |-> c.close, v |-> c.volume]

\* The key of a candle in the map: minutes or hours are taken off its open time.
Timestamp(r, c) == WindowStart(r, c.openTime)

\* The candles at the places S, one after the other.
Compared(candles, S) ==
    MapThenFoldSet(LAMBDA k, c : Compare(c, k), candles[Min(S)], LAMBDA i : candles[i],
                   Max, S \ {Min(S)})

AggregateCandles(candles, r) ==
    LET Group(t) == {i \in DOMAIN candles : Timestamp(r, candles[i]) = t}
    IN  {Row(t, Compared(candles, Group(t))) :
             t \in {Timestamp(r, candles[i]) : i \in DOMAIN candles}}
===============================================================================
