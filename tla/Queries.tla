-------------------------------- MODULE Queries --------------------------------
(***************************************************************************)
(* The other queries over the deals collection and the answers made of     *)
(* them: minute candles, minute klines, the statistics behind the 24 hour  *)
(* tickers, average prices and the latest trades.                          *)
(*                                                                         *)
(* A document's place in docs is its deal id.  Documents of one            *)
(* millisecond come in any order, so a query has a set of answers.  All    *)
(* prices of a market have one exponent, and quotes are counted in it.     *)
(***************************************************************************)
EXTENDS Charts

MinuteUnit == "1"

Quotes(d) == d.price.coef * d.amount

Total(docs, S, Of(_)) == MapThenSumSet(LAMBDA i : Of(docs[i]), S)

Volume(docs, S) == Total(docs, S, LAMBDA d : d.amount)

-------------------------------------------------------------------------------
(***************************************************************************)
(* Both minute pipelines: the documents of the interval, both ends         *)
(* included, grouped by market and minute.  They sort by time from the     *)
(* newest, as GetCandles does, so the last of a group is the earliest.     *)
(***************************************************************************)
MinuteGroups(docs, from, to) ==
    LET S == {i \in DOMAIN docs : /\ StoredTime(from) <= docs[i].createdAt
                                  /\ docs[i].createdAt <= StoredTime(to)}
        Id(i) == <<docs[i].market, WindowStart(MinuteUnit, docs[i].createdAt)>>
    IN  [id \in {Id(i) : i \in S} |-> {i \in S : Id(i) = id}]

\* A bug: the documents are taken from the oldest, as in Statistics.
MinuteCandlesReversed(docs, id, S) ==
    [symbol : {id[1]}, openTime : {id[2]},
     open : PricesOf(docs, Latest(docs, S)), close : PricesOf(docs, Earliest(docs, S)),
     high : {Highest(PricesOf(docs, S))}, low : {Lowest(PricesOf(docs, S))},
     volume : {Volume(docs, S)}]

MinuteCandlesOf(docs, id, S) ==
    [symbol : {id[1]}, openTime : {id[2]},
     open : PricesOf(docs, Earliest(docs, S)), close : PricesOf(docs, Latest(docs, S)),
     high : {Highest(PricesOf(docs, S))}, low : {Lowest(PricesOf(docs, S))},
     volume : {Volume(docs, S)}]

GenerateMinuteCandles(docs, from, to) ==
    LET groups == MinuteGroups(docs, from, to)
    IN  UNION {MinuteCandlesOf(docs, id, groups[id]) : id \in DOMAIN groups}

\* A minute candle with what a kline has besides; "taker" are the deals whose buyer is
\* the maker.
KlinesOf(docs, id, S) ==
    LET taker == {i \in S : docs[i].isBuyerMaker}
        times == {docs[i].createdAt : i \in S}
    IN  [symbol : {id[1]}, openTime : {id[2]}, closeTime : {id[2] + Duration[MinuteUnit]},
         open : PricesOf(docs, Earliest(docs, S)), close : PricesOf(docs, Latest(docs, S)),
         high : {Highest(PricesOf(docs, S))}, low : {Lowest(PricesOf(docs, S))},
         volume : {Volume(docs, S)}, quotes : {Total(docs, S, Quotes)},
         first : {Min(times)}, last : {Max(times)}, trades : {Cardinality(S)},
         takerAssets : {Volume(docs, taker)}, takerQuotes : {Total(docs, taker, Quotes)}]

Klines(docs, from, to) ==
    LET groups == MinuteGroups(docs, from, to)
    IN  UNION {KlinesOf(docs, id, groups[id]) : id \in DOMAIN groups}

-------------------------------------------------------------------------------
(***************************************************************************)
(* GetTickerPriceChangeStatistics of the repository: the documents of each *)
(* market from an instant on, from the oldest.                             *)
(***************************************************************************)
\* A bug: the documents are taken from the newest, as in the minute pipelines.
EndsSwapped(docs, S) ==
    {e \in Latest(docs, S) \X Earliest(docs, S) : Cardinality(S) > 1 => e[1] # e[2]}

\* Of several documents the first is not the last.
Ends(docs, S) ==
    {e \in Earliest(docs, S) \X Latest(docs, S) : Cardinality(S) > 1 => e[1] # e[2]}

\* A quotient of quotes, formatted with prec decimals, in units of the last one.
Rounded(quotes, by, exp, prec) ==
    LET n == IF exp + prec >= 0 THEN quotes * 10^(exp + prec) ELSE quotes
        d == IF exp + prec >= 0 THEN by ELSE by * 10^(0 - exp - prec)
    IN  (2 * n + d) \div (2 * d)

\* The previous close is meant; the lookup sorts from the oldest document of all.
PrevClosePrice(docs, m, from) ==
    LET before == {i \in DOMAIN docs : docs[i].market = m /\ docs[i].createdAt < StoredTime(from)}
    IN  IF before = {} THEN {"none"} ELSE PricesOf(docs, Earliest(docs, before))

ParseStatistics(docs, m, S, e, prev) ==
    LET open == docs[e[1]]
        close == docs[e[2]]
        volume == Volume(docs, S)
        quotes == Total(docs, S, Quotes)
    IN  [symbol |-> m, volume |-> volume, quoteVolume |-> quotes, count |-> Cardinality(S),
         highPrice |-> Highest(PricesOf(docs, S)), lowPrice |-> Lowest(PricesOf(docs, S)),
         openPrice |-> open.price, lastPrice |-> close.price, lastQty |-> close.amount,
         openTime |-> open.createdAt, closeTime |-> close.createdAt,
         firstId |-> e[1], lastId |-> e[2], prevClosePrice |-> prev,
         weightedAvgPrice |-> Rounded(quotes, volume, open.price.exp, 4),
         priceChange |-> close.price.coef - open.price.coef]

\* A market without documents since then is not in the answer.
Statistics(docs, markets, from) ==
    LET S(m) == {i \in DOMAIN docs : docs[i].market = m /\ StoredTime(from) <= docs[i].createdAt}
    IN  UNION {{ParseStatistics(docs, m, S(m), e, p) :
                    e \in Ends(docs, S(m)), p \in PrevClosePrice(docs, m, from)} :
                    m \in {k \in markets : S(k) # {}}}

\* The average of the prices, whatever their volumes; 0 without deals.
GetAvgPrice(docs, m, from, prec) ==
    LET S == {i \in DOMAIN docs : docs[i].market = m /\ StoredTime(from) <= docs[i].createdAt}
        any == CHOOSE i \in S : TRUE
    IN  IF S = {} THEN 0
        ELSE Rounded(Total(docs, S, LAMBDA d : d.price.coef), Cardinality(S),
                     docs[any].price.exp, prec)

-------------------------------------------------------------------------------
(***************************************************************************)
(* The trades API: the query parameter limit, the answer of the service    *)
(* and the latest documents of a market.                                   *)
(***************************************************************************)
\* A parameter is missing, a number of 32 bits, or another text.
ParseInt32Parameter(p) ==
    CASE p.kind = "missing" -> [err |-> FALSE, value |-> 0]
      [] p.kind = "number" -> [err |-> FALSE, value |-> p.number]
      [] OTHER -> [err |-> TRUE, value |-> -1]

GoodArgs(symbol, limit) == symbol # "" /\ limit > 0 /\ limit < 1000

\* A bug: the sort is forgotten.
LastTradesUnsorted(docs, symbol, limit) ==
    LET S == {i \in DOMAIN docs : docs[i].market = symbol}
    IN  IF ~GoodArgs(symbol, limit) THEN {<<>>}
        ELSE {SubSeq(s, 1, Min({limit, Cardinality(S)})) : s \in SetToSeqs(S)}

\* The sequences of deal ids the query may return.
GetLastTrades(docs, symbol, limit) ==
    LET S == {i \in DOMAIN docs : docs[i].market = symbol}
        n == Min({limit, Cardinality(S)})
        NewestFirst(s) == \A j, k \in DOMAIN s :
                              j < k => docs[s[j]].createdAt >= docs[s[k]].createdAt
    IN  IF ~GoodArgs(symbol, limit) THEN {<<>>}
        ELSE {SubSeq(s, 1, n) : s \in {q \in SetToSeqs(S) : NewestFirst(q)}}

\* The quote quantity is the volume, not volume times price.
Trade(docs, i) ==
    [id |-> i, price |-> docs[i].price, qty |-> docs[i].amount, quoteQty |-> docs[i].amount,
     time |-> docs[i].createdAt, isBuyerMaker |-> docs[i].isBuyerMaker]

Response(code, body) == [code |-> code, body |-> body]

ApiV1TradesGet(docs, symbol, p) ==
    LET limit == ParseInt32Parameter(p)
    IN  IF limit.err \/ ~GoodArgs(symbol, limit.value) THEN {Response(400, <<>>)}
        ELSE {Response(200, [k \in DOMAIN s |-> Trade(docs, s[k])]) :
                  s \in GetLastTrades(docs, symbol, limit.value)}

\* The gRPC handler answers wrong arguments with no trades.
GrpcGetLastTrades(docs, symbol, limit) ==
    {[k \in DOMAIN s |-> Trade(docs, s[k])] : s \in GetLastTrades(docs, symbol, limit)}

\* The body of an average is the price alone.
ApiV3AvgPriceGet(docs, symbol, from, prec) ==
    IF symbol = "" THEN Response(400, <<>>)
    ELSE Response(200, GetAvgPrice(docs, symbol, from, prec))
===============================================================================
