# Verification of the ohlcv service

The service consumes the deals of an exchange from Kafka, keeps for every market and
resolution the candle (open, high, low, close, volume) of the current window, stores the
deals in MongoDB, answers chart, kline, ticker and trade queries from the stored deals, and
pushes the changes of the live candles to Centrifugo and each saved deal to gRPC streams.
This directory holds TLA+ models of it, the TLC configurations that check them, and theorems
that TLAPS proves. `PROJECT.json` maps every definition to the lines it models and lists
runs, mutants (for each property a plausible bug that violates it), hazards and theorems.

## 1. Inventory

| component | code | state | operations | what must hold | module |
|---|---|---|---|---|---|
| live candles | `candle/current_candles.go` | map market → resolution → candle, one mutex, a bounded channel | `AddDeal` (Kafka workers), `AddCandle` (start-up), `refreshAll` (cron, every minute) | each deal of the live window counts once; prices in the envelope; updates tell the candles and go forwards; expired candles are replaced; nobody holds the lock for ever | `CurrentCandles`, `LiveTotals` |
| aggregator | `candle/aggregator.go` | none | window starts, comparison and sum of decimals, aggregation of candles to charts | windows tile time; comparison is the order of the values | `Decimals`, `Calendar`, `Charts` |
| candles, resolutions | `domain/сandle.go`, `internal/model/resolution.go` | none | `ContainsTs`, `CalculateCloseTime`, month lengths, `ChartToCurrentCandle` | a window ends where the next begins | `Candles`, `Calendar` |
| deal consuming | `internal/service/deal.go`, `internal/repository/deal.go` | the deals collection, the subscriber's position | unmarshal, `AddDeal`, ticker, `SaveDeal`; start-up | stored deals and live candles agree, also after redelivery and restart; no deal is lost | `DealConsuming` |
| updates feed | `cmd/consumer/main.go`, `domain/microbatching.go`, `infra/broker`, `infra/centrifuge` | the batch being collected, a timer, handlers in flight | listen, batch, publish, one goroutine per batch | nothing lost, doubled or moved within a batch; nothing waits for ever; every goroutine ends | `Microbatching`, `UpdatesFeed`, `Publications` |
| deal fan-out | `internal/consumer/deal.go`, `internal/server/ohlcv.go` | subscribers, channels of 1024 | `Subscribe`, `Consume`, `SubscribeDeals`, `GracefulStop` | order per stream, drops only when full, the service can stop | `DealFanout` |
| ticker cache | `internal/consumer/ticker.go` | cache of pointers, subscribers | `Set` by the loader, `UpdateWithNewDeal`, `ConsumeNewDeals` | every market's ticker follows its deals | `TickerCache` |
| market list cache | `client/market/*.go` | last list and error | `load`, `List` | list and error served are not older than the last load | `MarketList` |
| chart queries | `candle/candle.go`, `candle/storage.go`, `api/http/handler` | none (MongoDB) | `GetCandleChart`, `truncateInterval`, `GetCandles` | the answer is the aggregation of the stored deals, over whole windows | `Charts`, `Calendar` |
| minute candles, klines, statistics, trades | `internal/repository/*.go`, `internal/service`, `api/generated/go` | none (MongoDB) | pipelines, conversions, checks of requests | the pipelines agree with one another | `Queries` |
| infrastructure | `infra/*.go` | the collections | creating collection and index | what start-up leaves behind | `DealConsuming`, in part |
| protobuf and stubs | `protocol` | none | generated accessors | — | not modelled |

How they interact: the Kafka handler calls `AddDeal`, then the ticker cache, then
`SaveDeal`, which also feeds `dealChannel`. `AddDeal` and `refreshAll` send copies of
changed candles to `updatesStream` while they hold the lock of the candles. One goroutine
turns each into a chart and hands it to `Microbatching`; another takes the batches and
publishes them on the in-memory broker, whose only handler posts them to Centrifugo. At
start-up `initCurrentCandles` loads every candle from the deals collection and adds it;
only then are deals consumed, but the cron job already runs.

What is hard: three kinds of goroutine share the candles and hold the lock across
blocking sends; the clock is read several times within one call; a candle is computed from
the database and stored later; a refresh changes candles in the middle of their window;
the timer of a batch races with the next chart; batches can overtake one another; messages
are redelivered, and a crash may fall between any two steps of a handler or of start-up; two
caches are read without the lock that protects their writers; the calendar has weeks and
months. `PROJECT.json` lists the hazards line by line.

## 2. Plan

Built, in the order of importance: `Decimals`, `Candles`, `CurrentCandles` (with
`LiveTotals` above it), `DealConsuming`, `Microbatching` inside `UpdatesFeed` (with
`Publications` above it), `DealFanout`, `TickerCache`, `MarketList`, `Calendar`, `Charts`,
`Queries`, and proofs about all of them; `Microbatching` and `Publications` are proved about
in `UpdatesFeedProofs`, `LiveTotals` in `CurrentCandlesProofs`, `Queries` in `ChartsProofs`.

What a continuation would take up: the HTTP server's shutdown beside `GracefulStop`; several windows in `DealConsuming`, so that a redelivery can fall into
a later window than the deal.

## 3. Modules

**`Decimals`** — a decimal is a coefficient and an exponent, as `Decimal128.BigInt`
returns them. The absent price is the Go zero value, `0E-6176`, which is what `IsZero`
recognises. `CompareDecimal128` is the code's comparison, `ValueOrder` the order of the
values it is meant to be, `Higher` and `Lower` the extremes `updateCandle` keeps.

**`Candles`** — candle, deal, window, `ContainsTs`, `buildFreshCandle`, `updateCandle`,
`ChartToCurrentCandle`. Time is in ticks. `CalculateCloseTime` takes one nanosecond off
the window; here it takes off the last tick, so an odd tick of the small instances is that
last nanosecond and every other tick an instant inside the window. Windows start at
multiples of their length, which is what `getStartMinuteTs` and `getStartHourTs` compute
for the resolutions up to a day (`EvenWindows` in `CalendarProofs`). Volumes are integers in the smallest unit; volume 0
is the absent volume. A market's ID and name are one value here; `UpdatesFeed` tells them
apart.

**`CurrentCandles`** — the goroutines that call `currentCandles`.

| variable | code |
|---|---|
| `now` | `timeNow()` |
| `refreshesDue` | goroutines the cron library has started and that wait for the lock |
| `candles` | `c.candles`, a record per candle or `NoCandle` |
| `updatesStream` | the channel, with `StreamCap` places |
| `call` | the call that holds `candlesLock`, and the pairs its loops have still to visit |
| `unsent` | the sends that the running `setCandle` has still to make |
| `toLoad`, `loaded` | the progress of `initCurrentCandles` |
| `dealsTaken` | counts deals, for the bound |
| `tally`, `sent` | history, read by no action |

`AddDeal(d)` takes the lock, and `DealIntoCandle(m, r)` is one turn of its loop: the fresh
candle, the test of the deal's time, `updateCandle`, `setCandle`. `RefreshAll` and
`RefreshCandle` are the cron's call, `LoadCandle` and `AddCandle` the two halves of a
start-up step, `Send` and `Receive` the channel, `Unlock` the return. Each turn reads the
clock once: `getFreshCandle` reads it again inside `buildFreshCandle`, but a candle that
was over at the first reading is over at the second, so only the second matters. The
map changes between the two sends of `setCandle`; under the lock nobody can see when,
and the model changes it with the first. Map iteration goes market by market in any order.
A deal of a market without candles visits nothing and is left out. The order of loading is open,
which allows more than the loop does. Parsing cannot fail here.
The context of `main` is `context.Background()`, so the channel is never closed.
`Rest` says that the bounds are reached and nothing is left to do; because of it the
deadlock check can stay on.

**`LiveTotals`** — the abstract specification: per market and resolution a window, a
volume and a last price, with four steps (load, trade, trade in a later window, roll).
`CurrentCandles!ImplementsLiveTotals` maps the candles onto it.

**`DealConsuming`** — the messages of the deals topic, the handler of `RunConsuming`, and
what survives a crash. What Kafka, MongoDB and the exchange keep (`topic`, `committed`,
`collection`, `stored`, `listed`) is apart from what the process keeps (`phase`, `known`,
`toLoad`, `live`, `work`, `settled`), which `Dies` forgets. A message has one of five kinds,
after the path it takes through the handler: a deal; one without order ids, which is counted live and never
stored; one that `Validate` refuses; one whose numbers do not parse, on which `SaveDeal`
panics; and one that is no deal at all. `BuildAvailableMarkets`, `GetOrCreateDealsCollection`,
`CreateIndex`, `InitCurrentCandle` and `RunConsuming` are main's start-up in its order, each
with its fatal errors; a collection without index, left by a crash between the two calls,
stays without, and then every query with the hint fails. `AddDeal`, `SaveDeal` and `Insert`
are the handler; an insert may be made although it reports an error. `Fetch`, `Ack`, `Retry`,
`GiveUp` and `Commit` are the subscriber, a library: that it delivers at least once, gives a
message to one worker at a time and may give up a failed one is assumed and marked external.
`live[i]` and `stored[i]` count how often message `i` is in the live candle and in the
collection. Abstractions: one window and one resolution, since windows are the subject of
`CurrentCandles`; an insert of a dead process that lands after the restart has loaded its
candles, and two processes overlapping in a rolling update, are left out.

**`Microbatching`** — the goroutine of `Microbatching`: where it waits (`mode`), the batch,
the chart its producer offers on the unbuffered channel, and what was delivered. A chart's
parallel slices are one sequence of points; a point carries the number of its chart instead
of prices. `mergeSameChart` is a function on positions.

**`UpdatesFeed`** — composes `Microbatching` with `listenCurrentCandlesUpdates` (`Listen`,
`ListenerEnds`, `ListenerGivesUp`), the goroutine that receives batches (`ReceiveBatch`,
`StopReceiving`), the broker, which starts a goroutine per batch (`inFlight`), and the
broadcaster's request, which Centrifugo takes whole, in part or not at all (`Broadcast`).
Once Microbatching has closed `batchStream`, the receiver gets nil batches from it without end
(`ReceiveNil`) and a goroutine is started for each (`nilHandlers`), which sends nothing
(`BroadcastNil`).
Updates carry a market's name or its ID, after where their candle came from; `SymbolOf` is
the lookup in the listener, and a chart without channel panics in the broadcaster, which the
broker recovers. In `main` the context is never done and the updates never end; the listener
and Microbatching are written for both, so the model lets both happen at any moment.

**`Publications`** — what clients of Centrifugo may expect: each update at most once, and
together with its neighbours in their order; groups may overtake one another, and some may not
come. `ImplementsPublications` maps the feed onto it.

**`DealFanout`** — from `SaveDeal` to the clients of `SubscribeDeals`. A deal is the number
under which `dealChannel` accepted it. `Take`, `RLock`, `Hand`, `RUnlock` are the loop of
`Deal.Consume`; its round visits, in any order, the subscribers it found when it took the
read lock. A stream goes through `Enter`, `Subscribe`, then `Serve` and `SeeDone` (the
branches of the `select`), `Sent` or `SendFails`, and `UnSubscribe`, which is deferred;
`Subscribe` and `UnSubscribe` wait for the round to end. `Disconnect` is the client's.
`Interrupt` and `Exit` are the end of `main`; `Exited` is a stutter, so that the
deadlock check means that nothing else stops. Deals are saved while `Consume` does not run
yet, as at start-up. `received` and `owed` are history.

**`TickerCache`** — the Kafka workers, `ConsumeNewDeals` and `LoadCache` around one cache of
pointers. Objects are addresses of `heap`, because `ConsumeNewDeals` writes the fields of an
object without the lock (`WriteField`, one field a step) while `LoadCache` may set a new one
in its place. The cache is one Go map, which the loader fills under market names and
`ConsumeNewDeals` under market IDs; names and IDs do not collide, so it is two functions,
`byName` and `byId`. `SaveDeal` may fail to store a deal, a query may fail, `Age` lets a day
pass for a deal. Readers change nothing: `GetTicker` and `AllTickers` are what they are
answered. `UnSubscribe` and `GetChanel` have no caller.

**`MarketList`** — `load` and `List` of the market cache. `load` holds a lock that `List` does
not take, so list and error are words stored (`StoreWord`) and read (`ReadWord`) one by one, in
any order: a slice is an array and a length. `Loaded` and `Failed` end the HTTP request;
the context with its timeout is not passed to it. `Respond` answers with the words read.

**`Calendar`** — the windows of all 19 resolutions, and `GetCandleChart` with its checks. An
instant counts ticks since Monday, 1 January 2001, UTC, two to a minute, the odd one being its
last nanosecond. Go's zero time, from which `Truncate` counts, lies a whole number of weeks
before. `time.Local` is UTC, as in the container image. What package `time` and `$dateTrunc`
do is modelled from their documentation and marked external. `FirstFrom` is what each of the
two loops of `firstDayOfISOWeek` ends with.
`MonthDuration` tests `year%4` only, as the code does, so windows tile time in the years 1901
to 2099. `AggregateTimestamp` is the window `AggregateCandleToChartByResolution` puts a candle
into. `MCCalendar` walks a clock through the years and lets a chart request end at it.

**`Charts`** — what the pipeline of `Storage.GetCandles` answers, as a set of rows, what
`MakeChartResponse` makes of them, and what `Aggregator` makes of finer candles. The database
keeps milliseconds; documents of one millisecond come in an order of its own, so a window may
have several possible rows.

**`Queries`** — the other pipelines: minute candles, klines, the statistics of 24 hours,
average prices, the latest trades, with the conversions and checks of the handlers that answer
them over HTTP and gRPC. All are functions of the stored deals, with a set of answers where the
database's order is open. `MCCharts` hands each deal to the live candles and to the database,
and compares what they say.

`MC*` modules hold the values of constants for TLC; `MCDecimals`, `MCCharts` and
`MCCalendar` are small machines that feed operators with inputs.

## 4. Runs

| run | bounds | shows |
|---|---|---|
| `current_candles` | one market, a minute and an "hour" of two minutes, four minutes of clock, two deals of two prices, a channel of one place, one stored deal from before the start | the type invariant, five safety properties, an action property, the refinement of `LiveTotals`, `CallsReturn`, `ExpiredAreReplaced` |
| `deal_consuming` | two markets, two workers, two messages, two faults, one redelivery of a failed message | live candles and database agree, no deal is lost, a copy takes a fault, every deal ends up stored |
| `updates_feed` | batches of three, four updates of one market under name and ID and two times, one batch Centrifugo does not take or takes in part, one handler of a nil batch at a time | `PointsInOrder`, `ChannelsExist`, the refinement of `Publications`, `TakenIsSettled`, `FeedEnds` |
| `deal_fanout` | two streams, `dealChannel` and client channels of one place, two deals | `TypeOK`, `StreamsAscend`, `GapsNeedAFullChannel`, `EveryDealIsTaken`, `ReadersAreServed`, `StopsOnceClientsLeave` |
| `ticker_cache` | two markets, two workers, a channel of one place, two deals | `TickersAreWhole`, `TickersKeepTheirMarket`, `TickersCatchUp` |
| `market_list` | one request, three versions of the list | `AnswersAreCurrent`, `ListCatchesUp` |
| `charts` | two markets, an hour of eight ticks of two minutes of four, three deals of three prices and two amounts | live candles sum up the deals of the window; chart queries tell what they told; the pipelines and the statistics agree; the trades API answers the newest, asked for the limits around the bounds of the check and of its description (`LimitNumbers`) |
| `calendar` | 2020 and 2021, requests of 0 or 45 days | windows tile time, the database and the aggregator group by them, requests hold whole windows |
| `decimals_mixed`, `refresh_announces_closed`, `ticker_subscribers`, `week_charts` | | disagreements, section 6 |

Why the bounds are enough. In `current_candles` two windows of different length that nest, the
shorter ending inside the longer, and clock ticks between any two steps give every position of
a deal relative to its windows (in, late, first of a new window, after a refresh, before it);
two deals tell first from later; one place in the channel makes every send wait, and the second
update of a refresh, or a third one of a deal, finds it full. The order of iteration over
several markets changes nothing in one market's candles.

In `deal_consuming` two faults let a crash hit a handler, and another the restart or the
redelivered message; two messages of two markets let one worker fail while another's deal of
the same or the other market is under way. The theorems of section 5 have no such bound.
In `updates_feed` a batch of three holds a pair and a single chart in both orders, and three of
one market; four charts give a full batch followed by a short one, whose handlers can finish
in either order; a name and an ID in one batch are the case of the lookup. One handler of a
nil batch (`MaxNilHandlers`) may be under way wherever the context ends; more of them do the
same, which is nothing.

In the fan-out two streams let one stall while the other is served; a client channel of one
place is full after one deal, while one more is being sent. The order of deals and the gaps
need no bound, they are proved. Two workers are what it takes for two deals to overtake one
another, and two deals for a late write over a newer ticker; every object of the cache, the one
being written and a new one have an address. In `market_list` three versions give a request
that has read nothing, part or all of its words a store to see after the one it began with;
requests do not meet one another, and the theorem has any number. 2020 is a leap year of 53 ISO
weeks, and the requests and the windows reach into the years before and after; the clock stops
at every tick of the first hour and at the first and last tick of the other hours of that day
and of all other days, since what happens within an hour or a day does not depend on which it
is. In `charts` three deals give first, middle and last of a window in any order of time, and
two of one millisecond, and the second market shares documents' times with the first.

The properties. `CandleMatchesTally` compares each candle with a count kept beside the program;
`PricesInEnvelope` orders low, open, close, high, also after a refresh has flattened a live
candle; `UpdatesReflectCandles` and `UpdatesGoForward` are about somebody who only sees the
channel; `NestedVolumes` relates the minute to the hour (with deals stamped no later than the
clock: a deal from the future may fall into the hour and not into the minute). `LiveCoversStored`
and `LiveMatchesStored` are the two halves of what a client may conclude from a pushed candle
about a queried one: the pushed one may show more, after a deal that was not stored, but never
less, unless it was loaded when the database did not answer: those markets are exempt.
`GapsNeedAFullChannel` counts: before a client misses a deal, at least a channel's worth of
earlier ones has reached its channel. It does not look at whether they are still in it, so a loss
with room to spare, later on, is not excluded. `FeedEnds` says that every goroutine ends for good
once the context is done, the receiver too, which gets one nil batch after the other.
`AggregationKeepsTotals` is about volume, open and close; high and low are wrong (section 6).
`WindowsTileTime` sets the starts of windows against the durations, and `NewestTradesFirst` is
about limits that code and documents read alike; both take no side where code and documents or
tests differ (section 6). `TickersAreWhole` holds although fields are written without the lock,
because the loader never changes an object and only one goroutine writes. `TickersCatchUp` says
that the loader makes good what late writes and full channels spoil; until the next load, for up
to a second, a ticker may go back. `AnswersAreCurrent` is what is left of the cache's lock: each
word is of the last load or of a store under way, so the words of one answer need not be of one
load. `StatisticsSumUpKlines` and `MinutePipelinesAgree` set pipelines that were written
separately, and sort the opposite way, against one another. `RequestsHoldWholeWindows` compares
`truncateInterval` with the windows; the end of the database's interval is included, so a deal
exactly at it opens one more, partial row.

Deadlock is checked everywhere but in `charts` and `calendar`, which stop when the deals are
used up and when the years are over.

**Fairness.** `CurrentCandles!FairSpec` is weakly fair for the turns of running calls, for
`Send`, `Receive` and `Unlock` — goroutines that can run do run, and the receiver loops for
ever — and strongly fair for `RefreshAll`, since the lock is free again and again and
`sync.Mutex` hands it to whoever has waited a millisecond. Nothing is assumed of the clock,
of deals or of the start-up. `DealConsuming!FairSpec`: the process is started again and gets
on with its start, and its workers work; that the messages come again is in `Fetch`.
`UpdatesFeed!FairFeedSpec`: goroutines run, timers fire, requests return, and the updates
channel is closed once the context is done; the producer owes nothing else. `SeeCancelled` and
`StopReceiving` are weakly fair apart from the other branches of their `select`, which chooses
at random and so takes the branch that stays ready, although nil batches stay ready beside it.
`DealFanout!FairSpec` is weakly fair for `Consume`, for `Exit` and for a `Send` to a client
that has gone, which returns an error; and strongly fair for what waits for the
write lock, which a waiting writer gets before new readers, and for each branch of
the `select`, which chooses at random. Clients need neither read nor go away.
`TickerCache!FairSpec` is weakly fair for the goroutines and the one-second timer, and
strongly fair for `Query`: the database answers again and again. Deals owe nothing, and
neither does the day. `MarketList!FairSpec` is weakly fair for the goroutine, its timer and the
end of a request, and strongly fair for `Loaded`: asked again and again, the exchange answers
again and again. That a request ends at all is an assumption, as no timeout reaches the client.

## 5. Proofs

`CurrentCandlesProofs` starts with the lemmas about windows (`WindowStart` is idempotent and
monotone, `ContainsTs` of a candle of a window holds exactly for the instants of that window
that are not its last tick), about types, and about prices of one number of decimals. Its
theorems about live candles are for every set of markets, resolutions, prices, amounts and
instants, every duration, channel capacity and database content:

* `TypeCorrect`: `Spec => []TypeOK`. Inductive with `VisitedAreStored`.
* `VolumeIsExact`: `Spec => []CandleMatchesTally`, assuming `InstantsInside`: the clock is
  never read in the last nanosecond of a window. There `getFreshCandle` replaces a live
  candle by an empty one of the same window (section 6) and the volume is lost,
  so the theorem needs the assumption. The invariant adds `CandlesWellFormed` (stored
  candles start where a window starts, not in the future) and `LoadedOnce` (`AddCandle`
  never overwrites).
* `EnvelopeIsKept`: `Spec => []PricesInEnvelope`, assuming `UniformScale(Prices)`, all prices
  with one number of decimals, without which `compareDecimal128` orders them wrongly
  (section 6), and `ChartsPriced`, that the database answers with ordered prices. The
  invariant `PricedInv` says the same of the candle being loaded and of the updates not
  yet sent, and that a candle has all four prices or none.
* `VolumesNest`: `Spec => []NestedVolumes`. `AddDeal` counts a deal at different times in
  different windows, so the invariant `NestInv` compares, for windows that nest, what each
  has counted and what the running call still owes it (`NestedSoFar`). Before all candles are
  loaded each one shows what the database answered at some moment (`StoredShown`,
  `LoadedShown`). The theorem assumes, besides `InstantsInside`,
  - `MaxSkew = 0`, that no deal is stamped ahead of the clock. With a skew TLC finds the
    counterexample: the hour rejects a deal of the next hour, the clock ticks, and the minute,
    visited later by the same call, counts it;
  - `DatabaseNests`, that a chart has the deals of the charts within its window, which a
    query that failed at start-up would break, for it reads as an empty chart;
  - `DatabaseWaits`, that nobody else stores deals while the candles are loaded.
* `IndInvHolds`, `UpdatesTellCandles`, `UpdatesAdvance`, assuming
  `InstantsInside`: `Spec => []IndInv`, `Spec => []UpdatesReflectCandles`,
  `Spec => UpdatesGoForward`. The last update sent for a candle is the stored one only
  between calls, so `UnsentFollowsSent` says what is true in the middle of one: `unsent`
  holds the old and the new candle, or the new alone, or nothing, and together they
  continue the last sent update up to the stored candle. The lock makes this inductive:
  only the call that stored a candle puts updates of it into `unsent`.
* `Implementation`, under the same assumption:
  `Spec => ImplementsLiveTotals`. `DealIntoCandle` maps to an addition or a roll,
  `RefreshCandle` to a roll or a stutter, `AddCandle` to a load. The invariant of the
  volumes is strengthened with `LoadedPriced`: a candle on its way from the database to
  memory has a last price that a deal had.

`DealConsumingProofs`, for any number of workers, messages, faults and redeliveries:

* `TypeOKHolds`: among others, a message is in one worker's hands at most, and never when it is
  settled.
* `SettledIsStoredHolds`, `DuplicatesNeedFaultsHolds`: the invariant `StoringInv` adds that a
  handled deal is stored, and that beyond the first copy, and the one that a running handler
  may still make, each took a fault.
* `LiveCoversStoredHolds`, `LiveMatchesStoredHolds`: `LiveInv` adds `LiveAhead` and
  `LiveAheadByOne`. While a handler is between `AddDeal` and the insert, the live candle is
  ahead by one; the insert uses the lead up. Without that, the insert would not keep
  `LiveCoversStored`.

`DealFanoutProofs`, for any number of streams, deals and places:

* `FanoutTypeCorrect`: `Spec => []TypeOK`.
* `DealsArriveInOrder`: `Spec => []StreamsAscend`. A stream's pipeline is what it received,
  is being sent and has in its channel, then the deal of the round if it is still due, the
  deal before a round, and `dealChannel`. With `TypeOK` it is inductive: a step moves a deal
  from one stretch to the next, drops one, or appends a new number at the end. The
  `Pipe*` lemmas say so of plain sequences.
* `GapsNeedAFullChannelHolds`: `Spec => []GapsNeedAFullChannel`. A deal is dropped only when
  the channel has `ClientCap` deals, which the order shows to be distinct and earlier, and
  what a stream reached it never loses. The invariant adds that a call outside
  the map whose client is there is owed nothing.

`MarketListProofs`, for any number of requests and versions: `AnswersAreCurrentHolds`. The
invariant says of each word in memory whose it is, and of each request that it may show
the last complete result and the one being stored.

`TickerCacheProofs`, for any markets, deals, workers and channel capacity:

* `TickersAreWholeHolds`: `Spec => []TickersAreWhole`. The invariant `WrittenSoFar` says more
  than the property: of the object being written, the fields before `written` are those of
  the current deal, so that the last write makes it whole. Every other object that one of
  the two maps knows is whole.
* `TickersKeepTheirMarketHolds`: `Spec => []TickersKeepTheirMarket`. That a ticker tells deals
  of its own market needs to be known from the channel on: the deals in it, the one taken from
  it and those the loader found are of the market they are written under (`ChannelOK`,
  `LoaderOK`, `OwnMarket`).

`UpdatesFeedProofs`, for any batch size, any updates and any number of failures:

* `PointsInOrderHolds`, `ChannelsExistHolds`: the invariant `FeedInv` says
  that what was taken is what was delivered, then the batch, then what cancelling lost, and
  that anything is lost only when the goroutine is done; that every chart has a channel
  (`GoodChart`); and that no batch is empty. The properties of `FlattenSeq` and
  `mergeSameChart` for sequences of any length, which would be inductions, are shown by taking
  the shortest counterexample.
* `FeedImplementsPublications`: `FeedSpec => ImplementsPublications`. A broadcast settles the
  points of one batch: those of the charts Centrifugo took become the published group, in their
  order, and what waits is what waited without the batch. `ReceiveBatch` and joining leave the
  waiting points as they are; `Offer` is a stutter, `Take` an update that comes.

`CalendarProofs`, for any years and every instant of them, where the run `calendar` has two
years. The clock (`ClockInv`) only says that the instant is in those years and that a request
looks back 340 days at most, which keeps all it needs within `Years`; the theorems are about
the operators:

* `DatabaseHasTheWindowsHolds`: `Spec => []DatabaseHasTheWindows`. Up to a day, `StartMinute` and
  `StartHour`, which look at the minute of the hour and the hour of the day, and then truncate,
  give the multiples of the resolution's length (`EvenWindows`): every length divides the day.
  So does counting from MongoDB's 1 January 2000, a whole number of days away.
* `WindowsTileTimeHolds`: `Spec => []WindowsTileTime`. Months: each day is of one year and one
  month (`YearOfDayExists`, `MonthAt`), and a month lasts by `ToDuration` until the next one
  starts, or January (`MonthBounds`). Weeks: the two loops of
  `firstDayOfISOWeek` end at the first Monday of the ISO year and at the Monday of the day
  (`FirstLoop`, `SecondLoop`), across the years in which they differ from the calendar's, so
  that `StartWeek` truncates to seven days (`WeekWindows`).
* `RequestsHoldWholeWindowsHolds`: `Spec => []RequestsHoldWholeWindows`, by the same lemmas.

The last two assume `EveryFourthIsLeap`: `MonthDuration` is a day too long for February 2100, where
neither holds. The years of the runs satisfy it.

`ChartsProofs`, about `Charts`, `Queries` and the deals of `MCCharts`, for any markets,
resolutions, durations, prices, amounts, limits and number of deals:

* `InvHolds`: `Spec => []Inv`. `TypeOK` adds to the types that a document's time is that of some
  deal cut to the millisecond (`TimesKept`), and that the live candles have the bounds of
  their windows. `Summaries` says of every window that its live candle has the volume of the
  window's documents, the prices of the first and last of them, and bounds that some of them
  reach. `ContainsTs` of the live candle at the deal's time and the truncated time of its
  document decide alike about the window (`DealOfWindow`), so `updateCandle` puts a deal into
  just the windows its document falls into, and one more document is what `SummaryGrows` needs.
* `CandleSummarisesHolds`: the summary in the words of the property.
* `ChartsTellLiveCandlesHolds`: the database's groups are the windows (`GroupIsWindow`), and the
  groups that are not empty are the candles with a volume, because amounts are positive.
* `MinutePipelinesAgreeHolds`: each pipeline's rows are the rows of the same groups of
  documents, whichever way it sorted them (`MinuteRow`, `KlineRow`, `MinuteRows`).
* `NewestTradesFirstHolds`: as many places as documents, no two alike, are all of them
  (`NewestTakesAll`), so what is left out comes after what is shown.
* `AggregationKeepsTotalsHolds`: `compare` applied along the minutes keeps the first open, takes
  the last close, and adds (`ComparedIs`); the minutes cut the documents of the hour into
  parts (`MinutesAddUp`), and the hour's first document is its first minute's (`EndsOfMinutes`).
* `StatisticsSumUpKlinesHolds`: volumes, quotes and counts add up over that partition
  (`KlinesAddUp`), extremes and ends are those of some minute (`KlinesExtremes`, `FirstKline`,
  `LastKline`). Quotes lie between the lowest and highest price times the volume
  (`QuotesBetween`), and the rounding to four decimals moves their quotient by half a unit at most
  (`RoundedNear`).

What the pipelines add up is a fold of the community modules, defined by recursion over a set.
The first part of `ChartsProofs` proves that the recursive function exists, by induction on the
size of the set (written with a set of numbers, or of sets, in place of a predicate), that it
is determined by its equation, and from that: any element can be taken off first, a sum
over a partition is the sum of the sums, and bounds carry over. The same is done for the
aggregator's `compare`, where the order counts (`JoinExists`).

The assumptions of `MCCharts`: windows are whole milliseconds (`DurationAssumption`; the
shortest resolution is a minute), the smaller resolution is the unit of the minute pipelines and
divides the larger (`PairAssumption`), prices have one number of decimals (`ScaleAssumption`;
others `compareDecimal128` puts in the wrong order, see section 6), and no market is without a
name (`MarketAssumption`; a request without one is refused). `UnitAssumption` is arithmetic:
powers of ten are positive, which the provers do not know. Deals come within the first
hour, which stands for any. That the deals of a window come in the order of time is not assumed:
where open and close depend on it, the property says so.

The assumptions named `...Assumption` in the modules are about the constants (bounds are
natural numbers, channels have places); TLC evaluates them in the runs, as it evaluates
`TheoremsApply`, that the instance of `current_candles` meets what the theorems about live
candles assume.

Every invariant and action property of the passing runs, and both refinements, are theorems.
Only model-checked: all liveness (`CallsReturn`, `ExpiredAreReplaced`, `TakenIsSettled`, `FeedEnds`,
`DealsEndUpStored`, `ListCatchesUp`, `TickersCatchUp`, `EveryDealIsTaken`, `ReadersAreServed`,
`StopsOnceClientsLeave`), which is out of the prover's reach, and the runs that show a
disagreement.

## 6. Disagreements found

* `decimals_mixed` — `compareDecimal128` compares exponents alone when they differ. The test
  that shows it is commented out at `candle/aggregator_test.go:152`. Prices of one number
  of decimals are not affected, which `charts` shows and `CurrentCandlesProofs` proves.
* `refresh_announces_closed` — the comment at `candle/current_candles.go:110` says the announced
  old candle is closed; a refresh announces, and flattens, hour candles in the middle of the
  hour.
* `ticker_subscribers` — the endless loop of `ConsumeNewDeals` is inside its loop over the
  markets: only one market is ever subscribed, and deals of the others are logged as errors.
* `week_charts` — `GetCandleByResolution` groups weeks from Sunday, live candles and the
  aggregator's test start them on Monday.

Seen while modelling, and kept out of the runs. Live candles and start-up:

* The comment at `candle/current_candles.go:29` calls the candles always fresh. One that is
  loaded before a minute ends and added after the next minute's cron run is not (the
  `TODO` on line 80 asks for the check); `ExpiredAreReplaced` says that the next run
  mends it.
* Tests expect a candle's `CloseTime` to be the start of the next window, 15:46 for a minute that
  opens at 15:45: `candle/current_candles_test.go:85`, `100`, `122`, `150`, `160` and more below, and
  `domain/сandle_test.go:39` and `66`. `CalculateCloseTime` (`internal/model/resolution.go:74`)
  takes a nanosecond off. `WindowsTileTime` and its theorem allow both.
* In the last nanosecond of a window the fresh candle is not live, because of that nanosecond:
  `ContainsTs` excludes the close time.
* A crash between creating the deals collection and its index (`infra/mongo/mongo.go:99`) leaves
  a collection that is never indexed. Every query that names the index then fails, and
  `GetCandles` answers no chart and no error: live candles start empty, charts stay empty.
* No index keeps deals unique, so a redelivered message is stored, and counted, twice.
* `main`'s context is never done: `Microbatching` and its neighbours end with the process only.
* The receiver of the batches (`cmd/consumer/main.go:119`) does not ask whether `batchStream` is
  closed. If the updates ended and the context did not, it would take nil batches in a tight loop and
  start a goroutine for each, for ever. With the context done its `select` leaves the loop, after
  some of them, as `FeedEnds` says. Nothing closes the updates in `main`.
* `Server.Start` evaluates `ListenAndServe` once, before its loop: if it fails, the
  loop logs the same error for ever.

Tickers and the market list:

* `ConsumeNewDeals` sets `CloseTime` in nanoseconds, the loader in milliseconds.
* `LoadCache` never removes a ticker: a market without a deal for 24 hours keeps its last.
* The timeout that `cache.load` sets does not reach the client's HTTP request, and `List` takes
  no lock: a race in Go's terms, in which an array may be read with another's length.
* `transport.go` turns a market's name round (`flipMarkets`), `NormalizeMarketName` does not.

Queries and answers:

* `prevClosePrice` is of the oldest document before the window, not of the latest.
* `quoteQty` of a trade is its volume; `convertStatistics` leaves out the weighted average
  price and the last quantity; the weighted average is rounded to four decimals whatever the
  market's precision; the "taker" sums of klines are of deals whose buyer is the maker.
* `api/openapi.yaml:151` says of `limit` "Default 500; max 1000."; a missing limit and 1000
  are answered with status 400, and `GetLastTrades` over gRPC answers wrong arguments with no
  trades. `NewestTradesFirst` and its theorem say nothing of these two requests.
* `avgPrice` answers a bare string where the document has an object, and `priceChangePercent`
  is a fraction.
* `GetCandleChart` puts the interval into capitals, so `1m` asks for months.
* `compare` (`candle/aggregator.go:132`) copies the higher high and the lower low only from
  the later candle, else they stay zero; only tests call it. `GetResolution` says three
  minutes for the half hour and does not know `1H`; nothing calls it.

## 7. Not modelled

* `protocol`: messages and stubs generated from protobuf, accessors without behaviour of this
  program. They are a quarter of the implementation's lines.
* Reading the configuration and connecting to Kafka, MongoDB and Centrifugo (`infra`): pure
  I/O that either works or ends the process, which `DealConsuming` has as a fault of start-up.
* The shutdown of the HTTP server, which has no state of the program's own.
* Parse errors in `updateCandle`, logging, JSON and HTTP headers; the fields a market, a
  ticker or an event only carries along.
* Weeks and months in the live candles: their windows are in `Calendar`, and what the live
  candles do does not depend on how long a window is.
* `NewClient` and `Publish` of `centrifuge.go`, `GetChanel` and `UnSubscribe` of the ticker
  cache, which nothing calls, and the closing of `updatesStream`, which no code path of the
  program reaches (but see `UpdatesFeed`).
