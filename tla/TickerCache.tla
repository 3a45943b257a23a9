------------------------------ MODULE TickerCache ------------------------------
(***************************************************************************)
(* The 24-hour tickers.  Every second LoadCache computes them from the     *)
(* stored deals and sets them in the cache; in between ConsumeNewDeals     *)
(* writes the last deal into the cached object, which every reader of the  *)
(* cache shares.  The Kafka workers hand a deal first to the ticker cache  *)
(* and then to the database.                                               *)
(*                                                                         *)
(* A deal is its number, in the order deals are made.  The cache maps      *)
(* markets' names and, for what ConsumeNewDeals puts back, markets' IDs:   *)
(* two functions here.  Objects are addresses, since objects are shared.   *)
(***************************************************************************)
EXTENDS Naturals, Sequences, FiniteSets, FiniteSetsExt, Functions

CONSTANTS
    Markets,     \* the markets of marketsMap
    Workers,     \* the Kafka workers that run the handler
    ChannelCap,  \* places of the channel ConsumeNewDeals reads
    MaxDeals     \* bound: deals that are made

ASSUME ChannelAssumption == ChannelCap \in Nat \ {0}
ASSUME DealsAssumption == MaxDeals \in Nat
ASSUME MarketsAssumption == IsFiniteSet(Markets) /\ Markets # {}

VARIABLES
    deals,       \* the market of each deal made so far
    aged,        \* the deals up to this one are older than 24 hours
    stored,      \* the deals in the database
    work,        \* what each worker does: a deal and the next step with it
    subscribed,  \* the markets with a channel (one at most)
    channel,     \* that channel
    heap,        \* the ticker objects
    byName,      \* cache: market name -> object
    byId,        \* cache: market ID -> object
    consumer,    \* where ConsumeNewDeals is
    current,     \* the deal it received, 0 if none
    ticker,      \* the object it got from the cache
    written,     \* how many fields it has written
    loader,      \* where LoadCache is
    answer,      \* what its query returned: the deals of each market's window
    toSet        \* the markets it has still to set

dealVars == <<deals, aged, stored, work>>
cacheVars == <<heap, byName, byId>>
consumerVars == <<consumer, current, ticker, written>>
loaderVars == <<loader, answer, toSet>>
vars == <<dealVars, subscribed, channel, cacheVars, consumerVars, loaderVars>>

Null == 0
NoWork == [deal |-> 0, step |-> "none"]

\* Every market's object by name, one by ID, the one being written, a new one.
Objects == 1 .. Cardinality(Markets) + 3

\* The fields ConsumeNewDeals writes, in its order.
LastFields == <<"lastPrice", "lastQty", "closeTime", "lastId">>

(***************************************************************************)
(* A ticker: the deals its window figures (volume, count, open, high, low) *)
(* are of, and the deal behind each of the last fields.                    *)
(***************************************************************************)
Loaded(window) ==
    [window |-> window,
     lastPrice |-> Max(window), lastQty |-> Max(window),
     closeTime |-> Max(window), lastId |-> Max(window)]

Blank == [window |-> {},
          lastPrice |-> 0, lastQty |-> 0, closeTime |-> 0, lastId |-> 0]

InWindow(m) == {d \in stored : deals[d] = m /\ d > aged}

Reachable == (Range(byName) \cup Range(byId) \cup {ticker}) \ {Null}

Init ==
    /\ deals = <<>> /\ aged = 0 /\ stored = {}
    /\ work = [w \in Workers |-> NoWork]
    /\ subscribed = {} /\ channel = <<>>
    /\ heap = [o \in Objects |-> Blank]
    /\ byName = [m \in Markets |-> Null] /\ byId = [m \in Markets |-> Null]
    /\ consumer = "off" /\ current = 0 /\ ticker = Null /\ written = 0
    /\ loader = "resting" /\ answer = [m \in Markets |-> {}] /\ toSet = {}

-------------------------------------------------------------------------------
(***************************************************************************)
(* The Kafka handler of RunConsuming, without the live candles.            *)
(***************************************************************************)
Consume(w) ==
    /\ work[w] = NoWork /\ Len(deals) < MaxDeals
    /\ \E m \in Markets : deals' = Append(deals, m)
    /\ work' = [work EXCEPT ![w] = [deal |-> Len(deals) + 1, step |-> "update"]]
    /\ UNCHANGED <<aged, stored, subscribed, channel, cacheVars, consumerVars, loaderVars>>

HasRoom == Len(channel) < ChannelCap

\* A bug: any channel will do.
UpdateAnySubscriber(w) ==
    /\ work[w].step = "update"
    /\ channel' = IF subscribed # {} /\ HasRoom
                  THEN Append(channel, work[w].deal) ELSE channel
    /\ work' = [work EXCEPT ![w].step = "save"]
    /\ UNCHANGED <<deals, aged, stored, subscribed, cacheVars, consumerVars, loaderVars>>

\* A deal of a market without channel, or with a full one, is only logged.
UpdateWithNewDeal(w) ==
    /\ work[w].step = "update"
    /\ channel' = IF deals[work[w].deal] \in subscribed /\ HasRoom
                  THEN Append(channel, work[w].deal) ELSE channel
    /\ work' = [work EXCEPT ![w].step = "save"]
    /\ UNCHANGED <<deals, aged, stored, subscribed, cacheVars, consumerVars, loaderVars>>

\* SaveDeal stores the deal, or not: it lacks order ids, or saving fails.
SaveDeal(w) ==
    /\ work[w].step = "save"
    /\ stored' \in {stored, stored \cup {work[w].deal}}
    /\ work' = [work EXCEPT ![w] = NoWork]
    /\ UNCHANGED <<deals, aged, subscribed, channel, cacheVars, consumerVars, loaderVars>>

\* A day later.
Age ==
    /\ aged < Len(deals)
    /\ aged' = aged + 1
    /\ UNCHANGED <<deals, stored, work, subscribed, channel, cacheVars, consumerVars, loaderVars>>

-------------------------------------------------------------------------------
(***************************************************************************)
(* ConsumeNewDeals.  Its loop over the markets never gets to a second one. *)
(***************************************************************************)
Subscribe(m) ==
    /\ consumer = "off"
    /\ subscribed' = {m}
    /\ consumer' = "waiting"
    /\ UNCHANGED <<dealVars, channel, cacheVars, current, ticker, written, loaderVars>>

Receive ==
    /\ consumer = "waiting" /\ channel # <<>>
    /\ current' = Head(channel) /\ channel' = Tail(channel)
    /\ consumer' = "looking"
    /\ UNCHANGED <<dealVars, subscribed, cacheVars, ticker, written, loaderVars>>

\* Get: the object, not a copy of it.
Get ==
    /\ consumer = "looking"
    /\ \E m \in subscribed :
          IF byName[m] = Null
          THEN consumer' = "waiting" /\ current' = 0 /\ UNCHANGED ticker
          ELSE consumer' = "writing" /\ ticker' = byName[m] /\ UNCHANGED current
    /\ UNCHANGED <<dealVars, subscribed, channel, cacheVars, written, loaderVars>>

\* One field of the object, without the lock.
Written(o, n) == [heap EXCEPT ![o][LastFields[n]] = current]

\* A bug: the object is looked up for each field.
WriteFieldAnew ==
    /\ consumer = "writing" /\ written < Len(LastFields)
    /\ \E m \in subscribed : heap' = Written(byName[m], written + 1)
    /\ written' = written + 1
    /\ UNCHANGED <<dealVars, subscribed, channel, byName, byId, consumer, current, ticker,
                   loaderVars>>

WriteField ==
    /\ consumer = "writing" /\ written < Len(LastFields)
    /\ heap' = Written(ticker, written + 1)
    /\ written' = written + 1
    /\ UNCHANGED <<dealVars, subscribed, channel, byName, byId, consumer, current, ticker,
                   loaderVars>>

\* The object goes back under the market of the deal, which is an ID.
PutBack ==
    /\ consumer = "writing" /\ written = Len(LastFields)
    /\ byId' = [byId EXCEPT ![deals[current]] = ticker]
    /\ consumer' = "waiting" /\ current' = 0 /\ ticker' = Null /\ written' = 0
    /\ UNCHANGED <<dealVars, subscribed, channel, heap, byName, loaderVars>>

-------------------------------------------------------------------------------
(***************************************************************************)
(* LoadCache.                                                              *)
(***************************************************************************)
Tick ==
    /\ loader = "resting"
    /\ loader' = "asking"
    /\ UNCHANGED <<dealVars, subscribed, channel, cacheVars, consumerVars, answer, toSet>>

\* GetTickerPriceChangeStatistics: markets without deals in the window are not
\* in the answer.
Query ==
    /\ loader = "asking"
    /\ answer' = [m \in Markets |-> InWindow(m)]
    /\ toSet' = {m \in Markets : InWindow(m) # {}}
    /\ loader' = "setting"
    /\ UNCHANGED <<dealVars, subscribed, channel, cacheVars, consumerVars>>

QueryFails ==
    /\ loader = "asking"
    /\ loader' = "resting"
    /\ UNCHANGED <<dealVars, subscribed, channel, cacheVars, consumerVars, answer, toSet>>

\* A bug: only what is missing is set.
SetMissing(m) ==
    /\ loader = "setting" /\ m \in toSet
    /\ LET new == CHOOSE o \in Objects : o \notin Reachable
       IN  /\ heap' = IF byName[m] = Null THEN [heap EXCEPT ![new] = Loaded(answer[m])] ELSE heap
           /\ byName' = IF byName[m] = Null THEN [byName EXCEPT ![m] = new] ELSE byName
    /\ toSet' = toSet \ {m}
    /\ UNCHANGED <<dealVars, subscribed, channel, byId, consumerVars, loader, answer>>

\* Set: a new object.  What nobody can reach any more is blanked.
Set(m) ==
    /\ loader = "setting" /\ m \in toSet
    /\ LET new == CHOOSE o \in Objects : o \notin Reachable
       IN  /\ heap' = [o \in Objects |-> IF o = new THEN Loaded(answer[m])
                                         ELSE IF o \in Reachable THEN heap[o] ELSE Blank]
           /\ byName' = [byName EXCEPT ![m] = new]
    /\ toSet' = toSet \ {m}
    /\ UNCHANGED <<dealVars, subscribed, channel, byId, consumerVars, loader, answer>>

Rest ==
    /\ loader = "setting" /\ toSet = {}
    /\ loader' = "resting" /\ answer' = [m \in Markets |-> {}]
    /\ UNCHANGED <<dealVars, subscribed, channel, cacheVars, consumerVars, toSet>>

-------------------------------------------------------------------------------
(***************************************************************************)
(* What the APIs answer: GetTickerPriceChangeStatistics of the service.    *)
(***************************************************************************)
\* Get of a reader, by name or by ID; a key without a ticker has none.
Cached(m) == {byName[m], byId[m]} \ {Null}

\* No symbol is given: all markets that have a ticker, by name.
AllTickers == {byName[m] : m \in Markets} \ {Null}

GetTicker(m) == {heap[o] : o \in Cached(m)}

-------------------------------------------------------------------------------
Handle(w) == UpdateWithNewDeal(w) \/ SaveDeal(w)
ConsumeNewDeals == (\E m \in Markets : Subscribe(m)) \/ Receive \/ Get \/ WriteField \/ PutBack
LoadCache == Tick \/ Query \/ QueryFails \/ (\E m \in Markets : Set(m)) \/ Rest

Next == Age \/ ConsumeNewDeals \/ LoadCache \/ \E w \in Workers : Consume(w) \/ Handle(w)

Spec == Init /\ [][Next]_vars

(***************************************************************************)
(* Fairness: goroutines run, the second passes, and the database answers   *)
(* again and again.  Nobody owes a deal, and time need not pass for a day. *)
(***************************************************************************)
FairSpec ==
    /\ Spec
    /\ WF_vars(ConsumeNewDeals)
    /\ WF_vars(LoadCache) /\ SF_vars(Query)
    /\ \A w \in Workers : WF_vars(Handle(w))

-------------------------------------------------------------------------------
(***************************************************************************)
(* Properties.                                                             *)
(***************************************************************************)
Deals == 1 .. Len(deals)

Last(o) == {heap[o][f] : f \in Range(LastFields)}

\* A cached ticker shows the price, amount, time and id of one deal, whatever the
\* loader replaces while ConsumeNewDeals writes; only the object it is writing
\* mixes two.
TickersAreWhole ==
    \A o \in Reachable \ {ticker} : Cardinality(Last(o)) = 1

\* A ticker tells deals of its own market, under its name as under its ID, and the
\* answer for all markets has one for each market that has a ticker at all.
TickersKeepTheirMarket ==
    /\ \A m \in Markets : \A t \in GetTicker(m) :
          \A d \in t.window \cup {t[f] : f \in Range(LastFields)} : deals[d] = m
    /\ Cardinality(AllTickers) = Cardinality({m \in Markets : byName[m] # Null})

\* Once no deals come any more, the ticker of a market with stored deals in the
\* window shows the last of them, and goes on showing it: late writes of
\* ConsumeNewDeals, dropped deals and failed queries are made good (LoadCache).
TickersCatchUp ==
    \A m \in Markets : \A d \in 1 .. MaxDeals :
        <>[](d \in InWindow(m) /\ \A e \in InWindow(m) : e <= d)
            => <>[](byName[m] # Null /\ Last(byName[m]) = {d})

\* UpdateWithNewDeal logs a market without a channel as an error: every market
\* should get one.
EveryMarketIsSubscribed == <>(subscribed = Markets)
===============================================================================
