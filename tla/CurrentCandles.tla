---------------------------- MODULE CurrentCandles ----------------------------
(***************************************************************************)
(* The live candles of the service: type currentCandles of                 *)
(* candle/current_candles.go, with the loop of cmd/consumer/main.go that   *)
(* fills it at start-up and the channel its updates leave by.              *)
(*                                                                         *)
(* Three kinds of goroutine call it: the start-up loop (AddCandle), the    *)
(* Kafka handler (AddDeal) and the cron jobs (refreshAll, one goroutine    *)
(* per minute).  Each holds candlesLock for its whole call, visits its     *)
(* markets and resolutions in the random order of Go's map iteration,      *)
(* reads the clock anew for each, and sends the updates to a bounded       *)
(* channel while it holds the lock, so a full channel holds up everybody.  *)
(***************************************************************************)
EXTENDS Candles, Sequences, FiniteSets

CONSTANTS
    Instants,     \* the ticks at which the clock is read
    MinuteTicks,  \* the length of a minute, the period of the cron job
    StreamCap,    \* capacity of updatesStream (512 in main.go)
    MaxDeals,     \* bound: how many deals the run brings
    MaxSkew,      \* how far ahead of this clock a deal may be stamped
    Stored        \* Stored[m][r][t]: the chart GetCurrentCandle returns at t

ASSUME InstantAssumption == Instants \subseteq Nat /\ Instants # {}
ASSUME BoundAssumption == /\ MinuteTicks \in Nat \ {0}
                          /\ StreamCap \in Nat \ {0}
                          /\ MaxDeals \in Nat
                          /\ MaxSkew \in Nat
ASSUME StoredAssumption ==
    Stored \in [Markets -> [Resolutions -> [Instants -> Chart \cup {NoChart}]]]

VARIABLES
    now,            \* the clock
    refreshesDue,   \* cron goroutines that wait for candlesLock
    candles,        \* c.candles: market -> resolution -> candle
    updatesStream,  \* the channel, oldest update first
    call,           \* the call that holds candlesLock
    unsent,         \* what the running setCandle has still to send
    toLoad,         \* pairs that initCurrentCandles has still to load
    loaded,         \* the candle read from the database and not yet added
    dealsTaken      \* how many deals have arrived

\* History, read by no action: what a correct live candle would have counted,
\* and the last update sent for each candle.
VARIABLES tally, sent

vars == <<now, refreshesDue, candles, updatesStream, call, unsent, toLoad,
          loaded, dealsTaken, tally, sent>>

Pairs == Markets \X Resolutions

NoDeal == [market |-> "none"]

NoCall == [op |-> "none", todo |-> {}, market |-> "none", deal |-> NoDeal]

NothingLoaded == [pair |-> <<>>]

NoTally == [window |-> -1, volume |-> 0, last |-> ZeroDecimal]

Init ==
    /\ now \in Instants
    /\ refreshesDue = 0
    /\ candles = [m \in Markets |-> [r \in Resolutions |-> NoCandle]]
    /\ updatesStream = <<>>
    /\ call = NoCall
    /\ unsent = <<>>
    /\ toLoad = Pairs
    /\ loaded = NothingLoaded
    /\ dealsTaken = 0
    /\ tally = [m \in Markets |-> [r \in Resolutions |-> NoTally]]
    /\ sent = [m \in Markets |-> [r \in Resolutions |-> NoCandle]]

-------------------------------------------------------------------------------
(***************************************************************************)
(* The clock, and the cron schedule "0 * * * * *": at the start of each    *)
(* minute a goroutine is started that calls refreshAll.                    *)
(***************************************************************************)
Minute(t) == t \div MinuteTicks

Tick ==
    /\ \E t \in Instants :
          /\ t > now
          /\ \A u \in Instants : u <= now \/ t <= u
          /\ now' = t
          /\ refreshesDue' = IF Minute(t) > Minute(now)
                             THEN refreshesDue + 1 ELSE refreshesDue
    /\ UNCHANGED <<candles, updatesStream, call, unsent, toLoad, loaded,
                   dealsTaken, tally, sent>>

-------------------------------------------------------------------------------
(***************************************************************************)
(* The operations on the map, under the lock.                              *)
(***************************************************************************)
\* getFreshCandle without the expiry test.
StoredOrBuilt(m, r) ==
    IF candles[m][r] = NoCandle THEN FreshCandle(m, r, now) ELSE candles[m][r]

\* The stored candle while it is live, else the empty candle of this window.
GetFreshCandle(m, r) ==
    LET c == candles[m][r] IN
    IF c = NoCandle \/ ~ContainsTs(c, now) THEN FreshCandle(m, r, now) ELSE c

\* setCandle that announces the new candle before the one it closes.
SetCandleNewFirst(m, r, new, isRefresh) ==
    LET old == candles[m][r]
        closing == IF isRefresh /\ old # NoCandle THEN <<old>> ELSE <<>>
    IN  IF old = new THEN UNCHANGED <<candles, unsent>>
        ELSE /\ candles' = [candles EXCEPT ![m][r] = new]
             /\ unsent' = <<new>> \o closing

\* setCandle: nothing if nothing changed; a refresh announces the old candle
\* first.  The map changes between the two sends, under the lock, where no
\* other goroutine can look; here it changes with the first.
SetCandle(m, r, new, isRefresh) ==
    LET old == candles[m][r]
        closing == IF isRefresh /\ old # NoCandle THEN <<old>> ELSE <<>>
    IN  IF old = new THEN UNCHANGED <<candles, unsent>>
        ELSE /\ candles' = [candles EXCEPT ![m][r] = new]
             /\ unsent' = Append(closing, new)

\* Maps are iterated market by market, in any order: the next pair is of the
\* market being visited, unless that market is done.
NextPair(m, r) ==
    /\ <<m, r>> \in call.todo
    /\ m = call.market \/ \A p \in call.todo : p[1] # call.market

\* The loop returns after its first pair.
VisitAndReturn(m, r) ==
    call' = [call EXCEPT !.todo = {}, !.market = m]

Visit(m, r) ==
    call' = [call EXCEPT !.todo = @ \ {<<m, r>>}, !.market = m]

LockFree == call = NoCall

-------------------------------------------------------------------------------
(***************************************************************************)
(* AddDeal, from the Kafka handler.                                        *)
(***************************************************************************)
InitDone == toLoad = {} /\ loaded = NothingLoaded

AddDeal(d) ==
    /\ LockFree /\ InitDone
    /\ dealsTaken < MaxDeals
    /\ d.createdAt <= now + MaxSkew
    /\ dealsTaken' = dealsTaken + 1
    /\ call' = [op |-> "AddDeal", market |-> d.market, deal |-> d,
                todo |-> {p \in Pairs : p[1] = d.market /\ candles[p[1]][p[2]] # NoCandle}]
    /\ UNCHANGED <<now, refreshesDue, candles, updatesStream, unsent, toLoad,
                   loaded, tally, sent>>

\* History: the deal counts in the live window of the resolution if it was
\* made in it, and opens a new count when that window has none yet.
Count(total, r, d) ==
    LET w == WindowStart(r, now) IN
    CASE WindowStart(r, d.createdAt) # w -> total
      [] WindowStart(r, d.createdAt) = w /\ total.window = w ->
            [window |-> w, volume |-> total.volume + d.amount, last |-> d.price]
      [] OTHER -> [window |-> w, volume |-> d.amount, last |-> d.price]

DealIntoCandle(m, r) ==
    LET d == call.deal
        current == GetFreshCandle(m, r)
    IN  /\ call.op = "AddDeal" /\ unsent = <<>>
        /\ NextPair(m, r)
        /\ Visit(m, r)
        /\ \/ /\ ~ContainsTs(current, d.createdAt)
              /\ UNCHANGED <<candles, unsent>>
           \/ /\ ContainsTs(current, d.createdAt)
              /\ SetCandle(m, r, UpdateCandle(current, d), FALSE)
        /\ tally' = [tally EXCEPT ![m][r] = Count(@, r, d)]
        /\ UNCHANGED <<now, refreshesDue, updatesStream, toLoad, loaded,
                       dealsTaken, sent>>

-------------------------------------------------------------------------------
(***************************************************************************)
(* refreshAll, from a cron goroutine.                                      *)
(***************************************************************************)
RefreshAll ==
    /\ LockFree
    /\ refreshesDue > 0
    /\ refreshesDue' = refreshesDue - 1
    /\ call' = [NoCall EXCEPT !.op = "refreshAll",
                   !.todo = {p \in Pairs : candles[p[1]][p[2]] # NoCandle}]
    /\ UNCHANGED <<now, candles, updatesStream, unsent, toLoad, loaded,
                   dealsTaken, tally, sent>>

\* A refresh that empties the candle, expired or not.
RefreshEmptied(m, r) == Inherit(FreshCandle(m, r, now), candles[m][r])

Refreshed(m, r) == Inherit(GetFreshCandle(m, r), candles[m][r])

RefreshCandle(m, r) ==
    /\ call.op = "refreshAll" /\ unsent = <<>>
    /\ NextPair(m, r)
    /\ Visit(m, r)
    /\ SetCandle(m, r, Refreshed(m, r), TRUE)
    /\ UNCHANGED <<now, refreshesDue, updatesStream, toLoad, loaded,
                   dealsTaken, tally, sent>>

-------------------------------------------------------------------------------
(***************************************************************************)
(* Start-up: initCurrentCandles reads each candle from the database and    *)
(* then adds it.  The cron already runs; deals are not consumed yet.       *)
(***************************************************************************)
\* The pairs are read one after the other; their order is left open.
LoadCandle(m, r) ==
    LET chart == Stored[m][r][now]
    IN  /\ <<m, r>> \in toLoad /\ loaded = NothingLoaded /\ call.op # "AddCandle"
        /\ toLoad' = toLoad \ {<<m, r>>}
        /\ loaded' = [pair |-> <<m, r>>,
                      candle |-> IF chart = NoChart THEN NoCandle
                                 ELSE ChartToCurrentCandle(chart, m, r, WindowStart(r, now))]
        /\ UNCHANGED <<now, refreshesDue, candles, updatesStream, call, unsent,
                       dealsTaken, tally, sent>>

AddCandle(m, r) ==
    LET candle == IF loaded.candle = NoCandle THEN FreshCandle(m, r, now)
                  ELSE loaded.candle
    IN  /\ LockFree
        /\ loaded # NothingLoaded /\ loaded.pair = <<m, r>>
        /\ loaded' = NothingLoaded
        /\ call' = [NoCall EXCEPT !.op = "AddCandle"]
        /\ SetCandle(m, r, candle, FALSE)
        /\ tally' = [tally EXCEPT ![m][r] =
                        [window |-> candle.openTime, volume |-> candle.volume,
                         last |-> candle.close]]
        /\ UNCHANGED <<now, refreshesDue, updatesStream, toLoad, dealsTaken, sent>>

-------------------------------------------------------------------------------
(***************************************************************************)
(* The channel.  Send blocks while the channel is full, with the lock      *)
(* held; the receiver is the loop of listenCurrentCandlesUpdates.          *)
(***************************************************************************)
Room == Len(updatesStream) < StreamCap

Send ==
    /\ unsent # <<>> /\ Room
    /\ updatesStream' = Append(updatesStream, Head(unsent))
    /\ unsent' = Tail(unsent)
    /\ sent' = [sent EXCEPT ![Head(unsent).symbol][Head(unsent).resolution] = Head(unsent)]
    /\ UNCHANGED <<now, refreshesDue, candles, call, toLoad, loaded, dealsTaken, tally>>

\* A bug: the receiver looks at the live candles, under the lock.
ReceiveUnderLock ==
    /\ LockFree
    /\ updatesStream # <<>>
    /\ updatesStream' = Tail(updatesStream)
    /\ UNCHANGED <<now, refreshesDue, candles, call, unsent, toLoad, loaded,
                   dealsTaken, tally, sent>>

Receive ==
    /\ updatesStream # <<>>
    /\ updatesStream' = Tail(updatesStream)
    /\ UNCHANGED <<now, refreshesDue, candles, call, unsent, toLoad, loaded,
                   dealsTaken, tally, sent>>

\* A bug: the lock is given back before the updates are sent.
UnlockBeforeSending ==
    /\ ~LockFree /\ call.todo = {}
    /\ call' = NoCall
    /\ UNCHANGED <<now, refreshesDue, candles, updatesStream, unsent, toLoad,
                   loaded, dealsTaken, tally, sent>>

\* The call returns and gives the lock back.
Unlock ==
    /\ ~LockFree /\ call.todo = {} /\ unsent = <<>>
    /\ call' = NoCall
    /\ UNCHANGED <<now, refreshesDue, candles, updatesStream, unsent, toLoad,
                   loaded, dealsTaken, tally, sent>>

\* The bounds of the run are reached and nothing is left to do.
Rest ==
    /\ \A t \in Instants : t <= now
    /\ LockFree /\ InitDone /\ refreshesDue = 0 /\ updatesStream = <<>>
    /\ dealsTaken = MaxDeals
    /\ UNCHANGED vars

Deals == [market : Markets, createdAt : Instants, price : Prices, amount : Amounts]

Next ==
    \/ Tick
    \/ \E d \in Deals : AddDeal(d)
    \/ RefreshAll
    \/ \E m \in Markets, r \in Resolutions :
          \/ DealIntoCandle(m, r)
          \/ RefreshCandle(m, r)
          \/ LoadCandle(m, r)
          \/ AddCandle(m, r)
    \/ Send
    \/ Receive
    \/ Unlock
    \/ Rest

Spec == Init /\ [][Next]_vars

-------------------------------------------------------------------------------
(***************************************************************************)
(* Fairness.  The Go scheduler runs every goroutine that can run, the      *)
(* receiver of the updates loops for ever, and sync.Mutex hands the lock   *)
(* to a goroutine that has waited (its starvation mode), so a waiting      *)
(* refreshAll gets it even if deals keep coming.                           *)
(***************************************************************************)
FairSpec ==
    /\ Spec
    /\ WF_vars(\E m \in Markets, r \in Resolutions : DealIntoCandle(m, r))
    /\ WF_vars(\E m \in Markets, r \in Resolutions : RefreshCandle(m, r))
    /\ SF_vars(RefreshAll)
    /\ WF_vars(Send) /\ WF_vars(Receive) /\ WF_vars(Unlock)

-------------------------------------------------------------------------------
(***************************************************************************)
(* Properties.                                                             *)
(***************************************************************************)
\* Every variable has its type; in particular the channel never holds more
\* than its capacity and the lock is never given back with work left over.
TypeOK ==
    /\ now \in Instants
    /\ refreshesDue \in Nat
    /\ candles \in [Markets -> [Resolutions -> Candle \cup {NoCandle}]]
    /\ updatesStream \in Seq(Candle) /\ Len(updatesStream) <= StreamCap
    /\ call \in [op : {"none", "AddDeal", "refreshAll", "AddCandle"},
                 todo : SUBSET Pairs, market : Markets \cup {"none"},
                 deal : Deals \cup {NoDeal}]
    /\ call.op \in {"none", "AddCandle"} => call.todo = {}
    /\ call.op = "AddDeal" => call.deal \in Deals
    /\ call.op = "none" => call = NoCall /\ unsent = <<>>
    /\ unsent \in Seq(Candle) /\ Len(unsent) <= 2
    /\ toLoad \in SUBSET Pairs
    /\ loaded \in [pair : Pairs, candle : Candle \cup {NoCandle}] \cup {NothingLoaded}
    /\ dealsTaken \in 0..MaxDeals
    /\ tally \in [Markets -> [Resolutions -> [window : Int, volume : Nat, last : Decimal]]]
    /\ sent \in [Markets -> [Resolutions -> Candle \cup {NoCandle}]]

\* A stored candle never shows a volume or a last price other than those of
\* the deals it has seen in its window: each deal handed to AddDeal in the
\* window it was made in is counted once per resolution, whatever refreshes,
\* late deals and clock ticks come between, and nothing else is.
CandleMatchesTally ==
    \A m \in Markets, r \in Resolutions :
        LET c == candles[m][r]
            total == tally[m][r]
        IN  c # NoCandle =>
              /\ c.openTime >= total.window
              /\ c.volume = IF c.openTime = total.window THEN total.volume ELSE 0
              /\ c.close = total.last

\* Low <= open, close <= high in every stored and every announced candle,
\* also after a refresh has made the four prices one.
PricesInEnvelope ==
    /\ \A m \in Markets, r \in Resolutions :
          candles[m][r] # NoCandle => InEnvelope(candles[m][r])
    /\ \A i \in 1..Len(updatesStream) : InEnvelope(updatesStream[i])

\* Whoever follows the updates knows the live candle: while no call is under
\* way the last update sent for a market and resolution is its candle.
UpdatesReflectCandles ==
    LockFree => \A m \in Markets, r \in Resolutions : sent[m][r] = candles[m][r]

\* The updates of one candle go forward: a later update is of the same or a
\* later window, and within a window the volume never falls.
UpdatesGoForward ==
    [][\A m \in Markets, r \in Resolutions :
          sent[m][r] # NoCandle =>
            /\ sent'[m][r].openTime >= sent[m][r].openTime
            /\ sent'[m][r].openTime = sent[m][r].openTime
                  => sent'[m][r].volume >= sent[m][r].volume]_sent

\* Two live candles of a market whose windows nest have nested volumes: what
\* the minute has counted the hour has counted too, although AddDeal reads the
\* clock anew for each resolution.
NestedVolumes ==
    LockFree => \A m \in Markets, r1, r2 \in Resolutions :
        LET c1 == candles[m][r1]
            c2 == candles[m][r2]
        IN  /\ c1 # NoCandle /\ ContainsTs(c1, now)
            /\ c2 # NoCandle /\ ContainsTs(c2, now)
            /\ c2.openTime <= c1.openTime /\ c1.closeTime <= c2.closeTime
            => c1.volume <= c2.volume

\* The live candles implement LiveTotals: seen as windows, volumes and last
\* prices, each step of the code is one step of the abstract totals or none.
Totals ==
    [m \in Markets |-> [r \in Resolutions |->
        IF candles[m][r] = NoCandle
        THEN [window |-> -1, volume |-> 0, last |-> ZeroDecimal]
        ELSE [window |-> candles[m][r].openTime, volume |-> candles[m][r].volume,
              last |-> candles[m][r].close]]]

Live == INSTANCE LiveTotals WITH totals <- Totals, NoPrice <- ZeroDecimal

ImplementsLiveTotals == Live!Spec

\* A call that has the lock gives it back, whatever the channel holds.
CallsReturn == ~LockFree ~> LockFree

\* When a refresh is due, a candle whose window is over is replaced: neither
\* deals that keep the lock busy nor a full channel hold it up for ever.
OfWindow(m, r, w) == candles[m][r] # NoCandle /\ candles[m][r].openTime = w

ExpiredAreReplaced ==
    \A m \in Markets, r \in Resolutions :
        \A w \in {WindowStart(r, t) : t \in Instants} :
            refreshesDue > 0 /\ OfWindow(m, r, w) /\ w + Duration[r] <= now
                ~> ~OfWindow(m, r, w)

\* The comment in setCandle: the old candle a refresh announces is closed.
RefreshAnnouncesClosed ==
    call.op = "refreshAll" /\ Len(unsent) = 2 => unsent[1].closeTime <= now

-------------------------------------------------------------------------------
(***************************************************************************)
(* What theorems assume of the clock and the database.                     *)
(***************************************************************************)
\* The clock is never read in the last nanosecond of a window.
InstantsInside == \A t \in Instants : InsideWindows(t)

\* The charts of the database have their prices in order.
ChartsPriced ==
    \A m \in Markets, r \in Resolutions, t \in Instants :
        LET chart == Stored[m][r][t]
        IN  chart # NoChart =>
              /\ ValueOrder(chart.l, chart.o) <= 0 /\ ValueOrder(chart.l, chart.c) <= 0
              /\ ValueOrder(chart.o, chart.h) <= 0 /\ ValueOrder(chart.c, chart.h) <= 0

\* The live window of r1 at t1 lies in that of r2 at t2.
LiesIn(r1, t1, r2, t2) ==
    /\ WindowStart(r2, t2) <= WindowStart(r1, t1)
    /\ CloseTime(WindowStart(r1, t1), r1) <= CloseTime(WindowStart(r2, t2), r2)

StoredVolume(m, r, t) == IF Stored[m][r][t] = NoChart THEN 0 ELSE Stored[m][r][t].v

\* A chart of the database has the deals of every chart of a window in its own.
DatabaseNests ==
    \A m \in Markets, r1, r2 \in Resolutions, t1, t2 \in Instants :
        LiesIn(r1, t1, r2, t2) => StoredVolume(m, r1, t1) <= StoredVolume(m, r2, t2)

\* Nobody but this service stores deals, and it takes none before its candles
\* are loaded: a window that starts after an instant of the run has no chart.
DatabaseWaits ==
    \A m \in Markets, r \in Resolutions, t, u \in Instants :
        u < WindowStart(r, t) => Stored[m][r][t] = NoChart

-------------------------------------------------------------------------------
(***************************************************************************)
(* The inductive invariant the proofs rest on.                             *)
(***************************************************************************)
WellFormed(c, m, r, t) ==
    /\ c.symbol = m /\ c.resolution = r
    /\ c.openTime = WindowStart(r, c.openTime) /\ c.openTime <= t
    /\ c.closeTime = CloseTime(c.openTime, r)

\* Stored candles are of the pair they are stored under, start where a window
\* starts and not in the future, and end one tick before it ends.
CandlesWellFormed ==
    \A m \in Markets, r \in Resolutions :
        candles[m][r] # NoCandle => WellFormed(candles[m][r], m, r, now)

\* A pair is loaded once: its candle is absent until AddCandle has stored it.
LoadedOnce ==
    /\ \A m \in Markets, r \in Resolutions :
          <<m, r>> \in toLoad => candles[m][r] = NoCandle
    /\ \A m \in Markets, r \in Resolutions :
          loaded # NothingLoaded /\ loaded.pair = <<m, r>> =>
             /\ <<m, r>> \notin toLoad
             /\ candles[m][r] = NoCandle
             /\ loaded.candle # NoCandle => WellFormed(loaded.candle, m, r, now)

\* Only stored candles are visited by a call.
VisitedAreStored ==
    \A m \in Markets, r \in Resolutions :
        <<m, r>> \in call.todo => candles[m][r] # NoCandle

Progress(old, new) ==
    /\ new.openTime >= old.openTime
    /\ new.openTime = old.openTime => new.volume >= old.volume

\* What is still to be sent ends with the stored candle of one pair, follows
\* the last update sent of that pair, and no other pair has anything unsent.
UnsentFollowsSent ==
    \A m \in Markets, r \in Resolutions :
        LET old == sent[m][r]
            new == candles[m][r]
        IN  /\ old # NoCandle => old.symbol = m /\ old.resolution = r
            /\ \/ /\ old = new
                  /\ \A i \in 1..Len(unsent) :
                        unsent[i].symbol # m \/ unsent[i].resolution # r
               \/ /\ new # NoCandle
                  /\ old # NoCandle => Progress(old, new)
                  /\ unsent = <<new>> \/ (old # NoCandle /\ unsent = <<old, new>>)

\* TypeOK, CandleMatchesTally and what it takes to carry them through a step.
IndInv ==
    /\ TypeOK
    /\ VisitedAreStored
    /\ CandlesWellFormed
    /\ LoadedOnce
    /\ CandleMatchesTally
    /\ UnsentFollowsSent
===============================================================================
