------------------------------ MODULE UpdatesFeed ------------------------------
(***************************************************************************)
(* The way of a candle's update to the clients: listenCurrentCandlesUpdates*)
(* turns it into a chart and offers it to Microbatching; its goroutine     *)
(* receives the batches and publishes each on the in-memory broker, which  *)
(* runs the broadcaster in a goroutine of its own; the broadcaster sends   *)
(* the batch to Centrifugo in one request.                                 *)
(*                                                                         *)
(* main's context is never done and its updates never end.  The listener   *)
(* and Microbatching are written for both, in either order, so both may    *)
(* happen here.  The receiver is written for the context alone: the end of *)
(* the batches it takes for nil batches without end.                       *)
(***************************************************************************)
EXTENDS Microbatching, FiniteSets

CONSTANTS
    marketsMap,     \* the names of the markets by their IDs
    Updates,        \* symbol, resolution and time of the updates that may come
    MaxFailures,    \* bound: batches Centrifugo does not take, or not all of
    MaxNilHandlers  \* bound: handlers of nil batches at one time

ASSUME FailuresAssumption == MaxFailures \in Nat
ASSUME NilHandlersAssumption == MaxNilHandlers \in Nat
ASSUME NamesAssumption == Symbols = DOMAIN marketsMap \cup Range(marketsMap)
ASSUME UpdatesAssumption == Updates \subseteq Symbols \X Resolutions \X Times

VARIABLES
    receiving,      \* the goroutine that receives the batches runs
    inFlight,       \* the batches whose handlers run
    nilHandlers,    \* how many handlers of nil batches run
    published,      \* the points Centrifugo took
    failures

feedVars == <<receiving, inFlight, nilHandlers, published, failures>>
allVars == <<vars, feedVars>>

\* The names of the markets are looked up, by whatever the update carries.
NameOf(symbol) == IF symbol \in DOMAIN marketsMap THEN marketsMap[symbol] ELSE ""

\* A candle loaded from the database carries its market's name, one built later
\* the ID.
SymbolOf(symbol) == IF symbol \in DOMAIN marketsMap THEN marketsMap[symbol] ELSE symbol

\* GetChartsChannels: one per market's name and available resolution.
Channels == Range(marketsMap) \X Resolutions

HasChannel(chart) == <<chart.symbol, chart.resolution>> \in Channels

\* Of a sequence of sequences, those at some places, one after the other.
Kept(seqs, places) == FlattenSeq([i \in DOMAIN seqs |-> IF i \in places THEN seqs[i] ELSE <<>>])

FeedInit ==
    /\ Init
    /\ receiving = TRUE /\ inFlight = {} /\ nilHandlers = 0
    /\ published = <<>> /\ failures = 0

-------------------------------------------------------------------------------
(***************************************************************************)
(* The listener.                                                           *)
(***************************************************************************)
\* The next update becomes a chart of one point, and waits for Microbatching.
Listen(upd) ==
    /\ Offer(SymbolOf(upd[1]), upd[2], upd[3])
    /\ UNCHANGED feedVars

\* The updates channel is closed: the loop is over, and chartStream is closed.
ListenerEnds == Close /\ UNCHANGED feedVars

\* The context is found done instead.
ListenerGivesUp ==
    /\ cancelled /\ offered # <<>>
    /\ offered' = <<>> /\ closed' = TRUE
    /\ UNCHANGED <<cancelled, mode, batch, delivered, taken, feedVars>>

-------------------------------------------------------------------------------
(***************************************************************************)
(* The receiver of the batches, and the handlers the broker starts.        *)
(***************************************************************************)
\* Publish starts a goroutine for the batch and does not wait for it.
Publish(b) == inFlight' = inFlight \cup {b}

ReceiveBatch ==
    /\ receiving
    /\ Deliver
    /\ Publish(Len(delivered'))
    /\ UNCHANGED <<receiving, nilHandlers, published, failures>>

\* Microbatching has closed batchStream, which gives nil at once, each time.  The
\* receiver does not ask whether the channel is closed and publishes nil.
ReceiveNil ==
    /\ receiving
    /\ mode = "done"
    /\ nilHandlers < MaxNilHandlers
    /\ nilHandlers' = nilHandlers + 1
    /\ UNCHANGED <<vars, receiving, inFlight, published, failures>>

StopReceiving ==
    /\ cancelled /\ receiving
    /\ receiving' = FALSE
    /\ UNCHANGED <<vars, inFlight, nilHandlers, published, failures>>

\* A batch that is not taken is sent again.
Resent(b, sent) ==
    /\ b \in inFlight
    /\ inFlight' = IF sent = Points(delivered[b]) THEN inFlight \ {b} ELSE inFlight
    /\ published' = published \o sent

Sent(b, sent) ==
    /\ b \in inFlight
    /\ inFlight' = inFlight \ {b}
    /\ published' = published \o sent

\* BroadcastCandleCharts: a chart without channel panics, the broker recovers,
\* and nothing of the batch is sent.  Otherwise Centrifugo takes all of it, or
\* the request or some of its commands, one for each chart, fail, which is logged.
Broadcast(b) ==
    LET all == DOMAIN delivered[b]
    IN  /\ \E accepted \in IF \A i \in all : HasChannel(delivered[b][i]) THEN SUBSET all ELSE {{}} :
              /\ Sent(b, Kept([i \in all |-> delivered[b][i].points], accepted))
              /\ IF accepted = all THEN failures' = failures
                 ELSE failures < MaxFailures /\ failures' = failures + 1
        /\ UNCHANGED <<vars, receiving, nilHandlers>>

\* Of a nil batch BroadcastCandleCharts makes no message, and BatchPublish returns.
BroadcastNil ==
    /\ nilHandlers > 0
    /\ nilHandlers' = nilHandlers - 1
    /\ UNCHANGED <<vars, receiving, inFlight, published, failures>>

-------------------------------------------------------------------------------
\* Nothing of the feed runs any more.
FeedEnded ==
    /\ Ended
    /\ ~receiving /\ inFlight = {} /\ nilHandlers = 0
    /\ UNCHANGED feedVars

FeedNext ==
    \/ (Take \/ Timeout \/ SeeClosed \/ SeeCancelled \/ Cancel) /\ UNCHANGED feedVars
    \/ \E upd \in Updates : Listen(upd)
    \/ ListenerEnds \/ ListenerGivesUp
    \/ ReceiveBatch \/ ReceiveNil \/ StopReceiving
    \/ \E b \in inFlight : Broadcast(b)
    \/ BroadcastNil
    \/ FeedEnded

FeedSpec == FeedInit /\ [][FeedNext]_allVars

\* Goroutines run, the timer fires, requests to Centrifugo return, and the updates
\* channel is closed when the context is done.  StopReceiving stays possible once the
\* context is done; the receiver's select chooses at random, so it does not prefer
\* the nil batches, which are always there, for ever.
FairFeedSpec ==
    /\ FeedSpec
    /\ WF_allVars((Take \/ Timeout \/ SeeClosed) /\ UNCHANGED feedVars)
    /\ WF_allVars(SeeCancelled /\ UNCHANGED feedVars)
    /\ WF_allVars(ReceiveBatch) /\ WF_allVars(StopReceiving)
    /\ WF_allVars(cancelled /\ (ListenerEnds \/ ListenerGivesUp))
    /\ \A b \in 1..MaxCharts : WF_allVars(b \in inFlight /\ Broadcast(b))
    /\ WF_allVars(BroadcastNil)

-------------------------------------------------------------------------------
(***************************************************************************)
(* Properties.                                                             *)
(***************************************************************************)
\* The broadcaster has a channel for every chart it gets, whether the candle was
\* loaded from the database or built since: no handler panics, which would lose
\* the updates of other markets with it.
ChannelsExist ==
    \A b \in DOMAIN delivered : \A chart \in Range(delivered[b]) : HasChannel(chart)

Numbers(points) == [i \in DOMAIN points |-> points[i].n]

Waiting == Kept([b \in DOMAIN delivered |-> Points(delivered[b])], inFlight) \o Points(batch)

\* Batches overtake one another, requests fail and the service stops; all the
\* same no update is published twice, and those of a batch stay in order.
Promise == INSTANCE Publications WITH
    waiting <- Numbers(Waiting), published <- Numbers(published), count <- Len(taken)

ImplementsPublications == Promise!Spec

IsIn(n, points) == \E p \in Range(points) : p.n = n

\* No update waits for ever, for company in a batch, for the receiver or for
\* another batch's request: it is published, or Centrifugo did not take it.
TakenIsSettled ==
    \A n \in 1..MaxCharts :
        Len(taken) >= n ~> cancelled \/ (IsIn(n, AllPoints(delivered)) /\ ~IsIn(n, Waiting))

\* When the updates end, so does Microbatching; when the context is done, every
\* goroutine of the feed ends for good, wherever it waits: the receiver too, although
\* the closed batchStream gives it one nil batch after the other, and with it the
\* handlers it starts for them.  The end of the updates alone does not end it.
FeedEnds ==
    /\ closed \/ cancelled ~> mode = "done"
    /\ cancelled ~> [](/\ closed /\ ~receiving
                      /\ inFlight = {} /\ nilHandlers = 0)
===============================================================================
