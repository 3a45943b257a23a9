------------------------------- MODULE DealFanout -------------------------------
(***************************************************************************)
(* How a saved deal reaches the clients of SubscribeDeals: SaveDeal puts   *)
(* it into dealChannel, the goroutine of consumer.Deal.Consume hands it to *)
(* every subscriber, and one gRPC call per client sends it on.  Both       *)
(* channels drop what they have no room for.  main stops the server        *)
(* gracefully, which waits for the calls.                                  *)
(*                                                                         *)
(* A deal is the number under which dealChannel accepted it.               *)
(***************************************************************************)
EXTENDS Naturals, Sequences, FiniteSets, Functions

CONSTANTS
    Streams,    \* the calls of SubscribeDeals; a call is its own uuid
    DealCap,    \* places of dealChannel
    ClientCap,  \* places of a subscriber's channel
    MaxDeals    \* bound: deals that are saved

ASSUME CapAssumption == DealCap \in Nat \ {0} /\ ClientCap \in Nat \ {0}
ASSUME MaxDealsAssumption == MaxDeals \in Nat

VARIABLES
    dealChannel,  \* the channel between SaveDeal and Consume
    consumer,     \* where Consume is: not yet "running", "waiting" for a deal,
                  \* "holding" one without the lock, "visiting" under RLock
    held,         \* the deal it took: <<>> or <<d>>
    due,          \* the subscribers its loop has still to visit
    subscribers,  \* the keys of the map
    channels,     \* the channel of each call
    call,         \* where each SubscribeDeals call is
    sending,      \* the deal it is sending: <<>> or <<d>>
    gone,         \* the calls whose client went away: the context is done
    server,       \* "serving", "stopping" (in GracefulStop), "exited"
    saved,        \* deals saved, for the bound
    accepted,     \* deals that dealChannel had room for
    received,     \* history: what each client got
    owed          \* history: the deals whose round started with the call subscribed

vars == <<dealChannel, consumer, held, due, subscribers, channels, call, sending,
          gone, server, saved, accepted, received, owed>>

consumeVars == <<dealChannel, consumer, held, due, saved, accepted, owed>>
callVars == <<subscribers, channels, call, sending, gone, received>>

Active(c) == call[c] \in {"entering", "serving", "leaving"}

\* No reader holds subscribersMu: Subscribe and UnSubscribe may write.
Unlocked == consumer # "visiting"

Init ==
    /\ dealChannel = <<>> /\ consumer = "off" /\ held = <<>> /\ due = {}
    /\ subscribers = {} /\ gone = {}
    /\ channels = [c \in Streams |-> <<>>]
    /\ call = [c \in Streams |-> "none"]
    /\ sending = [c \in Streams |-> <<>>]
    /\ server = "serving"
    /\ saved = 0 /\ accepted = 0
    /\ received = [c \in Streams |-> <<>>]
    /\ owed = [c \in Streams |-> {}]

-------------------------------------------------------------------------------
(***************************************************************************)
(* SaveDeal, after the deal is in the database.                            *)
(***************************************************************************)
HasRoom(channel, cap) == Len(channel) < cap

SaveDeal ==
    /\ saved < MaxDeals
    /\ saved' = saved + 1
    /\ IF HasRoom(dealChannel, DealCap)
       THEN /\ dealChannel' = Append(dealChannel, accepted + 1)
            /\ accepted' = accepted + 1
       ELSE UNCHANGED <<dealChannel, accepted>>
    /\ UNCHANGED <<consumer, held, due, owed, callVars, server>>

(***************************************************************************)
(* Consume.                                                                *)
(***************************************************************************)
StartConsume ==
    /\ consumer = "off"
    /\ consumer' = "waiting"
    /\ UNCHANGED <<dealChannel, held, due, saved, accepted, owed, callVars, server>>

Take ==
    /\ consumer = "waiting" /\ dealChannel # <<>>
    /\ consumer' = "holding"
    /\ held' = <<Head(dealChannel)>>
    /\ dealChannel' = Tail(dealChannel)
    /\ UNCHANGED <<due, saved, accepted, owed, callVars, server>>

RLock ==
    /\ consumer = "holding"
    /\ consumer' = "visiting"
    /\ due' = subscribers
    /\ owed' = [c \in Streams |-> IF c \in subscribers THEN owed[c] \cup {held[1]}
                                                       ELSE owed[c]]
    /\ UNCHANGED <<dealChannel, held, saved, accepted, callVars, server>>

\* A bug: the loop takes a subscriber again.
HandAgain(c) ==
    /\ consumer = "visiting" /\ c \in due
    /\ \/ due' = due \ {c}
       \/ due' = due
    /\ channels' = IF HasRoom(channels[c], ClientCap)
                   THEN [channels EXCEPT ![c] = Append(@, held[1])]
                   ELSE channels
    /\ UNCHANGED <<dealChannel, consumer, held, saved, accepted, owed,
                   subscribers, call, sending, gone, received, server>>

\* A bug: a full channel ends the round for everybody.
HandOrStop(c) ==
    /\ consumer = "visiting" /\ c \in due
    /\ IF HasRoom(channels[c], ClientCap)
       THEN /\ due' = due \ {c}
            /\ channels' = [channels EXCEPT ![c] = Append(@, held[1])]
       ELSE due' = {} /\ UNCHANGED channels
    /\ UNCHANGED <<dealChannel, consumer, held, saved, accepted, owed,
                   subscribers, call, sending, gone, received, server>>

\* A bug: the send waits for room.
HandBlocking(c) ==
    /\ HasRoom(channels[c], ClientCap)
    /\ consumer = "visiting" /\ c \in due
    /\ due' = due \ {c}
    /\ channels' = [channels EXCEPT ![c] = Append(@, held[1])]
    /\ UNCHANGED <<dealChannel, consumer, held, saved, accepted, owed,
                   subscribers, call, sending, gone, received, server>>

\* One turn of the loop over the map, in any order.
Hand(c) ==
    /\ consumer = "visiting" /\ c \in due
    /\ due' = due \ {c}
    /\ channels' = IF HasRoom(channels[c], ClientCap)
                   THEN [channels EXCEPT ![c] = Append(@, held[1])]
                   ELSE channels
    /\ UNCHANGED <<dealChannel, consumer, held, saved, accepted, owed,
                   subscribers, call, sending, gone, received, server>>

RUnlock ==
    /\ consumer = "visiting" /\ due = {}
    /\ consumer' = "waiting"
    /\ held' = <<>>
    /\ UNCHANGED <<dealChannel, due, saved, accepted, owed, callVars, server>>

-------------------------------------------------------------------------------
(***************************************************************************)
(* SubscribeDeals and its client.                                          *)
(***************************************************************************)
\* A client calls; a server that is stopping takes no new calls.
Enter(c) ==
    /\ server = "serving" /\ call[c] = "none"
    /\ call' = [call EXCEPT ![c] = "entering"]
    /\ UNCHANGED <<consumeVars, subscribers, channels, sending, gone, received, server>>

Subscribe(c) ==
    /\ call[c] = "entering" /\ Unlocked
    /\ subscribers' = subscribers \cup {c}
    /\ call' = [call EXCEPT ![c] = "serving"]
    /\ UNCHANGED <<consumeVars, channels, sending, gone, received, server>>

\* A bug: a stream is sent one deal, not all in a loop.
ServeOnce(c) ==
    /\ received[c] = <<>>
    /\ call[c] = "serving" /\ sending[c] = <<>>
    /\ channels[c] # <<>>
    /\ sending' = [sending EXCEPT ![c] = <<Head(channels[c])>>]
    /\ channels' = [channels EXCEPT ![c] = Tail(@)]
    /\ UNCHANGED <<consumeVars, subscribers, call, gone, received, server>>

\* The select of the loop: a deal, or the end of the context.
Serve(c) ==
    /\ call[c] = "serving" /\ sending[c] = <<>>
    /\ channels[c] # <<>>
    /\ sending' = [sending EXCEPT ![c] = <<Head(channels[c])>>]
    /\ channels' = [channels EXCEPT ![c] = Tail(@)]
    /\ UNCHANGED <<consumeVars, subscribers, call, gone, received, server>>

SeeDone(c) ==
    /\ call[c] = "serving" /\ sending[c] = <<>>
    /\ c \in gone
    /\ call' = [call EXCEPT ![c] = "leaving"]
    /\ UNCHANGED <<consumeVars, subscribers, channels, sending, gone, received, server>>

\* Send returns when the client took the message, ...
Sent(c) ==
    /\ sending[c] # <<>> /\ c \notin gone
    /\ received' = [received EXCEPT ![c] = @ \o sending[c]]
    /\ sending' = [sending EXCEPT ![c] = <<>>]
    /\ UNCHANGED <<consumeVars, subscribers, channels, call, gone, server>>

\* A bug: Send does not look at the context.
SendHangs(c) ==
    /\ sending[c] # <<>> /\ c \in gone /\ received[c] # <<>>
    /\ sending' = [sending EXCEPT ![c] = <<>>]
    /\ UNCHANGED <<consumeVars, subscribers, channels, call, gone, received, server>>

\* ... or when it went away: the error is logged and the loop goes on.
SendFails(c) ==
    /\ sending[c] # <<>> /\ c \in gone
    /\ sending' = [sending EXCEPT ![c] = <<>>]
    /\ UNCHANGED <<consumeVars, subscribers, channels, call, gone, received, server>>

\* A bug: the map changes without the write lock, during a round as well.
UnSubscribeUnlocked(c) ==
    /\ call[c] = "leaving"
    /\ subscribers' = subscribers \ {c}
    /\ call' = [call EXCEPT ![c] = "ended"]
    /\ UNCHANGED <<consumeVars, channels, sending, gone, received, server>>

\* The deferred UnSubscribe.
UnSubscribe(c) ==
    /\ call[c] = "leaving" /\ Unlocked
    /\ subscribers' = subscribers \ {c}
    /\ call' = [call EXCEPT ![c] = "ended"]
    /\ UNCHANGED <<consumeVars, channels, sending, gone, received, server>>

Disconnect(c) ==
    /\ Active(c) /\ c \notin gone
    /\ gone' = gone \cup {c}
    /\ UNCHANGED <<consumeVars, subscribers, channels, call, sending, received, server>>

-------------------------------------------------------------------------------
(***************************************************************************)
(* The end of main.                                                        *)
(***************************************************************************)
Interrupt ==
    /\ server = "serving"
    /\ server' = "stopping"
    /\ UNCHANGED <<consumeVars, callVars>>

\* GracefulStop returns when no call is left, and main after it.
Exit ==
    /\ server = "stopping"
    /\ \A c \in Streams : ~Active(c)
    /\ server' = "exited"
    /\ UNCHANGED <<consumeVars, callVars>>

Consume == StartConsume \/ Take \/ RLock \/ (\E c \in Streams : Hand(c)) \/ RUnlock

SubscribeDeals(c) ==
    \/ Enter(c) \/ Subscribe(c) \/ Serve(c) \/ SeeDone(c) \/ Sent(c)
    \/ SendFails(c) \/ UnSubscribe(c) \/ Disconnect(c)

Exited == server = "exited" /\ UNCHANGED vars

Next ==
    \/ /\ server # "exited"
       /\ \/ SaveDeal \/ Consume
          \/ \E c \in Streams : SubscribeDeals(c)
          \/ Interrupt \/ Exit
    \/ Exited

Spec == Init /\ [][Next]_vars

(***************************************************************************)
(* Fairness.  Goroutines that can run do run.  select chooses at random    *)
(* among what is ready, and a writer that waits for the lock gets it from  *)
(* the readers, so these two are strong.  A client owes nothing: it need   *)
(* not read, nor go away.                                                  *)
(***************************************************************************)
Running(A) == server # "exited" /\ A

FairSpec ==
    /\ Spec
    /\ WF_vars(Running(Consume)) /\ WF_vars(Exit)
    /\ \A c \in Streams :
          /\ SF_vars(Running(Subscribe(c))) /\ SF_vars(Running(UnSubscribe(c)))
          /\ SF_vars(Running(Serve(c))) /\ SF_vars(Running(SeeDone(c)))
          /\ WF_vars(Running(SendFails(c)))

-------------------------------------------------------------------------------
(***************************************************************************)
(* Properties.                                                             *)
(***************************************************************************)
Deals == 1 .. accepted
AtMostOne == {<<>>} \cup {<<d>> : d \in Deals}

\* The type invariant: no channel holds more than its places, the loop visits
\* subscribers only, and who is subscribed follows from where each call is.
TypeOK ==
    /\ saved \in 0 .. MaxDeals /\ accepted \in 0 .. saved
    /\ dealChannel \in Seq(Deals) /\ Len(dealChannel) <= DealCap
    /\ consumer \in {"off", "waiting", "holding", "visiting"}
    /\ held \in AtMostOne
    /\ (held # <<>>) <=> (consumer \in {"holding", "visiting"})
    /\ due \subseteq subscribers /\ (due # {} => consumer = "visiting")
    /\ call \in [Streams -> {"none", "entering", "serving", "leaving", "ended"}]
    /\ subscribers = {c \in Streams : call[c] \in {"serving", "leaving"}}
    /\ channels \in [Streams -> Seq(Deals)]
    /\ \A c \in Streams : Len(channels[c]) <= ClientCap
    /\ sending \in [Streams -> AtMostOne]
    /\ \A c \in Streams : sending[c] # <<>> => call[c] = "serving"
    /\ gone \subseteq {c \in Streams : call[c] # "none"}
    /\ server \in {"serving", "stopping", "exited"}
    /\ received \in [Streams -> Seq(Deals)]
    /\ owed \in [Streams -> SUBSET Deals]

Ascending(s) == \A i, j \in DOMAIN s : i < j => s[i] < s[j]

\* What the client of c has, is being sent, and finds in its channel.
StreamOf(c) == received[c] \o sending[c] \o channels[c]

\* Everything on its way to the client of c, up to the last deal accepted.
Pipeline(c) ==
    StreamOf(c) \o (IF c \in due THEN held ELSE <<>>)
                \o (IF consumer = "holding" THEN held ELSE <<>>) \o dealChannel

\* A client sees deals in the order they were accepted and none twice, whatever
\* it misses and whenever it comes and goes: what it got, what is being sent to
\* it and what is still on its way ascend (Consume, SubscribeDeals).
StreamsAscend == \A c \in Streams : Ascending(Pipeline(c))

\* A client that stays gets what is handed round while it is subscribed, or has got
\* before it as many deals as its channel has places: nobody misses one of the first
\* (Consume's select).  It counts the earlier deals that ever reached the client or its
\* channel, not those that filled the channel when the deal came.
GapsNeedAFullChannel ==
    \A c \in Streams \ gone : \A d \in owed[c] :
        d \in Range(Pipeline(c)) \/
        Cardinality({e \in Range(StreamOf(c)) : e < d}) >= ClientCap

\* Clients that do not read hold nobody up: Consume takes every accepted deal and is
\* done with it while the server runs (the default branches of both selects).
EveryDealIsTaken ==
    \A d \in 1 .. MaxDeals :
        (d \in Range(dealChannel)) ~>
            (d \notin Range(dealChannel) \cup Range(held) \/ server = "exited")

\* A client that always comes back to read gets what its channel holds, unless
\* it goes away (SubscribeDeals' loop).
ReadersAreServed ==
    \A c \in Streams : ([]<>(sending[c] = <<>>)) =>
        \A d \in 1 .. MaxDeals :
            (d \in Range(channels[c])) ~>
                (d \in Range(received[c]) \/ c \in gone)

\* GracefulStop returns once every client of a running call has gone away: no
\* call hangs in Send, in its select or at the lock.
StopsOnceClientsLeave ==
    (<>[](\A c \in Streams : Active(c) => c \in gone)) =>
        (server = "stopping" ~> server = "exited")
=============================================================================
