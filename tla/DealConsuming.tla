----------------------------- MODULE DealConsuming -----------------------------
(***************************************************************************)
(* What becomes of the messages of the deals topic: the handler of         *)
(* Deal.RunConsuming adds a deal to the live candles and then saves it;    *)
(* the subscriber delivers a message again when the handler fails or when  *)
(* the process ends before the message is committed; and a new process     *)
(* loads the live candles from the saved deals.                            *)
(*                                                                         *)
(* One window of time is looked at: all deals are made in it, and it does  *)
(* not end (CurrentCandles is about windows).  A live candle and a query   *)
(* of the database are compared by how often each deal is counted in them. *)
(***************************************************************************)
EXTENDS Naturals, Sequences

CONSTANTS
    Markets,       \* the markets of the exchange, by ID
    Workers,       \* the subscriber's workers (KAFKA_CONSUMER_COUNT)
    MaxMessages,   \* bound: messages of the topic
    MaxFaults,     \* bound: crashes, and calls of other services that fail
    MaxRetries     \* bound: failed messages that are delivered again

ASSUME MessagesAssumption == MaxMessages \in Nat
ASSUME FaultsAssumption == MaxFaults \in Nat /\ MaxRetries \in Nat

\* What the exchange, Kafka and MongoDB keep.
VARIABLES
    listed,        \* the markets the market service answers
    topic,         \* the messages
    committed,     \* the messages that are not delivered after a restart
    collection,    \* the deals collection: "none", "bare" or "indexed"
    stored         \* how many documents there are of each message

\* What the process keeps.
VARIABLES
    phase,         \* where main is, "down" if there is no process
    known,         \* marketsMap
    toLoad,        \* the markets whose candles are still to load
    live,          \* how often the candle counts each message
    work,          \* the message each worker has and how far it is
    settled        \* the messages the subscriber is done with

\* Bounds and history, which decide nothing.
VARIABLES
    faults, retries,
    blind,         \* the markets whose candles were loaded without an answer
    failed,        \* the messages that made the handler fail in this process
    gaveUp         \* the messages settled although the handler failed

durable == <<listed, topic, committed, collection, stored>>
history == <<blind, failed, gaveUp>>
vars == <<durable, phase, known, toLoad, live, work, settled, faults, retries, history>>

(***************************************************************************)
(* A message: a deal; one without the ID of an order; one that Validate    *)
(* refuses; one whose price or amount is no number; one that is no deal.   *)
(***************************************************************************)
Kinds == {"deal", "noOrders", "illegal", "noNumber", "garbage"}

Messages == 1..MaxMessages
Produced == 1..Len(topic)

Nobody == [msg |-> 0, step |-> "free"]

At(w, step) == work[w].step = step

\* What a worker does next with its message.
Goes(w, step) == work' = [work EXCEPT ![w].step = step]

\* Two workers may get one message.
DueToAll(i) == i \in Produced \ settled

\* A message nobody has and that is not settled is delivered.
Due(i) == i \in Produced \ settled /\ \A w \in Workers : work[w].msg # i

Never == [i \in Messages |-> 0]

Init ==
    /\ listed \in SUBSET Markets /\ topic = <<>> /\ committed = {}
    /\ collection = "none" /\ stored = Never
    /\ phase = "down" /\ known = {} /\ toLoad = {} /\ live = Never
    /\ work = [w \in Workers |-> Nobody] /\ settled = {}
    /\ faults = 0 /\ retries = 0
    /\ blind = {} /\ failed = {} /\ gaveUp = {}

-------------------------------------------------------------------------------
(***************************************************************************)
(* The end of the process: a crash, a panic, log.Fatal, or main returning  *)
(* while handlers run.                                                     *)
(***************************************************************************)
Fault == faults < MaxFaults /\ faults' = faults + 1

Dies ==
    /\ Fault
    /\ phase' = "down" /\ known' = {} /\ toLoad' = {} /\ live' = Never
    /\ work' = [w \in Workers |-> Nobody] /\ settled' = committed
    /\ blind' = {} /\ failed' = {}
    /\ UNCHANGED <<retries, gaveUp>>

Crash ==
    /\ phase # "down" /\ Dies
    /\ UNCHANGED durable

-------------------------------------------------------------------------------
(***************************************************************************)
(* The start of main, up to RunConsuming.                                  *)
(***************************************************************************)
\* The process is started (again), and asks for the markets once.  A failure is
\* fatal.
BuildAvailableMarkets ==
    /\ phase = "down" /\ UNCHANGED durable
    /\ \/ /\ phase' = "connected" /\ known' = listed
          /\ UNCHANGED <<toLoad, live, work, settled, faults, retries, history>>
       \/ Dies

\* A new collection gets its index in a call of its own, which panics if it
\* fails; a collection found is taken as it is.
GetOrCreateDealsCollection ==
    /\ phase = "connected"
    /\ IF collection = "none" THEN collection' = "bare" /\ phase' = "created"
                              ELSE collection' = collection /\ phase' = "loading"
    /\ toLoad' = known
    /\ UNCHANGED <<listed, topic, committed, stored, known, live, work, settled,
                   faults, retries, history>>

CreateIndex ==
    /\ phase = "created" /\ UNCHANGED <<listed, topic, committed, stored>>
    /\ \/ /\ collection' = "indexed" /\ phase' = "loading"
          /\ UNCHANGED <<known, toLoad, live, work, settled, faults, retries, history>>
       \/ collection' = collection /\ Dies

\* The query counts the deals of a market, whatever their documents.
SummedOnce(i) == IF stored[i] > 0 THEN 1 ELSE 0

\* The query sums all documents of a market.
Summed(i) == stored[i]

\* The candle of m is what the database answers.  The query names the index as
\* its hint; when it fails, for want of the index or otherwise, GetCandles
\* answers no chart, GetCurrentCandle no error, and the candle starts empty.
InitCurrentCandle(m) ==
    /\ phase = "loading" /\ m \in toLoad
    /\ toLoad' = toLoad \ {m}
    /\ \/ /\ collection = "indexed"
          /\ live' = [i \in Messages |-> IF i \in Produced /\ topic[i].market = m
                                         THEN Summed(i) ELSE live[i]]
          /\ UNCHANGED <<blind, faults>>
       \/ /\ \/ collection = "bare" /\ faults' = faults
             \/ collection = "indexed" /\ Fault
          /\ blind' = blind \cup {m}
          /\ UNCHANGED live
    /\ UNCHANGED <<durable, phase, known, work, settled, retries, failed, gaveUp>>

RunConsuming ==
    /\ phase = "loading" /\ toLoad = {}
    /\ phase' = "consuming"
    /\ UNCHANGED <<durable, known, toLoad, live, work, settled, faults, retries, history>>

-------------------------------------------------------------------------------
(***************************************************************************)
(* The handler, run by each worker.  What it tells the ticker cache and    *)
(* the deal channel is in TickerCache and DealFanout.                      *)
(***************************************************************************)
Fetch(w, i) ==
    /\ phase = "consuming" /\ At(w, "free") /\ Due(i)
    /\ work' = [work EXCEPT ![w] = [msg |-> i, step |-> "fetched"]]
    /\ UNCHANGED <<durable, phase, known, toLoad, live, settled, faults, retries, history>>

Fails(w) ==
    /\ Goes(w, "failed")
    /\ failed' = failed \cup {work[w].msg}

\* A deal already in the candle is not added again.
CountedOnce(n) == 1

\* A deal adds to the candle, whether or not it came before.
Counted(n) == n + 1

\* A market's candles count what AddDeal can parse; of other markets there are
\* none.  The handler only logs AddDeal's error.
AddDeal(w) ==
    LET i == work[w].msg
    IN  /\ At(w, "fetched")
        /\ IF topic[i].kind = "garbage"
           THEN Fails(w) /\ live' = live
           ELSE /\ Goes(w, "added") /\ failed' = failed
                /\ live' = IF topic[i].kind # "noNumber" /\ topic[i].market \in known
                           THEN [live EXCEPT ![i] = Counted(@)] ELSE live
        /\ UNCHANGED <<durable, phase, known, toLoad, settled, faults, retries, blind, gaveUp>>

\* Documents are inserted one by one; no index keeps them unique.  An insert
\* that fails may have been made.
Insert(w) ==
    LET inserted == [stored EXCEPT ![work[w].msg] = @ + 1]
    IN  \/ /\ stored' = inserted /\ Goes(w, "handled")
           /\ UNCHANGED <<faults, failed>>
        \/ /\ stored' \in {stored, inserted} /\ Fails(w) /\ Fault

\* A message without orders is skipped before its numbers are parsed, and those
\* before Validate sees the market's name.  Numbers that do not parse panic,
\* which ends the process unless the subscriber recovers.
SaveDeal(w) ==
    LET m == topic[work[w].msg]
    IN  /\ At(w, "added")
        /\ \/ /\ m.kind = "noOrders" /\ Goes(w, "handled")
              /\ UNCHANGED <<stored, phase, known, toLoad, live, settled,
                             faults, retries, history>>
           \/ /\ m.kind = "noNumber" /\ stored' = stored /\ Dies
           \/ /\ m.kind \in {"noNumber", "illegal"} \/ (m.kind = "deal" /\ m.market \notin known)
              /\ Fails(w)
              /\ UNCHANGED <<stored, phase, known, toLoad, live, settled,
                             faults, retries, blind, gaveUp>>
           \/ /\ m.kind = "deal" /\ m.market \in known
              /\ Insert(w)
              /\ UNCHANGED <<phase, known, toLoad, live, settled, retries, blind, gaveUp>>
        /\ UNCHANGED <<listed, topic, committed, collection>>

\* The handler's error is logged and forgotten.
HandledOrFailed(w) == At(w, "handled") \/ At(w, "failed")

Handled(w) == At(w, "handled")

-------------------------------------------------------------------------------
(***************************************************************************)
(* The subscriber: a handled message is settled, a failed one is delivered *)
(* again or given up; settled messages are committed some time later.      *)
(***************************************************************************)
Free(w) == work' = [work EXCEPT ![w] = Nobody]

Ack(w) ==
    /\ Handled(w) /\ Free(w)
    /\ settled' = settled \cup {work[w].msg}
    /\ UNCHANGED <<durable, phase, known, toLoad, live, faults, retries, history>>

Retry(w) ==
    /\ At(w, "failed") /\ Free(w)
    /\ retries < MaxRetries /\ retries' = retries + 1
    /\ UNCHANGED <<durable, phase, known, toLoad, live, settled, faults, history>>

GiveUp(w) ==
    /\ At(w, "failed") /\ Free(w)
    /\ settled' = settled \cup {work[w].msg}
    /\ gaveUp' = gaveUp \cup {work[w].msg}
    /\ UNCHANGED <<durable, phase, known, toLoad, live, faults, retries, blind, failed>>

Commit(i) ==
    /\ i \in settled \ committed
    /\ committed' = committed \cup {i}
    /\ UNCHANGED <<listed, topic, collection, stored, phase, known, toLoad, live, work,
                   settled, faults, retries, history>>

-------------------------------------------------------------------------------
(***************************************************************************)
(* The exchange lists markets and makes deals.                             *)
(***************************************************************************)
List(m) ==
    /\ m \notin listed /\ listed' = listed \cup {m}
    /\ UNCHANGED <<topic, committed, collection, stored, phase, known, toLoad, live, work,
                   settled, faults, retries, history>>

Produce(k, m) ==
    /\ m \in listed /\ Len(topic) < MaxMessages
    /\ topic' = Append(topic, [kind |-> k, market |-> m])
    /\ UNCHANGED <<listed, committed, collection, stored, phase, known, toLoad, live, work,
                   settled, faults, retries, history>>

-------------------------------------------------------------------------------
StartUp ==
    \/ BuildAvailableMarkets \/ GetOrCreateDealsCollection \/ CreateIndex
    \/ \E m \in Markets : InitCurrentCandle(m)
    \/ RunConsuming

Work(w) ==
    \/ \E i \in Messages : Fetch(w, i)
    \/ AddDeal(w) \/ SaveDeal(w)
    \/ Ack(w) \/ Retry(w) \/ GiveUp(w)

\* Nothing is left to do within the bounds.
Rest ==
    /\ Len(topic) = MaxMessages /\ committed = Messages /\ faults = MaxFaults
    /\ listed = Markets /\ phase = "consuming"
    /\ UNCHANGED vars

Next ==
    \/ StartUp \/ Crash
    \/ \E w \in Workers : Work(w)
    \/ \E i \in Messages : Commit(i)
    \/ \E m \in Markets : List(m) \/ \E k \in Kinds : Produce(k, m)
    \/ Rest

Spec == Init /\ [][Next]_vars

\* The process is started again, gets on with its start, and its workers work.
FairSpec == Spec /\ WF_vars(StartUp) /\ \A w \in Workers : WF_vars(Work(w))

-------------------------------------------------------------------------------
(***************************************************************************)
(* Properties.                                                             *)
(***************************************************************************)
\* Every variable has its type; there is work only while messages are consumed,
\* no message is in two hands, and none is both in work and settled.
TypeOK ==
    /\ listed \subseteq Markets /\ known \subseteq listed
    /\ topic \in Seq([kind : Kinds, market : Markets]) /\ Len(topic) <= MaxMessages
    /\ committed \subseteq settled /\ settled \subseteq Produced
    /\ gaveUp \subseteq Produced /\ failed \subseteq Produced
    /\ collection \in {"none", "bare", "indexed"}
    /\ stored \in [Messages -> Nat] /\ live \in [Messages -> Nat]
    /\ phase \in {"down", "connected", "created", "loading", "consuming"}
    /\ toLoad \subseteq known /\ blind \subseteq known
    /\ work \in [Workers -> [msg : {0} \cup Produced,
                             step : {"free", "fetched", "added", "handled", "failed"}]]
    /\ faults \in 0..MaxFaults /\ retries \in 0..MaxRetries
    /\ \A w \in Workers :
          /\ At(w, "free") <=> work[w].msg = 0
          /\ ~At(w, "free") => phase = "consuming" /\ work[w].msg \notin settled
          /\ \A v \in Workers : work[v].msg = work[w].msg => v = w \/ At(w, "free")

\* The candle of i's market is loaded, from an answer of the database.
Sighted(i) == phase \in {"loading", "consuming"} /\ topic[i].market \in known \ (toLoad \cup blind)

\* The live candle never shows less than a chart query: whatever is delivered
\* twice, fails, or is cut off by a crash, a deal counts in the live candle of
\* a process at least as often as in the database.
LiveCoversStored ==
    \A i \in Produced : Sighted(i) => live[i] >= stored[i]

\* For deals whose handler never failed in this process the two agree, but for
\* the moment between AddDeal and the insert: also for deals stored twice, and
\* for those of an earlier process.
LiveMatchesStored ==
    \A i \in Produced :
        /\ Sighted(i) /\ topic[i].kind = "deal" /\ i \notin failed
        /\ \A w \in Workers : work[w].msg = i => ~At(w, "added")
        => live[i] = stored[i]

\* No crash and no failure makes the service lose a deal: what is settled, and
\* so may never come again, is in the database, or was given up on its error.
SettledIsStored ==
    \A i \in settled \ gaveUp : topic[i].kind = "deal" => stored[i] > 0

\* Nothing keeps a deal from being stored twice, but each further time takes a
\* crash or an insert that fails after it was made.
DuplicatesNeedFaults == \A i \in Messages : stored[i] <= 1 + faults

\* A deal of a market the process knows comes into the database, however often
\* the process crashes on the way, or the subscriber gives it up on an error.
DealsEndUpStored ==
    \A i \in Messages :
        (i \in Produced /\ topic[i].kind = "deal" /\ topic[i].market \in known)
            ~> (stored[i] > 0 \/ i \in gaveUp)
===============================================================================
