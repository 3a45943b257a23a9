------------------------------- MODULE MarketList -------------------------------
(***************************************************************************)
(* The list of markets that /v1/trading/stats/24h/all adds to the tickers: *)
(* a goroutine of market.NewCache loads it every 30 seconds from the       *)
(* exchange and stores list and error under a lock which the requests'     *)
(* List does not take.  Both are several machine words, which are written  *)
(* and read one by one, in an order of the compiler's.                     *)
(***************************************************************************)
EXTENDS Naturals

CONSTANTS
    Requests,      \* the HTTP requests being served
    MaxVersion     \* bound: how often the exchange changes its list

ASSUME VersionAssumption == MaxVersion \in Nat

VARIABLES
    version,       \* the exchange's list
    tick,          \* a tick waits in the channel of time.Tick
    loader,        \* where load is: "idle", "asking" or "storing"
    answer,        \* what the client's List returned to load
    unwritten,     \* the words load has still to store
    word,          \* the words of markets and err
    request,       \* what each request does: "none" or "reading"
    seen           \* the words it has read so far

\* History, read by no action: the last result stored completely, and the results
\* each request may show.
VARIABLES current, allowed

loadVars == <<tick, loader, answer, unwritten, word, current>>
vars == <<version, loadVars, request, seen, allowed>>

\* A list is known by its version; 0 is nil, and so is the list of an error.
Result == [list : 0..MaxVersion, err : BOOLEAN]

NoResult == [list |-> 0, err |-> FALSE]

\* A slice is its array and its length, an error one word for our purpose.
Words == {"array", "length", "err"}

WordOf(result, w) == IF w = "err" THEN result.err ELSE result.list

Unread == [w \in {} |-> 0]

Init ==
    /\ version = 1
    /\ tick = TRUE /\ loader = "idle" /\ answer = NoResult /\ unwritten = {}
    /\ word = [w \in Words |-> WordOf(NoResult, w)]
    /\ request = [q \in Requests |-> "none"] /\ seen = [q \in Requests |-> Unread]
    /\ current = NoResult /\ allowed = [q \in Requests |-> {}]

-------------------------------------------------------------------------------
(***************************************************************************)
(* The goroutine that loads.  Its first load needs no tick.                *)
(***************************************************************************)
\* time.Tick keeps one tick for a reader that is late.
Tick ==
    /\ ~tick /\ tick' = TRUE
    /\ UNCHANGED <<version, loader, answer, unwritten, word, current, request, seen, allowed>>

\* After an error there is no further load.
StartUnlessFailed ==
    /\ loader = "idle" /\ tick /\ ~word["err"]
    /\ tick' = FALSE /\ loader' = "asking"
    /\ UNCHANGED <<version, answer, unwritten, word, current, request, seen, allowed>>

\* load takes the lock, which nobody else wants, and sends its request.  The
\* context with its 30 seconds does not reach the HTTP client.
Start ==
    /\ loader = "idle" /\ tick
    /\ tick' = FALSE /\ loader' = "asking"
    /\ UNCHANGED <<version, answer, unwritten, word, current, request, seen, allowed>>

\* A request that reads now may show the new result.
Returned(result) ==
    /\ loader = "asking" /\ loader' = "storing"
    /\ answer' = result /\ unwritten' = Words
    /\ allowed' = [q \in Requests |->
                      IF request[q] = "reading" THEN allowed[q] \cup {result} ELSE allowed[q]]
    /\ UNCHANGED <<version, tick, word, current, request, seen>>

\* Status 200 and a list that decodes.
Loaded == Returned([list |-> version, err |-> FALSE])

\* The request fails, another status, or a body that does not decode.
Failed == Returned([list |-> 0, err |-> TRUE])

\* An error is kept until another takes its place.
StoredErrors(w) == IF w = "err" THEN word[w] \/ answer.err ELSE WordOf(answer, w)

Stored(w) == WordOf(answer, w)

StoreWord(w) ==
    /\ w \in unwritten
    /\ word' = [word EXCEPT ![w] = Stored(w)]
    /\ unwritten' = unwritten \ {w}
    /\ IF unwritten' = {} THEN loader' = "idle" /\ current' = answer
                          ELSE UNCHANGED <<loader, current>>
    /\ UNCHANGED <<version, tick, answer, request, seen, allowed>>

-------------------------------------------------------------------------------
(***************************************************************************)
(* A request: V1TradingStats24hAllGet, after it has the tickers.           *)
(***************************************************************************)
CallList(q) ==
    /\ request[q] = "none"
    /\ request' = [request EXCEPT ![q] = "reading"]
    /\ allowed' = [allowed EXCEPT ![q] =
                      {current} \cup (IF loader = "storing" THEN {answer} ELSE {})]
    /\ UNCHANGED <<version, loadVars, seen>>

ReadWord(q, w) ==
    /\ request[q] = "reading" /\ w \notin DOMAIN seen[q]
    /\ seen' = [seen EXCEPT ![q] =
                   [v \in DOMAIN @ \cup {w} |-> IF v = w THEN word[w] ELSE @[v]]]
    /\ UNCHANGED <<version, loadVars, request, allowed>>

\* The status of the answer: an error is one, also when a list came with it.  A
\* market that the list does not have gets fees and precisions of zero.
Status(words) == IF words["err"] THEN 500 ELSE 200

Respond(q) ==
    /\ request[q] = "reading" /\ DOMAIN seen[q] = Words
    /\ request' = [request EXCEPT ![q] = "none"]
    /\ seen' = [seen EXCEPT ![q] = Unread]
    /\ allowed' = [allowed EXCEPT ![q] = {}]
    /\ UNCHANGED <<version, loadVars>>

-------------------------------------------------------------------------------
\* The exchange lists, changes or takes off a market.
Relist ==
    /\ version < MaxVersion /\ version' = version + 1
    /\ UNCHANGED <<loadVars, request, seen, allowed>>

Next ==
    \/ Tick \/ Start \/ Loaded \/ Failed
    \/ \E w \in Words : StoreWord(w)
    \/ \E q \in Requests : CallList(q) \/ Respond(q) \/ \E w \in Words : ReadWord(q, w)
    \/ Relist

Spec == Init /\ [][Next]_vars

\* The goroutine gets on, ticks come, and the exchange, asked again and again,
\* answers again and again; that it answers each time at all is assumed, too.
FairSpec ==
    /\ Spec
    /\ WF_vars(Tick) /\ WF_vars(Start) /\ WF_vars(Loaded \/ Failed) /\ SF_vars(Loaded)
    /\ WF_vars(\E w \in Words : StoreWord(w))

-------------------------------------------------------------------------------
(***************************************************************************)
(* Properties.                                                             *)
(***************************************************************************)
\* Though nothing protects the readers, no request is served anything older than
\* the last load completed when it came: each word is of that load or of one that
\* stored while the request read.  So only during a store can an answer be 200 and
\* empty after the first load, or an array have another's length.
AnswersAreCurrent ==
    \A q \in Requests : \A w \in DOMAIN seen[q] :
        \E result \in allowed[q] : seen[q][w] = WordOf(result, w)

\* A list of the exchange that stays comes to be served, however many loads fail
\* on the way.
ListCatchesUp == \A v \in 1..MaxVersion : version = v ~> current.list = v \/ version # v
===============================================================================
