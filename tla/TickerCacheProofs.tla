--------------------------- MODULE TickerCacheProofs ---------------------------
(***************************************************************************)
(* For any number of markets, workers and deals: a cached ticker tells one *)
(* deal, of its own market.                                                *)
(***************************************************************************)
EXTENDS TickerCache, FiniteSetTheorems, WellFoundedInduction, TLAPS

USE ChannelAssumption, DealsAssumption, MarketsAssumption

-------------------------------------------------------------------------------
(***************************************************************************)
(* The invariant.                                                          *)
(***************************************************************************)
Ticker == [window : SUBSET Nat, lastPrice : Nat, lastQty : Nat, closeTime : Nat, lastId : Nat]

\* What a worker holds is a deal that was made, and so is what is stored.
DealsOK ==
    /\ deals \in Seq(Markets)
    /\ stored \subseteq Deals
    /\ work \in [Workers -> [deal : Nat, step : {"none", "update", "save"}]]
    /\ \A w \in Workers : work[w].step # "none" => work[w].deal \in Deals

\* One market has a channel, and only its deals are in it, or on their way out.
ChannelOK ==
    /\ subscribed \in SUBSET Markets /\ \A m, n \in subscribed : m = n
    /\ consumer \in {"off", "waiting", "looking", "writing"}
    /\ consumer = "off" => subscribed = {}
    /\ channel \in Seq(Nat)
    /\ \A i \in 1 .. Len(channel) : channel[i] \in Deals /\ deals[channel[i]] \in subscribed
    /\ current \in Nat
    /\ consumer \in {"looking", "writing"} =>
          current \in Deals /\ deals[current] \in subscribed

\* What the loader has still to set has deals, and its own.
LoaderOK ==
    /\ answer \in [Markets -> SUBSET Nat]
    /\ \A m \in Markets : \A d \in answer[m] : d \in Deals /\ deals[d] = m
    /\ toSet \in SUBSET Markets /\ \A m \in toSet : answer[m] # {}

ObjectsOK ==
    /\ heap \in [Objects -> Ticker]
    /\ byName \in [Markets -> Objects \cup {Null}]
    /\ byId \in [Markets -> Objects \cup {Null}]
    /\ \A m \in Markets : byId[m] # Null => m \in subscribed
    /\ written \in 0 .. 4
    /\ IF consumer = "writing" THEN ticker \in Objects ELSE ticker = Null /\ written = 0

TypeInv == DealsOK /\ ChannelOK /\ LoaderOK /\ ObjectsOK

\* All that a ticker shows is of one market.
Of(d, m, ds) == d \in 1 .. Len(ds) /\ ds[d] = m

Tells(t, m, ds) ==
    /\ \A d \in t.window : Of(d, m, ds)
    /\ \A i \in 1 .. 4 : Of(t[LastFields[i]], m, ds)

OwnMarket ==
    /\ \A m \in Markets : byName[m] # Null => Tells(heap[byName[m]], m, deals)
    /\ \A m \in Markets : byId[m] # Null => Tells(heap[byId[m]], m, deals)
    /\ ticker # Null => \A m \in subscribed : Tells(heap[ticker], m, deals)

Whole(t) == \A i, j \in 1 .. 4 : t[LastFields[i]] = t[LastFields[j]]

\* The object being written has the new deal in its first fields.
WrittenSoFar ==
    /\ \A o \in Reachable \ {ticker} : Whole(heap[o])
    /\ ticker # Null => \A i \in 1 .. written : heap[ticker][LastFields[i]] = current

TickerInv == TypeInv /\ OwnMarket /\ WrittenSoFar

LEMMA InitTickerInv == Init => TickerInv
<1> SUFFICES ASSUME Init PROVE TickerInv
  OBVIOUS
<1>1. Cardinality(Markets) \in Nat
  BY FS_CardinalityType
<1>2. TypeInv
  BY <1>1 DEF Init, TypeInv, DealsOK, ChannelOK, LoaderOK, ObjectsOK, Deals, NoWork, Null,
     Objects, Blank, Ticker
<1>3. Reachable = {}
  BY DEF Init, Reachable, Range, Null
<1> QED
  BY <1>2, <1>3 DEF Init, TickerInv, OwnMarket, WrittenSoFar, Null

-------------------------------------------------------------------------------
(***************************************************************************)
(* The operators of the model.                                             *)
(***************************************************************************)
LEMMA Fields ==
    /\ LastFields[1] = "lastPrice" /\ LastFields[2] = "lastQty"
    /\ LastFields[3] = "closeTime" /\ LastFields[4] = "lastId"
    /\ Len(LastFields) = 4 /\ DOMAIN LastFields = 1 .. 4
    /\ Range(LastFields) = {"lastPrice", "lastQty", "closeTime", "lastId"}
BY DEF LastFields, Range

\* A set of numbers that has a bound has a greatest element.
LEMMA MaxIsElement ==
    ASSUME NEW n \in Nat, NEW S \in SUBSET (1 .. n), S # {}
    PROVE  Max(S) \in S
<1> DEFINE T == {n - x : x \in S}
<1>1. T \in SUBSET Nat /\ T # {}
  <2>1. PICK x \in S : TRUE
    OBVIOUS
  <2>2. \A y \in S : n - y \in Nat
    OBVIOUS
  <2> QED
    BY <2>1, <2>2
<1>2. PICK k \in T : \A j \in T : ~(<<j, k>> \in OpToRel(<, Nat))
  BY <1>1, NatLessThanWellFounded, WFMin
<1>3. PICK x \in S : k = n - x
  BY <1>2
<1>4. \A y \in S : n - y \in T
  BY DEF T
<1>5. \A y \in S : ~(n - y < n - x)
  BY <1>1, <1>2, <1>3, <1>4 DEF OpToRel
<1>6. \A y \in S : x >= y
  BY <1>5
<1> QED
  BY <1>6 DEF Max

LEMMA AddOne ==
    ASSUME NEW S, IsFiniteSet(S), NEW x, NEW n \in Nat, Cardinality(S) <= n
    PROVE  IsFiniteSet(S \cup {x}) /\ Cardinality(S \cup {x}) <= n + 1
<1>1. Cardinality(S) \in Nat
  BY FS_CardinalityType
<1>2. /\ IsFiniteSet(S \cup {x})
      /\ Cardinality(S \cup {x}) = IF x \in S THEN Cardinality(S) ELSE Cardinality(S) + 1
  BY FS_AddElement
<1> QED
  BY <1>1, <1>2

\* The loader finds an object that is not in use: there are as many by name as
\* markets, one by ID and the one being written.
LEMMA NewObject ==
    ASSUME ObjectsOK, ChannelOK
    PROVE  \E o \in Objects : o \notin Reachable
<1>1. /\ Cardinality(Markets) \in Nat /\ IsFiniteSet(Objects)
      /\ Cardinality(Objects) = Cardinality(Markets) + 3
  <2>1. Cardinality(Markets) \in Nat
    BY FS_CardinalityType
  <2>2. 1 \in Int /\ Cardinality(Markets) + 3 \in Int /\ ~(1 > Cardinality(Markets) + 3)
        /\ (Cardinality(Markets) + 3) - 1 + 1 = Cardinality(Markets) + 3
    BY <2>1
  <2> QED
    BY <2>1, <2>2, FS_Interval DEF Objects
<1>2. IsFiniteSet(Range(byName)) /\ Cardinality(Range(byName)) <= Cardinality(Markets)
  <2>1. byName \in Surjection(Markets, Range(byName))
    BY DEF ObjectsOK, Surjection, Range
  <2> QED
    BY <2>1, FS_Surjection
<1>3. PICK x : Range(byId) \subseteq {Null, x}
  <2>1. CASE \E m \in Markets : byId[m] # Null
    <3>1. PICK m \in Markets : byId[m] # Null
      BY <2>1
    <3>2. \A n \in Markets : n # m => byId[n] = Null
      BY <3>1 DEF ObjectsOK, ChannelOK
    <3>3. Range(byId) \subseteq {Null, byId[m]}
      BY <3>2 DEF ObjectsOK, Range
    <3> QED
      BY <3>3
  <2>2. CASE ~ \E m \in Markets : byId[m] # Null
    BY <2>2 DEF ObjectsOK, Range
  <2> QED
    BY <2>1, <2>2
<1> DEFINE A == Range(byName) \cup {x}
           U == A \cup {ticker}
<1>4. IsFiniteSet(A) /\ Cardinality(A) <= Cardinality(Markets) + 1
  BY ONLY <1>1, <1>2, AddOne DEF A
<1>5. IsFiniteSet(U) /\ Cardinality(U) <= Cardinality(Markets) + 2
  <2>1. Cardinality(Markets) + 1 \in Nat /\ (Cardinality(Markets) + 1) + 1 = Cardinality(Markets) + 2
    BY <1>1
  <2> HIDE DEF A
  <2>2. IsFiniteSet(U) /\ Cardinality(U) <= (Cardinality(Markets) + 1) + 1
    BY ONLY <1>4, <2>1, AddOne DEF U
  <2> QED
    BY <2>1, <2>2
<1>6. Reachable \subseteq U
  BY <1>3 DEF Reachable
<1>7. ~(Objects \subseteq U)
  <2> SUFFICES ASSUME Objects \in SUBSET U PROVE FALSE
    OBVIOUS
  <2>1. Cardinality(Objects) <= Cardinality(U) /\ Cardinality(U) \in Nat
    BY <1>5, FS_Subset, FS_CardinalityType
  <2> QED
    BY <1>1, <1>5, <2>1
<1> QED
  BY <1>6, <1>7

LEMMA NewIsNew ==
    ASSUME ObjectsOK, ChannelOK
    PROVE  LET new == CHOOSE o \in Objects : o \notin Reachable
           IN  new \in Objects /\ new \notin Reachable /\ new # Null
<1>1. Cardinality(Markets) \in Nat
  BY FS_CardinalityType
<1> QED
  BY <1>1, NewObject DEF Objects, Null

\* A ticker that is loaded has one deal in all its last fields, of its window.
LEMMA LoadedTells ==
    ASSUME DealsOK, LoaderOK, NEW m \in toSet
    PROVE  /\ Loaded(answer[m]) \in Ticker
           /\ Tells(Loaded(answer[m]), m, deals) /\ Whole(Loaded(answer[m]))
<1> DEFINE t == Loaded(answer[m])
           d == Max(answer[m])
<1>1. Len(deals) \in Nat /\ answer[m] \in SUBSET (1 .. Len(deals)) /\ answer[m] # {}
  BY DEF DealsOK, LoaderOK, Deals
<1>2. d \in answer[m]
  BY <1>1, MaxIsElement
<1> HIDE DEF d
<1>3. t = [window |-> answer[m],
           lastPrice |-> d, lastQty |-> d, closeTime |-> d, lastId |-> d]
  BY DEF Loaded, d
<1>4. t \in Ticker
  BY <1>1, <1>2, <1>3 DEF Ticker
<1>5. t.window = answer[m] /\ \A i \in 1 .. 4 : t[LastFields[i]] = d
  <2>1. \A i \in 1 .. 4 : i = 1 \/ i = 2 \/ i = 3 \/ i = 4
    OBVIOUS
  <2> QED
    BY <1>3, <2>1, Fields
<1> HIDE DEF t
<1>6. Tells(t, m, deals)
  BY <1>2, <1>5 DEF Tells, Of, LoaderOK, Deals
<1>7. Whole(t)
  BY <1>5 DEF Whole
<1> QED
  BY <1>4, <1>6, <1>7 DEF t

\* WriteField writes the next field, of one object.
LEMMA WriteEffect ==
    ASSUME TypeInv, WriteField
    PROVE  /\ heap' \in [Objects -> Ticker]
           /\ \A o \in Objects : o # ticker => heap'[o] = heap[o]
           /\ heap'[ticker].window = heap[ticker].window
           /\ \A i \in 1 .. 4 : heap'[ticker][LastFields[i]] =
                 IF i = written + 1 THEN current ELSE heap[ticker][LastFields[i]]
<1>1. /\ written \in {0, 1, 2, 3} /\ ticker \in Objects /\ heap \in [Objects -> Ticker]
      /\ heap[ticker] \in Ticker /\ current \in Nat
      /\ heap' = [heap EXCEPT ![ticker][LastFields[written + 1]] = current]
  BY Fields DEF WriteField, Written, TypeInv, ObjectsOK, ChannelOK
<1> DEFINE new == [heap[ticker] EXCEPT ![LastFields[written + 1]] = current]
<1>2. heap' = [heap EXCEPT ![ticker] = new]
  BY <1>1
<1>3. new \in Ticker
  BY <1>1, Fields DEF Ticker
<1>4. new.window = heap[ticker].window
      /\ \A i \in 1 .. 4 : new[LastFields[i]] =
            IF i = written + 1 THEN current ELSE heap[ticker][LastFields[i]]
  <2>1. \A i \in 1 .. 4 : i = 1 \/ i = 2 \/ i = 3 \/ i = 4
    OBVIOUS
  <2>2. CASE written = 0
    BY <1>1, <2>1, <2>2, Fields DEF Ticker
  <2>3. CASE written = 1
    BY <1>1, <2>1, <2>3, Fields DEF Ticker
  <2>4. CASE written = 2
    BY <1>1, <2>1, <2>4, Fields DEF Ticker
  <2>5. CASE written = 3
    BY <1>1, <2>1, <2>5, Fields DEF Ticker
  <2> QED
    BY <1>1, <2>2, <2>3, <2>4, <2>5
<1> HIDE DEF new
<1>5. heap'[ticker] = new /\ \A o \in Objects : o # ticker => heap'[o] = heap[o]
  BY <1>1, <1>2
<1> QED
  BY <1>1, <1>2, <1>3, <1>4, <1>5

-------------------------------------------------------------------------------
(***************************************************************************)
(* Types, and what is of which market.                                     *)
(***************************************************************************)
\* Deals are only added.
LEMMA NextDeals ==
    ASSUME TypeInv, [Next]_vars
    PROVE  /\ DealsOK'
           /\ \A d \in Deals : d \in Deals' /\ deals'[d] = deals[d]
<1>1. CASE UNCHANGED <<deals, stored, work>>
  BY <1>1 DEF TypeInv, DealsOK, Deals
<1>2. ASSUME NEW w \in Workers, Consume(w)
      PROVE  DealsOK' /\ \A d \in Deals : d \in Deals' /\ deals'[d] = deals[d]
  <2>1. PICK m \in Markets : deals' = Append(deals, m)
    BY <1>2 DEF Consume
  <2>2. /\ deals \in Seq(Markets) /\ deals' \in Seq(Markets)
        /\ Len(deals) \in Nat /\ Len(deals') = Len(deals) + 1
        /\ \A d \in 1 .. Len(deals) : deals'[d] = deals[d]
    BY <2>1 DEF TypeInv, DealsOK
  <2>3. /\ work' \in [Workers -> [deal : Nat, step : {"none", "update", "save"}]]
        /\ \A v \in Workers : v # w => work'[v] = work[v]
        /\ work'[w].deal = Len(deals')
    BY <1>2, <2>2 DEF Consume, TypeInv, DealsOK
  <2> QED
    BY <1>2, <2>2, <2>3 DEF Consume, TypeInv, DealsOK, Deals
<1>3. ASSUME NEW w \in Workers, Handle(w)
      PROVE  DealsOK' /\ \A d \in Deals : d \in Deals' /\ deals'[d] = deals[d]
  <2>1. CASE UpdateWithNewDeal(w)
    BY <2>1 DEF UpdateWithNewDeal, TypeInv, DealsOK, Deals
  <2>2. CASE SaveDeal(w)
    BY <2>2 DEF SaveDeal, TypeInv, DealsOK, Deals, NoWork
  <2> QED
    BY <1>3, <2>1, <2>2 DEF Handle
<1> QED
  BY <1>1, <1>2, <1>3 DEF Next, Age, ConsumeNewDeals, LoadCache, Subscribe, Receive, Get,
     WriteField, PutBack, Tick, Query, QueryFails, Set, Rest, vars, dealVars

LEMMA OfStays ==
    ASSUME TypeInv, [Next]_vars, NEW d, NEW m, Of(d, m, deals)
    PROVE  Of(d, m, deals')
BY NextDeals DEF Of, Deals

LEMMA TellsStays ==
    ASSUME TypeInv, [Next]_vars, NEW t, NEW m, Tells(t, m, deals)
    PROVE  Tells(t, m, deals')
BY OfStays DEF Tells

LEMMA NextChannel ==
    ASSUME TypeInv, [Next]_vars
    PROVE  ChannelOK'
<1>1. CASE UNCHANGED <<subscribed, channel, consumer, current>>
  BY <1>1, NextDeals DEF TypeInv, ChannelOK
<1>2. CASE UNCHANGED deals
  <2>1. ASSUME NEW m \in Markets, Subscribe(m) PROVE ChannelOK'
    BY <1>2, <2>1 DEF Subscribe, TypeInv, ChannelOK, Deals
  <2>2. CASE Receive
    <3>1. channel \in Seq(Nat) /\ channel # <<>>
      BY <2>2 DEF Receive, TypeInv, ChannelOK
    <3>2. /\ current' = channel[1] /\ 1 \in 1 .. Len(channel) /\ current' \in Nat
          /\ channel' \in Seq(Nat) /\ Len(channel') = Len(channel) - 1
          /\ \A i \in 1 .. Len(channel') : channel'[i] = channel[i + 1]
                                           /\ i + 1 \in 1 .. Len(channel)
      BY <2>2, <3>1 DEF Receive
    <3> QED
      BY <1>2, <2>2, <3>2 DEF Receive, TypeInv, ChannelOK, Deals
  <2>3. CASE Get
    BY <1>2, <2>3 DEF Get, TypeInv, ChannelOK, Deals
  <2>4. CASE PutBack
    BY <1>2, <2>4 DEF PutBack, TypeInv, ChannelOK, Deals
  <2>5. ASSUME NEW w \in Workers, UpdateWithNewDeal(w) PROVE ChannelOK'
    <3> DEFINE d == work[w].deal
    <3>1. d \in Nat /\ d \in Deals /\ channel \in Seq(Nat)
      BY <2>5 DEF UpdateWithNewDeal, TypeInv, DealsOK, ChannelOK
    <3>2. CASE channel' = channel
      BY <1>2, <2>5, <3>2 DEF UpdateWithNewDeal, TypeInv, ChannelOK, consumerVars, Deals
    <3>3. CASE channel' = Append(channel, d) /\ deals[d] \in subscribed
      <4>1. /\ channel' \in Seq(Nat) /\ Len(channel') = Len(channel) + 1
            /\ \A i \in 1 .. Len(channel') :
                  channel'[i] = IF i <= Len(channel) THEN channel[i] ELSE d
        BY <3>1, <3>3
      <4>2. \A i \in 1 .. Len(channel') : channel'[i] \in Deals /\ deals[channel'[i]] \in subscribed
        BY <3>1, <3>3, <4>1 DEF TypeInv, ChannelOK
      <4> QED
        BY <1>2, <2>5, <4>1, <4>2 DEF UpdateWithNewDeal, TypeInv, ChannelOK, consumerVars, Deals
    <3> QED
      BY <2>5, <3>2, <3>3 DEF UpdateWithNewDeal
  <2> QED
    BY <1>1, <2>1, <2>2, <2>3, <2>4, <2>5 DEF Next, Age, ConsumeNewDeals, LoadCache, Consume,
       Handle, SaveDeal, WriteField, Tick, Query, QueryFails, Set, Rest, vars, consumerVars
<1> QED
  BY <1>1, <1>2 DEF Next, Age, ConsumeNewDeals, LoadCache, Consume, Handle, UpdateWithNewDeal,
     SaveDeal, Subscribe, Receive, Get, WriteField, PutBack, Tick, Query, QueryFails, Set, Rest,
     vars, consumerVars, dealVars

LEMMA NextLoader ==
    ASSUME TypeInv, [Next]_vars
    PROVE  LoaderOK'
<1>1. CASE UNCHANGED <<answer, toSet>>
  BY <1>1, NextDeals DEF TypeInv, LoaderOK
<1>2. CASE Query
  <2>1. \A m \in Markets : answer'[m] = InWindow(m) /\ InWindow(m) \subseteq stored
    BY <1>2 DEF Query, InWindow
  <2>2. stored \subseteq Nat /\ \A m \in Markets : \A d \in InWindow(m) : d \in Deals /\ deals[d] = m
    BY DEF TypeInv, DealsOK, InWindow, Deals
  <2> QED
    BY <1>2, <2>1, <2>2 DEF Query, TypeInv, LoaderOK, dealVars, Deals
<1>3. ASSUME NEW m \in Markets, Set(m) PROVE LoaderOK'
  BY <1>3 DEF Set, TypeInv, LoaderOK, dealVars, Deals
<1>4. CASE Rest
  BY <1>4 DEF Rest, TypeInv, LoaderOK
<1> QED
  BY <1>1, <1>2, <1>3, <1>4 DEF Next, Age, ConsumeNewDeals, LoadCache, Consume, Handle,
     UpdateWithNewDeal, SaveDeal, Subscribe, Receive, Get, WriteField, PutBack, Tick, QueryFails,
     vars, loaderVars

LEMMA NextObjects ==
    ASSUME TypeInv, [Next]_vars
    PROVE  ObjectsOK'
<1>1. CASE UNCHANGED <<subscribed, cacheVars, consumer, ticker, written>>
  BY <1>1 DEF TypeInv, ObjectsOK, cacheVars
<1>2. ASSUME NEW m \in Markets, Subscribe(m) PROVE ObjectsOK'
  BY <1>2 DEF Subscribe, TypeInv, ChannelOK, ObjectsOK, cacheVars
<1>3. CASE Receive
  BY <1>3 DEF Receive, TypeInv, ObjectsOK, cacheVars
<1>4. CASE Get
  BY <1>4 DEF Get, TypeInv, ChannelOK, ObjectsOK, cacheVars
<1>5. CASE WriteField
  BY <1>5, WriteEffect, Fields DEF WriteField, TypeInv, ObjectsOK
<1>6. CASE PutBack
  BY <1>6 DEF PutBack, TypeInv, ChannelOK, ObjectsOK
<1>7. ASSUME NEW m \in Markets, Set(m) PROVE ObjectsOK'
  <2> DEFINE new == CHOOSE o \in Objects : o \notin Reachable
  <2>1. new \in Objects /\ new \notin Reachable /\ new # Null
    BY NewIsNew DEF TypeInv
  <2>2. Loaded(answer[m]) \in Ticker
    BY <1>7, LoadedTells DEF Set, TypeInv
  <2>3. Blank \in Ticker
    BY DEF Blank, Ticker
  <2>4. /\ heap' = [o \in Objects |-> IF o = new THEN Loaded(answer[m])
                                      ELSE IF o \in Reachable THEN heap[o] ELSE Blank]
        /\ byName' = [byName EXCEPT ![m] = new]
    BY <1>7 DEF Set
  <2> HIDE DEF new
  <2>5. heap' \in [Objects -> Ticker]
    BY <2>2, <2>3, <2>4 DEF TypeInv, ObjectsOK
  <2>6. byName' \in [Markets -> Objects \cup {Null}]
    BY <2>1, <2>4 DEF TypeInv, ObjectsOK
  <2> QED
    BY <1>7, <2>5, <2>6 DEF Set, TypeInv, ObjectsOK, consumerVars
<1> QED
  BY <1>1, <1>2, <1>3, <1>4, <1>5, <1>6, <1>7 DEF Next, Age, ConsumeNewDeals, LoadCache,
     Consume, Handle, UpdateWithNewDeal, SaveDeal, Tick, Query, QueryFails, Rest,
     vars, cacheVars, consumerVars

LEMMA NextTypeInv == TypeInv /\ [Next]_vars => TypeInv'
BY NextDeals, NextChannel, NextLoader, NextObjects DEF TypeInv

-------------------------------------------------------------------------------
(***************************************************************************)
(* Every ticker that can be reached is whole and of its own market.        *)
(***************************************************************************)
\* A ticker is of one market only.
LEMMA OneMarket ==
    ASSUME NEW t, NEW m, NEW n, NEW ds, Tells(t, m, ds), Tells(t, n, ds)
    PROVE  m = n
BY DEF Tells, Of

\* While nothing is written, tickers tell what they told.
LEMMA SameObjects ==
    ASSUME TickerInv, [Next]_vars, UNCHANGED <<cacheVars, ticker, written>>,
           UNCHANGED <<subscribed, current>> \/ ticker = Null
    PROVE  OwnMarket' /\ WrittenSoFar'
<1>1. Reachable' = Reachable
  BY DEF Reachable, Range, cacheVars
<1>2. WrittenSoFar'
  BY <1>1 DEF TickerInv, WrittenSoFar, cacheVars, Whole
<1>3. OwnMarket'
  BY TellsStays DEF TickerInv, OwnMarket, cacheVars
<1> QED
  BY <1>2, <1>3

LEMMA GetOwn ==
    ASSUME TickerInv, [Next]_vars, Get
    PROVE  OwnMarket' /\ WrittenSoFar'
<1>1. PICK m \in subscribed :
          \/ byName[m] = Null /\ UNCHANGED ticker
          \/ byName[m] # Null /\ ticker' = byName[m] /\ UNCHANGED current
  BY DEF Get
<1>2. /\ m \in Markets /\ subscribed = {m} /\ ticker = Null /\ written = 0
      /\ UNCHANGED <<deals, subscribed, heap, byName, byId, written>>
  BY <1>1 DEF Get, TickerInv, TypeInv, ChannelOK, ObjectsOK, cacheVars, dealVars
<1>3. Reachable' = Reachable
  BY <1>1, <1>2 DEF Reachable, Range, TickerInv, TypeInv, ObjectsOK
<1>4. WrittenSoFar'
  <2>1. \A o \in Reachable : Whole(heap[o])
    BY <1>2 DEF TickerInv, WrittenSoFar, Reachable
  <2>2. \A o \in Reachable' \ {ticker'} : Whole(heap'[o])
    BY <1>2, <1>3, <2>1
  <2> QED
    BY <1>2, <2>2 DEF WrittenSoFar
<1>5. OwnMarket'
  BY <1>1, <1>2, TellsStays DEF TickerInv, OwnMarket
<1> QED
  BY <1>4, <1>5

LEMMA WriteOwn ==
    ASSUME TickerInv, [Next]_vars, WriteField
    PROVE  OwnMarket' /\ WrittenSoFar'
<1>1. /\ UNCHANGED <<deals, subscribed, byName, byId, ticker, current>>
      /\ written' = written + 1 /\ written \in 0 .. 3
      /\ ticker \in Objects /\ ticker # Null
      /\ byName \in [Markets -> Objects \cup {Null}] /\ byId \in [Markets -> Objects \cup {Null}]
  BY Fields DEF WriteField, TickerInv, TypeInv, ObjectsOK, dealVars, Objects, Null
<1>2. /\ \A o \in Objects : o # ticker => heap'[o] = heap[o]
      /\ heap'[ticker].window = heap[ticker].window
      /\ \A i \in 1 .. 4 : heap'[ticker][LastFields[i]] =
            IF i = written + 1 THEN current ELSE heap[ticker][LastFields[i]]
  BY WriteEffect DEF TickerInv
<1>3. PICK s \in subscribed : Of(current, s, deals) /\ Tells(heap[ticker], s, deals)
  BY <1>1 DEF WriteField, TickerInv, TypeInv, ChannelOK, OwnMarket, Of, Deals
<1>4. Tells(heap'[ticker], s, deals)
  BY <1>2, <1>3 DEF Tells
<1>5. ASSUME NEW o \in Objects, NEW m, Tells(heap[o], m, deals)
      PROVE  Tells(heap'[o], m, deals')
  BY <1>1, <1>2, <1>3, <1>4, <1>5, OneMarket
<1>6. OwnMarket'
  BY <1>1, <1>5 DEF TickerInv, OwnMarket
<1>7. Reachable' = Reachable /\ Reachable \subseteq Objects
  BY <1>1 DEF Reachable, Range
<1>8. \A o \in Reachable' \ {ticker'} : Whole(heap'[o])
  BY <1>1, <1>2, <1>7 DEF TickerInv, WrittenSoFar, Whole
<1>9. \A i \in 1 .. written' : heap'[ticker'][LastFields[i]] = current'
  <2>1. ASSUME NEW i \in 1 .. written + 1 PROVE i \in 1 .. 4 /\ (i = written + 1 \/ i \in 1 .. written)
    BY <1>1
  <2> QED
    BY <1>1, <1>2, <2>1 DEF TickerInv, WrittenSoFar
<1>10. WrittenSoFar'
  BY <1>8, <1>9 DEF WrittenSoFar
<1> QED
  BY <1>6, <1>10

LEMMA PutBackOwn ==
    ASSUME TickerInv, [Next]_vars, PutBack
    PROVE  OwnMarket' /\ WrittenSoFar'
<1> DEFINE s == deals[current]
<1>1. /\ UNCHANGED <<deals, subscribed, heap, byName>> /\ ticker' = Null /\ written = 4
      /\ byId' = [byId EXCEPT ![s] = ticker] /\ ticker \in Objects /\ ticker # Null
      /\ byId \in [Markets -> Objects \cup {Null}] /\ s \in subscribed /\ s \in Markets
  BY Fields DEF PutBack, TickerInv, TypeInv, ChannelOK, ObjectsOK, dealVars, Objects, Null
<1>2. Tells(heap[ticker], s, deals)
  BY <1>1 DEF TickerInv, OwnMarket
<1>3. OwnMarket'
  BY <1>1, <1>2, TellsStays DEF TickerInv, OwnMarket
<1>4. Whole(heap[ticker])
  BY <1>1 DEF TickerInv, WrittenSoFar, Whole
<1>5. Reachable' \subseteq Reachable
  BY <1>1 DEF Reachable, Range
<1>6. WrittenSoFar'
  BY <1>1, <1>4, <1>5 DEF TickerInv, WrittenSoFar, Whole
<1> QED
  BY <1>3, <1>6

LEMMA SetOwn ==
    ASSUME TickerInv, [Next]_vars, NEW m \in Markets, Set(m)
    PROVE  OwnMarket' /\ WrittenSoFar'
<1> DEFINE new == CHOOSE o \in Objects : o \notin Reachable
<1>1. new \in Objects /\ new \notin Reachable /\ new # Null
  BY NewIsNew DEF TickerInv, TypeInv
<1>2. /\ heap' = [o \in Objects |-> IF o = new THEN Loaded(answer[m])
                                    ELSE IF o \in Reachable THEN heap[o] ELSE Blank]
      /\ byName' = [byName EXCEPT ![m] = new]
      /\ UNCHANGED <<deals, subscribed, byId, consumer, current, ticker, written>>
  BY DEF Set, dealVars, consumerVars
<1>3. /\ Tells(Loaded(answer[m]), m, deals) /\ Whole(Loaded(answer[m]))
  BY LoadedTells DEF Set, TickerInv, TypeInv
<1> HIDE DEF new
<1>4. /\ byName \in [Markets -> Objects \cup {Null}] /\ byId \in [Markets -> Objects \cup {Null}]
      /\ ticker \in Objects \cup {Null}
      /\ \A n \in Markets : byName'[n] = IF n = m THEN new ELSE byName[n]
  BY <1>2 DEF TickerInv, TypeInv, ObjectsOK
<1>5. /\ Reachable \subseteq Objects
      /\ ticker # Null => ticker \in Reachable
      /\ \A n \in Markets : (byName[n] # Null => byName[n] \in Reachable)
                            /\ (byId[n] # Null => byId[n] \in Reachable)
      /\ Reachable' \subseteq Reachable \cup {new}
  BY <1>2, <1>4 DEF Reachable, Range
<1>6. heap'[new] = Loaded(answer[m]) /\ \A o \in Reachable : heap'[o] = heap[o] /\ o # new
  BY <1>1, <1>2, <1>5
<1>7. OwnMarket'
  BY <1>1, <1>2, <1>3, <1>4, <1>5, <1>6 DEF TickerInv, OwnMarket
<1>8. \A o \in Reachable' \ {ticker'} : Whole(heap'[o])
  <2> SUFFICES ASSUME NEW o \in Reachable \cup {new}, o # ticker PROVE Whole(heap'[o])
    BY <1>2, <1>5
  <2>1. CASE o = new
    BY <1>3, <1>6, <2>1
  <2>2. CASE o \in Reachable
    BY <1>6, <2>2 DEF TickerInv, WrittenSoFar
  <2> QED
    BY <2>1, <2>2
<1>9. ticker' # Null => \A i \in 1 .. written' : heap'[ticker'][LastFields[i]] = current'
  BY <1>2, <1>5, <1>6 DEF TickerInv, WrittenSoFar
<1> QED
  BY <1>7, <1>8, <1>9 DEF WrittenSoFar

LEMMA NextTickerInv == TickerInv /\ [Next]_vars => TickerInv'
<1> SUFFICES ASSUME TickerInv, [Next]_vars PROVE OwnMarket' /\ WrittenSoFar'
  BY NextTypeInv DEF TickerInv
<1>1. CASE UNCHANGED <<subscribed, cacheVars, consumerVars>>
  BY <1>1, SameObjects DEF consumerVars
<1>2. ASSUME NEW m \in Markets, Subscribe(m) PROVE OwnMarket' /\ WrittenSoFar'
  BY <1>2, SameObjects DEF Subscribe, TickerInv, TypeInv, ObjectsOK
<1>3. CASE Receive
  BY <1>3, SameObjects DEF Receive, TickerInv, TypeInv, ObjectsOK
<1>4. CASE Get \/ WriteField \/ PutBack \/ \E m \in Markets : Set(m)
  BY <1>4, GetOwn, WriteOwn, PutBackOwn, SetOwn
<1> QED
  BY <1>1, <1>2, <1>3, <1>4 DEF Next, Age, ConsumeNewDeals,
     LoadCache, Consume, Handle, UpdateWithNewDeal, SaveDeal, Tick, Query, QueryFails, Rest, vars

LEMMA TickerInvHolds == Spec => []TickerInv
BY InitTickerInv, NextTickerInv, PTL DEF Spec

-------------------------------------------------------------------------------
(***************************************************************************)
(* The theorems.                                                           *)
(***************************************************************************)
LEMMA LastOfWhole ==
    ASSUME NEW o, Whole(heap[o])
    PROVE  Cardinality(Last(o)) = 1
<1>1. Last(o) = {heap[o][LastFields[i]] : i \in 1 .. 4}
  BY Fields DEF Last, Range
<1>2. Last(o) = {heap[o][LastFields[1]]}
  BY <1>1 DEF Whole
<1> QED
  BY <1>2, FS_Singleton

\* A cached ticker shows the price, amount, time and id of one deal: nobody who
\* reads the cache sees two deals mixed, except in the object that ConsumeNewDeals
\* writes without the lock at that moment.
THEOREM TickersAreWholeHolds == Spec => []TickersAreWhole
<1>1. TickerInv => TickersAreWhole
  BY LastOfWhole DEF TickerInv, WrittenSoFar, TickersAreWhole
<1> QED
  BY <1>1, TickerInvHolds, PTL

\* Each market with a ticker has one of its own.
LEMMA TickersByName ==
    ASSUME TickerInv
    PROVE  Cardinality(AllTickers) = Cardinality({m \in Markets : byName[m] # Null})
<1> DEFINE Named == {m \in Markets : byName[m] # Null}
           object == [m \in Named |-> byName[m]]
<1>1. AllTickers = {byName[m] : m \in Named}
  BY DEF AllTickers
<1>2. \A m, n \in Named : byName[m] = byName[n] => m = n
  BY OneMarket DEF TickerInv, OwnMarket
<1>3. object \in Bijection(Named, AllTickers)
  <2>1. object \in [Named -> AllTickers] /\ \A m \in Named : object[m] = byName[m]
    BY <1>1
  <2> HIDE DEF object, Named
  <2>2. object \in Injection(Named, AllTickers)
    BY <1>2, <2>1 DEF Injection, IsInjective
  <2>3. object \in Surjection(Named, AllTickers)
    BY <1>1, <2>1 DEF Surjection
  <2> QED
    BY <2>2, <2>3 DEF Bijection
<1>4. IsFiniteSet(Named)
  <2>1. Named \in SUBSET Markets
    OBVIOUS
  <2> HIDE DEF Named
  <2> QED
    BY <2>1, FS_Subset
<1>5. ExistsBijection(Named, AllTickers)
  BY <1>3 DEF ExistsBijection
<1> HIDE DEF Named, object
<1>6. Cardinality(AllTickers) = Cardinality(Named)
  BY <1>4, <1>5, FS_Bijection
<1> QED
  BY <1>6 DEF Named

\* A ticker tells deals of its own market, under its name as under its ID, though
\* the object is shared by everybody and written in place; and the answer for all
\* markets has one ticker for each market that has one.
THEOREM TickersKeepTheirMarketHolds == Spec => []TickersKeepTheirMarket
<1>1. TickerInv => TickersKeepTheirMarket
  <2> SUFFICES ASSUME TickerInv PROVE TickersKeepTheirMarket
    OBVIOUS
  <2>1. ASSUME NEW m \in Markets, NEW t \in GetTicker(m) PROVE Tells(t, m, deals)
    BY <2>1 DEF GetTicker, Cached, TickerInv, OwnMarket
  <2>2. ASSUME NEW m \in Markets, NEW t \in GetTicker(m),
               NEW d \in t.window \cup {t[f] : f \in Range(LastFields)}
        PROVE  deals[d] = m
    BY <2>1, <2>2, Fields DEF Tells, Of
  <2> QED
    BY <2>2, TickersByName DEF TickersKeepTheirMarket
<1> QED
  BY <1>1, TickerInvHolds, PTL
===============================================================================
