------------------------- MODULE CurrentCandlesProofs -------------------------
(***************************************************************************)
(* Lemmas about windows, candles and prices, for every resolution and      *)
(* every price; and theorems about the live candles, for every set of      *)
(* markets, resolutions, instants and deals, every capacity of the updates *)
(* channel and every content of the database: what the candles are, that   *)
(* they nest, what somebody who only sees the channel knows, and that they *)
(* implement LiveTotals, step by step.                                     *)
(***************************************************************************)
EXTENDS CurrentCandles, SequenceTheorems, TLAPS

USE ResolutionAssumption, PriceAssumption, AmountAssumption

-------------------------------------------------------------------------------
(***************************************************************************)
(* Windows.                                                                *)
(***************************************************************************)
\* The windows of a resolution cover the time: an instant lies in the window
\* that GetResolutionStartTimestampByTime gives for it.
LEMMA WindowContains ==
    ASSUME NEW r \in Resolutions, NEW t \in Nat
    PROVE  /\ WindowStart(r, t) \in Nat
           /\ WindowStart(r, t) <= t
           /\ t < WindowStart(r, t) + Duration[r]
<1>1. Duration[r] \in Nat \ {0}
  OBVIOUS
<1> QED
  BY <1>1 DEF WindowStart

\* A window starts at a multiple of its length.
LEMMA WindowIsMultiple ==
    ASSUME NEW r \in Resolutions, NEW t \in Nat
    PROVE  /\ t \div Duration[r] \in Nat
           /\ WindowStart(r, t) = Duration[r] * (t \div Duration[r])
<1>1. Duration[r] \in Nat \ {0}
  OBVIOUS
<1> QED
  BY <1>1 DEF WindowStart

LEMMA NextMultiple ==
    ASSUME NEW d \in Nat \ {0}, NEW j \in Int, NEW k \in Int, j < k
    PROVE  d * j + d <= d * k
OBVIOUS

\* Windows do not overlap: an instant between the start and the end of the
\* window of u is of that window.
LEMMA WindowUnique ==
    ASSUME NEW r \in Resolutions, NEW t \in Nat, NEW u \in Nat,
           WindowStart(r, u) <= t, t < WindowStart(r, u) + Duration[r]
    PROVE  WindowStart(r, t) = WindowStart(r, u)
<1> DEFINE d == Duration[r]
           j == t \div d
           k == u \div d
<1>1. d \in Nat \ {0} /\ j \in Nat /\ k \in Nat
  BY WindowIsMultiple
<1>2. WindowStart(r, t) = d * j /\ WindowStart(r, u) = d * k
  BY WindowIsMultiple
<1>3. d * j <= t /\ t < d * j + d /\ d * k <= t /\ t < d * k + d
  BY <1>2, WindowContains
<1> HIDE DEF d, j, k
<1>4. d * j \in Int /\ d * k \in Int
  BY <1>1
<1>5. ~(j < k)
  BY <1>1, <1>3, <1>4, NextMultiple
<1>6. ~(k < j)
  BY <1>1, <1>3, <1>4, NextMultiple
<1>7. j = k
  BY <1>1, <1>5, <1>6
<1> QED
  BY <1>2, <1>7

\* The start of a window is in that window.
LEMMA WindowStartIdempotent ==
    ASSUME NEW r \in Resolutions, NEW t \in Nat
    PROVE  WindowStart(r, WindowStart(r, t)) = WindowStart(r, t)
<1>1. Duration[r] \in Nat \ {0}
  OBVIOUS
<1> QED
  BY <1>1, WindowContains, WindowUnique

\* Windows are ordered as their instants are.
LEMMA WindowMonotone ==
    ASSUME NEW r \in Resolutions, NEW t \in Nat, NEW u \in Nat, t <= u
    PROVE  WindowStart(r, t) <= WindowStart(r, u)
<1>1. Duration[r] \in Nat \ {0}
  OBVIOUS
<1>2. CASE u < WindowStart(r, t) + Duration[r]
  BY <1>1, <1>2, WindowContains, WindowUnique
<1>3. CASE u >= WindowStart(r, t) + Duration[r]
  <2>1. SUFFICES ASSUME WindowStart(r, u) < WindowStart(r, t) PROVE FALSE
    BY WindowContains
  <2>2. t < WindowStart(r, u) + Duration[r]
    BY <1>1, <1>3, <2>1, WindowContains
  <2> QED
    BY <1>1, <2>1, <2>2, <1>3, WindowContains
<1> QED
  BY <1>1, <1>2, <1>3, WindowContains

\* ContainsTs on the candle of the window that starts at o, at an instant that
\* is not the last nanosecond of a window: the candle contains the instants of
\* its window and no other.
LEMMA ContainsIsWindow ==
    ASSUME NEW r \in Resolutions, NEW t \in Nat, t + 1 # WindowEnd(r, t),
           NEW o \in Nat, WindowStart(r, o) = o
    PROVE  (o <= t /\ CloseTime(o, r) > t) <=> WindowStart(r, t) = o
<1>1. Duration[r] \in Nat \ {0}
  OBVIOUS
<1>2. ASSUME o <= t, CloseTime(o, r) > t PROVE WindowStart(r, t) = o
  BY <1>1, <1>2, WindowUnique DEF CloseTime
<1>3. ASSUME WindowStart(r, t) = o PROVE o <= t /\ CloseTime(o, r) > t
  BY <1>1, <1>3, WindowContains DEF CloseTime, WindowEnd
<1> QED
  BY <1>2, <1>3

-------------------------------------------------------------------------------
(***************************************************************************)
(* Candles.                                                                *)
(***************************************************************************)
LEMMA FreshCandleType ==
    ASSUME NEW m \in Markets, NEW r \in Resolutions, NEW t \in Nat
    PROVE  FreshCandle(m, r, t) \in Candle
<1>1. Duration[r] \in Nat \ {0}
  OBVIOUS
<1>2. WindowStart(r, t) \in Nat
  BY WindowContains
<1>3. CloseTime(WindowStart(r, t), r) \in Nat
  BY <1>1, <1>2 DEF CloseTime
<1> QED
  BY <1>2, <1>3 DEF FreshCandle, Candle, ZeroDecimal, Decimal

LEMMA InheritType ==
    ASSUME NEW fresh \in Candle, NEW old \in Candle
    PROVE  Inherit(fresh, old) \in Candle
BY DEF Inherit, Candle

\* updateCandle keeps the candle's window and its pair.
LEMMA UpdateCandleType ==
    ASSUME NEW c \in Candle, NEW d \in Deal
    PROVE  LET u == UpdateCandle(c, d) IN
           /\ u \in Candle
           /\ u.symbol = c.symbol /\ u.resolution = c.resolution
           /\ u.openTime = c.openTime /\ u.closeTime = c.closeTime
           /\ u.volume = c.volume + d.amount /\ u.volume > c.volume
           /\ u.close = d.price
<1>1. d.price \in Decimal /\ d.amount \in Nat \ {0}
  BY DEF Deal
<1>2. c.volume \in Nat /\ c.high \in Decimal /\ c.low \in Decimal /\ c.open \in Decimal
  BY DEF Candle
<1>3. Higher(c.high, d.price) \in Decimal /\ Lower(c.low, d.price) \in Decimal
  BY <1>1, <1>2 DEF Higher, Lower
<1>4. c.volume + d.amount \in Nat /\ c.volume + d.amount > c.volume
  BY <1>1, <1>2
<1> QED
  BY <1>1, <1>2, <1>3, <1>4 DEF UpdateCandle, Candle

LEMMA ChartToCurrentCandleType ==
    ASSUME NEW chart \in Chart, NEW m \in Markets, NEW r \in Resolutions, NEW t \in Nat
    PROVE  ChartToCurrentCandle(chart, m, r, t) \in Candle
<1>1. Duration[r] \in Nat \ {0}
  OBVIOUS
<1>2. CloseTime(t, r) \in Nat
  BY <1>1 DEF CloseTime
<1>3. chart.o \in Decimal /\ chart.h \in Decimal /\ chart.l \in Decimal
      /\ chart.c \in Decimal /\ chart.v \in Nat
  BY DEF Chart
<1> QED
  BY <1>2, <1>3 DEF ChartToCurrentCandle, Candle

LEMMA NoCandleIsNoCandle == NoCandle \notin Candle
BY DEF NoCandle, Candle

-------------------------------------------------------------------------------
(***************************************************************************)
(* Prices written with one number of decimals.                             *)
(***************************************************************************)
Shown == Prices \cup {ZeroDecimal}

LEMMA ShownType ==
    ASSUME UniformScale(Prices), NEW p \in Shown
    PROVE  /\ p \in Decimal /\ p.coef \in Nat
           /\ p # ZeroDecimal => p \in Prices /\ p.coef > 0
           /\ p = ZeroDecimal <=> p.coef = 0
BY DEF UniformScale, Shown, ZeroDecimal, Decimal

\* On such prices, and the absent price, the order of the values is that of
\* the coefficients ...
LEMMA ValueOrderShown ==
    ASSUME UniformScale(Prices), NEW p \in Shown, NEW q \in Shown
    PROVE  /\ ValueOrder(p, q) <= 0 <=> p.coef <= q.coef
           /\ ValueOrder(p, q) > 0 <=> p.coef > q.coef
           /\ ValueOrder(p, q) \in Int
<1>1. p.coef \in Nat /\ q.coef \in Nat /\ p.exp \in Int /\ q.exp \in Int
  BY ShownType DEF Decimal
<1>2. CASE p.coef = 0 \/ q.coef = 0
  <2>1. Sign(p.coef) \in {0, 1} /\ Sign(q.coef) \in {0, 1}
    BY <1>1 DEF Sign
  <2>2. Sign(p.coef) = 0 <=> p.coef = 0
    BY <1>1 DEF Sign
  <2>3. Sign(q.coef) = 0 <=> q.coef = 0
    BY <1>1 DEF Sign
  <2>4. CASE Sign(p.coef) = Sign(q.coef)
    <3>1. ValueOrder(p, q) = 0
      BY <1>2, <2>2, <2>3, <2>4 DEF ValueOrder
    <3> QED
      BY <1>1, <1>2, <2>2, <2>3, <2>4, <3>1
  <2>5. CASE Sign(p.coef) # Sign(q.coef)
    <3>1. ValueOrder(p, q) = Sign(Sign(p.coef) - Sign(q.coef))
      BY <2>5 DEF ValueOrder
    <3> QED
      BY <1>1, <1>2, <2>1, <2>2, <2>3, <2>5, <3>1 DEF Sign
  <2> QED
    BY <2>4, <2>5
<1>3. CASE p.coef # 0 /\ q.coef # 0
  <2>1. p.exp = q.exp
    BY <1>3, ShownType DEF UniformScale
  <2>2. Sign(p.coef) = 1 /\ Sign(q.coef) = 1
    BY <1>1, <1>3 DEF Sign
  <2>3. ValueOrder(p, q) = Sign(p.coef - q.coef)
    BY <2>1, <2>2 DEF ValueOrder
  <2> QED
    BY <1>1, <2>3 DEF Sign
<1> QED
  BY <1>2, <1>3

\* ... and compareDecimal128 finds it, with a deal's price as first argument.
LEMMA CompareShown ==
    ASSUME UniformScale(Prices), NEW p \in Prices, NEW q \in Shown
    PROVE  /\ CompareDecimal128(p, q) > 0 <=> p.coef > q.coef
           /\ CompareDecimal128(p, q) < 0 <=> p.coef < q.coef
<1>1. p \in Shown /\ p.coef \in Nat /\ p.coef > 0 /\ q.coef \in Nat
  BY ShownType DEF UniformScale, Shown
<1>2. Sign(p.coef) = 1
  BY <1>1 DEF Sign
<1>3. CASE q.coef = 0
  <2>1. Sign(q.coef) = 0
    BY <1>3 DEF Sign
  <2>2. CompareDecimal128(p, q) = 1
    BY <1>2, <2>1 DEF CompareDecimal128
  <2> QED
    BY <1>1, <1>3, <2>2
<1>4. CASE q.coef # 0
  <2>1. Sign(q.coef) = 1 /\ p.exp = q.exp
    BY <1>1, <1>4, ShownType DEF UniformScale, Sign
  <2>2. CompareDecimal128(p, q) = Sign(p.coef - q.coef)
    BY <1>2, <2>1 DEF CompareDecimal128
  <2> QED
    BY <1>1, <2>2 DEF Sign
<1> QED
  BY <1>3, <1>4

-------------------------------------------------------------------------------
(***************************************************************************)
(* The envelope of a candle is kept by everything that makes candles.      *)
(***************************************************************************)
LEMMA EnvelopeByCoef ==
    ASSUME UniformScale(Prices), NEW c \in Candle,
           {c.open, c.high, c.low, c.close} \subseteq Shown
    PROVE  InEnvelope(c) <=> /\ c.low.coef <= c.open.coef
                             /\ c.low.coef <= c.close.coef
                             /\ c.open.coef <= c.high.coef
                             /\ c.close.coef <= c.high.coef
BY ValueOrderShown DEF InEnvelope

LEMMA FreshCandlePriced ==
    ASSUME UniformScale(Prices),
           NEW m \in Markets, NEW r \in Resolutions, NEW t \in Nat
    PROVE  PricedCandle(FreshCandle(m, r, t))
<1> DEFINE c == FreshCandle(m, r, t)
<1>1. /\ c.open = ZeroDecimal /\ c.high = ZeroDecimal
      /\ c.low = ZeroDecimal /\ c.close = ZeroDecimal /\ c.volume = 0
  BY DEF FreshCandle
<1>2. ZeroDecimal \in Shown
  BY DEF Shown
<1>3. ValueOrder(ZeroDecimal, ZeroDecimal) <= 0
  BY <1>2, ValueOrderShown DEF ZeroDecimal
<1> QED
  BY <1>1, <1>3 DEF PricedCandle, InEnvelope

\* A refresh makes the four prices one; it keeps the volume of the candle it
\* starts from, or starts from none.
LEMMA InheritPriced ==
    ASSUME UniformScale(Prices), NEW fresh \in Candle, NEW old \in Candle,
           PricedCandle(old), fresh.volume = 0 \/ fresh = old
    PROVE  PricedCandle(Inherit(fresh, old))
<1> DEFINE c == Inherit(fresh, old)
<1>1. /\ c.open = old.close /\ c.high = old.close
      /\ c.low = old.close /\ c.close = old.close /\ c.volume = fresh.volume
  BY DEF Inherit, Candle
<1>2. old.close \in Shown
  BY DEF PricedCandle, Shown
<1>3. ValueOrder(old.close, old.close) <= 0
  BY <1>2, ValueOrderShown, ShownType
<1> QED
  BY <1>1, <1>2, <1>3 DEF PricedCandle, InEnvelope, Shown

LEMMA UpdateCandlePriced ==
    ASSUME UniformScale(Prices), NEW c \in Candle, NEW d \in Deal, PricedCandle(c)
    PROVE  PricedCandle(UpdateCandle(c, d))
<1> DEFINE u == UpdateCandle(c, d)
           p == d.price
<1>1. p \in Prices /\ p \in Shown /\ p # ZeroDecimal /\ p.coef \in Nat
  BY ShownType DEF Deal, Shown, UniformScale, ZeroDecimal
<1>2. /\ u.open = IF c.volume = 0 THEN p ELSE c.open
      /\ u.close = p
      /\ u.high = Higher(c.high, p)
      /\ u.low = Lower(c.low, p)
  BY DEF UpdateCandle, Candle
<1>3. {c.open, c.high, c.low, c.close} \subseteq Shown
  BY DEF PricedCandle, Shown
<1>4. /\ c.open.coef \in Nat /\ c.high.coef \in Nat
      /\ c.low.coef \in Nat /\ c.close.coef \in Nat
  BY <1>3, ShownType
<1>5. /\ c.low.coef <= c.open.coef /\ c.low.coef <= c.close.coef
      /\ c.open.coef <= c.high.coef /\ c.close.coef <= c.high.coef
  BY <1>3, EnvelopeByCoef DEF PricedCandle
<1>6. /\ u.high \in {c.high, p} /\ u.high.coef \in Nat
      /\ u.high.coef >= p.coef /\ u.high.coef >= c.high.coef
  BY <1>1, <1>2, <1>3, <1>4, CompareShown DEF Higher
<1>7. /\ u.low \in {c.low, p} /\ u.low.coef \in Nat /\ u.low.coef <= p.coef
      /\ u.low # ZeroDecimal
      /\ c.low # ZeroDecimal => u.low.coef <= c.low.coef
  BY <1>1, <1>2, <1>3, <1>4, CompareShown DEF Lower, IsZero
<1>8. c.volume # 0 => u.low.coef <= c.open.coef
  BY <1>4, <1>5, <1>7 DEF PricedCandle
<1>9. /\ u.low.coef <= u.open.coef /\ u.low.coef <= u.close.coef
      /\ u.open.coef <= u.high.coef /\ u.close.coef <= u.high.coef
  BY <1>1, <1>2, <1>4, <1>5, <1>6, <1>7, <1>8
<1>10. {u.open, u.high, u.low, u.close} \subseteq Shown
  BY <1>1, <1>2, <1>3, <1>6, <1>7
<1>11. InEnvelope(u)
  BY <1>9, <1>10, UpdateCandleType, EnvelopeByCoef
<1> QED
  BY <1>1, <1>2, <1>7, <1>10, <1>11 DEF PricedCandle, Shown

USE InstantAssumption, BoundAssumption, StoredAssumption

-------------------------------------------------------------------------------
(***************************************************************************)
(* The operations under the lock.                                          *)
(***************************************************************************)
LEMMA AppendToOne ==
    ASSUME NEW S, NEW x \in S, NEW y \in S
    PROVE  Append(<<x>>, y) = <<x, y>>
<1>1. <<x>> \in Seq(S) /\ Len(<<x>>) = 1 /\ <<x>>[1] = x
  OBVIOUS
<1>2. /\ Append(<<x>>, y) \in Seq(S) /\ Len(Append(<<x>>, y)) = 2
      /\ Append(<<x>>, y)[1] = x /\ Append(<<x>>, y)[2] = y
  BY <1>1
<1>3. /\ <<x, y>> \in Seq(S) /\ Len(<<x, y>>) = 2
      /\ <<x, y>>[1] = x /\ <<x, y>>[2] = y
  OBVIOUS
<1>4. \A i \in 1..2 : Append(<<x>>, y)[i] = <<x, y>>[i]
  BY <1>2, <1>3
<1> QED
  BY <1>2, <1>3, <1>4, SeqEqual

CandleMap == [Markets -> [Resolutions -> Candle \cup {NoCandle}]]

\* The candle getFreshCandle returns is a candle.
LEMMA GetFreshCandleType ==
    ASSUME candles \in CandleMap, now \in Nat,
           NEW m \in Markets, NEW r \in Resolutions
    PROVE  GetFreshCandle(m, r) \in Candle
BY FreshCandleType DEF GetFreshCandle, CandleMap

\* setCandle stores the new candle under its pair and nothing else, and leaves
\* nothing, the new candle, or the old and the new one to be sent.
LEMMA SetCandleEffect ==
    ASSUME candles \in CandleMap, unsent = <<>>,
           NEW m \in Markets, NEW r \in Resolutions,
           NEW new \in Candle, NEW isRefresh \in BOOLEAN,
           SetCandle(m, r, new, isRefresh)
    PROVE  /\ candles' = [candles EXCEPT ![m][r] = new]
           /\ candles' \in CandleMap
           /\ \/ unsent' = <<>> /\ candles[m][r] = new
              \/ unsent' = <<new>> /\ (isRefresh => candles[m][r] = NoCandle)
              \/ unsent' = <<candles[m][r], new>> /\ candles[m][r] # NoCandle
<1>1. CASE candles[m][r] = new
  <2>1. candles' = candles /\ unsent' = <<>>
    BY <1>1 DEF SetCandle
  <2>2. candles = [candles EXCEPT ![m][r] = new]
    BY <1>1 DEF CandleMap
  <2> QED
    BY <1>1, <2>1, <2>2
<1>2. CASE candles[m][r] # new
  <2>1. candles' = [candles EXCEPT ![m][r] = new]
    BY <1>2 DEF SetCandle
  <2>2. candles' \in CandleMap
    BY <2>1 DEF CandleMap
  <2>3. CASE isRefresh /\ candles[m][r] # NoCandle
    <3>1. candles[m][r] \in Candle
      BY <2>3 DEF CandleMap
    <3>2. unsent' = Append(<<candles[m][r]>>, new)
      BY <1>2, <2>3 DEF SetCandle
    <3>3. unsent' = <<candles[m][r], new>>
      BY <3>1, <3>2, AppendToOne
    <3> QED
      BY <2>1, <2>2, <2>3, <3>3
  <2>4. CASE ~(isRefresh /\ candles[m][r] # NoCandle)
    <3>1. unsent' = Append(<<>>, new)
      BY <1>2, <2>4 DEF SetCandle
    <3>2. unsent' = <<new>>
      BY <3>1
    <3> QED
      BY <2>1, <2>2, <2>4, <3>2
  <2> QED
    BY <2>3, <2>4
<1> QED
  BY <1>1, <1>2

LEMMA SetCandleType ==
    ASSUME candles \in CandleMap, unsent = <<>>,
           NEW m \in Markets, NEW r \in Resolutions,
           NEW new \in Candle, NEW isRefresh \in BOOLEAN,
           SetCandle(m, r, new, isRefresh)
    PROVE  candles' \in CandleMap /\ unsent' \in Seq(Candle) /\ Len(unsent') <= 2
<1>1. candles[m][r] \in Candle \cup {NoCandle}
  BY DEF CandleMap
<1>2. CASE unsent' = <<>>
  BY <1>2, SetCandleEffect
<1>3. CASE unsent' = <<new>>
  BY <1>3, SetCandleEffect
<1>4. CASE unsent' = <<candles[m][r], new>> /\ candles[m][r] \in Candle
  BY <1>4, SetCandleEffect
<1> QED
  BY <1>1, <1>2, <1>3, <1>4, SetCandleEffect

-------------------------------------------------------------------------------
(***************************************************************************)
(* Type correctness.  A call only visits stored candles, and only while it *)
(* runs is there anything to send; both are needed for the types.          *)
(***************************************************************************)
TypeInv == TypeOK /\ VisitedAreStored

TallyMap == [Markets -> [Resolutions -> [window : Int, volume : Nat, last : Decimal]]]

LEMMA DealsAreDeals == \A d \in Deals : d \in Deal
BY DEF Deals, Deal

LEMMA ZeroIsDecimal == ZeroDecimal \in Decimal
BY DEF ZeroDecimal, Decimal

LEMMA InitTypeInv == Init => TypeInv
<1> SUFFICES ASSUME Init PROVE TypeInv
  OBVIOUS
<1>1. candles \in CandleMap /\ sent \in CandleMap
  BY DEF Init, CandleMap
<1>2. tally \in TallyMap
  BY ZeroIsDecimal DEF Init, TallyMap, NoTally
<1>3. call \in [op : {"none", "AddDeal", "refreshAll", "AddCandle"},
                todo : SUBSET Pairs, market : Markets \cup {"none"},
                deal : Deals \cup {NoDeal}]
  BY DEF Init, NoCall
<1>4. /\ call.op = "none" /\ call.todo = {}
  BY DEF Init, NoCall
<1>5. now \in Instants
  BY DEF Init
<1>6. updatesStream \in Seq(Candle) /\ Len(updatesStream) = 0
      /\ unsent \in Seq(Candle) /\ Len(unsent) = 0
  BY DEF Init
<1>7. VisitedAreStored
  BY <1>4 DEF VisitedAreStored
<1> QED
  BY <1>1, <1>2, <1>3, <1>4, <1>5, <1>6, <1>7
     DEF Init, TypeInv, TypeOK, CandleMap, TallyMap, NoCall

\* What TypeOK says, in the form the steps use.
CallType == [op : {"none", "AddDeal", "refreshAll", "AddCandle"},
             todo : SUBSET Pairs, market : Markets \cup {"none"},
             deal : Deals \cup {NoDeal}]

CallOK ==
    /\ call \in CallType
    /\ call.op \in {"none", "AddCandle"} => call.todo = {}
    /\ call.op = "AddDeal" => call.deal \in Deals
    /\ call.op = "none" => call = NoCall /\ unsent = <<>>

QueuesOK ==
    /\ updatesStream \in Seq(Candle) /\ Len(updatesStream) <= StreamCap
    /\ unsent \in Seq(Candle) /\ Len(unsent) <= 2

RestOK ==
    /\ now \in Instants
    /\ refreshesDue \in Nat
    /\ toLoad \in SUBSET Pairs
    /\ loaded \in [pair : Pairs, candle : Candle \cup {NoCandle}] \cup {NothingLoaded}
    /\ dealsTaken \in 0..MaxDeals

LEMMA TypeParts ==
    TypeOK <=> /\ candles \in CandleMap /\ sent \in CandleMap
               /\ tally \in TallyMap /\ CallOK /\ QueuesOK /\ RestOK
BY DEF TypeOK, CandleMap, TallyMap, CallOK, CallType, QueuesOK, RestOK

LEMMA TypePartsPrime ==
    TypeOK' <=> /\ candles' \in CandleMap /\ sent' \in CandleMap
                /\ tally' \in TallyMap /\ CallOK' /\ QueuesOK' /\ RestOK'
BY DEF TypeOK, CandleMap, TallyMap, CallOK, CallType, QueuesOK, RestOK

\* No call is under way exactly when no operation is named.
LEMMA IdleCall == ASSUME CallOK PROVE LockFree <=> call.op = "none"
BY DEF CallOK, LockFree, NoCall

\* Visiting a pair takes it off the list of a running call.
LEMMA VisitEffect ==
    ASSUME CallOK, NEW m \in Markets, NEW r \in Resolutions,
           call.op \in {"AddDeal", "refreshAll"}, Visit(m, r)
    PROVE  /\ CallOK' /\ call'.op = call.op
           /\ call'.todo = call.todo \ {<<m, r>>}
<1>1. call' = [call EXCEPT !.todo = @ \ {<<m, r>>}, !.market = m]
  BY DEF Visit
<1>2. call' \in CallType
  BY <1>1 DEF CallOK, CallType
<1>3. /\ call'.op = call.op /\ call'.deal = call.deal
      /\ call'.todo = call.todo \ {<<m, r>>}
  BY <1>1 DEF CallOK, CallType
<1>4. call.op = "AddDeal" => call.deal \in Deals
  BY DEF CallOK
<1> QED
  BY <1>2, <1>3, <1>4 DEF CallOK, CallType

\* The count kept in the history has its type.
LEMMA CountType ==
    ASSUME now \in Nat, NEW r \in Resolutions, NEW d \in Deals,
           NEW total \in [window : Int, volume : Nat, last : Decimal]
    PROVE  Count(total, r, d) \in [window : Int, volume : Nat, last : Decimal]
<1> DEFINE w == WindowStart(r, now)
<1>1. d.amount \in Nat /\ d.price \in Decimal
  BY DEF Deals
<1>2. w \in Int
  BY WindowContains
<1>3. [window |-> w, volume |-> total.volume + d.amount, last |-> d.price]
          \in [window : Int, volume : Nat, last : Decimal]
  BY <1>1, <1>2
<1>4. [window |-> w, volume |-> d.amount, last |-> d.price]
          \in [window : Int, volume : Nat, last : Decimal]
  BY <1>1, <1>2
<1>5. CASE WindowStart(r, d.createdAt) # w
  BY <1>5 DEF Count
<1>6. CASE WindowStart(r, d.createdAt) = w /\ total.window = w
  BY <1>3, <1>6 DEF Count
<1>7. CASE WindowStart(r, d.createdAt) = w /\ total.window # w
  BY <1>4, <1>7 DEF Count
<1> QED
  BY <1>5, <1>6, <1>7

\* Every step keeps the types.
LEMMA NextTypeInv == TypeInv /\ [Next]_vars => TypeInv'
<1> SUFFICES ASSUME TypeInv, [Next]_vars PROVE TypeInv'
  OBVIOUS
<1> USE DEF TypeInv
<1>t. /\ candles \in CandleMap /\ sent \in CandleMap
      /\ tally \in TallyMap /\ CallOK /\ QueuesOK /\ RestOK
  BY TypeParts
<1>n. now \in Nat
  BY <1>t DEF RestOK
<1>1. CASE Tick
  <2>1. RestOK'
    BY <1>1, <1>t DEF Tick, RestOK
  <2>2. candles' = candles /\ sent' = sent /\ tally' = tally /\ CallOK' /\ QueuesOK'
    BY <1>1, <1>t DEF Tick, CallOK, QueuesOK
  <2>3. VisitedAreStored'
    BY <1>1 DEF Tick, VisitedAreStored
  <2> QED
    BY <1>t, <2>1, <2>2, <2>3, TypePartsPrime
<1>2. ASSUME NEW d \in Deals, AddDeal(d) PROVE TypeInv'
  <2>1. call' = [op |-> "AddDeal", market |-> d.market, deal |-> d,
            todo |-> {p \in Pairs : p[1] = d.market /\ candles[p[1]][p[2]] # NoCandle}]
    BY <1>2 DEF AddDeal
  <2>2. d.market \in Markets
    BY DEF Deals
  <2>3. CallOK'
    BY <2>1, <2>2 DEF CallOK, CallType
  <2>4. dealsTaken' \in 0..MaxDeals
    BY <1>2, <1>t DEF AddDeal, RestOK
  <2>5. RestOK' /\ QueuesOK' /\ candles' = candles /\ sent' = sent /\ tally' = tally
    BY <1>2, <1>t, <2>4 DEF AddDeal, RestOK, QueuesOK
  <2>6. VisitedAreStored'
    BY <2>1, <2>5 DEF VisitedAreStored, Pairs
  <2> QED
    BY <1>t, <2>3, <2>5, <2>6, TypePartsPrime
<1>3. CASE RefreshAll
  <2>1. call' = [NoCall EXCEPT !.op = "refreshAll",
                   !.todo = {p \in Pairs : candles[p[1]][p[2]] # NoCandle}]
    BY <1>3 DEF RefreshAll
  <2>2. CallOK'
    BY <2>1 DEF CallOK, CallType, NoCall
  <2>3. RestOK' /\ QueuesOK' /\ candles' = candles /\ sent' = sent /\ tally' = tally
    BY <1>3, <1>t DEF RefreshAll, RestOK, QueuesOK
  <2>4. VisitedAreStored'
    BY <2>1, <2>3 DEF VisitedAreStored, Pairs, NoCall
  <2> QED
    BY <1>t, <2>2, <2>3, <2>4, TypePartsPrime
<1>4. ASSUME NEW m \in Markets, NEW r \in Resolutions, DealIntoCandle(m, r)
      PROVE  TypeInv'
  <2> DEFINE current == GetFreshCandle(m, r)
  <2>1. call.op = "AddDeal" /\ call.deal \in Deals /\ unsent = <<>>
    BY <1>4, <1>t DEF DealIntoCandle, CallOK
  <2>2. CallOK' /\ call'.op = "AddDeal" /\ call'.todo = call.todo \ {<<m, r>>}
    BY <1>4, <1>t, <2>1, VisitEffect DEF DealIntoCandle
  <2>3. UpdateCandle(current, call.deal) \in Candle
    BY <1>n, <1>t, <2>1, GetFreshCandleType, UpdateCandleType, DealsAreDeals
  <2>4. /\ candles' \in CandleMap /\ unsent' \in Seq(Candle) /\ Len(unsent') <= 2
        /\ candles' = candles \/ candles' = [candles EXCEPT ![m][r] = UpdateCandle(current, call.deal)]
    <3>1. CASE UNCHANGED <<candles, unsent>>
      BY <1>t, <3>1 DEF QueuesOK
    <3>2. CASE SetCandle(m, r, UpdateCandle(current, call.deal), FALSE)
      BY <1>t, <2>1, <2>3, <3>2, SetCandleType, SetCandleEffect
    <3> QED
      BY <1>4, <3>1, <3>2 DEF DealIntoCandle
  <2>5. tally[m][r] \in [window : Int, volume : Nat, last : Decimal]
    BY <1>t DEF TallyMap
  <2>6. tally' \in TallyMap
    BY <1>4, <1>n, <1>t, <2>1, <2>5, CountType DEF DealIntoCandle, TallyMap
  <2>7. RestOK' /\ QueuesOK' /\ sent' = sent
    BY <1>4, <1>t, <2>4 DEF DealIntoCandle, RestOK, QueuesOK
  <2>8. VisitedAreStored'
    BY <1>t, <2>2, <2>3, <2>4, NoCandleIsNoCandle DEF VisitedAreStored, CandleMap
  <2> QED
    BY <1>t, <2>2, <2>4, <2>6, <2>7, <2>8, TypePartsPrime
<1>5. ASSUME NEW m \in Markets, NEW r \in Resolutions, RefreshCandle(m, r)
      PROVE  TypeInv'
  <2>1. call.op = "refreshAll" /\ unsent = <<>> /\ <<m, r>> \in call.todo
    BY <1>5 DEF RefreshCandle, NextPair
  <2>2. CallOK' /\ call'.op = "refreshAll" /\ call'.todo = call.todo \ {<<m, r>>}
    BY <1>5, <1>t, <2>1, VisitEffect DEF RefreshCandle
  <2>3. candles[m][r] \in Candle
    BY <1>t, <2>1 DEF VisitedAreStored, CandleMap
  <2>4. Refreshed(m, r) \in Candle
    BY <1>n, <1>t, <2>3, GetFreshCandleType, InheritType DEF Refreshed
  <2>5. /\ candles' \in CandleMap /\ unsent' \in Seq(Candle) /\ Len(unsent') <= 2
        /\ candles' = [candles EXCEPT ![m][r] = Refreshed(m, r)]
    <3>1. SetCandle(m, r, Refreshed(m, r), TRUE)
      BY <1>5 DEF RefreshCandle
    <3> QED
      BY <1>t, <2>1, <2>4, <3>1, SetCandleType, SetCandleEffect
  <2>6. RestOK' /\ QueuesOK' /\ sent' = sent /\ tally' = tally
    BY <1>5, <1>t, <2>5 DEF RefreshCandle, RestOK, QueuesOK
  <2>7. VisitedAreStored'
    BY <1>t, <2>2, <2>4, <2>5, NoCandleIsNoCandle DEF VisitedAreStored, CandleMap
  <2> QED
    BY <1>t, <2>2, <2>5, <2>6, <2>7, TypePartsPrime
<1>6. ASSUME NEW m \in Markets, NEW r \in Resolutions, LoadCandle(m, r)
      PROVE  TypeInv'
  <2>1. Stored[m][r][now] \in Chart \cup {NoChart}
    BY <1>t DEF RestOK
  <2>2. WindowStart(r, now) \in Nat
    BY <1>n, WindowContains
  <2>3. loaded' \in [pair : Pairs, candle : Candle \cup {NoCandle}]
    BY <1>6, <2>1, <2>2, ChartToCurrentCandleType DEF LoadCandle, Pairs
  <2>4. RestOK' /\ QueuesOK' /\ CallOK' /\ candles' = candles /\ sent' = sent /\ tally' = tally
    BY <1>6, <1>t, <2>3 DEF LoadCandle, RestOK, QueuesOK, CallOK
  <2>5. VisitedAreStored'
    BY <1>6 DEF LoadCandle, VisitedAreStored
  <2> QED
    BY <1>t, <2>4, <2>5, TypePartsPrime
<1>7. ASSUME NEW m \in Markets, NEW r \in Resolutions, AddCandle(m, r)
      PROVE  TypeInv'
  <2> DEFINE candle == IF loaded.candle = NoCandle THEN FreshCandle(m, r, now)
                       ELSE loaded.candle
  <2>1. unsent = <<>>
    BY <1>7, <1>t, IdleCall DEF AddCandle, CallOK
  <2>2. candle \in Candle
    BY <1>7, <1>n, <1>t, FreshCandleType DEF AddCandle, RestOK
  <2>3. candles' \in CandleMap /\ unsent' \in Seq(Candle) /\ Len(unsent') <= 2
    <3>1. SetCandle(m, r, candle, FALSE)
      BY <1>7 DEF AddCandle
    <3> HIDE DEF candle
    <3> QED
      BY <1>t, <2>1, <2>2, <3>1, SetCandleType
  <2>4. tally' = [tally EXCEPT ![m][r] =
           [window |-> candle.openTime, volume |-> candle.volume, last |-> candle.close]]
    BY <1>7 DEF AddCandle
  <2>5. tally' \in TallyMap
    <3> HIDE DEF candle
    <3>1. candle.openTime \in Int /\ candle.volume \in Nat /\ candle.close \in Decimal
      BY <2>2 DEF Candle
    <3> QED
      BY <1>t, <2>4, <3>1 DEF TallyMap
  <2>6. CallOK' /\ call'.todo = {}
    BY <1>7 DEF AddCandle, CallOK, CallType, NoCall
  <2>7. RestOK' /\ QueuesOK' /\ sent' = sent
    BY <1>7, <1>t, <2>3 DEF AddCandle, RestOK, QueuesOK
  <2>8. VisitedAreStored'
    BY <2>6 DEF VisitedAreStored
  <2> QED
    BY <1>t, <2>3, <2>5, <2>6, <2>7, <2>8, TypePartsPrime
<1>8. CASE Send
  <2>1. unsent \in Seq(Candle) /\ unsent # <<>> /\ Len(unsent) <= 2
    BY <1>8, <1>t DEF Send, QueuesOK
  <2>2. Head(unsent) \in Candle /\ Tail(unsent) \in Seq(Candle) /\ Len(Tail(unsent)) <= 2
    BY <2>1
  <2>3. QueuesOK'
    BY <1>8, <1>t, <2>2 DEF Send, Room, QueuesOK
  <2>4. Head(unsent).symbol \in Markets /\ Head(unsent).resolution \in Resolutions
    BY <2>2 DEF Candle
  <2>5. sent' \in CandleMap
    BY <1>8, <1>t, <2>2, <2>4 DEF Send, CandleMap
  <2>6. CallOK'
    BY <1>8, <1>t DEF Send, CallOK
  <2>7. RestOK' /\ candles' = candles /\ tally' = tally
    BY <1>8, <1>t DEF Send, RestOK
  <2>8. VisitedAreStored'
    BY <1>8 DEF Send, VisitedAreStored
  <2> QED
    BY <1>t, <2>3, <2>5, <2>6, <2>7, <2>8, TypePartsPrime
<1>9. CASE Receive
  <2>1. QueuesOK'
    BY <1>9, <1>t DEF Receive, QueuesOK
  <2>2. RestOK' /\ CallOK' /\ candles' = candles /\ tally' = tally /\ sent' = sent
    BY <1>9, <1>t DEF Receive, RestOK, CallOK
  <2>3. VisitedAreStored'
    BY <1>9 DEF Receive, VisitedAreStored
  <2> QED
    BY <1>t, <2>1, <2>2, <2>3, TypePartsPrime
<1>10. CASE Unlock
  <2>1. CallOK' /\ call'.todo = {}
    BY <1>10 DEF Unlock, CallOK, CallType, NoCall
  <2>2. RestOK' /\ QueuesOK' /\ candles' = candles /\ tally' = tally /\ sent' = sent
    BY <1>10, <1>t DEF Unlock, RestOK, QueuesOK
  <2>3. VisitedAreStored'
    BY <2>1 DEF VisitedAreStored
  <2> QED
    BY <1>t, <2>1, <2>2, <2>3, TypePartsPrime
<1>11. CASE UNCHANGED vars
  <2>1. /\ candles' = candles /\ tally' = tally /\ sent' = sent
        /\ RestOK' /\ QueuesOK' /\ CallOK'
    BY <1>11, <1>t DEF vars, RestOK, QueuesOK, CallOK
  <2>2. VisitedAreStored'
    BY <1>11 DEF vars, VisitedAreStored
  <2> QED
    BY <1>t, <2>1, <2>2, TypePartsPrime
<1> QED
  BY <1>1, <1>2, <1>3, <1>4, <1>5, <1>6, <1>7, <1>8, <1>9, <1>10, <1>11 DEF Next, Rest

\* The variables of the live candles always have their types: the updates
\* channel never holds more than its capacity, and the lock is never given back
\* by a setCandle that still has something to send.
THEOREM TypeCorrect == Spec => []TypeOK
<1>1. Spec => []TypeInv
  BY InitTypeInv, NextTypeInv, PTL DEF Spec
<1>2. TypeInv => TypeOK
  BY DEF TypeInv
<1> QED
  BY <1>1, <1>2, PTL

-------------------------------------------------------------------------------
(***************************************************************************)
(* The candle getFreshCandle returns, and what the two visiting steps do   *)
(* with it.                                                                *)
(***************************************************************************)
LEMMA FreshCandleWellFormed ==
    ASSUME now \in Nat, NEW m \in Markets, NEW r \in Resolutions
    PROVE  WellFormed(FreshCandle(m, r, now), m, r, now)
BY WindowContains, WindowStartIdempotent DEF WellFormed, FreshCandle

LEMMA GetFreshCandleEffect ==
    ASSUME TypeInv, CandlesWellFormed, NEW m \in Markets, NEW r \in Resolutions
    PROVE  /\ GetFreshCandle(m, r) \in Candle
           /\ WellFormed(GetFreshCandle(m, r), m, r, now)
           /\ \/ /\ candles[m][r] \in Candle
                 /\ GetFreshCandle(m, r) = candles[m][r]
                 /\ ContainsTs(candles[m][r], now)
              \/ /\ GetFreshCandle(m, r) = FreshCandle(m, r, now)
                 /\ candles[m][r] = NoCandle \/ ~ContainsTs(candles[m][r], now)
<1>1. candles \in CandleMap /\ now \in Nat
  BY TypeParts DEF TypeInv, RestOK
<1>2. CASE candles[m][r] = NoCandle \/ ~ContainsTs(candles[m][r], now)
  BY <1>1, <1>2, FreshCandleType, FreshCandleWellFormed DEF GetFreshCandle
<1>3. CASE candles[m][r] # NoCandle /\ ContainsTs(candles[m][r], now)
  BY <1>1, <1>3 DEF GetFreshCandle, CandlesWellFormed, CandleMap
<1> QED
  BY <1>2, <1>3

\* Away from the last nanosecond, that candle is the one of the live window,
\* and it takes the place of an older one only with no volume.
LEMMA GetFreshCandleInside ==
    ASSUME TypeInv, CandlesWellFormed, InstantsInside,
           NEW m \in Markets, NEW r \in Resolutions
    PROVE  /\ GetFreshCandle(m, r).openTime = WindowStart(r, now)
           /\ candles[m][r] \in Candle /\ GetFreshCandle(m, r) # candles[m][r] =>
                 /\ candles[m][r].openTime < WindowStart(r, now)
                 /\ GetFreshCandle(m, r).volume = 0
<1> DEFINE c == candles[m][r]
<1>1. now \in Nat /\ candles \in CandleMap
  BY TypeParts DEF TypeInv, RestOK
<1>2. now + 1 # WindowEnd(r, now)
  BY TypeParts DEF TypeInv, RestOK, InstantsInside, InsideWindows
<1>3. c \in Candle => /\ c.openTime \in Nat /\ c.openTime <= now
                      /\ WindowStart(r, c.openTime) = c.openTime
                      /\ c.closeTime = CloseTime(c.openTime, r)
  BY NoCandleIsNoCandle DEF CandlesWellFormed, WellFormed, Candle
<1>4. c \in Candle => (ContainsTs(c, now) <=> WindowStart(r, now) = c.openTime)
  BY <1>1, <1>2, <1>3, ContainsIsWindow DEF ContainsTs
<1>5. CASE GetFreshCandle(m, r) = c /\ c \in Candle /\ ContainsTs(c, now)
  BY <1>4, <1>5
<1>6. CASE /\ GetFreshCandle(m, r) = FreshCandle(m, r, now)
           /\ c = NoCandle \/ ~ContainsTs(c, now)
  <2>1. /\ GetFreshCandle(m, r).openTime = WindowStart(r, now)
        /\ GetFreshCandle(m, r).volume = 0
    BY <1>6 DEF FreshCandle
  <2>2. ASSUME c \in Candle PROVE c.openTime < WindowStart(r, now)
    <3>1. c.openTime # WindowStart(r, now)
      BY <1>4, <1>6, <2>2, NoCandleIsNoCandle
    <3>2. c.openTime <= WindowStart(r, now)
      BY <1>1, <1>3, <2>2, WindowMonotone
    <3>3. WindowStart(r, now) \in Nat
      BY <1>1, WindowContains
    <3>4. c.openTime \in Nat
      BY <1>3, <2>2
    <3> DEFINE a == c.openTime
               b == WindowStart(r, now)
    <3>5. a # b /\ a <= b /\ a \in Nat /\ b \in Nat
      BY <3>1, <3>2, <3>3, <3>4
    <3> HIDE DEF a, b
    <3>6. a < b
      BY <3>5
    <3> QED
      BY <3>6 DEF a, b
  <2> QED
    BY <2>1, <2>2
<1> QED
  BY <1>5, <1>6, GetFreshCandleEffect

\* AddDeal leaves the candle of a resolution alone, or puts the deal into it.
LEMMA DealEffect ==
    ASSUME TypeInv, CandlesWellFormed,
           NEW m \in Markets, NEW r \in Resolutions, DealIntoCandle(m, r)
    PROVE  LET current == GetFreshCandle(m, r)
               new == UpdateCandle(current, call.deal)
           IN  /\ candles \in CandleMap /\ candles[m][r] \in Candle
               /\ unsent = <<>> /\ call.deal \in Deals /\ call.deal \in Deal
               /\ new \in Candle /\ WellFormed(new, m, r, now)
               /\ new.openTime = current.openTime /\ new.close = call.deal.price
               /\ new.volume = current.volume + call.deal.amount
               /\ \/ /\ ~ContainsTs(current, call.deal.createdAt)
                     /\ candles' = candles /\ unsent' = <<>>
                  \/ /\ ContainsTs(current, call.deal.createdAt)
                     /\ candles' = [candles EXCEPT ![m][r] = new]
                     /\ \/ unsent' = <<>> /\ candles[m][r] = new
                        \/ unsent' = <<new>>
                        \/ unsent' = <<candles[m][r], new>>
<1> DEFINE current == GetFreshCandle(m, r)
           new == UpdateCandle(current, call.deal)
<1>1. candles \in CandleMap /\ CallOK
  BY TypeParts DEF TypeInv
<1>2. candles[m][r] \in Candle
  BY <1>1 DEF TypeInv, VisitedAreStored, CandleMap, DealIntoCandle, NextPair
<1>3. unsent = <<>> /\ call.deal \in Deals /\ call.deal \in Deal
  BY <1>1, DealsAreDeals DEF DealIntoCandle, CallOK
<1>4. current \in Candle /\ WellFormed(current, m, r, now)
  BY GetFreshCandleEffect
<1>5. /\ new \in Candle /\ new.symbol = current.symbol
      /\ new.resolution = current.resolution
      /\ new.openTime = current.openTime /\ new.closeTime = current.closeTime
      /\ new.close = call.deal.price
      /\ new.volume = current.volume + call.deal.amount
  BY <1>3, <1>4, UpdateCandleType
<1>6. WellFormed(new, m, r, now)
  BY <1>4, <1>5 DEF WellFormed
<1>7. \/ ~ContainsTs(current, call.deal.createdAt) /\ UNCHANGED <<candles, unsent>>
      \/ ContainsTs(current, call.deal.createdAt) /\ SetCandle(m, r, new, FALSE)
  BY DEF DealIntoCandle
<1> HIDE DEF current, new
<1>8. ASSUME SetCandle(m, r, new, FALSE)
      PROVE  /\ candles' = [candles EXCEPT ![m][r] = new]
             /\ \/ unsent' = <<>> /\ candles[m][r] = new
                \/ unsent' = <<new>>
                \/ unsent' = <<candles[m][r], new>>
  <2>1. new \in Candle /\ unsent = <<>>
    BY <1>3, <1>5
  <2> QED
    BY <1>1, <1>8, <2>1, SetCandleEffect
<1> QED
  BY <1>1, <1>2, <1>3, <1>5, <1>6, <1>7, <1>8 DEF current, new

\* refreshAll replaces a candle by one that inherits its last price.
LEMMA RefreshEffect ==
    ASSUME TypeInv, CandlesWellFormed,
           NEW m \in Markets, NEW r \in Resolutions, RefreshCandle(m, r)
    PROVE  LET old == candles[m][r]
               current == GetFreshCandle(m, r)
               new == Refreshed(m, r)
           IN  /\ candles \in CandleMap /\ old \in Candle /\ unsent = <<>>
               /\ new \in Candle /\ WellFormed(new, m, r, now)
               /\ new = Inherit(current, old)
               /\ new.openTime = current.openTime /\ new.volume = current.volume
               /\ new.close = old.close
               /\ candles' = [candles EXCEPT ![m][r] = new]
               /\ \/ unsent' = <<>> /\ old = new
                  \/ unsent' = <<new>>
                  \/ unsent' = <<old, new>>
<1> DEFINE old == candles[m][r]
           current == GetFreshCandle(m, r)
           new == Refreshed(m, r)
<1>1. candles \in CandleMap
  BY TypeParts DEF TypeInv
<1>2. old \in Candle
  BY <1>1 DEF TypeInv, VisitedAreStored, CandleMap, RefreshCandle, NextPair
<1>3. current \in Candle /\ WellFormed(current, m, r, now)
  BY GetFreshCandleEffect
<1>4. new = Inherit(current, old)
  BY DEF Refreshed
<1>5. new \in Candle
  BY <1>2, <1>3, <1>4, InheritType
<1>6. /\ new.openTime = current.openTime /\ new.closeTime = current.closeTime
      /\ new.volume = current.volume /\ new.close = old.close
      /\ new.symbol = current.symbol /\ new.resolution = current.resolution
  <2> HIDE DEF new, current, old
  <2> QED
    BY <1>3, <1>4 DEF Inherit, Candle
<1>7. WellFormed(new, m, r, now)
  BY <1>3, <1>6 DEF WellFormed
<1>8. SetCandle(m, r, new, TRUE) /\ unsent = <<>>
  BY DEF RefreshCandle
<1> HIDE DEF current, new
<1>9. /\ candles' = [candles EXCEPT ![m][r] = new]
      /\ \/ unsent' = <<>> /\ old = new
         \/ unsent' = <<new>>
         \/ unsent' = <<old, new>>
  BY <1>1, <1>5, <1>8, SetCandleEffect
<1> QED
  BY <1>1, <1>2, <1>4, <1>5, <1>6, <1>7, <1>8, <1>9 DEF current, new

-------------------------------------------------------------------------------
(***************************************************************************)
(* Stored candles are well formed, and each is loaded once.                *)
(***************************************************************************)
ShapeInv == TypeInv /\ CandlesWellFormed /\ LoadedOnce

LEMMA InitShapeInv == Init => ShapeInv
<1> SUFFICES ASSUME Init PROVE ShapeInv
  OBVIOUS
<1>1. \A m \in Markets, r \in Resolutions : candles[m][r] = NoCandle
  BY DEF Init
<1> QED
  BY <1>1, InitTypeInv DEF ShapeInv, CandlesWellFormed, LoadedOnce, Init

\* A step that stores a well-formed candle under a stored pair keeps the shape.
LEMMA StoreKeepsShape ==
    ASSUME ShapeInv, candles \in CandleMap, NEW m \in Markets, NEW r \in Resolutions,
           NEW new \in Candle, WellFormed(new, m, r, now), candles[m][r] \in Candle,
           candles' = [candles EXCEPT ![m][r] = new],
           UNCHANGED <<now, toLoad, loaded>>
    PROVE  CandlesWellFormed' /\ LoadedOnce'
<1>1. \A n \in Markets, q \in Resolutions :
          candles'[n][q] = IF n = m /\ q = r THEN new ELSE candles[n][q]
  BY DEF CandleMap
<1>2. ASSUME NEW n \in Markets, NEW q \in Resolutions, candles'[n][q] # NoCandle
      PROVE  WellFormed(candles'[n][q], n, q, now')
  BY <1>1, <1>2 DEF ShapeInv, CandlesWellFormed, WellFormed
<1>3. CandlesWellFormed'
  BY <1>2 DEF CandlesWellFormed
<1>4. ASSUME NEW n \in Markets, NEW q \in Resolutions,
             <<n, q>> \in toLoad \/ (loaded # NothingLoaded /\ loaded.pair = <<n, q>>)
      PROVE  candles'[n][q] = NoCandle
  BY <1>1, <1>4, NoCandleIsNoCandle DEF ShapeInv, LoadedOnce
<1>5. LoadedOnce'
  BY <1>4 DEF ShapeInv, LoadedOnce, WellFormed
<1> QED
  BY <1>3, <1>5

LEMMA NextShapeInv == ShapeInv /\ [Next]_vars => ShapeInv'
<1> SUFFICES ASSUME ShapeInv, [Next]_vars PROVE ShapeInv'
  OBVIOUS
<1>t. TypeInv /\ TypeInv' /\ CandlesWellFormed /\ LoadedOnce
  BY NextTypeInv DEF ShapeInv
<1>c. candles \in CandleMap /\ now \in Nat /\ now \in Instants
  BY <1>t, TypeParts DEF TypeInv, RestOK
<1> SUFFICES CandlesWellFormed' /\ LoadedOnce'
  BY <1>t DEF ShapeInv
<1>1. CASE Tick
  <2>1. now' \in Nat /\ now' > now
    BY <1>1 DEF Tick
  <2>2. candles' = candles /\ loaded' = loaded /\ toLoad' = toLoad
    BY <1>1 DEF Tick
  <2>3. \A c \in Candle, m \in Markets, r \in Resolutions :
            WellFormed(c, m, r, now) => WellFormed(c, m, r, now')
    BY <1>c, <2>1 DEF WellFormed, Candle
  <2>4. loaded # NothingLoaded => loaded.candle \in Candle \cup {NoCandle}
    BY <1>t, TypeParts DEF TypeInv, RestOK
  <2>5. CandlesWellFormed'
    BY <1>c, <1>t, <2>2, <2>3 DEF CandlesWellFormed, CandleMap
  <2>6. LoadedOnce'
    BY <1>t, <2>2, <2>3, <2>4 DEF LoadedOnce
  <2> QED
    BY <2>5, <2>6
<1>2. ASSUME NEW d \in Deals, AddDeal(d) PROVE CandlesWellFormed' /\ LoadedOnce'
  BY <1>2, <1>t DEF AddDeal, CandlesWellFormed, LoadedOnce, WellFormed
<1>3. CASE RefreshAll
  BY <1>3, <1>t DEF RefreshAll, CandlesWellFormed, LoadedOnce, WellFormed
<1>4. ASSUME NEW m \in Markets, NEW r \in Resolutions, DealIntoCandle(m, r)
      PROVE  CandlesWellFormed' /\ LoadedOnce'
  <2>1. UNCHANGED <<now, toLoad, loaded>>
    BY <1>4 DEF DealIntoCandle
  <2>2. CASE candles' = candles
    BY <1>t, <2>1, <2>2 DEF CandlesWellFormed, LoadedOnce, WellFormed
  <2>3. CASE candles' # candles
    <3> DEFINE new == UpdateCandle(GetFreshCandle(m, r), call.deal)
    <3>1. /\ candles' = [candles EXCEPT ![m][r] = new] /\ candles[m][r] \in Candle
          /\ new \in Candle /\ WellFormed(new, m, r, now)
      BY <1>4, <1>t, <2>3, DealEffect
    <3> HIDE DEF new
    <3> QED
      BY <1>c, <2>1, <3>1, StoreKeepsShape
  <2> QED
    BY <2>2, <2>3
<1>5. ASSUME NEW m \in Markets, NEW r \in Resolutions, RefreshCandle(m, r)
      PROVE  CandlesWellFormed' /\ LoadedOnce'
  <2>1. UNCHANGED <<now, toLoad, loaded>>
    BY <1>5 DEF RefreshCandle
  <2>2. /\ candles' = [candles EXCEPT ![m][r] = Refreshed(m, r)]
        /\ candles[m][r] \in Candle
        /\ Refreshed(m, r) \in Candle /\ WellFormed(Refreshed(m, r), m, r, now)
    BY <1>5, <1>t, RefreshEffect
  <2> QED
    BY <1>c, <2>1, <2>2, StoreKeepsShape
<1>6. ASSUME NEW m \in Markets, NEW r \in Resolutions, LoadCandle(m, r)
      PROVE  CandlesWellFormed' /\ LoadedOnce'
  <2> DEFINE c == ChartToCurrentCandle(Stored[m][r][now], m, r, WindowStart(r, now))
  <2>1. /\ candles' = candles /\ now' = now /\ toLoad' = toLoad \ {<<m, r>>}
        /\ <<m, r>> \in toLoad
        /\ loaded'.pair = <<m, r>> /\ loaded'.candle \in {NoCandle, c}
    BY <1>6 DEF LoadCandle
  <2>2. WellFormed(c, m, r, now)
    BY <1>c, WindowContains, WindowStartIdempotent DEF WellFormed, ChartToCurrentCandle
  <2>3. CandlesWellFormed'
    BY <1>t, <2>1 DEF CandlesWellFormed, WellFormed
  <2>4. candles[m][r] = NoCandle
    BY <1>t, <2>1 DEF LoadedOnce
  <2>5. \A n \in Markets, q \in Resolutions :
            <<n, q>> \in toLoad' => candles'[n][q] = NoCandle
    BY <1>t, <2>1 DEF LoadedOnce
  <2>6. ASSUME NEW n \in Markets, NEW q \in Resolutions, loaded'.pair = <<n, q>>
        PROVE  /\ <<n, q>> \notin toLoad' /\ candles'[n][q] = NoCandle
               /\ loaded'.candle # NoCandle => WellFormed(loaded'.candle, n, q, now')
    <3>1. n = m /\ q = r
      BY <2>1, <2>6
    <3> HIDE DEF c
    <3> QED
      BY <2>1, <2>2, <2>4, <3>1 DEF WellFormed
  <2>7. LoadedOnce'
    BY <2>5, <2>6 DEF LoadedOnce
  <2> QED
    BY <2>3, <2>7
<1>7. ASSUME NEW m \in Markets, NEW r \in Resolutions, AddCandle(m, r)
      PROVE  CandlesWellFormed' /\ LoadedOnce'
  <2> DEFINE c == IF loaded.candle = NoCandle THEN FreshCandle(m, r, now)
                  ELSE loaded.candle
  <2>1. /\ SetCandle(m, r, c, FALSE) /\ loaded # NothingLoaded
        /\ loaded.pair = <<m, r>> /\ loaded' = NothingLoaded
        /\ UNCHANGED <<now, toLoad>>
    BY <1>7 DEF AddCandle
  <2>2. unsent = <<>> /\ loaded \in [pair : Pairs, candle : Candle \cup {NoCandle}]
    BY <1>7, <1>t, <2>1, TypeParts, IdleCall DEF TypeInv, AddCandle, CallOK, RestOK
  <2>3. c \in Candle /\ WellFormed(c, m, r, now)
    BY <1>c, <1>t, <2>1, <2>2, FreshCandleType, FreshCandleWellFormed DEF LoadedOnce
  <2>4. <<m, r>> \notin toLoad
    BY <1>t, <2>1 DEF LoadedOnce
  <2> HIDE DEF c
  <2>a. /\ candles \in CandleMap /\ unsent = <<>> /\ c \in Candle
        /\ SetCandle(m, r, c, FALSE)
    BY <1>c, <2>1, <2>2, <2>3
  <2>5. candles' = [candles EXCEPT ![m][r] = c]
    BY ONLY <2>a, SetCandleEffect, m \in Markets, r \in Resolutions, FALSE \in BOOLEAN
  <2>6. \A n \in Markets, q \in Resolutions :
            candles'[n][q] = IF n = m /\ q = r THEN c ELSE candles[n][q]
    BY <1>c, <2>5 DEF CandleMap
  <2>b. now' = now /\ toLoad' = toLoad
    BY <2>1
  <2>7. CandlesWellFormed'
    <3> SUFFICES ASSUME NEW n \in Markets, NEW q \in Resolutions, candles'[n][q] # NoCandle
                 PROVE  WellFormed(candles'[n][q], n, q, now)
      BY <2>b DEF CandlesWellFormed, WellFormed
    <3>1. CASE n = m /\ q = r
      BY ONLY <2>3, <2>6, <3>1, n \in Markets, q \in Resolutions
    <3>2. CASE ~(n = m /\ q = r)
      <4>1. candles'[n][q] = candles[n][q]
        BY ONLY <2>6, <3>2, n \in Markets, q \in Resolutions
      <4> QED
        BY <1>t, <4>1 DEF CandlesWellFormed
    <3> QED
      BY <3>1, <3>2
  <2>8. ASSUME NEW n \in Markets, NEW q \in Resolutions, <<n, q>> \in toLoad'
        PROVE  candles'[n][q] = NoCandle
    <3>1. <<n, q>> \in toLoad /\ candles[n][q] = NoCandle
      BY <1>t, <2>b, <2>8 DEF LoadedOnce
    <3>2. ~(n = m /\ q = r)
      BY ONLY <2>4, <3>1
    <3> QED
      BY ONLY <2>6, <3>1, <3>2, n \in Markets, q \in Resolutions
  <2>9. LoadedOnce'
    BY <2>1, <2>8 DEF LoadedOnce
  <2> QED
    BY <2>7, <2>9
<1>8. CASE Send \/ Receive \/ Unlock \/ UNCHANGED vars
  <2>1. UNCHANGED <<now, candles, toLoad, loaded>>
    BY <1>8 DEF Send, Receive, Unlock, vars
  <2> QED
    BY <1>t, <2>1 DEF CandlesWellFormed, LoadedOnce
<1> QED
  BY <1>1, <1>2, <1>3, <1>4, <1>5, <1>6, <1>7, <1>8 DEF Next, Rest

-------------------------------------------------------------------------------
(***************************************************************************)
(* The volume and last price of a stored candle are those of the deals     *)
(* that were handed over in its window.  This needs the clock to stay      *)
(* away from the last nanosecond of each window, where a candle is neither *)
(* live nor over and getFreshCandle builds it anew.                        *)
(***************************************************************************)
TallyInv == ShapeInv /\ CandleMatchesTally

Matches(c, total) ==
    /\ c.openTime >= total.window
    /\ c.volume = IF c.openTime = total.window THEN total.volume ELSE 0
    /\ c.close = total.last

LEMMA MatchesIsTally ==
    CandleMatchesTally <=> \A m \in Markets, r \in Resolutions :
        candles[m][r] # NoCandle => Matches(candles[m][r], tally[m][r])
BY DEF CandleMatchesTally, Matches

LEMMA MatchesIsTallyPrime ==
    CandleMatchesTally' <=> \A m \in Markets, r \in Resolutions :
        candles'[m][r] # NoCandle => Matches(candles'[m][r], tally'[m][r])
BY DEF CandleMatchesTally, Matches

\* A deal of the live window goes into the candle and into the count; any
\* other goes into neither.
LEMMA DealMatches ==
    ASSUME TallyInv, InstantsInside,
           NEW m \in Markets, NEW r \in Resolutions, DealIntoCandle(m, r)
    PROVE  Matches(candles'[m][r], tally'[m][r])
<1> DEFINE old == candles[m][r]
           current == GetFreshCandle(m, r)
           new == UpdateCandle(current, call.deal)
           total == tally[m][r]
           w == WindowStart(r, now)
<1>1. /\ TypeInv /\ CandlesWellFormed /\ candles \in CandleMap /\ tally \in TallyMap
      /\ now \in Instants /\ now \in Nat
  BY TypeParts DEF TallyInv, ShapeInv, TypeInv, RestOK
<1>2. /\ old \in Candle /\ call.deal \in Deals
      /\ new.openTime = current.openTime /\ new.close = call.deal.price
      /\ new.volume = current.volume + call.deal.amount
      /\ \/ ~ContainsTs(current, call.deal.createdAt) /\ candles' = candles
         \/ /\ ContainsTs(current, call.deal.createdAt)
            /\ candles' = [candles EXCEPT ![m][r] = new]
  BY <1>1, DealEffect
<1>3. /\ current \in Candle /\ WellFormed(current, m, r, now)
      /\ current.openTime = w
      /\ current # old => old.openTime < w /\ current.volume = 0
  BY <1>1, <1>2, GetFreshCandleEffect, GetFreshCandleInside
<1>4. /\ call.deal.createdAt \in Nat /\ call.deal.amount \in Nat
      /\ call.deal.createdAt + 1 # WindowEnd(r, call.deal.createdAt)
  BY <1>2 DEF Deals, InstantsInside, InsideWindows
<1>5. w \in Nat /\ WindowStart(r, w) = w
  BY <1>1, WindowContains, WindowStartIdempotent
<1>6. ContainsTs(current, call.deal.createdAt) <=> WindowStart(r, call.deal.createdAt) = w
  BY <1>3, <1>4, <1>5, ContainsIsWindow DEF ContainsTs, WellFormed
<1>7. total.window \in Int /\ total.volume \in Nat
  BY <1>1 DEF TallyMap
<1>8. Matches(old, total)
  BY <1>2, MatchesIsTally, NoCandleIsNoCandle DEF TallyInv
<1>9. tally'[m][r] = Count(total, r, call.deal)
  BY <1>1 DEF DealIntoCandle, TallyMap
<1>10. CASE WindowStart(r, call.deal.createdAt) # w
  <2>1. candles' = candles
    BY <1>2, <1>6, <1>10
  <2>2. tally'[m][r] = total
    BY <1>9, <1>10 DEF Count
  <2> QED
    BY <1>8, <2>1, <2>2
<1>11. CASE WindowStart(r, call.deal.createdAt) = w
  <2>1. candles'[m][r] = new
    BY <1>1, <1>2, <1>6, <1>11 DEF CandleMap
  <2>2. old.openTime \in Nat /\ old.volume \in Nat
    BY <1>2 DEF Candle
  <2>3. CASE total.window = w
    <3>1. tally'[m][r] = [window |-> w, volume |-> total.volume + call.deal.amount,
                          last |-> call.deal.price]
      BY <1>9, <1>11, <2>3 DEF Count
    <3>2. current = old
      BY <1>3, <1>5, <1>8, <2>2, <2>3 DEF Matches
    <3>3. current.volume = total.volume
      BY <1>3, <1>8, <2>3, <3>2 DEF Matches
    <3> HIDE DEF new, current, total, w
    <3> QED
      BY <1>2, <1>3, <1>5, <2>1, <3>1, <3>3 DEF Matches
  <2>4. CASE total.window # w
    <3>1. tally'[m][r] = [window |-> w, volume |-> call.deal.amount,
                          last |-> call.deal.price]
      BY <1>9, <1>11, <2>4 DEF Count
    <3>2. current.volume = 0
      <4>1. CASE current = old
        BY <1>3, <1>8, <2>4, <4>1 DEF Matches
      <4> QED
        BY <1>3, <4>1
    <3> HIDE DEF new, current, total, w
    <3> QED
      BY <1>2, <1>3, <1>4, <1>5, <2>1, <3>1, <3>2 DEF Matches
  <2> QED
    BY <2>3, <2>4
<1> QED
  BY <1>10, <1>11

\* A refresh starts a later window without volume, or keeps window and volume.
LEMMA RefreshMatches ==
    ASSUME TallyInv, InstantsInside,
           NEW m \in Markets, NEW r \in Resolutions, RefreshCandle(m, r)
    PROVE  Matches(candles'[m][r], tally'[m][r])
<1> DEFINE old == candles[m][r]
           current == GetFreshCandle(m, r)
           new == Refreshed(m, r)
           total == tally[m][r]
<1>1. TypeInv /\ CandlesWellFormed /\ candles \in CandleMap /\ tally \in TallyMap
  BY TypeParts DEF TallyInv, ShapeInv, TypeInv
<1>2. /\ old \in Candle /\ new.openTime = current.openTime
      /\ new.volume = current.volume /\ new.close = old.close
      /\ candles' = [candles EXCEPT ![m][r] = new]
  BY <1>1, RefreshEffect
<1>3. /\ current \in Candle
      /\ current # old => old.openTime < current.openTime /\ current.volume = 0
  BY <1>1, <1>2, GetFreshCandleEffect, GetFreshCandleInside
<1>4. Matches(old, total)
  BY <1>2, MatchesIsTally, NoCandleIsNoCandle DEF TallyInv
<1>5. candles'[m][r] = new /\ tally'[m][r] = total
  BY <1>1, <1>2 DEF CandleMap, RefreshCandle
<1>6. /\ old.openTime \in Int /\ current.openTime \in Int /\ total.window \in Int
  BY <1>1, <1>2, <1>3 DEF Candle, TallyMap
<1> HIDE DEF old, current, new, total
<1>7. CASE current = old
  BY <1>2, <1>4, <1>5, <1>7 DEF Matches
<1>8. CASE current # old
  <2>1. current.openTime > total.window
    BY <1>3, <1>4, <1>6, <1>8 DEF Matches
  <2> QED
    BY <1>2, <1>3, <1>4, <1>5, <1>6, <1>8, <2>1 DEF Matches
<1> QED
  BY <1>7, <1>8

LEMMA NextTallyInv ==
    ASSUME InstantsInside
    PROVE  TallyInv /\ [Next]_vars => TallyInv'
<1> SUFFICES ASSUME TallyInv, [Next]_vars PROVE TallyInv'
  OBVIOUS
<1>t. ShapeInv /\ ShapeInv' /\ candles \in CandleMap /\ tally \in TallyMap
  BY NextShapeInv, TypeParts DEF TallyInv, ShapeInv, TypeInv
<1>s. \A m \in Markets, r \in Resolutions :
          candles[m][r] # NoCandle => Matches(candles[m][r], tally[m][r])
  BY MatchesIsTally DEF TallyInv
<1> SUFFICES ASSUME NEW n \in Markets, NEW q \in Resolutions, candles'[n][q] # NoCandle
             PROVE  Matches(candles'[n][q], tally'[n][q])
  BY <1>t, MatchesIsTallyPrime DEF TallyInv
<1>1. ASSUME NEW m \in Markets, NEW r \in Resolutions, DealIntoCandle(m, r)
      PROVE  Matches(candles'[n][q], tally'[n][q])
  <2>1. CASE n = m /\ q = r
    BY <1>1, <2>1, DealMatches
  <2>2. CASE ~(n = m /\ q = r)
    <3> DEFINE new == UpdateCandle(GetFreshCandle(m, r), call.deal)
    <3>1. candles' = candles \/ candles' = [candles EXCEPT ![m][r] = new]
      BY <1>1, <1>t, DealEffect DEF ShapeInv
    <3> HIDE DEF new
    <3>2. candles'[n][q] = candles[n][q]
      BY <1>t, <2>2, <3>1 DEF CandleMap
    <3>3. tally'[n][q] = tally[n][q]
      BY <1>1, <1>t, <2>2 DEF DealIntoCandle, TallyMap
    <3> QED
      BY <1>s, <3>2, <3>3
  <2> QED
    BY <2>1, <2>2
<1>2. ASSUME NEW m \in Markets, NEW r \in Resolutions, RefreshCandle(m, r)
      PROVE  Matches(candles'[n][q], tally'[n][q])
  <2>1. CASE n = m /\ q = r
    BY <1>2, <2>1, RefreshMatches
  <2>2. CASE ~(n = m /\ q = r)
    <3>1. candles' = [candles EXCEPT ![m][r] = Refreshed(m, r)]
      BY <1>2, <1>t, RefreshEffect DEF ShapeInv
    <3>2. candles'[n][q] = candles[n][q] /\ tally' = tally
      BY <1>2, <1>t, <2>2, <3>1 DEF CandleMap, RefreshCandle
    <3> QED
      BY <1>s, <3>2
  <2> QED
    BY <2>1, <2>2
<1>3. ASSUME NEW m \in Markets, NEW r \in Resolutions, AddCandle(m, r)
      PROVE  Matches(candles'[n][q], tally'[n][q])
  <2> DEFINE c == IF loaded.candle = NoCandle THEN FreshCandle(m, r, now)
                  ELSE loaded.candle
             total == [window |-> c.openTime, volume |-> c.volume, last |-> c.close]
  <2>1. /\ SetCandle(m, r, c, FALSE) /\ loaded # NothingLoaded
        /\ tally' = [tally EXCEPT ![m][r] = total]
    BY <1>3 DEF AddCandle
  <2>2. /\ unsent = <<>> /\ now \in Nat
        /\ loaded \in [pair : Pairs, candle : Candle \cup {NoCandle}]
    BY <1>3, <1>t, <2>1, TypeParts, IdleCall
       DEF ShapeInv, TypeInv, AddCandle, CallOK, RestOK
  <2>3. c \in Candle
    BY <2>2, FreshCandleType
  <2> HIDE DEF c
  <2>4. candles' = [candles EXCEPT ![m][r] = c]
    BY <1>t, <2>1, <2>2, <2>3, SetCandleEffect
  <2>5. CASE n = m /\ q = r
    <3>1. candles'[n][q] = c /\ tally'[n][q] = total
      BY <1>t, <2>1, <2>4, <2>5 DEF CandleMap, TallyMap
    <3>2. c.openTime >= c.openTime
      BY <2>3 DEF Candle
    <3> QED
      BY <3>1, <3>2 DEF Matches
  <2>6. CASE ~(n = m /\ q = r)
    <3>1. candles'[n][q] = candles[n][q] /\ tally'[n][q] = tally[n][q]
      BY <1>t, <2>1, <2>4, <2>6 DEF CandleMap, TallyMap
    <3> QED
      BY <1>s, <3>1
  <2> QED
    BY <2>5, <2>6
<1>4. CASE UNCHANGED <<candles, tally>>
  BY <1>s, <1>4
<1>5. CASE Tick \/ RefreshAll \/ Send \/ Receive \/ Unlock \/ UNCHANGED vars
  BY <1>4, <1>5 DEF Tick, RefreshAll, Send, Receive, Unlock, vars
<1>6. ASSUME NEW d \in Deals, AddDeal(d) PROVE Matches(candles'[n][q], tally'[n][q])
  BY <1>4, <1>6 DEF AddDeal
<1>7. ASSUME NEW m \in Markets, NEW r \in Resolutions, LoadCandle(m, r)
      PROVE  Matches(candles'[n][q], tally'[n][q])
  BY <1>4, <1>7 DEF LoadCandle
<1> QED
  BY <1>1, <1>2, <1>3, <1>5, <1>6, <1>7 DEF Next, Rest

\* Every deal handed to AddDeal in the window it was made in is in the volume
\* of the live candle of every resolution, once, and is its last price until
\* the next; ticks between the resolutions of one call, late deals, refreshes
\* and reloads change nothing about it.
THEOREM VolumeIsExact ==
    ASSUME InstantsInside
    PROVE  Spec => []CandleMatchesTally
<1>1. Init => TallyInv
  <2> SUFFICES ASSUME Init PROVE TallyInv
    OBVIOUS
  <2>1. \A m \in Markets, r \in Resolutions : candles[m][r] = NoCandle
    BY DEF Init
  <2> QED
    BY <2>1, InitShapeInv DEF TallyInv, CandleMatchesTally
<1>2. TallyInv /\ [Next]_vars => TallyInv'
  BY NextTallyInv
<1>3. TallyInv => CandleMatchesTally
  BY DEF TallyInv
<1> QED
  BY <1>1, <1>2, <1>3, PTL DEF Spec

-------------------------------------------------------------------------------
(***************************************************************************)
(* The prices of a candle stay in its envelope, if the prices of deals are *)
(* written with one number of decimals, and the envelopes the database     *)
(* answers are right.                                                      *)
(***************************************************************************)
\* Every candle there is: stored, waiting to be stored, to be sent or received.
CandlesPriced ==
    \A m \in Markets, r \in Resolutions :
        candles[m][r] # NoCandle => PricedCandle(candles[m][r])

LoadedCandlePriced ==
    loaded # NothingLoaded /\ loaded.candle # NoCandle => PricedCandle(loaded.candle)

UpdatesPriced ==
    /\ \A i \in 1..Len(unsent) : PricedCandle(unsent[i])
    /\ \A i \in 1..Len(updatesStream) : PricedCandle(updatesStream[i])

PricedInv == ShapeInv /\ CandlesPriced /\ LoadedCandlePriced /\ UpdatesPriced

LEMMA InitPricedInv == Init => PricedInv
<1> SUFFICES ASSUME Init PROVE PricedInv
  OBVIOUS
<1>1. \A m \in Markets, r \in Resolutions : candles[m][r] = NoCandle
  BY DEF Init
<1>2. unsent = <<>> /\ updatesStream = <<>> /\ loaded = NothingLoaded
  BY DEF Init
<1> QED
  BY <1>1, <1>2, InitShapeInv DEF PricedInv, CandlesPriced, LoadedCandlePriced, UpdatesPriced

LEMMA ChartPriced ==
    ASSUME UniformScale(Prices), ChartsPriced, NEW m \in Markets, NEW r \in Resolutions,
           NEW t \in Instants, NEW w \in Nat, Stored[m][r][t] # NoChart
    PROVE  PricedCandle(ChartToCurrentCandle(Stored[m][r][t], m, r, w))
<1> DEFINE chart == Stored[m][r][t]
           c == ChartToCurrentCandle(chart, m, r, w)
<1>1. chart \in Chart
  OBVIOUS
<1>2. {chart.o, chart.h, chart.l, chart.c} \subseteq Prices
  BY <1>1 DEF Chart
<1>3. ZeroDecimal \notin Prices
  BY DEF UniformScale, ZeroDecimal
<1>4. /\ ValueOrder(chart.l, chart.o) <= 0 /\ ValueOrder(chart.l, chart.c) <= 0
      /\ ValueOrder(chart.o, chart.h) <= 0 /\ ValueOrder(chart.c, chart.h) <= 0
  BY DEF ChartsPriced
<1>5. c.open = chart.o /\ c.high = chart.h /\ c.low = chart.l /\ c.close = chart.c
  BY DEF ChartToCurrentCandle
<1> HIDE DEF chart, c
<1>6. {c.open, c.high, c.low, c.close} \subseteq Prices \cup {ZeroDecimal}
      /\ c.low # ZeroDecimal /\ c.close # ZeroDecimal
  BY <1>2, <1>3, <1>5
<1>7. InEnvelope(c)
  BY <1>4, <1>5 DEF InEnvelope
<1>8. PricedCandle(c)
  BY <1>6, <1>7 DEF PricedCandle
<1> QED
  BY <1>8 DEF c, chart

\* setCandle stores and announces a priced candle, and the one it replaces.
LEMMA SetCandlePriced ==
    ASSUME PricedInv, unsent = <<>>, NEW m \in Markets, NEW r \in Resolutions,
           NEW new \in Candle, PricedCandle(new), NEW isRefresh \in BOOLEAN,
           SetCandle(m, r, new, isRefresh)
    PROVE  CandlesPriced' /\ \A i \in 1..Len(unsent') : PricedCandle(unsent'[i])
<1>1. candles \in CandleMap
  BY TypeParts DEF PricedInv, ShapeInv, TypeInv, RestOK
<1>2. /\ candles' = [candles EXCEPT ![m][r] = new]
      /\ \/ unsent' = <<>>
         \/ unsent' = <<new>>
         \/ unsent' = <<candles[m][r], new>> /\ candles[m][r] # NoCandle
  BY <1>1, SetCandleEffect
<1>3. \A n \in Markets, q \in Resolutions :
          candles'[n][q] = IF n = m /\ q = r THEN new ELSE candles[n][q]
  BY <1>1, <1>2 DEF CandleMap
<1>4. CandlesPriced'
  BY <1>3 DEF PricedInv, CandlesPriced
<1>5. candles[m][r] # NoCandle => PricedCandle(candles[m][r])
  BY DEF PricedInv, CandlesPriced
<1>6. \A i \in 1..Len(unsent') : PricedCandle(unsent'[i])
  BY <1>2, <1>5
<1> QED
  BY <1>4, <1>6

LEMMA GetFreshCandlePriced ==
    ASSUME UniformScale(Prices), PricedInv, NEW m \in Markets, NEW r \in Resolutions
    PROVE  PricedCandle(GetFreshCandle(m, r))
<1>1. now \in Nat /\ TypeInv /\ CandlesWellFormed
  BY TypeParts DEF PricedInv, ShapeInv, TypeInv, RestOK
<1>2. PricedCandle(FreshCandle(m, r, now))
  BY <1>1, FreshCandlePriced
<1>3. GetFreshCandle(m, r) = FreshCandle(m, r, now)
      \/ (GetFreshCandle(m, r) = candles[m][r] /\ candles[m][r] # NoCandle)
  BY DEF GetFreshCandle
<1> QED
  BY <1>2, <1>3 DEF PricedInv, CandlesPriced

\* Taking from a queue of priced candles leaves one.
LEMMA TakePriced ==
    ASSUME NEW s \in Seq(Candle), s # <<>>, \A i \in 1..Len(s) : PricedCandle(s[i])
    PROVE  /\ Head(s) \in Candle /\ PricedCandle(Head(s))
           /\ \A i \in 1..Len(Tail(s)) : PricedCandle(Tail(s)[i])
<1>1. /\ Head(s) \in Candle /\ Tail(s) \in Seq(Candle)
      /\ Len(Tail(s)) = Len(s) - 1
      /\ \A i \in 1..Len(Tail(s)) : Tail(s)[i] = s[i + 1]
  BY HeadTailProperties
<1>2. Len(s) \in Nat /\ Len(s) > 0 /\ Head(s) = s[1]
  OBVIOUS
<1>3. PricedCandle(Head(s))
  BY <1>2
<1>4. ASSUME NEW i \in 1..Len(Tail(s)) PROVE PricedCandle(Tail(s)[i])
  <2>1. i + 1 \in 1..Len(s)
    BY <1>1, <1>2
  <2>2. PricedCandle(s[i + 1])
    BY <2>1
  <2> QED
    BY <1>1, <2>2
<1> QED
  BY <1>1, <1>3, <1>4

LEMMA NextPricedInv ==
    ASSUME UniformScale(Prices), ChartsPriced
    PROVE  PricedInv /\ [Next]_vars => PricedInv'
<1> SUFFICES ASSUME PricedInv, [Next]_vars PROVE PricedInv'
  OBVIOUS
<1>t. ShapeInv /\ ShapeInv' /\ TypeInv /\ CandlesWellFormed
  BY NextShapeInv DEF PricedInv, ShapeInv
<1>c. /\ candles \in CandleMap /\ now \in Nat /\ now \in Instants
      /\ updatesStream \in Seq(Candle) /\ unsent \in Seq(Candle)
  BY <1>t DEF TypeInv, TypeOK, CandleMap
<1>1. ASSUME UNCHANGED <<candles, unsent, updatesStream, loaded>> PROVE PricedInv'
  BY <1>t, <1>1 DEF PricedInv, CandlesPriced, LoadedCandlePriced, UpdatesPriced
<1>2. ASSUME NEW m \in Markets, NEW r \in Resolutions, DealIntoCandle(m, r) PROVE PricedInv'
  <2> DEFINE current == GetFreshCandle(m, r)
  <2>1. unsent = <<>> /\ UNCHANGED <<updatesStream, loaded>> /\ call.op = "AddDeal"
    BY <1>2 DEF DealIntoCandle
  <2>2. CASE UNCHANGED <<candles, unsent>>
    BY <1>1, <2>1, <2>2
  <2>3. CASE SetCandle(m, r, UpdateCandle(current, call.deal), FALSE)
    <3>1. call.deal \in Deal
      BY <1>t, <2>1, DealsAreDeals DEF TypeInv, TypeOK
    <3>2. current \in Candle /\ PricedCandle(current)
      BY <1>t, GetFreshCandleEffect, GetFreshCandlePriced
    <3> HIDE DEF current
    <3>3. /\ UpdateCandle(current, call.deal) \in Candle
          /\ PricedCandle(UpdateCandle(current, call.deal))
      BY <3>1, <3>2, UpdateCandleType, UpdateCandlePriced
    <3>4. CandlesPriced' /\ \A i \in 1..Len(unsent') : PricedCandle(unsent'[i])
      BY <2>1, <2>3, <3>3, SetCandlePriced
    <3> QED
      BY <1>t, <2>1, <3>4 DEF PricedInv, LoadedCandlePriced, UpdatesPriced
  <2> QED
    BY <1>2, <2>2, <2>3 DEF DealIntoCandle
<1>3. ASSUME NEW m \in Markets, NEW r \in Resolutions, RefreshCandle(m, r) PROVE PricedInv'
  <2>1. /\ unsent = <<>> /\ UNCHANGED <<updatesStream, loaded>>
        /\ SetCandle(m, r, Refreshed(m, r), TRUE)
    BY <1>3 DEF RefreshCandle
  <2>2. candles[m][r] \in Candle /\ Refreshed(m, r) \in Candle
    BY <1>3, <1>t, RefreshEffect
  <2>3. /\ GetFreshCandle(m, r) \in Candle
        /\ GetFreshCandle(m, r).volume = 0 \/ GetFreshCandle(m, r) = candles[m][r]
    BY <1>t, GetFreshCandleEffect DEF FreshCandle
  <2>4. PricedCandle(candles[m][r])
    BY <2>2, NoCandleIsNoCandle DEF PricedInv, CandlesPriced
  <2>5. PricedCandle(Refreshed(m, r))
    BY <2>2, <2>3, <2>4, InheritPriced DEF Refreshed
  <2>6. CandlesPriced' /\ \A i \in 1..Len(unsent') : PricedCandle(unsent'[i])
    BY <2>1, <2>2, <2>5, SetCandlePriced
  <2> QED
    BY <1>t, <2>1, <2>6 DEF PricedInv, LoadedCandlePriced, UpdatesPriced
<1>4. ASSUME NEW m \in Markets, NEW r \in Resolutions, LoadCandle(m, r) PROVE PricedInv'
  <2> DEFINE c == ChartToCurrentCandle(Stored[m][r][now], m, r, WindowStart(r, now))
  <2>1. /\ UNCHANGED <<candles, unsent, updatesStream>>
        /\ loaded' = [pair |-> <<m, r>>,
                      candle |-> IF Stored[m][r][now] = NoChart THEN NoCandle ELSE c]
    BY <1>4 DEF LoadCandle
  <2>2. Stored[m][r][now] # NoChart => PricedCandle(c)
    BY <1>c, ChartPriced, WindowContains
  <2> HIDE DEF c
  <2>3. LoadedCandlePriced'
    BY <2>1, <2>2 DEF LoadedCandlePriced
  <2> QED
    BY <1>t, <2>1, <2>3 DEF PricedInv, CandlesPriced, UpdatesPriced
<1>5. ASSUME NEW m \in Markets, NEW r \in Resolutions, AddCandle(m, r) PROVE PricedInv'
  <2> DEFINE c == IF loaded.candle = NoCandle THEN FreshCandle(m, r, now)
                  ELSE loaded.candle
  <2>1. /\ SetCandle(m, r, c, FALSE) /\ loaded # NothingLoaded
        /\ loaded' = NothingLoaded /\ UNCHANGED updatesStream
    BY <1>5 DEF AddCandle
  <2>2. unsent = <<>> /\ loaded \in [pair : Pairs, candle : Candle \cup {NoCandle}]
    BY <1>5, <1>t, <2>1, TypeParts, IdleCall DEF TypeInv, AddCandle, CallOK, RestOK
  <2>3. c \in Candle /\ PricedCandle(c)
    BY <1>c, <2>1, <2>2, FreshCandleType, FreshCandlePriced DEF PricedInv, LoadedCandlePriced
  <2> HIDE DEF c
  <2>4. CandlesPriced' /\ \A i \in 1..Len(unsent') : PricedCandle(unsent'[i])
    BY <2>1, <2>2, <2>3, SetCandlePriced
  <2> QED
    BY <1>t, <2>1, <2>4 DEF PricedInv, LoadedCandlePriced, UpdatesPriced
<1>6. CASE Send
  <2>1. /\ unsent # <<>> /\ unsent' = Tail(unsent)
        /\ updatesStream' = Append(updatesStream, Head(unsent))
        /\ UNCHANGED <<candles, loaded>>
    BY <1>6 DEF Send
  <2>2. Head(unsent) \in Candle /\ PricedCandle(Head(unsent))
    BY <1>c, <2>1, TakePriced DEF PricedInv, UpdatesPriced
  <2>3. \A i \in 1..Len(unsent') : PricedCandle(unsent'[i])
    BY <1>c, <2>1, TakePriced DEF PricedInv, UpdatesPriced
  <2>4. \A i \in 1..Len(updatesStream') : PricedCandle(updatesStream'[i])
    <3> DEFINE c == Head(unsent)
    <3>1. /\ Len(updatesStream') = Len(updatesStream) + 1 /\ Len(updatesStream) \in Nat
          /\ updatesStream'[Len(updatesStream) + 1] = c
          /\ \A i \in 1..Len(updatesStream) : updatesStream'[i] = updatesStream[i]
      BY <1>c, <2>1, <2>2
    <3>2. \A i \in 1..Len(updatesStream) : PricedCandle(updatesStream[i])
      BY DEF PricedInv, UpdatesPriced
    <3> HIDE DEF c
    <3>3. PricedCandle(c)
      BY <2>2 DEF c
    <3>4. ASSUME NEW i \in 1..Len(updatesStream') PROVE PricedCandle(updatesStream'[i])
      <4>1. i \in 1..Len(updatesStream) \/ i = Len(updatesStream) + 1
        BY <3>1
      <4> QED
        BY <3>1, <3>2, <3>3, <4>1
    <3> QED
      BY <3>4
  <2> QED
    BY <1>t, <2>1, <2>3, <2>4 DEF PricedInv, CandlesPriced, LoadedCandlePriced, UpdatesPriced
<1>7. CASE Receive
  <2>1. /\ updatesStream # <<>> /\ updatesStream' = Tail(updatesStream)
        /\ UNCHANGED <<candles, loaded, unsent>>
    BY <1>7 DEF Receive
  <2>2. \A i \in 1..Len(updatesStream') : PricedCandle(updatesStream'[i])
    BY <1>c, <2>1, TakePriced DEF PricedInv, UpdatesPriced
  <2> QED
    BY <1>t, <2>1, <2>2 DEF PricedInv, CandlesPriced, LoadedCandlePriced, UpdatesPriced
<1>8. CASE Tick \/ (\E d \in Deals : AddDeal(d)) \/ RefreshAll \/ Unlock \/ UNCHANGED vars
  BY <1>1, <1>8 DEF Tick, AddDeal, RefreshAll, Unlock, vars
<1> QED
  BY <1>2, <1>3, <1>4, <1>5, <1>6, <1>7, <1>8 DEF Next, Rest

\* Low <= open, close <= high in every live candle and every update on its way,
\* through deals, refreshes and the candles loaded at the start.
THEOREM EnvelopeIsKept ==
    ASSUME UniformScale(Prices), ChartsPriced
    PROVE  Spec => []PricesInEnvelope
<1>1. PricedInv => PricesInEnvelope
  BY DEF PricedInv, CandlesPriced, UpdatesPriced, PricedCandle, PricesInEnvelope
<1>2. PricedInv /\ [Next]_vars => PricedInv'
  BY NextPricedInv
<1> QED
  BY <1>1, <1>2, InitPricedInv, PTL DEF Spec

-------------------------------------------------------------------------------
(***************************************************************************)
(* What a window has counted, the windows around it have counted.  The     *)
(* database must answer like that, and have no deals of after the start;   *)
(* and no deal may be stamped ahead of the clock.  AddDeal counts a deal   *)
(* at different times in different windows, so the invariant adds to a     *)
(* volume what the running call is still going to add to it.               *)
(***************************************************************************)
\* What a candle shows is what the database answered for its window.
Answered(m, r, openTime, volume) ==
    \E t \in Instants :
        /\ t <= now
        /\ WindowStart(r, t) = openTime
        /\ volume = StoredVolume(m, r, t)

\* A candle that was read as absent: the window it was read in was empty.
ReadEmpty(m, r) == \E t \in Instants : t <= now /\ StoredVolume(m, r, t) = 0

StoredShown ==
    \A m \in Markets, r \in Resolutions :
        candles[m][r] # NoCandle =>
            Answered(m, r, candles[m][r].openTime, candles[m][r].volume)

LoadedShown ==
    \A m \in Markets, r \in Resolutions :
        loaded # NothingLoaded /\ loaded.pair = <<m, r>> =>
            IF loaded.candle = NoCandle THEN ReadEmpty(m, r)
            ELSE Answered(m, r, loaded.candle.openTime, loaded.candle.volume)

\* Each pair has still to be loaded, is being loaded, or has its candle.
NoneForgotten ==
    \A m \in Markets, r \in Resolutions :
        \/ <<m, r>> \in toLoad
        \/ loaded # NothingLoaded /\ loaded.pair = <<m, r>>
        \/ candles[m][r] # NoCandle

\* Deals come once everything is loaded, and not from the future.
DealsComeLate == call.op = "AddDeal" => InitDone /\ call.deal.createdAt <= now

Counted(m, r) ==
    IF candles[m][r] # NoCandle /\ candles[m][r].openTime = WindowStart(r, now)
    THEN candles[m][r].volume ELSE 0

Owed(m, r) ==
    IF /\ call.op = "AddDeal" /\ <<m, r>> \in call.todo
       /\ WindowStart(r, now) <= call.deal.createdAt
    THEN call.deal.amount ELSE 0

NestedSoFar ==
    InitDone => \A m \in Markets, r1, r2 \in Resolutions :
        LiesIn(r1, now, r2, now) =>
            Counted(m, r1) + Owed(m, r1) <= Counted(m, r2) + Owed(m, r2)

NestInv ==
    /\ ShapeInv
    /\ LoadedShown /\ NoneForgotten /\ DealsComeLate
    /\ ~InitDone => StoredShown
    /\ NestedSoFar

LEMMA InitNestInv == Init => NestInv
<1> SUFFICES ASSUME Init PROVE NestInv
  OBVIOUS
<1>1. /\ \A m \in Markets, r \in Resolutions : candles[m][r] = NoCandle /\ <<m, r>> \in toLoad
      /\ loaded = NothingLoaded /\ call.op # "AddDeal"
  BY DEF Init, Pairs, NoCall
<1>2. LoadedShown /\ NoneForgotten /\ DealsComeLate /\ StoredShown
  BY <1>1 DEF LoadedShown, NoneForgotten, DealsComeLate, StoredShown
<1>3. \A m \in Markets, r \in Resolutions : ~InitDone
  BY <1>1 DEF InitDone
<1>4. NestedSoFar
  BY <1>3 DEF NestedSoFar
<1> QED
  BY <1>2, <1>4, InitShapeInv DEF NestInv

\* What the steps know of a candle.
LEMMA CandleFacts ==
    ASSUME ShapeInv, NEW m \in Markets, NEW r \in Resolutions
    PROVE  /\ now \in Instants /\ now \in Nat /\ WindowStart(r, now) \in Nat
           /\ candles[m][r] # NoCandle =>
                 /\ candles[m][r] \in Candle
                 /\ candles[m][r].volume \in Nat /\ candles[m][r].openTime \in Nat
                 /\ candles[m][r].openTime <= now
           /\ Counted(m, r) \in Nat /\ Owed(m, r) \in Nat
<1>1. now \in Instants /\ now \in Nat /\ candles \in CandleMap /\ CallOK
  BY TypeParts DEF ShapeInv, TypeInv, RestOK
<1>2. WindowStart(r, now) \in Nat
  BY <1>1, WindowContains
<1>3. ASSUME candles[m][r] # NoCandle
      PROVE  /\ candles[m][r] \in Candle
             /\ candles[m][r].volume \in Nat /\ candles[m][r].openTime \in Nat
             /\ candles[m][r].openTime <= now
  BY <1>1, <1>3 DEF ShapeInv, CandlesWellFormed, WellFormed, CandleMap, Candle
<1>4. Counted(m, r) \in Nat
  BY <1>3 DEF Counted
<1>5. Owed(m, r) \in Nat
  BY <1>1 DEF Owed, CallOK, Deals
<1> QED
  BY <1>1, <1>2, <1>3, <1>4, <1>5

LEMMA StoredVolumeType ==
    ASSUME NEW m \in Markets, NEW r \in Resolutions, NEW t \in Instants
    PROVE  StoredVolume(m, r, t) \in Nat
<1>1. Stored[m][r][t] \in Chart \cup {NoChart}
  OBVIOUS
<1> QED
  BY <1>1 DEF StoredVolume, Chart

\* An instant whose window is another one, and not in the future, is over
\* when the window of now starts.
LEMMA OtherWindowIsOver ==
    ASSUME NEW r \in Resolutions, NEW t \in Nat, NEW u \in Nat, t <= u,
           WindowStart(r, t) # WindowStart(r, u)
    PROVE  t < WindowStart(r, u)
<1>1. /\ WindowStart(r, u) \in Nat /\ Duration[r] \in Nat
      /\ u < WindowStart(r, u) + Duration[r]
  BY WindowContains
<1>2. ASSUME WindowStart(r, u) <= t PROVE FALSE
  BY <1>1, <1>2, WindowUnique
<1> QED
  BY <1>1, <1>2

\* Candles as the database answered them have nested volumes.
LEMMA AnswersNest ==
    ASSUME ShapeInv, DatabaseNests, DatabaseWaits, StoredShown, NEW m \in Markets,
           NEW r1 \in Resolutions, NEW r2 \in Resolutions,
           LiesIn(r1, now, r2, now), candles[m][r2] # NoCandle
    PROVE  Counted(m, r1) <= Counted(m, r2)
<1>1. /\ now \in Nat /\ Counted(m, r2) \in Nat
      /\ WindowStart(r1, now) \in Nat /\ WindowStart(r2, now) \in Nat
  BY CandleFacts
<1>2. CASE candles[m][r1] = NoCandle \/ candles[m][r1].openTime # WindowStart(r1, now)
  BY <1>1, <1>2 DEF Counted
<1>3. CASE candles[m][r1] # NoCandle /\ candles[m][r1].openTime = WindowStart(r1, now)
  <2>1. PICK t1 \in Instants :
            /\ WindowStart(r1, t1) = WindowStart(r1, now)
            /\ Counted(m, r1) = StoredVolume(m, r1, t1)
    BY <1>3 DEF StoredShown, Answered, Counted
  <2>2. PICK t2 \in Instants :
            /\ t2 <= now
            /\ WindowStart(r2, t2) = candles[m][r2].openTime
            /\ candles[m][r2].volume = StoredVolume(m, r2, t2)
    BY DEF StoredShown, Answered
  <2>3. CASE WindowStart(r2, t2) = WindowStart(r2, now)
    <3>1. Counted(m, r2) = StoredVolume(m, r2, t2)
      BY <2>2, <2>3 DEF Counted
    <3>2. LiesIn(r1, t1, r2, t2)
      BY <2>1, <2>3 DEF LiesIn
    <3> QED
      BY <2>1, <3>1, <3>2 DEF DatabaseNests
  <2>4. CASE WindowStart(r2, t2) # WindowStart(r2, now)
    <3>1. t2 \in Nat /\ t2 < WindowStart(r2, now)
      BY <1>1, <2>2, <2>4, OtherWindowIsOver
    <3>2. t2 < WindowStart(r1, t1)
      BY <1>1, <2>1, <3>1 DEF LiesIn
    <3>3. StoredVolume(m, r1, t1) = 0
      BY <3>2 DEF DatabaseWaits, StoredVolume
    <3> QED
      BY <1>1, <2>1, <3>3
  <2> QED
    BY <2>3, <2>4
<1> QED
  BY <1>2, <1>3

LEMMA TickNests ==
    ASSUME NestInv, Tick
    PROVE  /\ LoadedShown' /\ NoneForgotten' /\ DealsComeLate'
           /\ ~InitDone' => StoredShown'
           /\ NestedSoFar'
<1>1. /\ now' > now /\ now' \in Nat
      /\ UNCHANGED <<candles, call, toLoad, loaded>>
  BY DEF Tick
<1>2. now \in Nat /\ CallOK
  BY TypeParts DEF NestInv, ShapeInv, TypeInv, RestOK
<1>3. ASSUME NEW m \in Markets, NEW r \in Resolutions
      PROVE  /\ ReadEmpty(m, r) => ReadEmpty(m, r)'
             /\ \A w, v : Answered(m, r, w, v) => Answered(m, r, w, v)'
  <2>1. \A t \in Instants : t <= now => t <= now'
    BY <1>1, <1>2
  <2> QED
    BY <2>1 DEF ReadEmpty, Answered
<1>4. LoadedShown'
  BY <1>1, <1>3 DEF NestInv, LoadedShown
<1>5. ~InitDone' => StoredShown'
  BY <1>1, <1>3 DEF NestInv, StoredShown, InitDone
<1>6. NoneForgotten'
  BY <1>1 DEF NestInv, NoneForgotten
<1>7. DealsComeLate'
  <2>1. call.op = "AddDeal" => call.deal.createdAt \in Nat
    BY <1>2 DEF CallOK, Deals
  <2> QED
    BY <1>1, <1>2, <2>1 DEF NestInv, DealsComeLate, InitDone
<1>8. NestedSoFar'
  <2> SUFFICES ASSUME InitDone, NEW m \in Markets, NEW r1 \in Resolutions,
                      NEW r2 \in Resolutions, LiesIn(r1, now', r2, now')
               PROVE  Counted(m, r1)' + Owed(m, r1)' <= Counted(m, r2)' + Owed(m, r2)'
    BY <1>1 DEF NestedSoFar, InitDone
  <2> DEFINE Later(r) ==
               /\ Counted(m, r)' = IF /\ candles[m][r] # NoCandle
                                     /\ candles[m][r].openTime = WindowStart(r, now')
                                  THEN candles[m][r].volume ELSE 0
               /\ Owed(m, r)' = IF /\ call.op = "AddDeal" /\ <<m, r>> \in call.todo
                                  /\ WindowStart(r, now') <= call.deal.createdAt
                               THEN call.deal.amount ELSE 0
  <2>1. Later(r1) /\ Later(r2)
    BY <1>1 DEF Counted, Owed
  <2>2. /\ WindowStart(r1, now) \in Nat /\ WindowStart(r2, now) \in Nat
        /\ WindowStart(r1, now') \in Nat /\ WindowStart(r2, now') \in Nat
        /\ WindowStart(r2, now') <= WindowStart(r1, now')
    BY <1>1, <1>2, WindowContains DEF LiesIn
  <2>3. call.op = "AddDeal" => /\ call.deal.createdAt \in Nat /\ call.deal.amount \in Nat
                              /\ call.deal.createdAt <= now
    BY <1>2 DEF CallOK, Deals, NestInv, DealsComeLate
  <2>4. /\ candles[m][r1] # NoCandle =>
              /\ candles[m][r1].openTime \in Nat /\ candles[m][r1].openTime <= now
        /\ candles[m][r2] # NoCandle => candles[m][r2].volume \in Nat
    BY CandleFacts DEF NestInv
  <2>5. CASE WindowStart(r1, now) # WindowStart(r1, now')
    <3>1. now < WindowStart(r1, now')
      BY <1>1, <1>2, <2>5, OtherWindowIsOver
    <3>2. Counted(m, r1)' = 0 /\ Owed(m, r1)' = 0
      BY <1>2, <2>1, <2>2, <2>3, <2>4, <3>1
    <3>3. Counted(m, r2)' \in Nat /\ Owed(m, r2)' \in Nat
      BY <2>1, <2>3, <2>4
    <3> QED
      BY <3>2, <3>3
  <2>6. CASE WindowStart(r1, now) = WindowStart(r1, now')
    <3>1. WindowStart(r1, now) <= now
      BY <1>2, WindowContains
    <3>2. ~(now < WindowStart(r2, now'))
      BY <1>2, <2>2, <2>6, <3>1
    <3>3. WindowStart(r2, now) = WindowStart(r2, now')
      BY <1>1, <1>2, <3>2, OtherWindowIsOver
    <3>4. LiesIn(r1, now, r2, now)
      BY <2>6, <3>3 DEF LiesIn
    <3>5. Counted(m, r1) + Owed(m, r1) <= Counted(m, r2) + Owed(m, r2)
      BY <3>4 DEF NestInv, NestedSoFar
    <3>6. /\ Counted(m, r1)' = Counted(m, r1) /\ Owed(m, r1)' = Owed(m, r1)
          /\ Counted(m, r2)' = Counted(m, r2) /\ Owed(m, r2)' = Owed(m, r2)
      BY <2>1, <2>6, <3>3 DEF Counted, Owed
    <3> QED
      BY <3>5, <3>6
  <2> QED
    BY <2>5, <2>6
<1> QED
  BY <1>4, <1>5, <1>6, <1>7, <1>8

LEMMA AddDealNests ==
    ASSUME NestInv, MaxSkew = 0, NEW d \in Deals, AddDeal(d)
    PROVE  /\ LoadedShown' /\ NoneForgotten' /\ DealsComeLate'
           /\ ~InitDone' => StoredShown'
           /\ NestedSoFar'
<1>1. /\ InitDone /\ InitDone' /\ d.createdAt <= now
      /\ UNCHANGED <<now, candles, toLoad, loaded>>
      /\ call.op = "none"
      /\ call'.op = "AddDeal" /\ call'.deal = d
      /\ call'.todo = {p \in Pairs : p[1] = d.market /\ candles[p[1]][p[2]] # NoCandle}
  BY DEF AddDeal, InitDone, LockFree, NoCall, NestInv, ShapeInv, TypeInv, TypeOK
<1>2. now \in Nat /\ d.createdAt \in Nat /\ d.amount \in Nat
  BY TypeParts DEF NestInv, ShapeInv, TypeInv, RestOK, Deals
<1>3. LoadedShown' /\ NoneForgotten' /\ DealsComeLate'
  BY <1>1 DEF NestInv, LoadedShown, NoneForgotten, DealsComeLate, InitDone
<1>4. NestedSoFar'
  <2> SUFFICES ASSUME NEW m \in Markets, NEW r1 \in Resolutions,
                      NEW r2 \in Resolutions, LiesIn(r1, now, r2, now)
               PROVE  Counted(m, r1)' + Owed(m, r1)' <= Counted(m, r2)' + Owed(m, r2)'
    BY <1>1 DEF NestedSoFar, LiesIn
  <2>1. Counted(m, r1) + Owed(m, r1) <= Counted(m, r2) + Owed(m, r2)
    BY <1>1 DEF NestInv, NestedSoFar
  <2>2. Owed(m, r1) = 0 /\ Owed(m, r2) = 0
    BY <1>1 DEF Owed
  <2>3. Counted(m, r1)' = Counted(m, r1) /\ Counted(m, r2)' = Counted(m, r2)
    BY <1>1 DEF Counted
  <2>4. \A r \in Resolutions : <<m, r>> \in call'.todo <=> m = d.market
    <3>1. \A r \in Resolutions : candles[m][r] # NoCandle
      BY <1>1 DEF NestInv, NoneForgotten, InitDone
    <3>2. \A r \in Resolutions : <<m, r>> \in Pairs /\ <<m, r>>[1] = m /\ <<m, r>>[2] = r
      BY DEF Pairs
    <3> QED
      BY <1>1, <3>1, <3>2
  <2>5. \A r \in Resolutions :
            Owed(m, r)' = IF m = d.market /\ WindowStart(r, now) <= d.createdAt
                          THEN d.amount ELSE 0
    BY <1>1, <2>4 DEF Owed
  <2>6. /\ WindowStart(r1, now) \in Nat /\ WindowStart(r2, now) \in Nat
        /\ WindowStart(r2, now) <= WindowStart(r1, now)
    BY <1>2, WindowContains DEF LiesIn
  <2>7. Owed(m, r1)' \in Nat /\ Owed(m, r2)' \in Nat /\ Owed(m, r1)' <= Owed(m, r2)'
    BY <1>2, <2>5, <2>6
  <2>8. Counted(m, r1) \in Nat /\ Counted(m, r2) \in Nat
    BY CandleFacts DEF NestInv
  <2> QED
    BY <2>1, <2>2, <2>3, <2>7, <2>8
<1> QED
  BY <1>1, <1>3, <1>4

\* A visit that only moves what is owed into what is counted.
LEMMA VisitNests ==
    ASSUME NestInv, NEW m \in Markets, NEW r \in Resolutions, NEW new \in Candle,
           UNCHANGED <<now, toLoad, loaded>>,
           candles[m][r] # NoCandle,
           candles' = [candles EXCEPT ![m][r] = new],
           call.op \in {"AddDeal", "refreshAll"}, Visit(m, r),
           Counted(m, r)' + Owed(m, r)' = Counted(m, r) + Owed(m, r),
           ~InitDone => Answered(m, r, new.openTime, new.volume)
    PROVE  /\ LoadedShown' /\ NoneForgotten' /\ DealsComeLate'
           /\ ~InitDone' => StoredShown'
           /\ NestedSoFar'
<1>1. candles \in CandleMap /\ CallOK /\ now \in Nat
  BY TypeParts DEF NestInv, ShapeInv, TypeInv, RestOK
<1>2. /\ call'.op = call.op /\ call'.deal = call.deal
      /\ call'.todo = call.todo \ {<<m, r>>}
  BY <1>1 DEF Visit, CallOK, CallType
<1>3. \A n \in Markets, q \in Resolutions :
          candles'[n][q] = IF n = m /\ q = r THEN new ELSE candles[n][q]
  BY <1>1 DEF CandleMap
<1>4. LoadedShown'
  <2>1. ASSUME NEW n \in Markets, NEW q \in Resolutions
        PROVE  /\ ReadEmpty(n, q) => ReadEmpty(n, q)'
               /\ \A w, v : Answered(n, q, w, v) => Answered(n, q, w, v)'
    BY DEF ReadEmpty, Answered
  <2> QED
    BY <2>1 DEF NestInv, LoadedShown
<1>5. NoneForgotten'
  <2>1. \A n \in Markets, q \in Resolutions :
            candles[n][q] # NoCandle => candles'[n][q] # NoCandle
    BY <1>3, NoCandleIsNoCandle
  <2> QED
    BY <2>1 DEF NestInv, NoneForgotten
<1>6. DealsComeLate'
  BY <1>2 DEF NestInv, DealsComeLate, InitDone
<1>7. InitDone' <=> InitDone
  BY DEF InitDone
<1>8. ASSUME ~InitDone, NEW n \in Markets, NEW q \in Resolutions, candles'[n][q] # NoCandle
      PROVE  Answered(n, q, candles'[n][q].openTime, candles'[n][q].volume)
  BY <1>3, <1>8 DEF NestInv, StoredShown
<1>9. ~InitDone' => StoredShown'
  BY <1>7, <1>8 DEF StoredShown, Answered
<1>10. ASSUME NEW n \in Markets, NEW q \in Resolutions
       PROVE  Counted(n, q)' + Owed(n, q)' = Counted(n, q) + Owed(n, q)
  <2>1. CASE n = m /\ q = r
    BY <2>1
  <2>2. CASE ~(n = m /\ q = r)
    <3>1. candles'[n][q] = candles[n][q]
      BY <1>3, <2>2
    <3>2. <<n, q>> \in call'.todo <=> <<n, q>> \in call.todo
      BY <1>2, <2>2
    <3>3. Counted(n, q)' = Counted(n, q)
      BY <3>1 DEF Counted
    <3>4. Owed(n, q)' = Owed(n, q)
      BY <1>2, <3>2 DEF Owed
    <3> QED
      BY <3>3, <3>4
  <2> QED
    BY <2>1, <2>2
<1>11. NestedSoFar'
  BY <1>7, <1>10 DEF NestInv, NestedSoFar, LiesIn
<1> QED
  BY <1>4, <1>5, <1>6, <1>9, <1>11

\* The volume of the candle getFreshCandle returns is what its window counted.
LEMMA FreshCounts ==
    ASSUME ShapeInv, InstantsInside, NEW m \in Markets, NEW r \in Resolutions,
           candles[m][r] \in Candle
    PROVE  GetFreshCandle(m, r).volume = Counted(m, r)
<1> DEFINE c == GetFreshCandle(m, r)
<1>1. /\ c.openTime = WindowStart(r, now)
      /\ c # candles[m][r] => candles[m][r].openTime < WindowStart(r, now) /\ c.volume = 0
  BY GetFreshCandleInside DEF ShapeInv
<1>2. WindowStart(r, now) \in Nat /\ candles[m][r].openTime \in Nat /\ candles[m][r] # NoCandle
  BY CandleFacts, NoCandleIsNoCandle
<1> HIDE DEF c
<1>3. ASSUME c = candles[m][r] PROVE c.volume = Counted(m, r)
  BY <1>1, <1>2, <1>3 DEF Counted
<1>4. ASSUME c # candles[m][r] PROVE c.volume = Counted(m, r)
  BY <1>1, <1>2, <1>4 DEF Counted
<1> QED
  BY <1>3, <1>4 DEF c

LEMMA DealNests ==
    ASSUME NestInv, InstantsInside, NEW m \in Markets, NEW r \in Resolutions,
           DealIntoCandle(m, r)
    PROVE  /\ LoadedShown' /\ NoneForgotten' /\ DealsComeLate'
           /\ ~InitDone' => StoredShown'
           /\ NestedSoFar'
<1> DEFINE current == GetFreshCandle(m, r)
           new == UpdateCandle(current, call.deal)
           kept == IF ContainsTs(current, call.deal.createdAt) THEN new ELSE candles[m][r]
<1>1. /\ candles \in CandleMap /\ candles[m][r] \in Candle
      /\ call.deal \in Deals /\ new \in Candle
      /\ new.openTime = current.openTime
      /\ new.volume = current.volume + call.deal.amount
      /\ candles' = IF ContainsTs(current, call.deal.createdAt)
                    THEN [candles EXCEPT ![m][r] = new] ELSE candles
  BY DealEffect DEF NestInv, ShapeInv
<1>2. /\ current.openTime = WindowStart(r, now) /\ current.volume = Counted(m, r)
      /\ WellFormed(current, m, r, now)
  BY <1>1, FreshCounts, GetFreshCandleInside, GetFreshCandleEffect DEF NestInv, ShapeInv
<1>3. /\ UNCHANGED <<now, toLoad, loaded>> /\ call.op = "AddDeal" /\ Visit(m, r)
      /\ <<m, r>> \in call.todo
  BY DEF DealIntoCandle, NextPair
<1>4. /\ now \in Nat /\ WindowStart(r, now) \in Nat /\ Counted(m, r) \in Nat
      /\ call.deal.createdAt \in Nat /\ call.deal.amount \in Nat
      /\ call.deal.createdAt <= now /\ InitDone
  BY <1>1, <1>3, CandleFacts DEF NestInv, DealsComeLate, Deals
<1>5. ContainsTs(current, call.deal.createdAt) <=> WindowStart(r, now) <= call.deal.createdAt
  <2>1. now < current.closeTime
    <3>1. now + 1 # WindowEnd(r, now)
      BY CandleFacts DEF NestInv, InstantsInside, InsideWindows
    <3>2. Duration[r] \in Nat /\ now < WindowStart(r, now) + Duration[r]
      BY <1>4, WindowContains
    <3>3. current.closeTime = WindowStart(r, now) + Duration[r] - 1
      BY <1>2 DEF WellFormed, CloseTime
    <3> HIDE DEF current
    <3> QED
      BY <1>4, <3>1, <3>2, <3>3 DEF WindowEnd
  <2>2. current.closeTime \in Int
    BY <1>2, <1>4, WindowContains DEF WellFormed, CloseTime
  <2> HIDE DEF current
  <2> QED
    BY <1>2, <1>4, <2>1, <2>2 DEF ContainsTs
<1>6. call'.todo = call.todo \ {<<m, r>>}
  BY <1>3, VisitEffect, TypeParts DEF NestInv, ShapeInv, TypeInv
<1>7. Owed(m, r)' = 0
  BY <1>6 DEF Owed
<1>8. Owed(m, r) = IF WindowStart(r, now) <= call.deal.createdAt THEN call.deal.amount ELSE 0
  BY <1>3 DEF Owed
<1>9. candles[m][r] # NoCandle /\ new # NoCandle
  BY <1>1, NoCandleIsNoCandle
<1> HIDE DEF current, new
<1>10. candles' = [candles EXCEPT ![m][r] = kept] /\ kept \in Candle
  BY <1>1 DEF CandleMap
<1>11. Counted(m, r)' + Owed(m, r)' = Counted(m, r) + Owed(m, r)
  <2>1. CASE ContainsTs(current, call.deal.createdAt)
    <3>1. candles'[m][r] = new
      BY <1>1, <2>1 DEF CandleMap
    <3>2. Counted(m, r)' = new.volume
      BY <1>1, <1>2, <1>3, <1>9, <3>1 DEF Counted
    <3> QED
      BY <1>1, <1>2, <1>4, <1>5, <1>7, <1>8, <2>1, <3>2
  <2>2. CASE ~ContainsTs(current, call.deal.createdAt)
    <3>1. Counted(m, r)' = Counted(m, r)
      BY <1>1, <1>3, <2>2 DEF Counted
    <3> QED
      BY <1>4, <1>5, <1>7, <1>8, <2>2, <3>1
  <2> QED
    BY <2>1, <2>2
<1> HIDE DEF kept
<1> QED
  BY <1>3, <1>4, <1>9, <1>10, <1>11, VisitNests

\* In a window that began after the database was asked there is nothing yet.
LEMMA NewWindowIsEmpty ==
    ASSUME DatabaseWaits, now \in Instants, NEW m \in Markets, NEW r \in Resolutions,
           NEW t \in Instants, t <= now, WindowStart(r, t) # WindowStart(r, now)
    PROVE  Answered(m, r, WindowStart(r, now), 0)
<1>1. now \in Nat /\ t \in Nat
  OBVIOUS
<1>2. t < WindowStart(r, now)
  BY <1>1, OtherWindowIsOver
<1>3. StoredVolume(m, r, now) = 0
  BY <1>2 DEF DatabaseWaits, StoredVolume
<1> QED
  BY <1>1, <1>3 DEF Answered

LEMMA RefreshNests ==
    ASSUME NestInv, InstantsInside, DatabaseWaits,
           NEW m \in Markets, NEW r \in Resolutions, RefreshCandle(m, r)
    PROVE  /\ LoadedShown' /\ NoneForgotten' /\ DealsComeLate'
           /\ ~InitDone' => StoredShown'
           /\ NestedSoFar'
<1> DEFINE old == candles[m][r]
           current == GetFreshCandle(m, r)
           new == Refreshed(m, r)
<1>1. /\ candles \in CandleMap /\ old \in Candle /\ new \in Candle
      /\ new.openTime = current.openTime /\ new.volume = current.volume
      /\ candles' = [candles EXCEPT ![m][r] = new]
  BY RefreshEffect DEF NestInv, ShapeInv
<1>2. /\ current.openTime = WindowStart(r, now) /\ current.volume = Counted(m, r)
      /\ current # old => old.openTime < WindowStart(r, now) /\ current.volume = 0
  BY <1>1, FreshCounts, GetFreshCandleInside DEF NestInv, ShapeInv
<1>3. UNCHANGED <<now, toLoad, loaded>> /\ call.op = "refreshAll" /\ Visit(m, r)
  BY DEF RefreshCandle
<1>4. call'.op = "refreshAll"
  BY <1>3, VisitEffect, TypeParts DEF NestInv, ShapeInv, TypeInv
<1>5. /\ now \in Instants /\ now \in Nat /\ WindowStart(r, now) \in Nat
      /\ old.openTime \in Nat /\ old # NoCandle /\ new # NoCandle
  BY <1>1, CandleFacts, NoCandleIsNoCandle DEF NestInv
<1> HIDE DEF current, new
<1>6. candles'[m][r] = new
  BY <1>1 DEF CandleMap
<1>7. Counted(m, r)' = Counted(m, r)
  BY <1>1, <1>2, <1>3, <1>5, <1>6 DEF Counted
<1>8. Owed(m, r)' = 0 /\ Owed(m, r) = 0
  BY <1>3, <1>4 DEF Owed
<1>9. ASSUME ~InitDone PROVE Answered(m, r, new.openTime, new.volume)
  <2>1. Answered(m, r, old.openTime, old.volume)
    BY <1>5, <1>9 DEF NestInv, StoredShown
  <2>2. CASE current = old
    BY <1>1, <2>1, <2>2
  <2>3. CASE current # old
    <3>1. PICK t \in Instants : t <= now /\ WindowStart(r, t) = old.openTime
      BY <2>1 DEF Answered
    <3>2. Answered(m, r, WindowStart(r, now), 0)
      BY <1>2, <1>5, <2>3, <3>1, NewWindowIsEmpty
    <3> QED
      BY <1>1, <1>2, <2>3, <3>2
  <2> QED
    BY <2>2, <2>3
<1>10. Counted(m, r)' + Owed(m, r)' = Counted(m, r) + Owed(m, r)
  BY <1>7, <1>8
<1> QED
  BY <1>1, <1>3, <1>5, <1>9, <1>10, VisitNests

LEMMA LoadNests ==
    ASSUME NestInv, NEW m \in Markets, NEW r \in Resolutions, LoadCandle(m, r)
    PROVE  /\ LoadedShown' /\ NoneForgotten' /\ DealsComeLate'
           /\ ~InitDone' => StoredShown'
           /\ NestedSoFar'
<1> DEFINE chart == Stored[m][r][now]
           read == IF chart = NoChart THEN NoCandle
                   ELSE ChartToCurrentCandle(chart, m, r, WindowStart(r, now))
<1>1. /\ <<m, r>> \in toLoad /\ loaded = NothingLoaded
      /\ toLoad' = toLoad \ {<<m, r>>}
      /\ loaded' = [pair |-> <<m, r>>, candle |-> read]
      /\ UNCHANGED <<now, candles, call>>
  BY DEF LoadCandle
<1>2. now \in Instants /\ now \in Nat
  BY TypeParts DEF NestInv, ShapeInv, TypeInv, RestOK
<1>3. chart \in Chart \cup {NoChart} /\ WindowStart(r, now) \in Nat
  BY <1>2, WindowContains
<1>4. IF read = NoCandle THEN StoredVolume(m, r, now) = 0
      ELSE read.openTime = WindowStart(r, now) /\ read.volume = StoredVolume(m, r, now)
  <2>1. CASE chart = NoChart
    BY <2>1 DEF StoredVolume
  <2>2. CASE chart \in Chart /\ chart # NoChart
    <3>1. read = ChartToCurrentCandle(chart, m, r, WindowStart(r, now)) /\ read # NoCandle
      BY <1>3, <2>2, ChartToCurrentCandleType, NoCandleIsNoCandle
    <3> QED
      BY <2>2, <3>1 DEF StoredVolume, ChartToCurrentCandle
  <2> QED
    BY <1>3, <2>1, <2>2
<1> HIDE DEF read, chart
<1>5. loaded'.pair = <<m, r>> /\ loaded'.candle = read
  BY <1>1
<1>6. IF loaded'.candle = NoCandle THEN ReadEmpty(m, r)'
      ELSE Answered(m, r, loaded.candle.openTime, loaded.candle.volume)'
  <2>1. now' = now /\ now <= now
    BY <1>1, <1>2
  <2>2. CASE read = NoCandle
    BY <1>2, <1>4, <1>5, <2>1, <2>2 DEF ReadEmpty
  <2>3. CASE read # NoCandle
    BY <1>2, <1>4, <1>5, <2>1, <2>3 DEF Answered
  <2> QED
    BY <1>5, <2>2, <2>3
<1>7. LoadedShown'
  <2>1. \A n \in Markets, q \in Resolutions : loaded'.pair = <<n, q>> => n = m /\ q = r
    BY <1>5
  <2> QED
    BY <1>6, <2>1 DEF LoadedShown
<1>8. loaded' # NothingLoaded
  <2>1. <<m, r>> # <<>>
    OBVIOUS
  <2>2. NothingLoaded.pair = <<>>
    BY DEF NothingLoaded
  <2> QED
    BY <1>5, <2>1, <2>2
<1>9. NoneForgotten'
  BY <1>1, <1>5, <1>8 DEF NestInv, NoneForgotten
<1>10. ~InitDone /\ ~InitDone'
  BY <1>1, <1>8 DEF InitDone
<1>11. DealsComeLate'
  BY <1>1, <1>10 DEF NestInv, DealsComeLate
<1>12. StoredShown'
  BY <1>1, <1>10 DEF NestInv, StoredShown, Answered
<1> QED
  BY <1>7, <1>9, <1>10, <1>11, <1>12 DEF NestedSoFar

LEMMA LoadedNest ==
    /\ DatabaseNests /\ DatabaseWaits
    /\ ShapeInv /\ StoredShown /\ NoneForgotten /\ call.op # "AddDeal"
    => NestedSoFar
<1> SUFFICES ASSUME DatabaseNests, DatabaseWaits, ShapeInv, StoredShown, NoneForgotten,
                    call.op # "AddDeal", InitDone,
                    NEW m \in Markets, NEW r1 \in Resolutions, NEW r2 \in Resolutions,
                    LiesIn(r1, now, r2, now)
             PROVE  Counted(m, r1) + Owed(m, r1) <= Counted(m, r2) + Owed(m, r2)
  BY DEF NestedSoFar
<1>1. candles[m][r2] # NoCandle
  BY DEF NoneForgotten, InitDone
<1>2. Counted(m, r1) <= Counted(m, r2)
  BY <1>1, AnswersNest
<1>3. Owed(m, r1) = 0 /\ Owed(m, r2) = 0
  BY DEF Owed
<1>4. Counted(m, r1) \in Nat /\ Counted(m, r2) \in Nat
  BY CandleFacts
<1> QED
  BY <1>2, <1>3, <1>4

LEMMA AddCandleNests ==
    ASSUME NestInv, DatabaseNests, DatabaseWaits, ShapeInv',
           NEW m \in Markets, NEW r \in Resolutions, AddCandle(m, r)
    PROVE  /\ LoadedShown' /\ NoneForgotten' /\ DealsComeLate'
           /\ ~InitDone' => StoredShown'
           /\ NestedSoFar'
<1> DEFINE c == IF loaded.candle = NoCandle THEN FreshCandle(m, r, now) ELSE loaded.candle
<1>1. /\ SetCandle(m, r, c, FALSE) /\ loaded # NothingLoaded
      /\ loaded.pair = <<m, r>> /\ loaded' = NothingLoaded
      /\ UNCHANGED <<now, toLoad>> /\ call'.op = "AddCandle"
  BY DEF AddCandle, NoCall
<1>2. /\ now \in Instants /\ now \in Nat /\ candles \in CandleMap /\ unsent = <<>>
      /\ loaded \in [pair : Pairs, candle : Candle \cup {NoCandle}]
  BY <1>1, TypeParts, IdleCall DEF NestInv, ShapeInv, TypeInv, AddCandle, CallOK, RestOK
<1>3. c \in Candle
  BY <1>2, FreshCandleType
<1>4. Answered(m, r, c.openTime, c.volume)
  <2>1. CASE loaded.candle = NoCandle
    <3>1. c.openTime = WindowStart(r, now) /\ c.volume = 0
      BY <2>1 DEF FreshCandle
    <3>2. PICK t \in Instants : t <= now /\ StoredVolume(m, r, t) = 0
      BY <1>1, <2>1 DEF NestInv, LoadedShown, ReadEmpty
    <3>3. CASE WindowStart(r, t) = WindowStart(r, now)
      BY <3>1, <3>2, <3>3 DEF Answered
    <3>4. CASE WindowStart(r, t) # WindowStart(r, now)
      BY <1>2, <3>1, <3>2, <3>4, NewWindowIsEmpty
    <3> QED
      BY <3>3, <3>4
  <2>2. CASE loaded.candle # NoCandle
    BY <1>1, <2>2 DEF NestInv, LoadedShown
  <2> QED
    BY <2>1, <2>2
<1> HIDE DEF c
<1>5. candles' = [candles EXCEPT ![m][r] = c]
  <2>1. candles \in CandleMap /\ unsent = <<>> /\ c \in Candle /\ SetCandle(m, r, c, FALSE)
    BY <1>1, <1>2, <1>3
  <2> QED
    BY ONLY <2>1, SetCandleEffect, m \in Markets, r \in Resolutions, FALSE \in BOOLEAN
<1>6. \A n \in Markets, q \in Resolutions :
          candles'[n][q] = IF n = m /\ q = r THEN c ELSE candles[n][q]
  BY <1>2, <1>5 DEF CandleMap
<1>7. ~InitDone
  BY <1>1 DEF InitDone
<1>8. StoredShown'
  <2>1. ASSUME NEW n \in Markets, NEW q \in Resolutions, candles'[n][q] # NoCandle
        PROVE  Answered(n, q, candles'[n][q].openTime, candles'[n][q].volume)
    BY <1>4, <1>6, <1>7, <2>1 DEF NestInv, StoredShown
  <2> QED
    BY <1>1, <2>1 DEF StoredShown, Answered
<1>9. NoneForgotten'
  <2> SUFFICES ASSUME NEW n \in Markets, NEW q \in Resolutions, <<n, q>> \notin toLoad
               PROVE  candles'[n][q] # NoCandle
    BY <1>1 DEF NoneForgotten
  <2>1. CASE n = m /\ q = r
    BY <1>3, <1>6, <2>1, NoCandleIsNoCandle
  <2>2. CASE ~(n = m /\ q = r)
    <3>1. candles[n][q] # NoCandle
      BY <1>1, <2>2 DEF NestInv, NoneForgotten
    <3> QED
      BY <1>6, <2>2, <3>1
  <2> QED
    BY <2>1, <2>2
<1>10. LoadedShown' /\ DealsComeLate'
  BY <1>1 DEF LoadedShown, DealsComeLate
<1>11. NestedSoFar'
  <2>1. (DatabaseNests /\ DatabaseWaits)' /\ (call.op # "AddDeal")'
    BY <1>1 DEF DatabaseNests, DatabaseWaits, LiesIn, StoredVolume
  <2> QED
    BY <1>8, <1>9, <2>1, LoadedNest, PTL
<1> QED
  BY <1>8, <1>9, <1>10, <1>11

LEMMA NextNestInv ==
    ASSUME InstantsInside, MaxSkew = 0, DatabaseNests, DatabaseWaits
    PROVE  NestInv /\ [Next]_vars => NestInv'
<1> SUFFICES ASSUME NestInv, [Next]_vars PROVE NestInv'
  OBVIOUS
<1> DEFINE Goal == /\ LoadedShown' /\ NoneForgotten' /\ DealsComeLate'
                   /\ ~InitDone' => StoredShown'
                   /\ NestedSoFar'
<1>s. ShapeInv'
  BY NextShapeInv DEF NestInv
<1> SUFFICES Goal
  BY <1>s DEF NestInv
<1>1. CASE Tick
  BY <1>1, TickNests
<1>2. ASSUME NEW d \in Deals, AddDeal(d) PROVE Goal
  BY <1>2, AddDealNests
<1>3. ASSUME NEW m \in Markets, NEW r \in Resolutions,
             DealIntoCandle(m, r) \/ RefreshCandle(m, r)
      PROVE  Goal
  BY <1>3, DealNests, RefreshNests
<1>4. ASSUME NEW m \in Markets, NEW r \in Resolutions,
             LoadCandle(m, r) \/ AddCandle(m, r)
      PROVE  Goal
  BY <1>4, <1>s, LoadNests, AddCandleNests
<1>5. CASE RefreshAll \/ Send \/ Receive \/ Unlock \/ UNCHANGED vars
  <2>1. UNCHANGED <<now, candles, toLoad, loaded>>
    BY <1>5 DEF RefreshAll, Send, Receive, Unlock, vars
  <2>2. \/ call' = call
        \/ (call.todo = {} \/ call.op = "none") /\ call'.op # "AddDeal"
    <3>2. CASE RefreshAll
      BY <3>2 DEF RefreshAll, LockFree, NoCall
    <3>3. CASE Unlock
      BY <3>3 DEF Unlock, NoCall
    <3>4. CASE Send \/ Receive \/ UNCHANGED vars
      BY <3>4 DEF Send, Receive, vars
    <3> QED
      BY <1>5, <3>2, <3>3, <3>4
  <2>3. \A m \in Markets, r \in Resolutions :
            Counted(m, r)' = Counted(m, r) /\ Owed(m, r)' = Owed(m, r)
    BY <2>1, <2>2 DEF Counted, Owed
  <2>4. ASSUME NEW m \in Markets, NEW r \in Resolutions
        PROVE  /\ ReadEmpty(m, r) => ReadEmpty(m, r)'
               /\ \A w, v : Answered(m, r, w, v) => Answered(m, r, w, v)'
    BY <2>1 DEF ReadEmpty, Answered
  <2>5. LoadedShown' /\ (~InitDone' => StoredShown')
    BY <2>1, <2>4 DEF NestInv, LoadedShown, StoredShown, InitDone
  <2>6. NoneForgotten' /\ DealsComeLate'
    BY <2>1, <2>2 DEF NestInv, NoneForgotten, DealsComeLate, InitDone
  <2>7. NestedSoFar'
    BY <2>1, <2>3 DEF NestInv, NestedSoFar, InitDone, LiesIn
  <2> QED
    BY <2>5, <2>6, <2>7
<1> QED
  BY <1>1, <1>2, <1>3, <1>4, <1>5 DEF Next, Rest

\* A live candle counts at least what a candle within its window counts, though
\* AddDeal reads the clock anew for each resolution, refreshes and ticks come
\* between, and each was loaded at another moment; given that the clock is never
\* read in the last nanosecond of a window, deals are not stamped ahead of it, and
\* the database answers with nested volumes and stores nothing during the load.
THEOREM VolumesNest ==
    ASSUME InstantsInside, MaxSkew = 0, DatabaseNests, DatabaseWaits
    PROVE  Spec => []NestedVolumes
<1>1. NestInv => NestedVolumes
  <2> SUFFICES ASSUME NestInv, LockFree, NEW m \in Markets,
                      NEW r1 \in Resolutions, NEW r2 \in Resolutions,
                      candles[m][r1] # NoCandle, ContainsTs(candles[m][r1], now),
                      candles[m][r2] # NoCandle, ContainsTs(candles[m][r2], now),
                      candles[m][r2].openTime <= candles[m][r1].openTime,
                      candles[m][r1].closeTime <= candles[m][r2].closeTime
               PROVE  candles[m][r1].volume <= candles[m][r2].volume
    BY DEF NestedVolumes
  <2>1. ASSUME NEW r \in Resolutions, candles[m][r] # NoCandle, ContainsTs(candles[m][r], now)
        PROVE  /\ candles[m][r].openTime = WindowStart(r, now)
               /\ candles[m][r].closeTime = CloseTime(WindowStart(r, now), r)
               /\ candles[m][r].volume = Counted(m, r)
    <3>1. candles[m][r] \in Candle /\ GetFreshCandle(m, r) = candles[m][r]
      BY <2>1, CandleFacts DEF NestInv, GetFreshCandle
    <3>2. candles[m][r].openTime = WindowStart(r, now)
      BY <3>1, GetFreshCandleInside DEF NestInv, ShapeInv
    <3>3. candles[m][r].closeTime = CloseTime(candles[m][r].openTime, r)
      BY <2>1 DEF NestInv, ShapeInv, CandlesWellFormed, WellFormed
    <3> QED
      BY <2>1, <3>2, <3>3 DEF Counted
  <2>2. LiesIn(r1, now, r2, now)
    BY <2>1 DEF LiesIn
  <2>3. Owed(m, r1) = 0 /\ Owed(m, r2) = 0
    BY DEF Owed, LockFree, NoCall
  <2>4. Counted(m, r1) <= Counted(m, r2)
    <3>1. CASE InitDone
      <4>1. Counted(m, r1) + Owed(m, r1) <= Counted(m, r2) + Owed(m, r2)
        BY <2>2, <3>1 DEF NestInv, NestedSoFar
      <4>2. Counted(m, r1) \in Nat /\ Counted(m, r2) \in Nat
        BY CandleFacts DEF NestInv
      <4> QED
        BY <2>3, <4>1, <4>2
    <3>2. CASE ~InitDone
      BY <2>2, <3>2, AnswersNest DEF NestInv
    <3> QED
      BY <3>1, <3>2
  <2> QED
    BY <2>1, <2>4
<1>2. Spec => []NestInv
  BY InitNestInv, NextNestInv, PTL DEF Spec
<1> QED
  BY <1>1, <1>2, PTL

-------------------------------------------------------------------------------
(***************************************************************************)
(* UnsentFollowsSent, pair by pair.                                        *)
(***************************************************************************)
Silent(m, r, queue) ==
    \A i \in 1..Len(queue) : queue[i].symbol # m \/ queue[i].resolution # r

Follows(m, r, old, new, queue) ==
    /\ old # NoCandle => old.symbol = m /\ old.resolution = r
    /\ \/ old = new /\ Silent(m, r, queue)
       \/ /\ new # NoCandle
          /\ old # NoCandle => Progress(old, new)
          /\ queue = <<new>> \/ (old # NoCandle /\ queue = <<old, new>>)

LEMMA FollowsIsUnsent ==
    UnsentFollowsSent <=> \A m \in Markets, r \in Resolutions :
        Follows(m, r, sent[m][r], candles[m][r], unsent)
BY DEF UnsentFollowsSent, Follows, Silent

LEMMA FollowsIsUnsentPrime ==
    UnsentFollowsSent' <=> \A m \in Markets, r \in Resolutions :
        Follows(m, r, sent'[m][r], candles'[m][r], unsent')
BY DEF UnsentFollowsSent, Follows, Silent

FeedInv == TallyInv /\ UnsentFollowsSent

\* With nothing unsent the last updates are the candles.
LEMMA NothingUnsent ==
    ASSUME UnsentFollowsSent, unsent = <<>>,
           NEW m \in Markets, NEW r \in Resolutions
    PROVE  /\ sent[m][r] = candles[m][r]
           /\ sent[m][r] # NoCandle => sent[m][r].symbol = m /\ sent[m][r].resolution = r
<1>1. Follows(m, r, sent[m][r], candles[m][r], unsent)
  BY FollowsIsUnsent
<1>2. /\ \A c : unsent # <<c>>
      /\ \A c, d : unsent # <<c, d>>
  OBVIOUS
<1> QED
  BY <1>1, <1>2 DEF Follows

\* Storing a candle, and leaving it to be sent, keeps the relation.
LEMMA StoreFollows ==
    ASSUME candles \in CandleMap, UnsentFollowsSent, unsent = <<>>,
           NEW m \in Markets, NEW r \in Resolutions,
           NEW new \in Candle, new.symbol = m, new.resolution = r,
           candles[m][r] # NoCandle => Progress(candles[m][r], new),
           candles' = [candles EXCEPT ![m][r] = new],
           \/ unsent' = <<>> /\ candles[m][r] = new
           \/ unsent' = <<new>>
           \/ unsent' = <<candles[m][r], new>> /\ candles[m][r] # NoCandle,
           sent' = sent
    PROVE  UnsentFollowsSent'
<1> DEFINE old == candles[m][r]
<1>1. \A n \in Markets, q \in Resolutions :
          candles'[n][q] = IF n = m /\ q = r THEN new ELSE candles[n][q]
  BY DEF CandleMap
<1>2. \A n \in Markets, q \in Resolutions :
          /\ sent'[n][q] = candles[n][q]
          /\ sent'[n][q] # NoCandle => sent'[n][q].symbol = n /\ sent'[n][q].resolution = q
  BY NothingUnsent
<1>3. old # NoCandle => old.symbol = m /\ old.resolution = r
  BY <1>2
<1>4. new # NoCandle
  BY NoCandleIsNoCandle
<1>5. \A n \in Markets, q \in Resolutions : ~(n = m /\ q = r) => Silent(n, q, unsent')
  <2>1. CASE unsent' = <<>>
    BY <2>1 DEF Silent
  <2>2. CASE unsent' = <<new>>
    BY <2>2 DEF Silent
  <2>3. CASE unsent' = <<old, new>> /\ old # NoCandle
    <3>1. \A i \in 1..Len(unsent') : unsent'[i] \in {old, new}
      BY <2>3
    <3> QED
      BY <1>3, <2>3, <3>1 DEF Silent
  <2> QED
    BY <2>1, <2>2, <2>3
<1>6. Follows(m, r, sent'[m][r], new, unsent')
  <2>1. CASE unsent' = <<>> /\ old = new
    BY <1>2, <2>1 DEF Follows, Silent
  <2>2. CASE unsent' = <<new>> \/ (unsent' = <<old, new>> /\ old # NoCandle)
    BY <1>2, <1>3, <1>4, <2>2 DEF Follows
  <2> QED
    BY <2>1, <2>2
<1>7. ASSUME NEW n \in Markets, NEW q \in Resolutions, ~(n = m /\ q = r)
      PROVE  Follows(n, q, sent'[n][q], candles'[n][q], unsent')
  <2>1. candles'[n][q] = candles[n][q]
    BY <1>1, <1>7
  <2> QED
    BY <1>2, <1>5, <1>7, <2>1 DEF Follows
<1>8. candles'[m][r] = new
  BY <1>1
<1>9. \A n \in Markets, q \in Resolutions : Follows(n, q, sent'[n][q], candles'[n][q], unsent')
  BY <1>6, <1>7, <1>8
<1> QED
  BY <1>9, FollowsIsUnsentPrime

-------------------------------------------------------------------------------
(***************************************************************************)
(* Every step keeps the relation.                                          *)
(***************************************************************************)
\* A deal or a refresh moves a candle to a later window, or within its window
\* to no smaller volume.
LEMMA DealProgress ==
    ASSUME TallyInv, InstantsInside,
           NEW m \in Markets, NEW r \in Resolutions, DealIntoCandle(m, r)
    PROVE  Progress(candles[m][r], UpdateCandle(GetFreshCandle(m, r), call.deal))
<1> DEFINE old == candles[m][r]
           current == GetFreshCandle(m, r)
           new == UpdateCandle(current, call.deal)
<1>1. TypeInv /\ CandlesWellFormed
  BY DEF TallyInv, ShapeInv
<1>2. /\ old \in Candle /\ call.deal \in Deals
      /\ new.openTime = current.openTime
      /\ new.volume = current.volume + call.deal.amount
  BY <1>1, DealEffect
<1>3. /\ current \in Candle
      /\ current # old => old.openTime < current.openTime
  BY <1>1, <1>2, GetFreshCandleEffect, GetFreshCandleInside
<1>4. /\ old.openTime \in Nat /\ current.openTime \in Nat
      /\ old.volume \in Nat /\ current.volume \in Nat /\ call.deal.amount \in Nat
  BY <1>2, <1>3 DEF Candle, Deals
<1> HIDE DEF old, current, new
<1>5. current = old => Progress(old, new)
  BY <1>2, <1>4 DEF Progress
<1>6. current # old => Progress(old, new)
  BY <1>2, <1>3, <1>4 DEF Progress
<1> QED
  BY <1>5, <1>6 DEF old, current, new

LEMMA RefreshProgress ==
    ASSUME TallyInv, InstantsInside,
           NEW m \in Markets, NEW r \in Resolutions, RefreshCandle(m, r)
    PROVE  Progress(candles[m][r], Refreshed(m, r))
<1> DEFINE old == candles[m][r]
           current == GetFreshCandle(m, r)
           new == Refreshed(m, r)
<1>1. TypeInv /\ CandlesWellFormed
  BY DEF TallyInv, ShapeInv
<1>2. /\ old \in Candle
      /\ new.openTime = current.openTime /\ new.volume = current.volume
  BY <1>1, RefreshEffect
<1>3. /\ current \in Candle
      /\ current # old => old.openTime < current.openTime
  BY <1>1, <1>2, GetFreshCandleEffect, GetFreshCandleInside
<1>4. /\ old.openTime \in Nat /\ current.openTime \in Nat
      /\ old.volume \in Nat /\ current.volume \in Nat
  BY <1>2, <1>3 DEF Candle
<1> HIDE DEF old, current, new
<1>5. current = old => Progress(old, new)
  BY <1>2, <1>4 DEF Progress
<1>6. current # old => Progress(old, new)
  BY <1>2, <1>3, <1>4 DEF Progress
<1> QED
  BY <1>5, <1>6 DEF old, current, new

\* What Send does to the pair of the update it sends: that update is the last
\* one sent, and it makes progress.
LEMMA SendOwn ==
    ASSUME TallyInv, UnsentFollowsSent, Send,
           NEW m \in Markets, NEW r \in Resolutions,
           Head(unsent).symbol = m, Head(unsent).resolution = r
    PROVE  /\ Follows(m, r, Head(unsent), candles[m][r], Tail(unsent))
           /\ sent[m][r] # NoCandle => Progress(sent[m][r], Head(unsent))
<1> DEFINE old == sent[m][r]
           new == candles[m][r]
<1>1. /\ candles \in CandleMap /\ sent \in CandleMap
      /\ unsent \in Seq(Candle) /\ unsent # <<>>
  BY TypeParts DEF TallyInv, ShapeInv, TypeInv, QueuesOK, Send
<1>2. Follows(m, r, old, new, unsent)
  BY FollowsIsUnsent
<1>3. ~Silent(m, r, unsent)
  <2>1. Len(unsent) \in Nat /\ Len(unsent) >= 1 /\ Head(unsent) = unsent[1]
    BY <1>1
  <2> QED
    BY <2>1 DEF Silent
<1>4. /\ new # NoCandle
      /\ old # NoCandle => Progress(old, new)
      /\ unsent = <<new>> \/ (old # NoCandle /\ unsent = <<old, new>>)
  BY <1>2, <1>3 DEF Follows
<1>5. new \in Candle /\ (old # NoCandle => old \in Candle)
  BY <1>1, <1>4 DEF CandleMap
<1>6. CASE unsent = <<new>>
  <2>1. Head(unsent) = new /\ Tail(unsent) = <<>>
    BY <1>6
  <2>2. new.symbol = m /\ new.resolution = r
    BY <2>1
  <2>3. Silent(m, r, <<>>)
    BY DEF Silent
  <2> HIDE DEF old, new
  <2>4. Follows(m, r, new, new, <<>>)
    BY <2>2, <2>3 DEF Follows
  <2> QED
    BY <1>4, <2>1, <2>4 DEF old, new
<1>7. CASE old # NoCandle /\ unsent = <<old, new>>
  <2>1. Head(unsent) = old /\ Tail(unsent) = <<new>>
    BY <1>5, <1>7
  <2>2. old.symbol = m /\ old.resolution = r
    BY <2>1
  <2>3. old.openTime \in Nat /\ old.volume \in Nat
    BY <1>5, <1>7 DEF Candle
  <2> HIDE DEF old, new
  <2>4. Follows(m, r, old, new, <<new>>)
    BY <1>4, <1>7, <2>2 DEF Follows
  <2>5. Progress(old, old)
    BY <2>3 DEF Progress
  <2> QED
    BY <2>1, <2>4, <2>5 DEF old, new
<1> QED
  BY <1>4, <1>6, <1>7

\* Send leaves every other pair as it was.
LEMMA SendOther ==
    ASSUME TallyInv, UnsentFollowsSent, Send,
           NEW m \in Markets, NEW r \in Resolutions,
           ~(Head(unsent).symbol = m /\ Head(unsent).resolution = r)
    PROVE  Follows(m, r, sent[m][r], candles[m][r], Tail(unsent))
<1> DEFINE old == sent[m][r]
           new == candles[m][r]
<1>1. /\ candles \in CandleMap /\ CandlesWellFormed
      /\ unsent \in Seq(Candle) /\ unsent # <<>>
  BY TypeParts DEF TallyInv, ShapeInv, TypeInv, QueuesOK, Send
<1>2. Follows(m, r, old, new, unsent)
  BY FollowsIsUnsent
<1>3. old # NoCandle => old.symbol = m /\ old.resolution = r
  BY <1>2 DEF Follows
<1>4. new # NoCandle => new.symbol = m /\ new.resolution = r
  BY <1>1 DEF CandlesWellFormed, WellFormed
<1>5. unsent # <<new>> \/ new = NoCandle
  BY <1>4
<1>6. unsent # <<old, new>> \/ old = NoCandle
  BY <1>3
<1>7. old = new /\ Silent(m, r, unsent)
  BY <1>2, <1>5, <1>6 DEF Follows
<1>8. Silent(m, r, Tail(unsent))
  <2>1. /\ Len(Tail(unsent)) = Len(unsent) - 1 /\ Len(unsent) \in Nat
        /\ \A i \in 1..Len(Tail(unsent)) : Tail(unsent)[i] = unsent[i + 1]
    BY <1>1
  <2>2. \A i \in 1..Len(Tail(unsent)) : i + 1 \in 1..Len(unsent)
    BY <2>1
  <2> QED
    BY <1>7, <2>1, <2>2 DEF Silent
<1> QED
  BY <1>3, <1>7, <1>8 DEF Follows

LEMMA SendFollows ==
    ASSUME TallyInv, UnsentFollowsSent, Send
    PROVE  UnsentFollowsSent'
<1> DEFINE h == Head(unsent)
<1>1. /\ sent \in CandleMap /\ unsent \in Seq(Candle) /\ unsent # <<>>
  BY TypeParts DEF TallyInv, ShapeInv, TypeInv, QueuesOK, Send
<1>2. /\ candles' = candles /\ unsent' = Tail(unsent)
      /\ sent' = [sent EXCEPT ![h.symbol][h.resolution] = h]
  BY DEF Send
<1>3. \A m \in Markets, r \in Resolutions :
          sent'[m][r] = IF h.symbol = m /\ h.resolution = r THEN h ELSE sent[m][r]
  BY <1>1, <1>2 DEF CandleMap
<1>4. ASSUME NEW m \in Markets, NEW r \in Resolutions
      PROVE  Follows(m, r, sent'[m][r], candles'[m][r], unsent')
  <2>1. CASE h.symbol = m /\ h.resolution = r
    BY <1>2, <1>3, <2>1, SendOwn
  <2>2. CASE ~(h.symbol = m /\ h.resolution = r)
    BY <1>2, <1>3, <2>2, SendOther
  <2> QED
    BY <2>1, <2>2
<1> QED
  BY <1>4, FollowsIsUnsentPrime

LEMMA NextFeedInv ==
    ASSUME InstantsInside
    PROVE  FeedInv /\ [Next]_vars => FeedInv'
<1> SUFFICES ASSUME FeedInv, [Next]_vars PROVE UnsentFollowsSent'
  BY NextTallyInv DEF FeedInv
<1>t. /\ TallyInv /\ UnsentFollowsSent /\ ShapeInv /\ TypeInv /\ CandlesWellFormed
      /\ candles \in CandleMap
  BY TypeParts DEF FeedInv, TallyInv, ShapeInv, TypeInv
<1>1. ASSUME NEW m \in Markets, NEW r \in Resolutions, DealIntoCandle(m, r)
      PROVE  UnsentFollowsSent'
  <2> DEFINE new == UpdateCandle(GetFreshCandle(m, r), call.deal)
  <2>1. /\ candles[m][r] \in Candle /\ unsent = <<>>
        /\ new \in Candle /\ WellFormed(new, m, r, now)
        /\ \/ candles' = candles /\ unsent' = <<>>
           \/ /\ candles' = [candles EXCEPT ![m][r] = new]
              /\ \/ unsent' = <<>> /\ candles[m][r] = new
                 \/ unsent' = <<new>>
                 \/ unsent' = <<candles[m][r], new>>
    BY <1>1, <1>t, DealEffect
  <2>2. Progress(candles[m][r], new)
    BY <1>1, <1>t, DealProgress
  <2>3. sent' = sent
    BY <1>1 DEF DealIntoCandle
  <2> HIDE DEF new
  <2>4. CASE candles' = candles /\ unsent' = <<>>
    BY <1>t, <2>1, <2>3, <2>4 DEF UnsentFollowsSent
  <2>5. CASE /\ candles' = [candles EXCEPT ![m][r] = new]
             /\ \/ unsent' = <<>> /\ candles[m][r] = new
                \/ unsent' = <<new>>
                \/ unsent' = <<candles[m][r], new>>
    BY <1>t, <2>1, <2>2, <2>3, <2>5, StoreFollows, NoCandleIsNoCandle DEF WellFormed
  <2> QED
    BY <2>1, <2>4, <2>5
<1>2. ASSUME NEW m \in Markets, NEW r \in Resolutions, RefreshCandle(m, r)
      PROVE  UnsentFollowsSent'
  <2> DEFINE new == Refreshed(m, r)
  <2>1. /\ candles[m][r] \in Candle /\ unsent = <<>>
        /\ new \in Candle /\ WellFormed(new, m, r, now)
        /\ candles' = [candles EXCEPT ![m][r] = new]
        /\ \/ unsent' = <<>> /\ candles[m][r] = new
           \/ unsent' = <<new>>
           \/ unsent' = <<candles[m][r], new>>
    BY <1>2, <1>t, RefreshEffect
  <2>2. Progress(candles[m][r], new)
    BY <1>2, <1>t, RefreshProgress
  <2>3. sent' = sent
    BY <1>2 DEF RefreshCandle
  <2> HIDE DEF new
  <2> QED
    BY <1>t, <2>1, <2>2, <2>3, StoreFollows, NoCandleIsNoCandle DEF WellFormed
<1>3. ASSUME NEW m \in Markets, NEW r \in Resolutions, AddCandle(m, r)
      PROVE  UnsentFollowsSent'
  <2> DEFINE new == IF loaded.candle = NoCandle THEN FreshCandle(m, r, now)
                    ELSE loaded.candle
  <2>1. /\ SetCandle(m, r, new, FALSE) /\ loaded # NothingLoaded
        /\ loaded.pair = <<m, r>> /\ sent' = sent
    BY <1>3 DEF AddCandle
  <2>2. /\ unsent = <<>> /\ now \in Nat
        /\ loaded \in [pair : Pairs, candle : Candle \cup {NoCandle}]
    BY <1>3, <1>t, <2>1, TypeParts, IdleCall DEF TypeInv, AddCandle, CallOK, RestOK
  <2>3. new \in Candle /\ WellFormed(new, m, r, now) /\ candles[m][r] = NoCandle
    BY <1>t, <2>1, <2>2, FreshCandleType, FreshCandleWellFormed DEF ShapeInv, LoadedOnce
  <2> HIDE DEF new
  <2>4. /\ candles' = [candles EXCEPT ![m][r] = new]
        /\ \/ unsent' = <<>> /\ candles[m][r] = new
           \/ unsent' = <<new>>
           \/ unsent' = <<candles[m][r], new>> /\ candles[m][r] # NoCandle
    BY <1>t, <2>1, <2>2, <2>3, SetCandleEffect
  <2> QED
    BY <1>t, <2>1, <2>2, <2>3, <2>4, StoreFollows DEF WellFormed
<1>4. CASE Send
  BY <1>4, <1>t, SendFollows
<1>5. CASE UNCHANGED <<candles, unsent, sent>>
  BY <1>5, <1>t, FollowsIsUnsent, FollowsIsUnsentPrime
<1>6. CASE Tick \/ RefreshAll \/ Receive \/ Unlock \/ UNCHANGED vars
  BY <1>5, <1>6 DEF Tick, RefreshAll, Receive, Unlock, vars
<1>7. ASSUME NEW d \in Deals, AddDeal(d) PROVE UnsentFollowsSent'
  BY <1>5, <1>7 DEF AddDeal
<1>8. ASSUME NEW m \in Markets, NEW r \in Resolutions, LoadCandle(m, r)
      PROVE  UnsentFollowsSent'
  BY <1>5, <1>8 DEF LoadCandle
<1> QED
  BY <1>1, <1>2, <1>3, <1>4, <1>6, <1>7, <1>8 DEF Next, Rest

LEMMA InitFeedInv == Init => FeedInv
<1> SUFFICES ASSUME Init PROVE FeedInv
  OBVIOUS
<1>1. \A m \in Markets, r \in Resolutions :
          candles[m][r] = NoCandle /\ sent[m][r] = NoCandle
  BY DEF Init
<1>2. TallyInv
  BY <1>1, InitShapeInv DEF TallyInv, CandleMatchesTally
<1>3. \A m \in Markets, r \in Resolutions : Silent(m, r, unsent)
  BY DEF Init, Silent
<1>4. \A m \in Markets, r \in Resolutions :
          Follows(m, r, sent[m][r], candles[m][r], unsent)
  BY <1>1, <1>3 DEF Follows
<1> QED
  BY <1>2, <1>4, FollowsIsUnsent DEF FeedInv

\* The conjunction TLC checks is an invariant of every instance.
THEOREM IndInvHolds ==
    ASSUME InstantsInside
    PROVE  Spec => []IndInv
<1>1. Init => FeedInv
  BY InitFeedInv
<1>2. FeedInv /\ [Next]_vars => FeedInv'
  BY NextFeedInv
<1>3. FeedInv => IndInv
  BY DEF FeedInv, TallyInv, ShapeInv, TypeInv, IndInv
<1> QED
  BY <1>1, <1>2, <1>3, PTL DEF Spec

\* Whenever no call is under way, the last update sent for a market and
\* resolution is the candle that setCandle stored last.
THEOREM UpdatesTellCandles ==
    ASSUME InstantsInside
    PROVE  Spec => []UpdatesReflectCandles
<1>1. IndInv => UpdatesReflectCandles
  <2> SUFFICES ASSUME IndInv, LockFree, NEW m \in Markets, NEW r \in Resolutions
               PROVE  sent[m][r] = candles[m][r]
    BY DEF UpdatesReflectCandles
  <2>1. CallOK
    BY TypeParts DEF IndInv
  <2>2. unsent = <<>>
    BY <2>1, IdleCall DEF CallOK
  <2> QED
    BY <2>2, NothingUnsent DEF IndInv
<1>2. Spec => []IndInv
  BY IndInvHolds
<1> QED
  BY <1>1, <1>2, PTL

\* The updates of one candle never go back to an earlier window, nor to a
\* smaller volume within a window.
THEOREM UpdatesAdvance ==
    ASSUME InstantsInside
    PROVE  Spec => UpdatesGoForward
<1> DEFINE Forward ==
      \A m \in Markets, r \in Resolutions :
          sent[m][r] # NoCandle =>
            /\ sent'[m][r].openTime >= sent[m][r].openTime
            /\ sent'[m][r].openTime = sent[m][r].openTime
                  => sent'[m][r].volume >= sent[m][r].volume
<1>1. FeedInv /\ [Next]_vars => [Forward]_sent
  <2> SUFFICES ASSUME FeedInv, [Next]_vars, sent' # sent,
                      NEW m \in Markets, NEW r \in Resolutions, sent[m][r] # NoCandle
               PROVE  Progress(sent[m][r], sent'[m][r])
    BY DEF Progress
  <2>1. /\ TallyInv /\ UnsentFollowsSent /\ sent \in CandleMap
    BY TypeParts DEF FeedInv, TallyInv, ShapeInv, TypeInv
  <2>2. Send
    <3>1. Tick \/ (\E d \in Deals : AddDeal(d)) \/ RefreshAll => sent' = sent
      BY DEF Tick, AddDeal, RefreshAll
    <3>2. ASSUME NEW n \in Markets, NEW q \in Resolutions,
                 \/ DealIntoCandle(n, q) \/ RefreshCandle(n, q)
                 \/ LoadCandle(n, q) \/ AddCandle(n, q)
          PROVE  sent' = sent
      BY <3>2 DEF DealIntoCandle, RefreshCandle, LoadCandle, AddCandle
    <3>3. Receive \/ Unlock \/ Rest \/ UNCHANGED vars => sent' = sent
      BY DEF Receive, Unlock, Rest, vars
    <3> QED
      BY <3>1, <3>2, <3>3 DEF Next
  <2>a. /\ sent' = [sent EXCEPT ![Head(unsent).symbol][Head(unsent).resolution] = Head(unsent)]
        /\ sent \in [Markets -> [Resolutions -> Candle \cup {NoCandle}]]
    BY <2>1, <2>2 DEF Send, CandleMap
  <2>3. sent'[m][r] = IF Head(unsent).symbol = m /\ Head(unsent).resolution = r
                      THEN Head(unsent) ELSE sent[m][r]
    BY ONLY <2>a, m \in Markets, r \in Resolutions
  <2>4. CASE Head(unsent).symbol = m /\ Head(unsent).resolution = r
    BY <2>1, <2>2, <2>3, <2>4, SendOwn
  <2>5. CASE ~(Head(unsent).symbol = m /\ Head(unsent).resolution = r)
    <3>1. sent[m][r].openTime \in Nat /\ sent[m][r].volume \in Nat
      BY <2>1 DEF CandleMap, Candle
    <3> QED
      BY <2>3, <2>5, <3>1 DEF Progress
  <2> QED
    BY <2>4, <2>5
<1>2. Init => FeedInv
  BY InitFeedInv
<1>3. FeedInv /\ [Next]_vars => FeedInv'
  BY NextFeedInv
<1> QED
  BY <1>1, <1>2, <1>3, PTL DEF Spec, UpdatesGoForward

-------------------------------------------------------------------------------
(***************************************************************************)
(* A candle waiting to be added shows a price a deal was made at.          *)
(***************************************************************************)
LoadedPriced ==
    loaded # NothingLoaded /\ loaded.candle # NoCandle => loaded.candle.close \in Prices

RefInv == TallyInv /\ LoadedPriced

LEMMA InitRefInv == Init => RefInv
<1> SUFFICES ASSUME Init PROVE RefInv
  OBVIOUS
<1>1. \A m \in Markets, r \in Resolutions : candles[m][r] = NoCandle
  BY DEF Init
<1>2. TallyInv
  BY <1>1, InitShapeInv DEF TallyInv, CandleMatchesTally
<1> QED
  BY <1>2 DEF RefInv, LoadedPriced, Init

LEMMA NextRefInv ==
    ASSUME InstantsInside
    PROVE  RefInv /\ [Next]_vars => RefInv'
<1> SUFFICES ASSUME RefInv, [Next]_vars PROVE LoadedPriced'
  BY NextTallyInv DEF RefInv
<1>1. ASSUME NEW m \in Markets, NEW r \in Resolutions, LoadCandle(m, r)
      PROVE  LoadedPriced'
  <2> DEFINE chart == Stored[m][r][now]
             c == ChartToCurrentCandle(chart, m, r, WindowStart(r, now))
  <2>1. chart \in Chart \cup {NoChart}
    <3>1. now \in Instants
      BY TypeParts DEF RefInv, TallyInv, ShapeInv, TypeInv, RestOK
    <3> QED
      BY <3>1
  <2>2. loaded' = [pair |-> <<m, r>>, candle |-> IF chart = NoChart THEN NoCandle ELSE c]
    BY <1>1 DEF LoadCandle
  <2>3. chart # NoChart => c.close \in Prices
    BY <2>1 DEF ChartToCurrentCandle, Chart
  <2> HIDE DEF chart, c
  <2> QED
    BY <2>2, <2>3 DEF LoadedPriced
<1>2. ASSUME NEW m \in Markets, NEW r \in Resolutions, AddCandle(m, r)
      PROVE  LoadedPriced'
  BY <1>2 DEF AddCandle, LoadedPriced
<1>3. CASE UNCHANGED loaded
  BY <1>3 DEF RefInv, LoadedPriced
<1> QED
  BY <1>1, <1>2, <1>3 DEF Next, Tick, AddDeal, RefreshAll, DealIntoCandle, RefreshCandle,
     Send, Receive, Unlock, Rest, vars

-------------------------------------------------------------------------------
(***************************************************************************)
(* The totals after a candle was stored.                                   *)
(***************************************************************************)
TotalOf(c) == [window |-> c.openTime, volume |-> c.volume, last |-> c.close]

LEMMA StoredTotal ==
    ASSUME NEW m \in Markets, NEW r \in Resolutions
    PROVE  Totals[m][r] = IF candles[m][r] = NoCandle THEN Live!Absent
                          ELSE TotalOf(candles[m][r])
BY DEF Totals, TotalOf, Live!Absent

LEMMA StoreTotal ==
    ASSUME candles \in CandleMap, NEW m \in Markets, NEW r \in Resolutions,
           NEW new \in Candle, candles' = [candles EXCEPT ![m][r] = new]
    PROVE  /\ Totals' = [Totals EXCEPT ![m][r] = TotalOf(new)]
           /\ Totals'[m][r] = TotalOf(new)
<1>1. \A n \in Markets, q \in Resolutions :
          candles'[n][q] = IF n = m /\ q = r THEN new ELSE candles[n][q]
  BY DEF CandleMap
<1>2. new # NoCandle
  BY NoCandleIsNoCandle
<1>3. Totals = [n \in Markets |-> [q \in Resolutions |-> Totals[n][q]]]
  BY DEF Totals
<1>4. Totals' = [n \in Markets |-> [q \in Resolutions |->
          IF n = m /\ q = r THEN TotalOf(new) ELSE Totals[n][q]]]
  BY <1>1, <1>2 DEF Totals, TotalOf
<1> QED
  BY <1>3, <1>4

-------------------------------------------------------------------------------
(***************************************************************************)
(* The steps that store a candle.                                          *)
(***************************************************************************)
\* A stored deal is a Trade, or a TradeInNewWindow.
LEMMA DealImplements ==
    ASSUME RefInv, InstantsInside,
           NEW m \in Markets, NEW r \in Resolutions, DealIntoCandle(m, r)
    PROVE  Live!Next \/ Totals' = Totals
<1> DEFINE old == candles[m][r]
           current == GetFreshCandle(m, r)
           new == UpdateCandle(current, call.deal)
<1>1. TypeInv /\ CandlesWellFormed
  BY DEF RefInv, TallyInv, ShapeInv
<1>2. /\ candles \in CandleMap /\ old \in Candle /\ call.deal \in Deals
      /\ new \in Candle
      /\ new.openTime = current.openTime /\ new.close = call.deal.price
      /\ new.volume = current.volume + call.deal.amount
      /\ candles' = candles \/ candles' = [candles EXCEPT ![m][r] = new]
  BY <1>1, DealEffect
<1>3. /\ current \in Candle
      /\ current # old => old.openTime < current.openTime /\ current.volume = 0
  BY <1>1, <1>2, GetFreshCandleEffect, GetFreshCandleInside
<1>4. call.deal.price \in Prices /\ call.deal.amount \in Amounts /\ call.deal.amount \in Nat
  BY <1>2 DEF Deals
<1>5. CASE candles' = candles
  BY <1>5 DEF Totals
<1>6. CASE candles' = [candles EXCEPT ![m][r] = new]
  <2> HIDE DEF old, current, new
  <2>1. /\ Totals' = [Totals EXCEPT ![m][r] = TotalOf(new)]
        /\ Totals'[m][r] = TotalOf(new)
    BY <1>2, <1>6, StoreTotal
  <2>2. Totals[m][r] = TotalOf(old)
    BY <1>2, StoredTotal, NoCandleIsNoCandle DEF old
  <2>3. Totals[m][r] # Live!Absent
    BY <1>2, <2>2 DEF TotalOf, Live!Absent, Candle
  <2>4. CASE current = old
    <3>1. TotalOf(new) = [window |-> Totals[m][r].window,
                          volume |-> Totals[m][r].volume + call.deal.amount,
                          last |-> call.deal.price]
      BY <1>2, <2>2, <2>4 DEF TotalOf
    <3>2. Live!Trade(m, r)
      BY <1>4, <2>1, <2>3, <3>1 DEF Live!Trade, Live!Becomes
    <3> QED
      BY <3>2 DEF Live!Next
  <2>5. CASE current # old
    <3>1. new.volume = call.deal.amount
      BY <1>2, <1>3, <1>4, <2>5
    <3>2. Totals'[m][r].window > Totals[m][r].window
      BY <1>2, <1>3, <2>1, <2>2, <2>5 DEF TotalOf, Candle
    <3>3. TotalOf(new) = [window |-> Totals'[m][r].window,
                          volume |-> call.deal.amount, last |-> call.deal.price]
      BY <1>2, <2>1, <3>1 DEF TotalOf
    <3>4. Live!TradeInNewWindow(m, r)
      BY <1>4, <2>1, <2>3, <3>2, <3>3 DEF Live!TradeInNewWindow, Live!Becomes
    <3> QED
      BY <3>4 DEF Live!Next
  <2> QED
    BY <2>4, <2>5
<1> QED
  BY <1>2, <1>5, <1>6

\* A refresh is a Roll, or changes prices the totals do not show.
LEMMA RefreshImplements ==
    ASSUME RefInv, InstantsInside,
           NEW m \in Markets, NEW r \in Resolutions, RefreshCandle(m, r)
    PROVE  Live!Next \/ Totals' = Totals
<1> DEFINE old == candles[m][r]
           current == GetFreshCandle(m, r)
           new == Refreshed(m, r)
<1>1. TypeInv /\ CandlesWellFormed
  BY DEF RefInv, TallyInv, ShapeInv
<1>2. /\ candles \in CandleMap /\ old \in Candle /\ new \in Candle
      /\ new.openTime = current.openTime /\ new.volume = current.volume
      /\ new.close = old.close
      /\ candles' = [candles EXCEPT ![m][r] = new]
  BY <1>1, RefreshEffect
<1>3. /\ current \in Candle
      /\ current # old => old.openTime < current.openTime /\ current.volume = 0
  BY <1>1, <1>2, GetFreshCandleEffect, GetFreshCandleInside
<1> HIDE DEF old, current, new
<1>4. /\ Totals' = [Totals EXCEPT ![m][r] = TotalOf(new)]
      /\ Totals'[m][r] = TotalOf(new)
  BY <1>2, StoreTotal
<1>5. Totals[m][r] = TotalOf(old)
  BY <1>2, StoredTotal, NoCandleIsNoCandle DEF old
<1>6. Totals[m][r] # Live!Absent
  BY <1>2, <1>5 DEF TotalOf, Live!Absent, Candle
<1>7. CASE current = old
  <2>1. TotalOf(new) = Totals[m][r]
    BY <1>2, <1>5, <1>7 DEF TotalOf
  <2>2. [Totals EXCEPT ![m][r] = Totals[m][r]] = Totals
    BY DEF Totals
  <2> QED
    BY <1>4, <2>1, <2>2
<1>8. CASE current # old
  <2>1. Totals'[m][r].window > Totals[m][r].window
    BY <1>2, <1>3, <1>4, <1>5, <1>8 DEF TotalOf, Candle
  <2>2. TotalOf(new) = [window |-> Totals'[m][r].window, volume |-> 0,
                        last |-> Totals[m][r].last]
    BY <1>2, <1>3, <1>4, <1>5, <1>8 DEF TotalOf
  <2>3. Live!Roll(m, r)
    BY <1>4, <1>6, <2>1, <2>2 DEF Live!Roll, Live!Becomes
  <2> QED
    BY <2>3 DEF Live!Next
<1> QED
  BY <1>7, <1>8

\* AddCandle is a Load.
LEMMA AddImplements ==
    ASSUME RefInv, NEW m \in Markets, NEW r \in Resolutions, AddCandle(m, r)
    PROVE  Live!Next
<1> DEFINE new == IF loaded.candle = NoCandle THEN FreshCandle(m, r, now)
                  ELSE loaded.candle
<1>1. /\ SetCandle(m, r, new, FALSE) /\ loaded # NothingLoaded
      /\ loaded.pair = <<m, r>>
  BY DEF AddCandle
<1>2. /\ unsent = <<>> /\ now \in Nat /\ candles \in CandleMap
      /\ loaded \in [pair : Pairs, candle : Candle \cup {NoCandle}]
  BY <1>1, TypeParts, IdleCall
     DEF RefInv, TallyInv, ShapeInv, TypeInv, AddCandle, CallOK, RestOK
<1>3. new \in Candle /\ new.close \in Prices \cup {ZeroDecimal}
  <2>1. CASE loaded.candle = NoCandle
    BY <1>2, <2>1, FreshCandleType DEF FreshCandle
  <2>2. CASE loaded.candle # NoCandle
    BY <1>1, <1>2, <2>2 DEF RefInv, LoadedPriced
  <2> QED
    BY <2>1, <2>2
<1>4. candles[m][r] = NoCandle
  BY <1>1 DEF RefInv, TallyInv, ShapeInv, LoadedOnce
<1> HIDE DEF new
<1>5. /\ candles' = [candles EXCEPT ![m][r] = new]
      /\ candles' \in CandleMap
      /\ \/ unsent' = <<>> /\ candles[m][r] = new
         \/ unsent' = <<new>> /\ (FALSE => candles[m][r] = NoCandle)
         \/ unsent' = <<candles[m][r], new>> /\ candles[m][r] # NoCandle
  <2>1. new \in Candle
    BY <1>3
  <2> QED
    BY <1>1, <1>2, <2>1, SetCandleEffect
<1>6. /\ Totals' = [Totals EXCEPT ![m][r] = TotalOf(new)]
      /\ Totals'[m][r] = TotalOf(new)
  BY <1>2, <1>3, <1>5, StoreTotal
<1>7. TotalOf(new) \in Live!Total
  BY <1>3 DEF TotalOf, Live!Total, Candle
<1>8. Live!Load(m, r)
  BY <1>4, <1>6, <1>7, StoredTotal DEF Live!Load
<1> QED
  BY <1>8 DEF Live!Next

\* Seen as windows, volumes and last prices, the live candles do what LiveTotals
\* says: a total is loaded once, deals of its window are added to it, and a later
\* window starts from nothing and keeps the last price.
THEOREM Implementation ==
    ASSUME InstantsInside
    PROVE  Spec => ImplementsLiveTotals
<1>1. Init => Live!Init
  BY DEF Init, Live!Init, Live!Absent, Totals
<1>2. RefInv /\ [Next]_vars => [Live!Next]_Totals
  <2> SUFFICES ASSUME RefInv, [Next]_vars PROVE Live!Next \/ Totals' = Totals
    OBVIOUS
  <2>1. CASE UNCHANGED candles
    BY <2>1 DEF Totals
  <2>2. ASSUME NEW m \in Markets, NEW r \in Resolutions,
               DealIntoCandle(m, r) \/ RefreshCandle(m, r) \/ AddCandle(m, r)
        PROVE  Live!Next \/ Totals' = Totals
    BY <2>2, DealImplements, RefreshImplements, AddImplements
  <2> QED
    BY <2>1, <2>2 DEF Next, Tick, AddDeal, RefreshAll, LoadCandle, Send, Receive,
       Unlock, Rest, vars
<1>3. Init => RefInv
  BY InitRefInv
<1>4. RefInv /\ [Next]_vars => RefInv'
  BY NextRefInv
<1> QED
  BY <1>1, <1>2, <1>3, <1>4, PTL DEF Spec, ImplementsLiveTotals, Live!Spec
===============================================================================
