---------------------------- MODULE DealFanoutProofs ----------------------------
(***************************************************************************)
(* Theorems about DealFanout: its types, that every client sees the deals  *)
(* in order and none twice, and that one that stays misses no deal unless  *)
(* its channel was full of earlier ones, for any number of clients, any    *)
(* capacity of the channels and any number of deals.                       *)
(***************************************************************************)
EXTENDS DealFanout, SequenceTheorems, FiniteSetTheorems, TLAPS

-------------------------------------------------------------------------------
(***************************************************************************)
(* Ascending sequences.                                                    *)
(***************************************************************************)
Before(s, t) == \A i \in 1 .. Len(s), j \in 1 .. Len(t) : s[i] < t[j]

\* A concatenation ascends when its parts do, the first before the second.
LEMMA AscendingConcat ==
    ASSUME NEW s \in Seq(Nat), NEW t \in Seq(Nat)
    PROVE  Ascending(s \o t) <=> Ascending(s) /\ Ascending(t) /\ Before(s, t)
<1>1. /\ s \o t \in Seq(Nat) /\ Len(s \o t) = Len(s) + Len(t)
      /\ \A i \in 1 .. Len(s) + Len(t) :
            (s \o t)[i] = IF i <= Len(s) THEN s[i] ELSE t[i - Len(s)]
  BY ConcatProperties
<1>2. /\ Len(s) \in Nat /\ DOMAIN s = 1 .. Len(s)
      /\ Len(t) \in Nat /\ DOMAIN t = 1 .. Len(t)
      /\ DOMAIN (s \o t) = 1 .. (Len(s) + Len(t))
      /\ \A i \in 1 .. Len(s) : s[i] \in Nat
      /\ \A i \in 1 .. Len(t) : t[i] \in Nat
  BY <1>1, LenProperties, ElementOfSeq
<1>3. /\ Ascending(s) <=> \A i, j \in 1 .. Len(s) : i < j => s[i] < s[j]
      /\ Ascending(t) <=> \A i, j \in 1 .. Len(t) : i < j => t[i] < t[j]
      /\ Ascending(s \o t) <=> \A i, j \in 1 .. (Len(s) + Len(t)) :
                                  i < j => (s \o t)[i] < (s \o t)[j]
  BY <1>2 DEF Ascending
<1>4. ASSUME Ascending(s \o t)
      PROVE  Ascending(s) /\ Ascending(t) /\ Before(s, t)
  <2>1. Ascending(s)
    BY <1>1, <1>2, <1>4, <1>3
  <2>2. ASSUME NEW i \in 1 .. Len(t), NEW j \in 1 .. Len(t), i < j
        PROVE  t[i] < t[j]
    <3>1. /\ i + Len(s) \in 1 .. (Len(s) + Len(t)) /\ j + Len(s) \in 1 .. (Len(s) + Len(t))
          /\ i + Len(s) < j + Len(s)
          /\ (s \o t)[i + Len(s)] = t[i] /\ (s \o t)[j + Len(s)] = t[j]
      BY <1>1, <1>2, <2>2
    <3>2. (s \o t)[i + Len(s)] < (s \o t)[j + Len(s)]
      BY <1>4, <1>3, <3>1
    <3> QED
      BY <3>1, <3>2
  <2>3. ASSUME NEW i \in 1 .. Len(s), NEW j \in 1 .. Len(t)
        PROVE  s[i] < t[j]
    <3>1. /\ i \in 1 .. (Len(s) + Len(t)) /\ j + Len(s) \in 1 .. (Len(s) + Len(t))
          /\ (s \o t)[i] = s[i] /\ (s \o t)[j + Len(s)] = t[j] /\ i < j + Len(s)
      BY <1>1, <1>2
    <3>2. (s \o t)[i] < (s \o t)[j + Len(s)]
      BY <1>4, <1>3, <3>1
    <3> QED
      BY <3>1, <3>2
  <2> QED
    BY <1>3, <2>1, <2>2, <2>3 DEF Before
<1>5. ASSUME Ascending(s), Ascending(t), Before(s, t)
      PROVE  Ascending(s \o t)
  <2> SUFFICES ASSUME NEW i \in 1 .. (Len(s) + Len(t)), NEW j \in 1 .. (Len(s) + Len(t)),
                      i < j
               PROVE  (s \o t)[i] < (s \o t)[j]
    BY <1>3
  <2>1. CASE j <= Len(s)
    <3>1. /\ i \in 1 .. Len(s) /\ j \in 1 .. Len(s)
          /\ (s \o t)[i] = s[i] /\ (s \o t)[j] = s[j]
      BY <1>1, <1>2, <2>1
    <3> QED
      BY <1>5, <1>3, <3>1
  <2>2. CASE i > Len(s)
    <3>1. /\ i - Len(s) \in 1 .. Len(t) /\ j - Len(s) \in 1 .. Len(t)
          /\ i - Len(s) < j - Len(s)
          /\ (s \o t)[i] = t[i - Len(s)] /\ (s \o t)[j] = t[j - Len(s)]
      BY <1>1, <1>2, <2>2
    <3> QED
      BY <1>5, <1>3, <3>1
  <2>3. CASE i <= Len(s) /\ j > Len(s)
    <3>1. /\ i \in 1 .. Len(s) /\ j - Len(s) \in 1 .. Len(t)
          /\ (s \o t)[i] = s[i] /\ (s \o t)[j] = t[j - Len(s)]
      BY <1>1, <1>2, <2>3
    <3> QED
      BY <1>5, <3>1 DEF Before
  <2> QED
    BY <1>2, <2>1, <2>2, <2>3
<1> QED
  BY <1>4, <1>5

\* Something is before or after a concatenation when it is so for both parts.
LEMMA BeforeConcat ==
    ASSUME NEW s \in Seq(Nat), NEW t \in Seq(Nat), NEW u \in Seq(Nat)
    PROVE  Before(s \o t, u) <=> Before(s, u) /\ Before(t, u)
<1>1. /\ Len(s \o t) = Len(s) + Len(t)
      /\ \A i \in 1 .. Len(s) + Len(t) :
            (s \o t)[i] = IF i <= Len(s) THEN s[i] ELSE t[i - Len(s)]
  BY ConcatProperties
<1>2. Len(s) \in Nat /\ Len(t) \in Nat /\ Len(u) \in Nat
  BY LenProperties
<1>3. ASSUME Before(s \o t, u) PROVE Before(s, u)
  BY <1>1, <1>2, <1>3 DEF Before
<1>4. ASSUME Before(s \o t, u), NEW i \in 1 .. Len(t), NEW j \in 1 .. Len(u)
      PROVE  t[i] < u[j]
  <2>1. i + Len(s) \in 1 .. (Len(s) + Len(t)) /\ (s \o t)[i + Len(s)] = t[i]
    BY <1>1, <1>2
  <2> QED
    BY <1>1, <1>4, <2>1 DEF Before
<1>5. ASSUME Before(s, u), Before(t, u), NEW i \in 1 .. (Len(s) + Len(t)),
             NEW j \in 1 .. Len(u)
      PROVE  (s \o t)[i] < u[j]
  <2>1. CASE i <= Len(s)
    BY <1>1, <1>2, <1>5, <2>1 DEF Before
  <2>2. CASE i > Len(s)
    <3>1. i - Len(s) \in 1 .. Len(t) /\ (s \o t)[i] = t[i - Len(s)]
      BY <1>1, <1>2, <2>2
    <3> QED
      BY <1>5, <3>1 DEF Before
  <2> QED
    BY <1>2, <2>1, <2>2
<1> QED
  BY <1>1, <1>3, <1>4, <1>5 DEF Before

\* An ascending sequence still ascends when a piece is taken out.
LEMMA AscendingSkip ==
    ASSUME NEW s \in Seq(Nat), NEW t \in Seq(Nat), NEW u \in Seq(Nat),
           Ascending(s \o t \o u)
    PROVE  Ascending(s \o u)
<1>1. s \o t \in Seq(Nat)
  BY ConcatProperties
<1>2. Ascending(s \o t) /\ Ascending(u) /\ Before(s \o t, u)
  BY <1>1, AscendingConcat
<1>3. Ascending(s) /\ Before(s, u)
  BY <1>2, AscendingConcat, BeforeConcat
<1> QED
  BY <1>2, <1>3, AscendingConcat

\* An element above all others may be appended.
LEMMA AscendingAppend ==
    ASSUME NEW n \in Nat, NEW s \in Seq(1 .. n), Ascending(s)
    PROVE  Ascending(s \o <<n + 1>>)
<1>1. s \in Seq(Nat) /\ <<n + 1>> \in Seq(Nat)
  BY SeqMonotonic
<1>2. Ascending(<<n + 1>>)
  BY DEF Ascending
<1>3. Before(s, <<n + 1>>)
  BY ElementOfSeq DEF Before
<1> QED
  BY <1>1, <1>2, <1>3, AscendingConcat

LEMMA HeadThenTail ==
    ASSUME NEW S, NEW s \in Seq(S), s # <<>>
    PROVE  <<Head(s)>> \o Tail(s) = s
  OBVIOUS

(***************************************************************************)
(* Concatenations of numbers, regrouped.                                   *)
(***************************************************************************)
LEMMA Assoc ==
    ASSUME NEW s \in Seq(Nat), NEW t \in Seq(Nat), NEW u \in Seq(Nat)
    PROVE  s \o (t \o u) = s \o t \o u
  OBVIOUS

LEMMA MovedOn ==
    ASSUME NEW s \in Seq(Nat), NEW q \in Seq(Nat), q # <<>>
    PROVE  s \o <<Head(q)>> \o Tail(q) = s \o q
<1>1. Head(q) \in Nat /\ Tail(q) \in Seq(Nat)
  BY HeadTailProperties
<1>2. <<Head(q)>> \in Seq(Nat)
  BY ONLY <1>1
<1>3. s \o (<<Head(q)>> \o Tail(q)) = s \o <<Head(q)>> \o Tail(q)
  BY ONLY <1>1, <1>2, Assoc, s \in Seq(Nat)
<1>4. <<Head(q)>> \o Tail(q) = q
  BY HeadThenTail
<1> QED
  BY ONLY <1>3, <1>4

LEMMA AppendedOn ==
    ASSUME NEW s \in Seq(Nat), NEW q \in Seq(Nat), NEW e \in Nat
    PROVE  s \o Append(q, e) = s \o q \o <<e>>
<1>1. <<e>> \in Seq(Nat) /\ Append(q, e) = q \o <<e>>
  BY AppendIsConcat
<1> QED
  BY <1>1, Assoc

\* Whatever t follows, it may follow the second sequence if it may follow the first.
Weakens(a, b) == /\ Ascending(a) => Ascending(b)
                 /\ \A t \in Seq(Nat) : Before(a, t) => Before(b, t)

LEMMA WeakensPrefix ==
    ASSUME NEW s \in Seq(Nat), NEW t \in Seq(Nat)
    PROVE  Weakens(s \o t, s)
  BY AscendingConcat, BeforeConcat DEF Weakens

LEMMA WeakensOn ==
    ASSUME NEW a \in Seq(Nat), NEW b \in Seq(Nat), NEW t \in Seq(Nat), Weakens(a, b)
    PROVE  /\ Weakens(a \o t, b \o t)
           /\ a \o t \in Seq(Nat) /\ b \o t \in Seq(Nat)
<1>1. a \o t \in Seq(Nat) /\ b \o t \in Seq(Nat)
  BY ConcatProperties
<1>2. ASSUME Ascending(a \o t) PROVE Ascending(b \o t)
  BY <1>2, AscendingConcat DEF Weakens
<1>3. ASSUME NEW u \in Seq(Nat), Before(a \o t, u) PROVE Before(b \o t, u)
  BY <1>3, BeforeConcat DEF Weakens
<1> QED
  BY <1>1, <1>2, <1>3 DEF Weakens

-------------------------------------------------------------------------------
(***************************************************************************)
(* A pipeline of six stretches, and what a step may do to it: append above *)
(* everything, move a deal from the front of one stretch to the end of the *)
(* one before, or take a stretch out.                                      *)
(***************************************************************************)
Pipe(r, x, ch, d, h, q) == r \o x \o ch \o d \o h \o q

LEMMA PipePush ==
    ASSUME NEW r \in Seq(Nat), NEW x \in Seq(Nat), NEW ch \in Seq(Nat),
           NEW d \in Seq(Nat), NEW h \in Seq(Nat), NEW q \in Seq(Nat), NEW n \in Nat,
           Pipe(r, x, ch, d, h, q) \in Seq(1 .. n), Ascending(Pipe(r, x, ch, d, h, q))
    PROVE  Ascending(Pipe(r, x, ch, d, h, Append(q, n + 1)))
<1>1. r \o x \o ch \o d \o h \in Seq(Nat)
  BY ConcatProperties
<1>2. (r \o x \o ch \o d \o h) \o Append(q, n + 1)
      = (r \o x \o ch \o d \o h) \o q \o <<n + 1>>
  BY ONLY <1>1, AppendedOn, q \in Seq(Nat), n + 1 \in Nat
<1>3. Pipe(r, x, ch, d, h, Append(q, n + 1)) = Pipe(r, x, ch, d, h, q) \o <<n + 1>>
  BY <1>2 DEF Pipe
<1> QED
  BY <1>3, AscendingAppend

LEMMA PipeTake ==
    ASSUME NEW r \in Seq(Nat), NEW x \in Seq(Nat), NEW ch \in Seq(Nat),
           NEW q \in Seq(Nat), q # <<>>, Ascending(Pipe(r, x, ch, <<>>, <<>>, q))
    PROVE  Ascending(Pipe(r, x, ch, <<>>, <<Head(q)>>, Tail(q)))
<1>1. r \o x \o ch \in Seq(Nat)
  BY ConcatProperties
<1>2. r \o x \o ch \o <<>> = r \o x \o ch
  BY <1>1, ConcatEmptySeq
<1>3. (r \o x \o ch) \o <<Head(q)>> \o Tail(q) = (r \o x \o ch) \o q
  BY <1>1, MovedOn
<1> QED
  BY <1>2, <1>3 DEF Pipe

LEMMA PipeLock ==
    ASSUME NEW r \in Seq(Nat), NEW x \in Seq(Nat), NEW ch \in Seq(Nat),
           NEW h \in Seq(Nat), NEW q \in Seq(Nat),
           Ascending(Pipe(r, x, ch, <<>>, h, q))
    PROVE  /\ Ascending(Pipe(r, x, ch, h, <<>>, q))
           /\ Ascending(Pipe(r, x, ch, <<>>, <<>>, q))
<1> DEFINE stream == r \o x \o ch
<1>1. stream \in Seq(Nat) /\ stream \o h \in Seq(Nat)
  BY ConcatProperties
<1> HIDE DEF stream
<1>2. /\ stream \o <<>> \o h \o q = stream \o h \o q
      /\ stream \o h \o <<>> \o q = stream \o h \o q
      /\ stream \o <<>> \o <<>> \o q = stream \o q
  BY <1>1, ConcatEmptySeq
<1>3. Ascending(stream \o h \o q)
  BY <1>2 DEF Pipe, stream
<1>4. Ascending(stream \o q)
  BY <1>1, <1>3, AscendingSkip
<1> QED
  BY <1>2, <1>3, <1>4 DEF Pipe, stream

LEMMA PipeHand ==
    ASSUME NEW r \in Seq(Nat), NEW x \in Seq(Nat), NEW ch \in Seq(Nat),
           NEW e \in Nat, NEW q \in Seq(Nat),
           Ascending(Pipe(r, x, ch, <<e>>, <<>>, q))
    PROVE  /\ Ascending(Pipe(r, x, Append(ch, e), <<>>, <<>>, q))
           /\ Ascending(Pipe(r, x, ch, <<>>, <<>>, q))
<1>1. /\ r \o x \in Seq(Nat) /\ r \o x \o ch \in Seq(Nat) /\ <<e>> \in Seq(Nat)
      /\ r \o x \o ch \o <<e>> \in Seq(Nat)
  BY ConcatProperties
<1>2. (r \o x) \o Append(ch, e) = (r \o x) \o ch \o <<e>>
  BY <1>1, AppendedOn
<1>3. /\ r \o x \o ch \o <<e>> \o <<>> = r \o x \o ch \o <<e>>
      /\ r \o x \o ch \o <<>> = r \o x \o ch
  BY <1>1, ConcatEmptySeq
<1>4. Ascending(r \o x \o ch \o <<e>> \o q)
  BY <1>3 DEF Pipe
<1>5. Ascending(r \o x \o ch \o q)
  BY <1>1, <1>4, AscendingSkip
<1> QED
  BY <1>2, <1>3, <1>4, <1>5 DEF Pipe

LEMMA PipeServe ==
    ASSUME NEW r \in Seq(Nat), NEW ch \in Seq(Nat), ch # <<>>, NEW d, NEW h, NEW q,
           Ascending(Pipe(r, <<>>, ch, d, h, q))
    PROVE  Ascending(Pipe(r, <<Head(ch)>>, Tail(ch), d, h, q))
<1>1. r \o <<Head(ch)>> \o Tail(ch) = r \o ch
  BY MovedOn
<1>2. r \o <<>> = r
  BY ConcatEmptySeq
<1> QED
  BY <1>1, <1>2 DEF Pipe

LEMMA PipeSent ==
    ASSUME NEW r \in Seq(Nat), NEW x \in Seq(Nat), NEW ch \in Seq(Nat),
           NEW d \in Seq(Nat), NEW h \in Seq(Nat), NEW q \in Seq(Nat),
           Ascending(Pipe(r, x, ch, d, h, q))
    PROVE  /\ Ascending(Pipe(r \o x, <<>>, ch, d, h, q))
           /\ Ascending(Pipe(r, <<>>, ch, d, h, q))
<1>1. r \o x \in Seq(Nat) /\ Weakens(r \o x, r)
  BY ConcatProperties, WeakensPrefix
<1>2. /\ Weakens(r \o x \o ch, r \o ch)
      /\ r \o x \o ch \in Seq(Nat) /\ r \o ch \in Seq(Nat)
  BY <1>1, WeakensOn
<1>3. /\ Weakens(r \o x \o ch \o d, r \o ch \o d)
      /\ r \o x \o ch \o d \in Seq(Nat) /\ r \o ch \o d \in Seq(Nat)
  BY <1>2, WeakensOn
<1>4. /\ Weakens(r \o x \o ch \o d \o h, r \o ch \o d \o h)
      /\ r \o x \o ch \o d \o h \in Seq(Nat) /\ r \o ch \o d \o h \in Seq(Nat)
  BY <1>3, WeakensOn
<1>5. Weakens(r \o x \o ch \o d \o h \o q, r \o ch \o d \o h \o q)
  BY <1>4, WeakensOn
<1>6. r \o x \o <<>> = r \o x /\ r \o <<>> = r
  BY <1>1, ConcatEmptySeq
<1>7. /\ Pipe(r \o x, <<>>, ch, d, h, q) = Pipe(r, x, ch, d, h, q)
      /\ Pipe(r, <<>>, ch, d, h, q) = r \o ch \o d \o h \o q
  BY <1>6 DEF Pipe
<1> QED
  BY <1>5, <1>7 DEF Pipe, Weakens

-------------------------------------------------------------------------------
(***************************************************************************)
(* Types.                                                                  *)
(***************************************************************************)
USE CapAssumption, MaxDealsAssumption

\* A hand holds nothing or one deal.
LEMMA AtMostOneIsSeq ==
    ASSUME NEW s \in AtMostOne
    PROVE  s \in Seq(Deals) /\ (s # <<>> => s = <<s[1]>> /\ s[1] \in Deals)
<1>1. CASE s = <<>>
  BY <1>1
<1>2. ASSUME NEW d \in Deals, s = <<d>>
      PROVE  s \in Seq(Deals) /\ s = <<s[1]>> /\ s[1] \in Deals
  BY <1>2
<1> QED
  BY <1>1, <1>2 DEF AtMostOne

LEMMA InitType == Init => TypeOK
  BY DEF Init, TypeOK, Deals, AtMostOne

LEMMA SaveDealType == TypeOK /\ SaveDeal => TypeOK'
<1> SUFFICES ASSUME TypeOK, SaveDeal PROVE TypeOK'
  OBVIOUS
<1>1. /\ saved' \in 0 .. MaxDeals /\ accepted' \in 0 .. saved'
      /\ accepted' \in Nat /\ Deals \subseteq Deals'
  BY DEF TypeOK, SaveDeal, Deals
<1>2. AtMostOne \subseteq AtMostOne'
  BY <1>1 DEF AtMostOne
<1>3. dealChannel \in Seq(Deals') /\ channels \in [Streams -> Seq(Deals')]
      /\ received \in [Streams -> Seq(Deals')] /\ owed \in [Streams -> SUBSET Deals']
  BY <1>1, SeqMonotonic DEF TypeOK
<1>4. dealChannel' \in Seq(Deals') /\ Len(dealChannel') <= DealCap
  <2>1. CASE HasRoom(dealChannel, DealCap)
    <3>1. accepted + 1 \in Deals'
      BY <2>1 DEF SaveDeal, TypeOK, Deals
    <3>2. dealChannel' = Append(dealChannel, accepted + 1) /\ Len(dealChannel) < DealCap
      BY <2>1 DEF SaveDeal, HasRoom
    <3>3. dealChannel' \in Seq(Deals') /\ Len(dealChannel') = Len(dealChannel) + 1
      BY <1>3, <3>1, <3>2, AppendProperties
    <3> QED
      BY <1>3, <3>2, <3>3, LenProperties
  <2>2. CASE ~HasRoom(dealChannel, DealCap)
    BY <1>3, <2>2 DEF SaveDeal, TypeOK
  <2> QED
    BY <2>1, <2>2
<1> QED
  BY <1>1, <1>2, <1>3, <1>4 DEF TypeOK, SaveDeal, callVars

LEMMA ConsumeType ==
    ASSUME TypeOK, StartConsume \/ Take \/ RLock \/ RUnlock
    PROVE  TypeOK'
<1>1. CASE StartConsume
  BY <1>1 DEF TypeOK, StartConsume, callVars, Deals, AtMostOne
<1>2. CASE Take
  BY <1>2 DEF TypeOK, Take, callVars, Deals, AtMostOne
<1>3. CASE RLock
  BY <1>3 DEF TypeOK, RLock, callVars, Deals, AtMostOne
<1>4. CASE RUnlock
  BY <1>4 DEF TypeOK, RUnlock, callVars, Deals, AtMostOne
<1> QED
  BY <1>1, <1>2, <1>3, <1>4

LEMMA HandType == ASSUME TypeOK, NEW c \in Streams, Hand(c) PROVE TypeOK'
  BY DEF TypeOK, Hand, HasRoom, Deals, AtMostOne

LEMMA CallType ==
    ASSUME TypeOK, NEW c \in Streams, SubscribeDeals(c)
    PROVE  TypeOK'
<1>1. CASE Enter(c)
  BY <1>1 DEF TypeOK, Enter, consumeVars, Deals, AtMostOne
<1>2. CASE Subscribe(c)
  BY <1>2 DEF TypeOK, Subscribe, Unlocked, consumeVars, Deals, AtMostOne
<1>3. CASE Serve(c)
  BY <1>3 DEF TypeOK, Serve, consumeVars, Deals, AtMostOne
<1>4. CASE SeeDone(c)
  BY <1>4 DEF TypeOK, SeeDone, consumeVars, Deals, AtMostOne
<1>5. CASE Sent(c)
  <2>1. sending[c] \in Seq(Deals) /\ received[c] \in Seq(Deals)
    BY AtMostOneIsSeq DEF TypeOK
  <2>2. received[c] \o sending[c] \in Seq(Deals)
    BY <2>1, ConcatProperties
  <2> QED
    BY <1>5, <2>2 DEF TypeOK, Sent, consumeVars, Deals, AtMostOne
<1>6. CASE SendFails(c)
  BY <1>6 DEF TypeOK, SendFails, consumeVars, Deals, AtMostOne
<1>7. CASE UnSubscribe(c)
  BY <1>7 DEF TypeOK, UnSubscribe, Unlocked, consumeVars, Deals, AtMostOne
<1>8. CASE Disconnect(c)
  BY <1>8 DEF TypeOK, Disconnect, Active, consumeVars, Deals, AtMostOne
<1> QED
  BY <1>1, <1>2, <1>3, <1>4, <1>5, <1>6, <1>7, <1>8 DEF SubscribeDeals

LEMMA NextType == TypeOK /\ [Next]_vars => TypeOK'
<1> SUFFICES ASSUME TypeOK, [Next]_vars PROVE TypeOK'
  OBVIOUS
<1>1. CASE Interrupt \/ Exit
  BY <1>1 DEF TypeOK, Interrupt, Exit, consumeVars, callVars, Deals, AtMostOne
<1>2. CASE UNCHANGED vars
  BY <1>2 DEF TypeOK, vars, Deals, AtMostOne
<1> QED
  BY <1>1, <1>2, SaveDealType, ConsumeType, HandType, CallType
     DEF Next, Consume, Exited

\* No channel of any capacity ever holds more than its places, the loop of Consume
\* visits subscribers only, and the map holds exactly the calls between Subscribe
\* and UnSubscribe.
THEOREM FanoutTypeCorrect == Spec => []TypeOK
  BY InitType, NextType, PTL DEF Spec

-------------------------------------------------------------------------------
(***************************************************************************)
(* The order of the deals.  StreamsAscend is inductive with the types: a   *)
(* step moves a deal along a pipeline, takes one out, or appends a new one *)
(* at the end.                                                             *)
(***************************************************************************)
DueTo(c) == IF c \in due THEN held ELSE <<>>
Holding == IF consumer = "holding" THEN held ELSE <<>>

LEMMA Segments ==
    ASSUME TypeOK, NEW c \in Streams
    PROVE  /\ received[c] \in Seq(Nat) /\ sending[c] \in Seq(Nat)
           /\ channels[c] \in Seq(Nat) /\ DueTo(c) \in Seq(Nat)
           /\ Holding \in Seq(Nat) /\ dealChannel \in Seq(Nat)
           /\ Pipeline(c) \in Seq(Deals)
           /\ Pipeline(c) = Pipe(received[c], sending[c], channels[c], DueTo(c),
                                 Holding, dealChannel)
<1>1. Deals \subseteq Nat
  BY DEF Deals
<1>2. /\ received[c] \in Seq(Deals) /\ sending[c] \in Seq(Deals)
      /\ channels[c] \in Seq(Deals) /\ DueTo(c) \in Seq(Deals)
      /\ Holding \in Seq(Deals) /\ dealChannel \in Seq(Deals)
  BY AtMostOneIsSeq DEF TypeOK, DueTo, Holding
<1>3. Pipeline(c) = received[c] \o sending[c] \o channels[c] \o DueTo(c)
                    \o Holding \o dealChannel
  BY DEF Pipeline, StreamOf, DueTo, Holding
<1> QED
  BY <1>1, <1>2, <1>3, SeqMonotonic, ConcatProperties DEF Pipe

LEMMA NextSegments ==
    ASSUME NEW c \in Streams
    PROVE  Pipeline(c)' = Pipe(received[c]', sending[c]', channels[c]', DueTo(c)',
                               Holding', dealChannel')
  BY DEF Pipe, Pipeline, StreamOf, DueTo, Holding

LEMMA SaveDealAscends ==
    ASSUME TypeOK, StreamsAscend, SaveDeal, NEW c \in Streams
    PROVE  Ascending(Pipeline(c))'
<1>1. /\ received[c]' = received[c] /\ sending[c]' = sending[c]
      /\ channels[c]' = channels[c] /\ DueTo(c)' = DueTo(c) /\ Holding' = Holding
  BY DEF SaveDeal, callVars, DueTo, Holding
<1>2. CASE HasRoom(dealChannel, DealCap)
  <2>1. dealChannel' = Append(dealChannel, accepted + 1) /\ accepted \in Nat
    BY <1>2 DEF SaveDeal, TypeOK
  <2>2. /\ Pipe(received[c], sending[c], channels[c], DueTo(c), Holding, dealChannel)
              \in Seq(1 .. accepted)
        /\ Ascending(Pipe(received[c], sending[c], channels[c], DueTo(c), Holding,
                          dealChannel))
    BY Segments DEF StreamsAscend, Deals
  <2>3. Ascending(Pipe(received[c], sending[c], channels[c], DueTo(c), Holding,
                       Append(dealChannel, accepted + 1)))
    BY <2>1, <2>2, Segments, PipePush
  <2> QED
    BY <1>1, <2>1, <2>3, NextSegments
<1>3. CASE ~HasRoom(dealChannel, DealCap)
  <2>1. dealChannel' = dealChannel
    BY <1>3 DEF SaveDeal
  <2> QED
    BY <1>1, <2>1, Segments, NextSegments DEF StreamsAscend
<1> QED
  BY <1>2, <1>3

LEMMA ConsumeAscends ==
    ASSUME TypeOK, StreamsAscend, StartConsume \/ Take \/ RLock \/ RUnlock,
           NEW c \in Streams
    PROVE  Ascending(Pipeline(c))'
<1>1. /\ received[c]' = received[c] /\ sending[c]' = sending[c]
      /\ channels[c]' = channels[c]
  BY DEF StartConsume, Take, RLock, RUnlock, callVars
<1>2. CASE StartConsume \/ RUnlock
  <2>1. DueTo(c)' = DueTo(c) /\ Holding' = Holding /\ dealChannel' = dealChannel
    BY <1>2 DEF StartConsume, RUnlock, TypeOK, DueTo, Holding
  <2> QED
    BY <1>1, <2>1, Segments, NextSegments DEF StreamsAscend
<1>3. CASE Take
  <2>1. /\ DueTo(c) = <<>> /\ DueTo(c)' = <<>> /\ Holding = <<>>
        /\ dealChannel # <<>>
        /\ Holding' = <<Head(dealChannel)>> /\ dealChannel' = Tail(dealChannel)
    BY <1>3 DEF Take, TypeOK, DueTo, Holding
  <2> QED
    BY <1>1, <2>1, Segments, NextSegments, PipeTake DEF StreamsAscend
<1>4. CASE RLock
  <2>1. /\ DueTo(c) = <<>> /\ Holding = held /\ Holding' = <<>>
        /\ dealChannel' = dealChannel
        /\ DueTo(c)' = held \/ DueTo(c)' = <<>>
    BY <1>4 DEF RLock, TypeOK, DueTo, Holding
  <2> QED
    BY <1>1, <2>1, Segments, NextSegments, PipeLock DEF StreamsAscend
<1> QED
  BY <1>2, <1>3, <1>4

LEMMA HandAscends ==
    ASSUME TypeOK, StreamsAscend, NEW b \in Streams, Hand(b), NEW c \in Streams
    PROVE  Ascending(Pipeline(c))'
<1>1. /\ received[c]' = received[c] /\ sending[c]' = sending[c]
      /\ Holding = <<>> /\ Holding' = <<>> /\ dealChannel' = dealChannel
  BY DEF Hand, Holding
<1>2. CASE b # c
  <2>1. channels[c]' = channels[c] /\ DueTo(c)' = DueTo(c)
    BY <1>2 DEF Hand, TypeOK, DueTo
  <2> QED
    BY <1>1, <2>1, Segments, NextSegments DEF StreamsAscend
<1>3. CASE b = c
  <2>1. /\ DueTo(c) = <<held[1]>> /\ DueTo(c)' = <<>> /\ held[1] \in Nat
    BY <1>3, AtMostOneIsSeq DEF Hand, DueTo, TypeOK, Deals
  <2>2. channels[c]' = Append(channels[c], held[1]) \/ channels[c]' = channels[c]
    BY <1>3 DEF Hand, TypeOK
  <2>3. Ascending(Pipe(received[c], sending[c], channels[c], <<held[1]>>, <<>>,
                       dealChannel))
    BY <1>1, <2>1, Segments DEF StreamsAscend
  <2>4. /\ Ascending(Pipe(received[c], sending[c], Append(channels[c], held[1]), <<>>,
                          <<>>, dealChannel))
        /\ Ascending(Pipe(received[c], sending[c], channels[c], <<>>, <<>>, dealChannel))
    BY <2>1, <2>3, Segments, PipeHand
  <2> QED
    BY <1>1, <2>1, <2>2, <2>4, NextSegments
<1> QED
  BY <1>2, <1>3

LEMMA CallAscends ==
    ASSUME TypeOK, StreamsAscend, NEW b \in Streams, SubscribeDeals(b), NEW c \in Streams
    PROVE  Ascending(Pipeline(c))'
<1>1. DueTo(c)' = DueTo(c) /\ Holding' = Holding /\ dealChannel' = dealChannel
  BY DEF SubscribeDeals, Enter, Subscribe, Serve, SeeDone, Sent, SendFails,
         UnSubscribe, Disconnect, consumeVars, DueTo, Holding
<1>2. CASE UNCHANGED <<received[c], sending[c], channels[c]>>
  BY <1>1, <1>2, Segments, NextSegments DEF StreamsAscend
<1>3. CASE b = c /\ Serve(c)
  <2>1. /\ received[c]' = received[c] /\ sending[c] = <<>> /\ channels[c] # <<>>
        /\ sending[c]' = <<Head(channels[c])>> /\ channels[c]' = Tail(channels[c])
    BY <1>3 DEF Serve, TypeOK
  <2> QED
    BY <1>1, <2>1, Segments, NextSegments, PipeServe DEF StreamsAscend
<1>4. CASE b = c /\ (Sent(c) \/ SendFails(c))
  <2>1. /\ received[c]' = received[c] \o sending[c] \/ received[c]' = received[c]
        /\ sending[c]' = <<>> /\ channels[c]' = channels[c]
    BY <1>4 DEF Sent, SendFails, TypeOK
  <2>2. /\ Ascending(Pipe(received[c] \o sending[c], <<>>, channels[c], DueTo(c),
                          Holding, dealChannel))
        /\ Ascending(Pipe(received[c], <<>>, channels[c], DueTo(c), Holding, dealChannel))
    BY Segments, PipeSent DEF StreamsAscend
  <2> QED
    BY <1>1, <2>1, <2>2, NextSegments
<1>5. \/ UNCHANGED <<received[c], sending[c], channels[c]>>
      \/ b = c /\ (Serve(c) \/ Sent(c) \/ SendFails(c))
  BY DEF SubscribeDeals, Enter, Subscribe, Serve, SeeDone, Sent, SendFails,
         UnSubscribe, Disconnect, TypeOK
<1> QED
  BY <1>2, <1>3, <1>4, <1>5

LEMMA NextAscends == TypeOK /\ StreamsAscend /\ [Next]_vars => StreamsAscend'
<1> SUFFICES ASSUME TypeOK, StreamsAscend, [Next]_vars, NEW c \in Streams
             PROVE  Ascending(Pipeline(c))'
  BY DEF StreamsAscend
<1>1. CASE Interrupt \/ Exit \/ UNCHANGED vars
  <2>1. Pipeline(c)' = Pipeline(c)
    BY <1>1 DEF Interrupt, Exit, vars, consumeVars, callVars, Pipeline, StreamOf
  <2> QED
    BY <2>1 DEF StreamsAscend
<1> QED
  BY <1>1, SaveDealAscends, ConsumeAscends, HandAscends, CallAscends
     DEF Next, Consume, Exited

\* However many clients come, stall and leave, and whatever the channels hold, each
\* client sees the deals in the order they were accepted and no deal twice.
THEOREM DealsArriveInOrder == Spec => []StreamsAscend
<1>1. Init => StreamsAscend
  BY DEF Init, StreamsAscend, Ascending, Pipeline, StreamOf
<1> QED
  BY <1>1, NextAscends, FanoutTypeCorrect, PTL DEF Spec

USE CapAssumption, MaxDealsAssumption

-------------------------------------------------------------------------------
(***************************************************************************)
(* Sequences as the sets of their elements.                                *)
(***************************************************************************)
LEMMA RangeOfConcat ==
    ASSUME NEW s \in Seq(Nat), NEW t \in Seq(Nat)
    PROVE  s \o t \in Seq(Nat) /\ Range(s \o t) = Range(s) \cup Range(t)
BY ConcatProperties, RangeConcatenation

LEMMA RangeOfShort == Range(<<>>) = {} /\ \A e : Range(<<e>>) = {e}
BY DEF Range

LEMMA RangeOfAppend ==
    ASSUME NEW s \in Seq(Nat), NEW e \in Nat
    PROVE  Range(Append(s, e)) = Range(s) \cup {e}
<1>1. Append(s, e) = s \o <<e>> /\ <<e>> \in Seq(Nat)
  OBVIOUS
<1> QED
  BY <1>1, RangeOfConcat, RangeOfShort

LEMMA RangeOfTail ==
    ASSUME NEW s \in Seq(Nat), s # <<>>
    PROVE  Range(s) = {Head(s)} \cup Range(Tail(s))
<1>1. s = <<Head(s)>> \o Tail(s)
  BY HeadThenTail
<1>2. Head(s) \in Nat /\ Tail(s) \in Seq(Nat)
  BY HeadTailProperties
<1>3. <<Head(s)>> \in Seq(Nat)
  BY <1>2
<1>4. Range(<<Head(s)>> \o Tail(s)) = Range(<<Head(s)>>) \cup Range(Tail(s))
  BY ONLY <1>2, <1>3, RangeOfConcat
<1> QED
  BY <1>1, <1>4, RangeOfShort

\* An ascending sequence has as many elements as places.
LEMMA AscendingCount ==
    ASSUME NEW s \in Seq(Nat), Ascending(s), NEW T, IsFiniteSet(T), Range(s) \subseteq T
    PROVE  Len(s) <= Cardinality(T)
<1>1. s \in [1 .. Len(s) -> T]
  <2>1. \A i \in 1 .. Len(s) : s[i] \in T
    BY RangeEquality
  <2>2. s = [i \in 1 .. Len(s) |-> s[i]]
    OBVIOUS
  <2> QED
    BY <2>1, <2>2
<1>2. s \in Injection(1 .. Len(s), T)
  BY <1>1 DEF Injection, IsInjective, Ascending
<1>3. Cardinality(1 .. Len(s)) = Len(s)
  <2>1. Len(s) \in Nat
    OBVIOUS
  <2>2. Cardinality(1 .. Len(s)) = IF 1 > Len(s) THEN 0 ELSE Len(s) - 1 + 1
    BY <2>1, FS_Interval
  <2> QED
    BY <2>1, <2>2
<1> QED
  BY <1>2, <1>3, FS_Injection

-------------------------------------------------------------------------------
(***************************************************************************)
(* The deals of a client: those in its stream, and those on their way.     *)
(***************************************************************************)
Reached(c) == Range(received[c]) \cup Range(sending[c]) \cup Range(channels[c])

OnWay(c) == Range(DueTo(c)) \cup Range(Holding) \cup Range(dealChannel)

Earlier(c, d) == {e \in Reached(c) : e < d}

NotMissed(c, d) ==
    d \in Reached(c) \cup OnWay(c) \/ Cardinality(Earlier(c, d)) >= ClientCap

\* Who is not subscribed has left, or is owed nothing yet.
StrangersAreOwedNothing ==
    \A c \in Streams \ gone : /\ c \notin subscribers => owed[c] = {}
                              /\ call[c] \notin {"leaving", "ended"}

NoneMissed == \A c \in Streams \ gone : \A d \in owed[c] : NotMissed(c, d)

GapsInv == TypeOK /\ StreamsAscend /\ StrangersAreOwedNothing /\ NoneMissed

LEMMA PipelineSets ==
    ASSUME TypeOK, NEW c \in Streams
    PROVE  /\ Range(StreamOf(c)) = Reached(c)
           /\ Range(Pipeline(c)) = Reached(c) \cup OnWay(c)
           /\ Reached(c) \subseteq Deals
<1>1. /\ received[c] \in Seq(Nat) /\ sending[c] \in Seq(Nat) /\ channels[c] \in Seq(Nat)
      /\ DueTo(c) \in Seq(Nat) /\ Holding \in Seq(Nat) /\ dealChannel \in Seq(Nat)
      /\ Pipeline(c) \in Seq(Deals)
      /\ Pipeline(c) = Pipe(received[c], sending[c], channels[c], DueTo(c), Holding,
                            dealChannel)
  BY Segments
<1>2. StreamOf(c) \in Seq(Nat) /\ Range(StreamOf(c)) = Reached(c)
  <2>1. received[c] \o sending[c] \in Seq(Nat)
        /\ Range(received[c] \o sending[c]) = Range(received[c]) \cup Range(sending[c])
    BY <1>1, RangeOfConcat
  <2> QED
    BY <1>1, <2>1, RangeOfConcat DEF StreamOf, Reached
<1>3. /\ StreamOf(c) \o DueTo(c) \in Seq(Nat)
      /\ Range(StreamOf(c) \o DueTo(c)) = Reached(c) \cup Range(DueTo(c))
  BY <1>1, <1>2, RangeOfConcat
<1>4. /\ StreamOf(c) \o DueTo(c) \o Holding \in Seq(Nat)
      /\ Range(StreamOf(c) \o DueTo(c) \o Holding)
            = Reached(c) \cup Range(DueTo(c)) \cup Range(Holding)
  BY <1>1, <1>3, RangeOfConcat
<1>5. Pipeline(c) = StreamOf(c) \o DueTo(c) \o Holding \o dealChannel
  BY DEF Pipeline, DueTo, Holding
<1>6. Range(Pipeline(c)) = Reached(c) \cup OnWay(c)
  <2> DEFINE upper == StreamOf(c) \o DueTo(c) \o Holding
  <2>1. upper \in Seq(Nat) /\ dealChannel \in Seq(Nat)
    BY <1>1, <1>4
  <2>2. Range(upper \o dealChannel) = Range(upper) \cup Range(dealChannel)
    BY ONLY <2>1, RangeOfConcat
  <2> QED
    BY <1>4, <1>5, <2>2 DEF OnWay
<1> QED
  BY <1>1, <1>2, <1>6, RangeOfSeq

LEMMA GapsFollow == GapsInv => GapsNeedAFullChannel
<1> SUFFICES ASSUME GapsInv, NEW c \in Streams \ gone, NEW d \in owed[c]
             PROVE  \/ d \in Range(Pipeline(c))
                    \/ Cardinality({e \in Range(StreamOf(c)) : e < d}) >= ClientCap
  BY DEF GapsNeedAFullChannel
<1> QED
  BY PipelineSets DEF GapsInv, NoneMissed, NotMissed, Earlier

-------------------------------------------------------------------------------
(***************************************************************************)
(* The steps.                                                              *)
(***************************************************************************)
\* What reached a client stays with it while it stays.
LEMMA KeptNotMissed ==
    ASSUME TypeOK', NEW c \in Streams, NEW d, NotMissed(c, d),
           Reached(c) \subseteq Reached(c)', Reached(c)' \subseteq Deals',
           d \in OnWay(c) => d \in Reached(c)' \cup OnWay(c)'
    PROVE  NotMissed(c, d)'
<1>1. IsFiniteSet(Deals')
  BY FS_Interval DEF TypeOK, Deals
<1>2. Earlier(c, d)' \subseteq Deals' /\ Earlier(c, d) \subseteq Earlier(c, d)'
  BY DEF Earlier
<1>3. IsFiniteSet(Earlier(c, d)')
  BY <1>1, <1>2, FS_Subset
<1>4. /\ Cardinality(Earlier(c, d)) <= Cardinality(Earlier(c, d)')
      /\ Cardinality(Earlier(c, d)) \in Nat /\ Cardinality(Earlier(c, d)') \in Nat
  BY <1>2, <1>3, FS_Subset, FS_CardinalityType
<1>5. CASE d \in Reached(c) \cup OnWay(c)
  BY <1>5 DEF NotMissed
<1>6. CASE Cardinality(Earlier(c, d)) >= ClientCap
  BY <1>4, <1>6 DEF NotMissed
<1> QED
  BY <1>5, <1>6 DEF NotMissed

\* The turn of c: its deal gets into the channel, or the channel is full of others.
LEMMA HandNotMissed ==
    ASSUME GapsInv, TypeOK', NEW c \in Streams, Hand(c), NEW d \in Nat, NotMissed(c, d),
           Reached(c)' \subseteq Deals'
    PROVE  NotMissed(c, d)'
<1>1. /\ received[c]' = received[c] /\ sending[c]' = sending[c]
      /\ Holding = <<>> /\ Holding' = <<>> /\ dealChannel' = dealChannel
      /\ DueTo(c)' = <<>>
  BY DEF Hand, Holding, DueTo
<1>2. DueTo(c) = <<held[1]>> /\ held[1] \in Nat /\ Range(DueTo(c)) = {held[1]}
  BY AtMostOneIsSeq, RangeOfShort DEF GapsInv, Hand, DueTo, TypeOK, Deals
<1>3. CASE HasRoom(channels[c], ClientCap)
  <2>1. channels'[c] = Append(channels[c], held[1])
    BY <1>3 DEF Hand, GapsInv, TypeOK
  <2>2. Range(channels'[c]) = Range(channels[c]) \cup {held[1]}
    BY <1>2, <2>1, RangeOfAppend, Segments DEF GapsInv
  <2>3. Reached(c) \subseteq Reached(c)' /\ (d \in OnWay(c) => d \in Reached(c)' \cup OnWay(c)')
    BY <1>1, <1>2, <2>2 DEF Reached, OnWay
  <2> QED
    BY <2>3, KeptNotMissed
<1>4. CASE ~HasRoom(channels[c], ClientCap)
  <2>1. channels'[c] = channels[c] /\ Len(channels[c]) >= ClientCap
    <3>1. Len(channels[c]) \in Nat
      BY Segments DEF GapsInv
    <3> QED
      BY <1>4, <3>1 DEF Hand, HasRoom
  <2>2. Reached(c)' = Reached(c)
    BY <1>1, <2>1 DEF Reached
  <2>3. CASE d # held[1]
    <3>1. d \in OnWay(c) => d \in OnWay(c)'
      BY <1>1, <1>2, <2>3 DEF OnWay
    <3> QED
      BY <2>2, <3>1, KeptNotMissed
  <2>4. CASE d = held[1]
    <3>1. Ascending(Pipe(received[c], sending[c], channels[c], <<held[1]>>, <<>>, dealChannel))
      BY <1>1, <1>2, Segments DEF GapsInv, StreamsAscend
    <3>2. Ascending(channels[c]) /\ Before(channels[c], <<held[1]>>)
      <4> DEFINE front == received[c] \o sending[c]
      <4>1. /\ front \in Seq(Nat) /\ front \o channels[c] \in Seq(Nat) /\ <<held[1]>> \in Seq(Nat)
            /\ channels[c] \in Seq(Nat) /\ dealChannel \in Seq(Nat) /\ <<>> \in Seq(Nat)
        BY <1>2, Segments, ConcatProperties DEF GapsInv
      <4>2. front \o channels[c] \o <<held[1]>> \in Seq(Nat)
        BY <4>1, ConcatProperties
      <4>3. front \o channels[c] \o <<held[1]>> \o <<>> = front \o channels[c] \o <<held[1]>>
        BY <4>2, ConcatEmptySeq
      <4>4. Ascending(front \o channels[c] \o <<held[1]>>)
        BY <3>1, <4>1, <4>2, <4>3, AscendingConcat DEF Pipe
      <4>5. Ascending(front \o channels[c]) /\ Before(front \o channels[c], <<held[1]>>)
        BY <4>1, <4>4, AscendingConcat
      <4> HIDE DEF front
      <4> QED
        BY <4>1, <4>5, AscendingConcat, BeforeConcat
    <3>3. Range(channels[c]) \subseteq Earlier(c, d)'
      <4>1. \A i \in 1 .. Len(channels[c]) : channels[c][i] < d
        BY <2>4, <3>2 DEF Before
      <4>2. Range(channels[c]) \subseteq Reached(c)'
        BY <2>2 DEF Reached
      <4>3. Range(channels[c]) = {channels[c][i] : i \in 1 .. Len(channels[c])}
        BY Segments, RangeEquality DEF GapsInv
      <4> QED
        BY <4>1, <4>2, <4>3 DEF Earlier
    <3>4. IsFiniteSet(Earlier(c, d)')
      <4>1. IsFiniteSet(Deals') /\ Earlier(c, d)' \subseteq Deals'
        BY FS_Interval DEF TypeOK, Deals, Earlier
      <4> QED
        BY <4>1, FS_Subset
    <3>5. Len(channels[c]) <= Cardinality(Earlier(c, d)') /\ Cardinality(Earlier(c, d)') \in Nat
      BY <3>2, <3>3, <3>4, AscendingCount, FS_CardinalityType, Segments DEF GapsInv
    <3>6. Cardinality(Earlier(c, d)') >= ClientCap
      <4>1. Len(channels[c]) \in Nat
        BY Segments DEF GapsInv
      <4> QED
        BY <2>1, <3>5, <4>1
    <3> QED
      BY <3>6 DEF NotMissed
  <2> QED
    BY <2>3, <2>4
<1> QED
  BY <1>3, <1>4

\* A call changes its own client's stream only.
LEMMA CallStream ==
    ASSUME TypeOK, NEW b \in Streams, SubscribeDeals(b), NEW c \in Streams
    PROVE  \/ UNCHANGED <<received[c], sending[c], channels[c]>>
           \/ b = c /\ (Serve(c) \/ Sent(c) \/ SendFails(c))
<1>1. CASE Serve(b)
  BY <1>1 DEF Serve, TypeOK
<1>2. CASE Sent(b) \/ SendFails(b)
  BY <1>2 DEF Sent, SendFails, TypeOK
<1>3. CASE Enter(b) \/ Subscribe(b) \/ SeeDone(b) \/ UnSubscribe(b) \/ Disconnect(b)
  BY <1>3 DEF Enter, Subscribe, SeeDone, UnSubscribe, Disconnect
<1> QED
  BY <1>1, <1>2, <1>3 DEF SubscribeDeals

LEMMA NextReached == TypeOK /\ [Next]_vars => \A c \in Streams : Reached(c)' \subseteq Deals'
<1> SUFFICES ASSUME TypeOK', NEW c \in Streams PROVE Reached(c)' \subseteq Deals'
  BY NextType
<1>1. received'[c] \in Seq(Deals') /\ sending'[c] \in AtMostOne' /\ channels'[c] \in Seq(Deals')
  BY DEF TypeOK
<1>2. Range(received'[c]) \subseteq Deals' /\ Range(channels'[c]) \subseteq Deals'
  BY <1>1, RangeOfSeq
<1>3. Range(sending'[c]) \subseteq Deals'
  BY <1>1, RangeOfShort DEF AtMostOne
<1> QED
  BY <1>2, <1>3 DEF Reached

LEMMA NextStrangers ==
    TypeOK /\ StrangersAreOwedNothing /\ [Next]_vars => StrangersAreOwedNothing'
<1> SUFFICES ASSUME TypeOK, StrangersAreOwedNothing, [Next]_vars, NEW c \in Streams,
                    c \notin gone'
             PROVE  /\ c \notin subscribers' => owed'[c] = {}
                    /\ call'[c] \notin {"leaving", "ended"}
  BY DEF StrangersAreOwedNothing
<1>1. ASSUME UNCHANGED <<subscribers, call, gone>>, owed'[c] = owed[c] \/ c \in subscribers
      PROVE  /\ c \notin subscribers' => owed'[c] = {}
             /\ call'[c] \notin {"leaving", "ended"}
  BY <1>1 DEF StrangersAreOwedNothing
<1>2. ASSUME NEW b \in Streams, SubscribeDeals(b)
      PROVE  /\ c \notin subscribers' => owed'[c] = {}
             /\ call'[c] \notin {"leaving", "ended"}
  BY <1>2 DEF SubscribeDeals, Enter, Subscribe, Serve, SeeDone, Sent, SendFails, UnSubscribe,
     Disconnect, consumeVars, StrangersAreOwedNothing, TypeOK
<1>3. CASE RLock
  BY <1>1, <1>3 DEF RLock, callVars
<1>4. CASE SaveDeal \/ StartConsume \/ Take \/ (\E b \in Streams : Hand(b)) \/ RUnlock
           \/ Interrupt \/ Exit \/ UNCHANGED vars
  BY <1>1, <1>4 DEF SaveDeal, StartConsume, Take, Hand, RUnlock, Interrupt, Exit, vars,
     consumeVars, callVars
<1> QED
  BY <1>2, <1>3, <1>4 DEF Next, Consume, Exited

LEMMA NextNoneMissed == GapsInv /\ [Next]_vars => NoneMissed'
<1> SUFFICES ASSUME GapsInv, [Next]_vars, NEW c \in Streams, c \notin gone', NEW d \in owed'[c]
             PROVE  NotMissed(c, d)'
  BY DEF NoneMissed
<1>0. TypeOK /\ TypeOK' /\ Reached(c)' \subseteq Deals'
  BY NextType, NextReached DEF GapsInv
<1>1. ASSUME c \notin gone, d \in owed[c], Reached(c) \subseteq Reached(c)',
             d \in OnWay(c) => d \in Reached(c)' \cup OnWay(c)'
      PROVE  NotMissed(c, d)'
  <2>1. NotMissed(c, d)
    BY <1>1 DEF GapsInv, NoneMissed
  <2> QED
    BY <1>0, <1>1, <2>1, KeptNotMissed
<1>2. CASE SaveDeal
  <2>1. /\ UNCHANGED <<received, sending, channels, gone, owed, held, due, consumer>>
        /\ dealChannel' = Append(dealChannel, accepted + 1) \/ dealChannel' = dealChannel
    BY <1>2 DEF SaveDeal, callVars
  <2>2. Range(dealChannel) \subseteq Range(dealChannel')
    <3>1. dealChannel \in Seq(Nat) /\ accepted + 1 \in Nat
      <4>1. accepted \in Nat
        BY <1>0 DEF TypeOK
      <4> QED
        BY <1>0, <4>1, Segments
    <3> QED
      BY <2>1, <3>1, RangeOfAppend
  <2>3. Reached(c)' = Reached(c) /\ OnWay(c) \subseteq OnWay(c)'
    BY <2>1, <2>2 DEF Reached, OnWay, DueTo, Holding
  <2> QED
    BY <1>1, <2>1, <2>3
<1>3. CASE StartConsume \/ RUnlock \/ Interrupt \/ Exit \/ UNCHANGED vars
  <2>1. UNCHANGED <<received, sending, channels, gone, owed>>
    BY <1>3 DEF StartConsume, RUnlock, Interrupt, Exit, vars, consumeVars, callVars
  <2>2. DueTo(c)' = DueTo(c) /\ Holding' = Holding /\ dealChannel' = dealChannel
    BY <1>0, <1>3 DEF StartConsume, RUnlock, Interrupt, Exit, vars, consumeVars, callVars,
       TypeOK, DueTo, Holding
  <2>3. Reached(c)' = Reached(c) /\ OnWay(c)' = OnWay(c)
    BY <2>1, <2>2 DEF Reached, OnWay
  <2> QED
    BY <1>1, <2>1, <2>3
<1>4. CASE Take
  <2>1. /\ UNCHANGED <<received, sending, channels, gone, owed>>
        /\ DueTo(c) = <<>> /\ DueTo(c)' = <<>> /\ Holding = <<>> /\ dealChannel # <<>>
        /\ Holding' = <<Head(dealChannel)>> /\ dealChannel' = Tail(dealChannel)
    BY <1>0, <1>4 DEF Take, callVars, TypeOK, DueTo, Holding
  <2>2. Range(dealChannel) = Range(Holding') \cup Range(dealChannel')
    BY <1>0, <2>1, RangeOfTail, RangeOfShort, Segments
  <2>3. Reached(c)' = Reached(c) /\ OnWay(c)' = OnWay(c)
    BY <2>1, <2>2, RangeOfShort DEF Reached, OnWay
  <2> QED
    BY <1>1, <2>1, <2>3
<1>5. CASE RLock
  <2>1. /\ UNCHANGED <<received, sending, channels, gone, dealChannel, held, subscribers>>
        /\ DueTo(c) = <<>> /\ Holding = held /\ Holding' = <<>>
        /\ DueTo(c)' = IF c \in subscribers THEN held ELSE <<>>
        /\ owed'[c] = IF c \in subscribers THEN owed[c] \cup {held[1]} ELSE owed[c]
        /\ held # <<>>
    BY <1>0, <1>5 DEF RLock, callVars, TypeOK, DueTo, Holding
  <2>2. Range(held) = {held[1]}
    BY <1>0, <2>1, AtMostOneIsSeq, RangeOfShort DEF TypeOK
  <2>3. c \in subscribers
    BY <2>1 DEF GapsInv, StrangersAreOwedNothing
  <2>4. Reached(c)' = Reached(c) /\ OnWay(c)' = OnWay(c) /\ held[1] \in OnWay(c)'
    BY <2>1, <2>2, <2>3, RangeOfShort DEF Reached, OnWay
  <2>5. CASE d \in owed[c]
    BY <1>1, <2>1, <2>4, <2>5
  <2>6. CASE d = held[1]
    BY <2>4, <2>6 DEF NotMissed
  <2> QED
    BY <2>1, <2>5, <2>6
<1>6. ASSUME NEW b \in Streams, Hand(b) PROVE NotMissed(c, d)'
  <2>1. owed' = owed /\ gone' = gone /\ d \in Nat
    BY <1>0, <1>6 DEF Hand, TypeOK, Deals
  <2>2. CASE b = c
    BY <1>0, <1>6, <2>1, <2>2, HandNotMissed DEF GapsInv, NoneMissed
  <2>3. CASE b # c
    <3>1. /\ received'[c] = received[c] /\ sending'[c] = sending[c] /\ channels'[c] = channels[c]
          /\ DueTo(c)' = DueTo(c) /\ Holding' = Holding /\ dealChannel' = dealChannel
      BY <1>0, <1>6, <2>3 DEF Hand, TypeOK, DueTo, Holding
    <3>2. Reached(c)' = Reached(c) /\ OnWay(c)' = OnWay(c)
      BY <3>1 DEF Reached, OnWay
    <3> QED
      BY <1>1, <2>1, <3>2
  <2> QED
    BY <2>2, <2>3
<1>7. ASSUME NEW b \in Streams, SubscribeDeals(b) PROVE NotMissed(c, d)'
  <2>1. /\ DueTo(c)' = DueTo(c) /\ Holding' = Holding /\ dealChannel' = dealChannel
        /\ owed' = owed /\ gone \subseteq gone'
    BY <1>7 DEF SubscribeDeals, Enter, Subscribe, Serve, SeeDone, Sent, SendFails,
           UnSubscribe, Disconnect, consumeVars, DueTo, Holding
  <2>2. OnWay(c)' = OnWay(c)
    BY <2>1 DEF OnWay
  <2>3. CASE UNCHANGED <<received[c], sending[c], channels[c]>>
    <3>1. Reached(c)' = Reached(c)
      BY <2>3 DEF Reached
    <3> QED
      BY <1>1, <2>1, <2>2, <3>1
  <2>4. CASE b = c /\ Serve(c)
    <3>1. /\ received[c]' = received[c] /\ sending[c] = <<>> /\ channels[c] # <<>>
          /\ sending[c]' = <<Head(channels[c])>> /\ channels[c]' = Tail(channels[c])
      BY <1>0, <2>4 DEF Serve, TypeOK
    <3>2. Range(channels[c]) = Range(sending[c]') \cup Range(channels[c]')
      BY <1>0, <3>1, RangeOfTail, RangeOfShort, Segments
    <3>3. Reached(c)' = Reached(c)
      BY <3>1, <3>2, RangeOfShort DEF Reached
    <3> QED
      BY <1>1, <2>1, <2>2, <3>3
  <2>5. CASE b = c /\ Sent(c)
    <3>1. /\ received[c]' = received[c] \o sending[c] /\ sending[c]' = <<>>
          /\ channels[c]' = channels[c]
      BY <1>0, <2>5 DEF Sent, TypeOK
    <3>2. Range(received[c]') = Range(received[c]) \cup Range(sending[c])
      BY <1>0, <3>1, RangeOfConcat, Segments
    <3>3. Reached(c)' = Reached(c)
      BY <3>1, <3>2, RangeOfShort DEF Reached
    <3> QED
      BY <1>1, <2>1, <2>2, <3>3
  <2>6. CASE b = c /\ SendFails(c)
    BY <2>1, <2>6 DEF SendFails
  <2>7. \/ UNCHANGED <<received[c], sending[c], channels[c]>>
        \/ b = c /\ (Serve(c) \/ Sent(c) \/ SendFails(c))
    BY <1>0, <1>7, CallStream
  <2> QED
    BY <2>3, <2>4, <2>5, <2>6, <2>7
<1> QED
  BY <1>2, <1>3, <1>4, <1>5, <1>6, <1>7 DEF Next, Consume, Exited

LEMMA InitGapsInv == Init => GapsInv
BY InitType DEF Init, GapsInv, StreamsAscend, Ascending, Pipeline, StreamOf,
   StrangersAreOwedNothing, NoneMissed

LEMMA NextGapsInv == GapsInv /\ [Next]_vars => GapsInv'
BY NextType, NextAscends, NextStrangers, NextNoneMissed DEF GapsInv

\* A client that stays gets every deal handed round while it is subscribed, but
\* those for which its channel was full of earlier ones.
THEOREM GapsNeedAFullChannelHolds == Spec => []GapsNeedAFullChannel
  BY InitGapsInv, NextGapsInv, GapsFollow, PTL DEF Spec
===============================================================================
