-------------------------- MODULE DealConsumingProofs --------------------------
(***************************************************************************)
(* What becomes of the deals, for every number of workers, messages,       *)
(* crashes and failures: the four safety properties of DealConsuming.      *)
(***************************************************************************)
EXTENDS DealConsuming, TLAPS

USE MessagesAssumption, FaultsAssumption

-------------------------------------------------------------------------------
(***************************************************************************)
(* Types.  One lemma per kind of step, since each says of a few variables  *)
(* what happens to them, and of the others that nothing does.              *)
(***************************************************************************)
Steps == {"free", "fetched", "added", "handled", "failed"}

WorkType == [Workers -> [msg : {0} \cup Produced, step : Steps]]

\* The part of TypeOK that is about the hands messages are in.
HandsOK ==
    \A w \in Workers :
        /\ At(w, "free") <=> work[w].msg = 0
        /\ ~At(w, "free") => phase = "consuming" /\ work[w].msg \notin settled
        /\ \A v \in Workers : work[v].msg = work[w].msg => v = w \/ At(w, "free")

LEMMA TypeParts == TypeOK <=>
    /\ listed \subseteq Markets /\ known \subseteq listed
    /\ topic \in Seq([kind : Kinds, market : Markets]) /\ Len(topic) <= MaxMessages
    /\ committed \subseteq settled /\ settled \subseteq Produced
    /\ gaveUp \subseteq Produced /\ failed \subseteq Produced
    /\ collection \in {"none", "bare", "indexed"}
    /\ stored \in [Messages -> Nat] /\ live \in [Messages -> Nat]
    /\ phase \in {"down", "connected", "created", "loading", "consuming"}
    /\ toLoad \subseteq known /\ blind \subseteq known
    /\ work \in WorkType
    /\ faults \in 0..MaxFaults /\ retries \in 0..MaxRetries
    /\ HandsOK
BY DEF TypeOK, WorkType, HandsOK, Steps

LEMMA InitTypeOK == Init => TypeOK
BY DEF Init, TypeOK, Messages, Produced, Never, Nobody, At

\* Only Produce makes messages.
LEMMA SameTopic ==
    ASSUME TypeOK, UNCHANGED topic
    PROVE  Produced' = Produced /\ WorkType' = WorkType /\ Produced \subseteq Messages
BY TypeParts DEF Produced, WorkType, Messages

\* What is left of a process that ends.
LEMMA DiesTypeOK ==
    ASSUME TypeOK, Dies, UNCHANGED <<listed, topic, committed, collection>>,
           stored' \in [Messages -> Nat]
    PROVE  TypeOK'
<1>1. Produced' = Produced /\ WorkType' = WorkType
  BY SameTopic
<1>2. work' \in WorkType' /\ HandsOK'
  BY <1>1 DEF Dies, Nobody, WorkType, Steps, HandsOK, At
<1>3. live' \in [Messages -> Nat] /\ faults' \in 0..MaxFaults
  BY TypeParts DEF Dies, Fault, Never
<1> QED
  BY <1>1, <1>2, <1>3, TypeParts DEF Dies, TypeOK, WorkType, HandsOK, Steps

\* A worker goes on with the message it has.
LEMMA GoesTypeOK ==
    ASSUME TypeOK, NEW w \in Workers, NEW step \in Steps \ {"free"}, ~At(w, "free"),
           Goes(w, step), UNCHANGED <<topic, phase, settled>>
    PROVE  /\ work' \in WorkType' /\ HandsOK'
           /\ work[w].msg \in Produced
           /\ work'[w] = [msg |-> work[w].msg, step |-> step]
           /\ \A v \in Workers \ {w} : work'[v] = work[v]
<1>1. work \in WorkType /\ HandsOK /\ WorkType' = WorkType
  BY TypeParts, SameTopic
<1>2. work[w].msg \in Produced
  BY <1>1 DEF WorkType, HandsOK
<1>3. /\ work'[w] = [msg |-> work[w].msg, step |-> step]
      /\ \A v \in Workers \ {w} : work'[v] = work[v]
  BY <1>1 DEF Goes, WorkType
<1>4. work' \in WorkType
  BY <1>1, <1>2 DEF Goes, WorkType
<1>5. HandsOK'
  BY <1>1, <1>2, <1>3 DEF HandsOK, At, Steps, Produced, WorkType
<1> QED
  BY <1>1, <1>2, <1>3, <1>4, <1>5

\* A worker lays its message down.
LEMMA FreeTypeOK ==
    ASSUME TypeOK, NEW w \in Workers, ~At(w, "free"), Free(w),
           UNCHANGED <<topic, phase>>,
           settled' \subseteq settled \cup {work[w].msg}
    PROVE  /\ work' \in WorkType' /\ HandsOK'
           /\ work[w].msg \in Produced
           /\ work'[w] = Nobody
           /\ \A v \in Workers \ {w} : work'[v] = work[v]
<1>1. work \in WorkType /\ HandsOK /\ WorkType' = WorkType
  BY TypeParts, SameTopic
<1>2. work[w].msg \in Produced
  BY <1>1 DEF WorkType, HandsOK
<1>3. /\ work'[w] = Nobody
      /\ \A v \in Workers \ {w} : work'[v] = work[v]
  BY <1>1 DEF Free, WorkType
<1>4. work' \in WorkType
  BY <1>1 DEF Free, WorkType, Nobody, Steps
<1>5. HandsOK'
  BY <1>1, <1>2, <1>3 DEF HandsOK, At, Nobody, Produced
<1> QED
  BY <1>1, <1>2, <1>3, <1>4, <1>5

LEMMA NextTypeOK == TypeOK /\ [Next]_vars => TypeOK'
<1> SUFFICES ASSUME TypeOK, [Next]_vars PROVE TypeOK'
  OBVIOUS
<1>1. ASSUME BuildAvailableMarkets PROVE TypeOK'
  <2>1. CASE Dies
    BY <1>1, <2>1, DiesTypeOK, TypeParts DEF BuildAvailableMarkets, durable
  <2>2. CASE ~Dies
    BY <1>1, <2>2 DEF BuildAvailableMarkets, durable, history, TypeOK, At, Produced, Messages
  <2> QED
    BY <2>1, <2>2
<1>2. ASSUME GetOrCreateDealsCollection PROVE TypeOK'
  BY <1>2 DEF GetOrCreateDealsCollection, history, TypeOK, At, Produced, Messages
<1>3. ASSUME CreateIndex PROVE TypeOK'
  <2>1. CASE Dies
    BY <1>3, <2>1, DiesTypeOK, TypeParts DEF CreateIndex, Dies
  <2>2. CASE ~Dies
    BY <1>3, <2>2 DEF CreateIndex, history, TypeOK, At, Produced, Messages
  <2> QED
    BY <2>1, <2>2
<1>4. ASSUME NEW m \in Markets, InitCurrentCandle(m) PROVE TypeOK'
  <2>1. live' \in [Messages -> Nat]
    BY <1>4, TypeParts DEF InitCurrentCandle, Summed
  <2>2. blind' \subseteq known' /\ faults' \in 0..MaxFaults
    BY <1>4, TypeParts DEF InitCurrentCandle, Fault
  <2> QED
    BY <1>4, <2>1, <2>2 DEF InitCurrentCandle, durable, TypeOK, At, Produced, Messages
<1>5. ASSUME RunConsuming PROVE TypeOK'
  BY <1>5 DEF RunConsuming, durable, history, TypeOK, At, Produced, Messages
<1>6. ASSUME Crash PROVE TypeOK'
  BY <1>6, DiesTypeOK, TypeParts DEF Crash, durable
<1>7. ASSUME NEW w \in Workers, NEW i \in Messages, Fetch(w, i) PROVE TypeOK'
  <2>1. work \in WorkType /\ HandsOK /\ WorkType' = WorkType
    BY <1>7, TypeParts, SameTopic DEF Fetch, durable
  <2>2. i \in Produced \ settled /\ \A v \in Workers : work[v].msg # i
    BY <1>7 DEF Fetch, Due
  <2>3. /\ work' \in WorkType /\ work'[w] = [msg |-> i, step |-> "fetched"]
        /\ \A v \in Workers \ {w} : work'[v] = work[v]
    BY <1>7, <2>1, <2>2 DEF Fetch, WorkType, Steps
  <2>4. HandsOK'
    BY <1>7, <2>1, <2>2, <2>3 DEF Fetch, HandsOK, At, Produced, history
  <2> QED
    BY <1>7, <2>1, <2>3, <2>4, SameTopic, TypeParts
       DEF Fetch, durable, history, TypeOK, WorkType, HandsOK, Steps
<1>8. ASSUME NEW w \in Workers, AddDeal(w) PROVE TypeOK'
  <2>1. PICK step \in {"failed", "added"} : Goes(w, step)
    BY <1>8 DEF AddDeal, Fails
  <2>2. ~At(w, "free") /\ UNCHANGED <<topic, phase, settled>>
    BY <1>8 DEF AddDeal, At, durable
  <2>3. work' \in WorkType' /\ HandsOK' /\ work[w].msg \in Produced
    BY <2>1, <2>2, GoesTypeOK DEF Steps
  <2>4. live' \in [Messages -> Nat]
    BY <1>8, TypeParts DEF AddDeal, Counted
  <2>5. failed' \subseteq Produced
    BY <1>8, <2>3, TypeParts DEF AddDeal, Fails
  <2> QED
    BY <1>8, <2>3, <2>4, <2>5, SameTopic, TypeParts
       DEF AddDeal, durable, TypeOK, WorkType, HandsOK, Steps
<1>9. ASSUME NEW w \in Workers, SaveDeal(w) PROVE TypeOK'
  <2>1. UNCHANGED <<listed, topic, committed, collection>> /\ At(w, "added")
    BY <1>9 DEF SaveDeal
  <2>2. stored' \in [Messages -> Nat]
    BY <1>9, TypeParts DEF SaveDeal, Insert
  <2>3. CASE Dies
    BY <2>1, <2>2, <2>3, DiesTypeOK
  <2>4. CASE ~Dies
    <3>1. PICK step \in {"failed", "handled"} : Goes(w, step)
      BY <1>9, <2>4 DEF SaveDeal, Insert, Fails
    <3>2. ~At(w, "free") /\ UNCHANGED <<topic, phase, settled>>
      BY <1>9, <2>4 DEF SaveDeal, At
    <3>3. work' \in WorkType' /\ HandsOK' /\ work[w].msg \in Produced
      BY <3>1, <3>2, GoesTypeOK DEF Steps
    <3>4. failed' \subseteq Produced
      BY <1>9, <2>4, <3>3, TypeParts DEF SaveDeal, Insert, Fails, history
    <3>5. faults' \in 0..MaxFaults
      BY <1>9, <2>4, TypeParts DEF SaveDeal, Insert, Fault
    <3>6. UNCHANGED <<known, toLoad, live, settled, phase, retries, blind, gaveUp>>
      BY <1>9, <2>4 DEF SaveDeal, history
    <3> QED
      BY <2>1, <2>2, <3>3, <3>4, <3>5, <3>6, SameTopic, TypeParts
         DEF TypeOK, WorkType, HandsOK, Steps
  <2> QED
    BY <2>3, <2>4
<1>10. ASSUME NEW w \in Workers, Ack(w) \/ Retry(w) \/ GiveUp(w) PROVE TypeOK'
  <2>1. /\ ~At(w, "free") /\ Free(w) /\ UNCHANGED <<topic, phase>>
        /\ settled \subseteq settled' /\ settled' \subseteq settled \cup {work[w].msg}
    BY <1>10 DEF Ack, Retry, GiveUp, Handled, At, durable
  <2>2. work' \in WorkType' /\ HandsOK' /\ work[w].msg \in Produced
    BY <2>1, FreeTypeOK
  <2>3. gaveUp' \subseteq Produced /\ retries' \in 0..MaxRetries
    BY <1>10, <2>2, TypeParts DEF Ack, Retry, GiveUp, history
  <2>4. UNCHANGED <<durable, known, toLoad, live, faults, blind, failed>>
    BY <1>10 DEF Ack, Retry, GiveUp, history
  <2> QED
    BY <2>1, <2>2, <2>3, <2>4, SameTopic, TypeParts
       DEF durable, TypeOK, WorkType, HandsOK, Steps
<1>11. ASSUME NEW i \in Messages, Commit(i) PROVE TypeOK'
  BY <1>11 DEF Commit, history, TypeOK, At, Produced, Messages
<1>12. ASSUME NEW m \in Markets, List(m) PROVE TypeOK'
  BY <1>12 DEF List, history, TypeOK, At, Produced, Messages
<1>13. ASSUME NEW m \in Markets, NEW k \in Kinds, Produce(k, m) PROVE TypeOK'
  <2>1. /\ topic' \in Seq([kind : Kinds, market : Markets])
        /\ Len(topic') = Len(topic) + 1 /\ Len(topic') <= MaxMessages
    BY <1>13, TypeParts DEF Produce
  <2>2. Produced \subseteq Produced'
    BY <2>1, TypeParts DEF Produced
  <2>3. work' \in WorkType' /\ HandsOK'
    BY <1>13, <2>2, TypeParts DEF Produce, WorkType, HandsOK, At
  <2> QED
    BY <1>13, <2>1, <2>2, <2>3, TypeParts
       DEF Produce, history, TypeOK, WorkType, HandsOK, Steps
<1>14. CASE UNCHANGED vars
  BY <1>14 DEF vars, durable, history, TypeOK, At, Produced, Messages
<1> QED
  BY <1>1, <1>2, <1>3, <1>4, <1>5, <1>6, <1>7, <1>8, <1>9, <1>10, <1>11, <1>12,
     <1>13, <1>14 DEF Next, StartUp, Work, Rest

\* Types of the consuming: every variable has its type, a message is in one
\* worker's hands at most, and never both in work and settled.
THEOREM TypeOKHolds == Spec => []TypeOK
<1> QED
  BY InitTypeOK, NextTypeOK, PTL DEF Spec

-------------------------------------------------------------------------------
(***************************************************************************)
(* The inductive invariant.  SettledIsStored needs that the deal was stored *)
(* when its handler ended; the other three say what holds at each moment   *)
(* between AddDeal and the insert, which the run's properties leave out.   *)
(***************************************************************************)
\* What was not sent is nowhere.
NoneUnsent == \A i \in Messages \ Produced : stored[i] = 0 /\ live[i] = 0

Deal(i) == topic[i].kind = "deal"

\* The documents of a message that is no deal of this service.
OnlyDealsStored == \A i \in Produced : ~Deal(i) => stored[i] = 0

HandledIsStored ==
    \A w \in Workers : At(w, "handled") /\ Deal(work[w].msg) => stored[work[w].msg] > 0

Ends(i) == i \in settled \/ \E w \in Workers : work[w].msg = i /\ At(w, "handled")

\* A message that is still to be inserted has at most a document per fault.
ExtraNeedFaults ==
    \A i \in Messages : stored[i] <= 1 + faults /\ (~Ends(i) => stored[i] <= faults)

\* Between AddDeal and the insert the live candle is ahead.
Adding(i) == \E w \in Workers : work[w].msg = i /\ At(w, "added")

LiveAhead ==
    \A i \in Produced : Sighted(i) /\ Deal(i) /\ Adding(i) => live[i] >= stored[i] + 1

LiveAheadByOne ==
    \A i \in Produced :
        Sighted(i) /\ Deal(i) /\ Adding(i) /\ i \notin failed => live[i] = stored[i] + 1

Counts == NoneUnsent /\ OnlyDealsStored

NothingLoadedYet == phase = "created" => toLoad = known

StoringInv == TypeOK /\ Counts /\ HandledIsStored /\ SettledIsStored /\ ExtraNeedFaults

LiveInv ==
    /\ StoringInv /\ NothingLoadedYet
    /\ LiveCoversStored /\ LiveAhead /\ LiveMatchesStored /\ LiveAheadByOne

-------------------------------------------------------------------------------
(***************************************************************************)
(* What the steps do to the variables these invariants are about.          *)
(***************************************************************************)
\* A process that ends leaves nothing at work and only committed messages settled.
LEMMA DiesEffect ==
    ASSUME Dies, UNCHANGED <<topic, committed>>, TypeOK
    PROVE  /\ \A w \in Workers : work'[w] = Nobody
           /\ settled' \subseteq settled /\ gaveUp' = gaveUp
           /\ faults' = faults + 1 /\ faults \in Nat
           /\ phase' = "down" /\ live' = Never
BY TypeParts DEF Dies, Fault

\* The handler's insert: of a deal, in the hands of w.
LEMMA SaveDealEffect ==
    ASSUME TypeOK, NEW w \in Workers, SaveDeal(w), ~Dies
    PROVE  LET i == work[w].msg
           IN  /\ i \in Produced /\ At(w, "added")
               /\ \A v \in Workers \ {w} : work'[v] = work[v] /\ work[v].msg # i
               /\ \A v \in Workers : work'[v].msg = work[v].msg
               /\ At(w, "failed")' \/ At(w, "handled")'
               /\ UNCHANGED <<topic, settled, gaveUp, phase, known, toLoad, live, blind>>
               /\ faults' \in {faults, faults + 1} /\ faults \in Nat
               /\ failed \subseteq failed'
               /\ At(w, "failed")' => i \in failed'
               /\ \/ stored' = stored /\ At(w, "failed")'
                  \/ stored' = stored /\ ~Deal(i)
                  \/ /\ Deal(i) /\ stored' = [stored EXCEPT ![i] = stored[i] + 1]
                     /\ At(w, "handled")' \/ faults' = faults + 1
<1> DEFINE i == work[w].msg
<1>1. PICK step \in {"failed", "handled"} :
          Goes(w, step) /\ (step = "failed" => failed' = failed \cup {i})
  BY DEF SaveDeal, Insert, Fails
<1>2. ~At(w, "free") /\ UNCHANGED <<topic, phase, settled>>
  BY DEF SaveDeal, At
<1>3. /\ i \in Produced /\ work'[w] = [msg |-> i, step |-> step]
      /\ \A v \in Workers \ {w} : work'[v] = work[v]
  BY <1>1, <1>2, GoesTypeOK DEF Steps
<1>4. \A v \in Workers \ {w} : work[v].msg # i
  BY <1>2, TypeParts DEF HandsOK
<1>5. At(w, step)' /\ \A other \in {"failed", "handled"} : At(w, other)' => step = other
  BY <1>3 DEF At
<1>6. faults' \in {faults, faults + 1} /\ faults \in Nat
  BY TypeParts DEF SaveDeal, Insert, Fault
<1>7. failed \subseteq failed'
  BY DEF SaveDeal, Insert, Fails, history
<1>8. \/ stored' = stored /\ At(w, "failed")'
      \/ stored' = stored /\ ~Deal(i)
      \/ /\ Deal(i) /\ stored' = [stored EXCEPT ![i] = stored[i] + 1]
         /\ At(w, "handled")' \/ faults' = faults + 1
  <2>1. CASE topic[i].kind = "deal" /\ topic[i].market \in known /\ Insert(w)
    <3>1. CASE stored' = [stored EXCEPT ![i] = @ + 1] /\ Goes(w, "handled")
      <4>1. At(w, "handled")'
        BY <3>1, TypeParts DEF Goes, At, WorkType
      <4> QED
        BY <2>1, <3>1, <4>1 DEF Deal
    <3>2. CASE /\ stored' \in {stored, [stored EXCEPT ![i] = @ + 1]}
               /\ Fails(w) /\ Fault
      <4>1. At(w, "failed")'
        BY <3>2, TypeParts DEF Fails, Goes, At, WorkType
      <4> QED
        BY <2>1, <3>2, <4>1 DEF Deal, Fault
    <3> QED
      BY <2>1, <3>1, <3>2 DEF Insert
  <2>2. CASE topic[i].kind # "deal" /\ UNCHANGED stored
    BY <2>2 DEF Deal
  <2>3. CASE UNCHANGED stored /\ Fails(w)
    <3>1. At(w, "failed")'
      BY <2>3, TypeParts DEF Fails, Goes, At, WorkType
    <3> QED
      BY <2>3, <3>1
  <2> QED
    BY <2>1, <2>2, <2>3 DEF SaveDeal, Fails
<1>9. UNCHANGED <<known, toLoad, live, blind, gaveUp>>
  BY DEF SaveDeal, history
<1> QED
  BY <1>1, <1>2, <1>3, <1>4, <1>5, <1>6, <1>7, <1>8, <1>9 DEF SaveDeal

\* AddDeal: the candle of a market the process knows counts the deal of w.
LEMMA AddDealEffect ==
    ASSUME TypeOK, NEW w \in Workers, AddDeal(w)
    PROVE  LET i == work[w].msg
           IN  /\ i \in Produced /\ At(w, "fetched")
               /\ \A v \in Workers \ {w} : work'[v] = work[v] /\ work[v].msg # i
               /\ \A v \in Workers : work'[v].msg = work[v].msg
               /\ At(w, "failed")' \/ At(w, "added")'
               /\ UNCHANGED <<topic, stored, settled, gaveUp, faults, phase, known, toLoad, blind>>
               /\ failed \subseteq failed'
               /\ \/ live' = live /\ i \in failed' /\ ~At(w, "added")'
                  \/ live' = live /\ ~(Deal(i) /\ topic[i].market \in known)
                  \/ live' = [live EXCEPT ![i] = live[i] + 1] /\ At(w, "added")'
<1> DEFINE i == work[w].msg
<1>1. PICK step \in {"failed", "added"} :
          Goes(w, step) /\ (step = "failed" => topic[i].kind = "garbage")
  BY DEF AddDeal, Fails
<1>2. ~At(w, "free") /\ UNCHANGED <<topic, phase, settled>>
  BY DEF AddDeal, At, durable
<1>3. /\ i \in Produced /\ work'[w] = [msg |-> i, step |-> step]
      /\ \A v \in Workers \ {w} : work'[v] = work[v]
  BY <1>1, <1>2, GoesTypeOK DEF Steps
<1>4. \A v \in Workers \ {w} : work[v].msg # i
  BY <1>2, TypeParts DEF HandsOK
<1>5. At(w, step)' /\ \A other \in {"failed", "added"} : At(w, other)' => step = other
  BY <1>3 DEF At
<1>6. \/ live' = live /\ i \in failed' /\ ~At(w, "added")'
      \/ live' = live /\ ~(Deal(i) /\ topic[i].market \in known)
      \/ live' = [live EXCEPT ![i] = live[i] + 1] /\ At(w, "added")'
  <2>1. CASE topic[i].kind = "garbage"
    <3>1. ~At(w, "added")'
      BY <2>1, TypeParts DEF AddDeal, Fails, Goes, At, WorkType
    <3> QED
      BY <2>1, <3>1 DEF AddDeal, Fails
  <2>2. CASE topic[i].kind # "garbage"
    <3>1. Goes(w, "added")
      BY <2>2 DEF AddDeal
    <3>2. At(w, "added")'
      BY <3>1, TypeParts DEF Goes, At, WorkType
    <3> QED
      BY <2>2, <3>2 DEF AddDeal, Counted, Deal
  <2> QED
    BY <2>1, <2>2
<1>7. failed \subseteq failed'
  BY DEF AddDeal, Fails
<1> QED
  BY <1>1, <1>2, <1>3, <1>4, <1>5, <1>6, <1>7 DEF AddDeal, durable

\* The subscriber takes a message back.
LEMMA FreeEffect ==
    ASSUME TypeOK, NEW w \in Workers, Ack(w) \/ Retry(w) \/ GiveUp(w)
    PROVE  LET i == work[w].msg
           IN  /\ i \in Produced /\ work'[w] = Nobody
               /\ \A v \in Workers \ {w} : work'[v] = work[v] /\ work[v].msg # i
               /\ UNCHANGED <<topic, stored, live, faults, phase, known, toLoad, blind, failed>>
               /\ \/ Ack(w) /\ At(w, "handled") /\ settled' = settled \cup {i} /\ gaveUp' = gaveUp
                  \/ Retry(w) /\ At(w, "failed") /\ settled' = settled /\ gaveUp' = gaveUp
                  \/ /\ GiveUp(w) /\ At(w, "failed")
                     /\ settled' = settled \cup {i} /\ gaveUp' = gaveUp \cup {i}
<1>1. /\ ~At(w, "free") /\ Free(w) /\ UNCHANGED <<topic, phase>>
      /\ settled' \subseteq settled \cup {work[w].msg}
  BY DEF Ack, Retry, GiveUp, Handled, At, durable
<1>2. \A v \in Workers \ {w} : work[v].msg # work[w].msg
  BY <1>1, TypeParts DEF HandsOK
<1>3. /\ work[w].msg \in Produced /\ work'[w] = Nobody
      /\ \A v \in Workers \ {w} : work'[v] = work[v]
  BY <1>1, FreeTypeOK
<1> QED
  BY <1>2, <1>3 DEF Ack, Retry, GiveUp, Handled, durable, history

\* A message comes into the hands of w.
LEMMA FetchEffect ==
    ASSUME TypeOK, NEW w \in Workers, NEW i \in Messages, Fetch(w, i)
    PROVE  /\ i \in Produced /\ At(w, "free") /\ work[w].msg = 0
           /\ work'[w] = [msg |-> i, step |-> "fetched"]
           /\ \A v \in Workers \ {w} : work'[v] = work[v] /\ work[v].msg # i
           /\ UNCHANGED <<topic, stored, settled, gaveUp, live, faults, phase, known, toLoad,
                          blind, failed>>
BY TypeParts DEF Fetch, Due, WorkType, HandsOK, durable, history

\* A new message is of no candle and in no database.
LEMMA ProduceEffect ==
    ASSUME TypeOK, Counts, NEW m \in Markets, NEW k \in Kinds, Produce(k, m)
    PROVE  /\ Produced' = Produced \cup {Len(topic) + 1}
           /\ Len(topic) + 1 \in Messages \ Produced
           /\ stored[Len(topic) + 1] = 0 /\ live[Len(topic) + 1] = 0
           /\ \A i \in Produced : topic'[i] = topic[i]
           /\ UNCHANGED <<stored, work, settled, gaveUp, live, faults, phase, known, toLoad,
                          blind, failed>>
<1>1. topic \in Seq([kind : Kinds, market : Markets]) /\ Len(topic) \in Nat
  BY TypeParts
<1>2. topic' = Append(topic, [kind |-> k, market |-> m]) /\ Len(topic) < MaxMessages
  BY DEF Produce
<1>3. Len(topic') = Len(topic) + 1 /\ \A i \in Produced : topic'[i] = topic[i]
  BY <1>1, <1>2 DEF Produced
<1>4. Len(topic) + 1 \in Messages \ Produced /\ Produced' = Produced \cup {Len(topic) + 1}
  BY <1>1, <1>2, <1>3 DEF Messages, Produced
<1> QED
  BY <1>3, <1>4 DEF Produce, history, Counts, NoneUnsent

-------------------------------------------------------------------------------
(***************************************************************************)
(* What is settled is stored, and stored again only by faults.             *)
(***************************************************************************)
LEMMA InitStoringInv == Init => StoringInv
BY InitTypeOK DEF Init, StoringInv, Counts, NoneUnsent, OnlyDealsStored, HandledIsStored,
   SettledIsStored, ExtraNeedFaults, Never, Nobody, At, Produced

\* Steps that store nothing and end no handling.
LEMMA QuietStoring ==
    ASSUME StoringInv, TypeOK', UNCHANGED <<topic, stored, live>>,
           \A w \in Workers : At(w, "handled")' => work'[w] = work[w],
           \A i \in Messages : Ends(i) => Ends(i)' \/ faults' = faults + 1,
           settled' \subseteq settled, gaveUp \subseteq gaveUp',
           faults' \in {faults, faults + 1}
    PROVE  StoringInv'
<1>1. Produced' = Produced /\ faults \in Nat /\ stored \in [Messages -> Nat]
  BY TypeParts, SameTopic DEF StoringInv
<1>2. Counts'
  BY <1>1 DEF StoringInv, Counts, NoneUnsent, OnlyDealsStored, Deal
<1>3. HandledIsStored' /\ SettledIsStored'
  BY DEF StoringInv, HandledIsStored, SettledIsStored, Deal, At
<1>4. ExtraNeedFaults'
  BY <1>1 DEF StoringInv, ExtraNeedFaults
<1> QED
  BY <1>2, <1>3, <1>4 DEF StoringInv

LEMMA NextStoringInv == StoringInv /\ [Next]_vars => StoringInv'
<1> SUFFICES ASSUME StoringInv, [Next]_vars PROVE StoringInv'
  OBVIOUS
<1>0. TypeOK /\ TypeOK' /\ Counts /\ Produced \subseteq Messages
      /\ stored \in [Messages -> Nat] /\ faults \in Nat
  BY NextTypeOK, TypeParts DEF StoringInv, Produced, Messages
<1>1. CASE UNCHANGED <<topic, stored, live, work, settled, gaveUp>>
           /\ faults' \in {faults, faults + 1}
  BY <1>0, <1>1, QuietStoring DEF Ends, At
<1>2. ASSUME Dies, UNCHANGED <<topic, stored, committed>> PROVE StoringInv'
  <2>1. /\ \A w \in Workers : work'[w] = Nobody
        /\ settled' \subseteq settled /\ gaveUp' = gaveUp
        /\ faults' = faults + 1 /\ live' = Never
    BY <1>0, <1>2, DiesEffect
  <2>2. Produced' = Produced
    BY <1>0, <1>2, SameTopic
  <2>3. Counts'
    BY <1>0, <1>2, <2>1, <2>2 DEF Counts, NoneUnsent, OnlyDealsStored, Deal, Never
  <2>4. HandledIsStored' /\ SettledIsStored'
    BY <1>2, <2>1 DEF StoringInv, HandledIsStored, SettledIsStored, Deal, At, Nobody
  <2>5. ExtraNeedFaults'
    BY <1>0, <1>2, <2>1 DEF StoringInv, ExtraNeedFaults
  <2> QED
    BY <1>0, <2>3, <2>4, <2>5 DEF StoringInv
<1>3. ASSUME NEW m \in Markets, InitCurrentCandle(m) PROVE StoringInv'
  <2>1. UNCHANGED <<topic, stored, work, settled, gaveUp>> /\ faults' \in {faults, faults + 1}
    BY <1>3 DEF InitCurrentCandle, durable, Fault
  <2>2. Produced' = Produced
    BY <1>0, <2>1, SameTopic
  <2>3. \A i \in Messages \ Produced : live'[i] = live[i]
    BY <1>3, <1>0, TypeParts DEF InitCurrentCandle
  <2>4. Counts'
    BY <1>0, <2>1, <2>2, <2>3 DEF Counts, NoneUnsent, OnlyDealsStored, Deal
  <2> QED
    BY <1>0, <2>1, <2>4
       DEF StoringInv, HandledIsStored, SettledIsStored, ExtraNeedFaults, Ends, Deal, At
<1>4. ASSUME NEW w \in Workers, NEW i \in Messages, Fetch(w, i) PROVE StoringInv'
  <2>1. /\ At(w, "free") /\ work'[w].step = "fetched"
        /\ \A v \in Workers \ {w} : work'[v] = work[v]
        /\ UNCHANGED <<topic, stored, settled, gaveUp, live, faults>>
    <3>1. /\ At(w, "free") /\ work'[w] = [msg |-> i, step |-> "fetched"]
          /\ \A v \in Workers \ {w} : work'[v] = work[v] /\ work[v].msg # i
          /\ UNCHANGED <<topic, stored, settled, gaveUp, live, faults, phase, known, toLoad,
                         blind, failed>>
      BY <1>0, <1>4, FetchEffect
    <3> QED
      BY <3>1
  <2>2. \A j \in Messages : Ends(j) => Ends(j)'
    BY <2>1 DEF Ends, At
  <2>3. \A v \in Workers : At(v, "handled")' => work'[v] = work[v]
    BY <2>1 DEF At
  <2> QED
    BY <1>0, <2>1, <2>2, <2>3, QuietStoring
<1>5. ASSUME NEW w \in Workers, AddDeal(w) PROVE StoringInv'
  <2> DEFINE i == work[w].msg
  <2>1. /\ i \in Produced /\ At(w, "fetched")
        /\ \A v \in Workers \ {w} : work'[v] = work[v]
        /\ At(w, "failed")' \/ At(w, "added")'
        /\ UNCHANGED <<topic, stored, settled, gaveUp, faults>>
        /\ live' = live \/ live' = [live EXCEPT ![i] = live[i] + 1]
    BY <1>0, <1>5, AddDealEffect
  <2>2. Produced' = Produced
    BY <1>0, <2>1, SameTopic
  <2>3. Counts'
    BY <1>0, <2>1, <2>2, TypeParts DEF Counts, NoneUnsent, OnlyDealsStored, Deal
  <2>4. HandledIsStored' /\ SettledIsStored'
    BY <2>1 DEF StoringInv, HandledIsStored, SettledIsStored, Deal, At
  <2>5. ExtraNeedFaults'
    BY <2>1 DEF StoringInv, ExtraNeedFaults, Ends, At
  <2> QED
    BY <1>0, <2>3, <2>4, <2>5 DEF StoringInv
<1>6. ASSUME NEW w \in Workers, SaveDeal(w) PROVE StoringInv'
  <2>1. UNCHANGED <<topic, committed>>
    BY <1>6 DEF SaveDeal
  <2>2. CASE Dies
    <3>1. stored' = stored
      BY <1>0, <1>6, <2>2, DiesEffect DEF SaveDeal, Insert, Fails, Goes, Dies, At
    <3> QED
      BY <1>2, <2>1, <2>2, <3>1
  <2>3. CASE ~Dies
    <3> DEFINE i == work[w].msg
    <3>1. /\ i \in Produced /\ At(w, "added")
          /\ \A v \in Workers \ {w} : work'[v] = work[v] /\ work[v].msg # i
          /\ \A v \in Workers : work'[v].msg = work[v].msg
          /\ At(w, "failed")' \/ At(w, "handled")'
          /\ UNCHANGED <<topic, settled, gaveUp, live>>
          /\ faults' \in {faults, faults + 1}
          /\ \/ stored' = stored /\ At(w, "failed")'
             \/ stored' = stored /\ ~Deal(i)
             \/ /\ Deal(i) /\ stored' = [stored EXCEPT ![i] = stored[i] + 1]
                /\ At(w, "handled")' \/ faults' = faults + 1
      BY <1>0, <1>6, <2>3, SaveDealEffect
    <3>2. Produced' = Produced
      BY <1>0, <3>1, SameTopic
    <3>3. \A j \in Messages : j # i => stored'[j] = stored[j]
      BY <1>0, <3>1
    <3>4. stored'[i] = stored[i] \/ (Deal(i) /\ stored'[i] = stored[i] + 1)
      BY <1>0, <3>1
    <3>5. Counts'
      BY <1>0, <3>1, <3>2, <3>3, <3>4 DEF Counts, NoneUnsent, OnlyDealsStored, Deal
    <3>6. \A j \in Messages : stored'[j] >= stored[j]
      BY <1>0, <3>3, <3>4
    <3>7. HandledIsStored'
      <4> SUFFICES ASSUME NEW v \in Workers, At(v, "handled")', Deal(work[v].msg)'
                   PROVE  stored'[work'[v].msg] > 0
        BY DEF HandledIsStored
      <4>1. CASE v = w
        BY <1>0, <3>1, <4>1 DEF Deal, At
      <4>2. CASE v # w
        <5>1. work[v].msg \in Messages
          BY <1>0, <3>1, <4>2, TypeParts DEF HandsOK, WorkType, At
        <5> QED
          BY <1>0, <3>1, <3>6, <4>2, <5>1 DEF Deal, At, StoringInv, HandledIsStored
      <4> QED
        BY <4>1, <4>2
    <3>8. SettledIsStored'
      <4>1. settled \subseteq Messages /\ stored' \in [Messages -> Nat]
        BY <1>0, TypeParts DEF TypeOK
      <4> QED
        BY <1>0, <3>1, <3>6, <4>1 DEF StoringInv, SettledIsStored
    <3>9. ExtraNeedFaults'
      <4> SUFFICES ASSUME NEW j \in Messages
                   PROVE  stored'[j] <= 1 + faults' /\ (~Ends(j)' => stored'[j] <= faults')
        BY DEF ExtraNeedFaults
      <4>1. CASE j # i
        <5>1. Ends(j) => Ends(j)'
          BY <3>1, <4>1 DEF Ends, At
        <5> QED
          BY <1>0, <3>1, <3>3, <4>1, <5>1 DEF StoringInv, ExtraNeedFaults
      <4>2. CASE j = i
        <5>1. i \notin settled
          BY <1>0, <3>1, TypeParts DEF HandsOK, At
        <5>2. ~Ends(i)
          BY <3>1, <5>1 DEF Ends, At
        <5>3. stored[i] <= faults
          BY <4>2, <5>2 DEF StoringInv, ExtraNeedFaults
        <5>4. At(w, "handled")' => Ends(j)'
          BY <3>1, <4>2 DEF Ends
        <5>5. stored[i] \in Nat
          BY <1>0, <4>2
        <5>6. \/ stored'[i] = stored[i]
              \/ stored'[i] = stored[i] + 1 /\ (At(w, "handled")' \/ faults' = faults + 1)
          BY <1>0, <3>1, <4>2
        <5> HIDE DEF i
        <5> QED
          BY <1>0, <3>1, <4>2, <5>3, <5>4, <5>5, <5>6
      <4> QED
        BY <4>1, <4>2
    <3> QED
      BY <1>0, <3>5, <3>7, <3>8, <3>9 DEF StoringInv
  <2> QED
    BY <2>2, <2>3
<1>7. ASSUME NEW w \in Workers, Ack(w) \/ Retry(w) \/ GiveUp(w) PROVE StoringInv'
  <2> DEFINE i == work[w].msg
  <2>1. /\ i \in Produced /\ work'[w] = Nobody
        /\ \A v \in Workers \ {w} : work'[v] = work[v]
        /\ UNCHANGED <<topic, stored, live, faults>>
        /\ \/ At(w, "handled") /\ settled' = settled \cup {i} /\ gaveUp' = gaveUp
           \/ At(w, "failed") /\ settled' = settled /\ gaveUp' = gaveUp
           \/ /\ At(w, "failed")
              /\ settled' = settled \cup {i} /\ gaveUp' = gaveUp \cup {i}
    BY <1>0, <1>7, FreeEffect
  <2>2. Produced' = Produced
    BY <1>0, <2>1, SameTopic
  <2>3. Counts'
    BY <1>0, <2>1, <2>2 DEF Counts, NoneUnsent, OnlyDealsStored, Deal
  <2>4. HandledIsStored'
    BY <2>1 DEF StoringInv, HandledIsStored, Deal, At, Nobody
  <2>5. SettledIsStored'
    BY <2>1 DEF StoringInv, HandledIsStored, SettledIsStored, Deal
  <2>6. \A j \in Messages : Ends(j) => Ends(j)'
    BY <2>1 DEF Ends, At
  <2>7. ExtraNeedFaults'
    BY <2>1, <2>6 DEF StoringInv, ExtraNeedFaults
  <2> QED
    BY <1>0, <2>3, <2>4, <2>5, <2>7 DEF StoringInv
<1>8. ASSUME NEW m \in Markets, NEW k \in Kinds, Produce(k, m) PROVE StoringInv'
  <2>1. /\ Produced' = Produced \cup {Len(topic) + 1}
        /\ stored[Len(topic) + 1] = 0
        /\ \A i \in Produced : topic'[i] = topic[i]
        /\ UNCHANGED <<stored, work, settled, gaveUp, live, faults>>
    BY <1>0, <1>8, ProduceEffect
  <2>2. Counts'
    BY <1>0, <2>1 DEF Counts, NoneUnsent, OnlyDealsStored, Deal
  <2>3. HandledIsStored'
    BY <1>0, <2>1, TypeParts DEF StoringInv, HandledIsStored, Deal, At, HandsOK, WorkType
  <2>4. SettledIsStored'
    BY <1>0, <2>1, TypeParts DEF StoringInv, SettledIsStored
  <2>5. ExtraNeedFaults'
    BY <2>1 DEF StoringInv, ExtraNeedFaults, Ends, At
  <2> QED
    BY <1>0, <2>2, <2>3, <2>4, <2>5 DEF StoringInv
<1>9. CASE BuildAvailableMarkets \/ CreateIndex \/ Crash
  BY <1>1, <1>2, <1>9 DEF BuildAvailableMarkets, CreateIndex, Crash, durable, history
<1>10. CASE GetOrCreateDealsCollection \/ RunConsuming
            \/ (\E i \in Messages : Commit(i)) \/ (\E m \in Markets : List(m)) \/ UNCHANGED vars
  BY <1>1, <1>10 DEF GetOrCreateDealsCollection, RunConsuming, Commit, List, vars, durable, history
<1> QED
  BY <1>3, <1>4, <1>5, <1>6, <1>7, <1>8, <1>9, <1>10 DEF Next, StartUp, Work, Rest

\* Nothing is lost: a settled message that was not given up is in the database,
\* whatever crashed or failed on the way.
THEOREM SettledIsStoredHolds == Spec => []SettledIsStored
<1>1. StoringInv => SettledIsStored
  BY DEF StoringInv
<1> QED
  BY <1>1, InitStoringInv, NextStoringInv, PTL DEF Spec

\* A deal is stored at most once more than there were crashes and failures.
THEOREM DuplicatesNeedFaultsHolds == Spec => []DuplicatesNeedFaults
<1>1. StoringInv => DuplicatesNeedFaults
  BY DEF StoringInv, ExtraNeedFaults, DuplicatesNeedFaults
<1> QED
  BY <1>1, InitStoringInv, NextStoringInv, PTL DEF Spec

-------------------------------------------------------------------------------
(***************************************************************************)
(* The live candle and the database agree as far as the two properties say. *)
(***************************************************************************)
LEMMA InitLiveInv == Init => LiveInv
BY InitStoringInv DEF Init, LiveInv, NothingLoadedYet, LiveCoversStored, LiveAhead,
   LiveMatchesStored, LiveAheadByOne, Produced

LEMMA NextNothingLoadedYet == TypeOK /\ NothingLoadedYet /\ [Next]_vars => NothingLoadedYet'
<1> SUFFICES ASSUME TypeOK, NothingLoadedYet, [Next]_vars PROVE NothingLoadedYet'
  OBVIOUS
<1>1. CASE UNCHANGED <<phase, toLoad, known>> \/ phase' # "created"
  BY <1>1 DEF NothingLoadedYet
<1>2. CASE StartUp
  BY <1>2 DEF StartUp, BuildAvailableMarkets, GetOrCreateDealsCollection, CreateIndex,
     InitCurrentCandle, RunConsuming, Dies, NothingLoadedYet
<1>3. CASE Crash
  BY <1>3 DEF Crash, Dies, NothingLoadedYet
<1>4. ASSUME NEW w \in Workers, Work(w) PROVE NothingLoadedYet'
  BY <1>1, <1>4 DEF Work, Fetch, AddDeal, SaveDeal, Insert, Dies, Ack, Retry, GiveUp, durable,
     history
<1>5. CASE (\E i \in Messages : Commit(i)) \/ (\E m \in Markets : List(m))
           \/ (\E m \in Markets, k \in Kinds : Produce(k, m)) \/ UNCHANGED vars
  BY <1>1, <1>5 DEF Commit, List, Produce, vars
<1> QED
  BY <1>2, <1>3, <1>4, <1>5 DEF Next, Rest

\* Where no candle is loaded there is nothing to compare.
LEMMA UnsightedLive ==
    ASSUME StoringInv', NothingLoadedYet', \A i \in Produced' : ~Sighted(i)'
    PROVE  LiveInv'
BY DEF LiveInv, LiveCoversStored, LiveAhead, LiveMatchesStored, LiveAheadByOne

\* Steps that count nothing, store nothing and load nothing.
LEMMA QuietLive ==
    ASSUME LiveInv, StoringInv', NothingLoadedYet', UNCHANGED <<topic, stored, live>>,
           \A i \in Produced : Sighted(i)' => Sighted(i),
           \A i \in Produced : Adding(i)' <=> Adding(i),
           failed \subseteq failed'
    PROVE  LiveInv'
<1>1. Produced' = Produced
  BY SameTopic DEF LiveInv, StoringInv
<1>2. LiveCoversStored' /\ LiveAhead' /\ LiveAheadByOne'
  BY <1>1 DEF LiveInv, LiveCoversStored, LiveAhead, LiveAheadByOne, Deal
<1>3. LiveMatchesStored'
  <2>1. \A i \in Produced : Sighted(i) /\ Deal(i) /\ i \notin failed /\ ~Adding(i)
                           => live[i] = stored[i]
    BY DEF LiveInv, LiveMatchesStored, Deal, Adding
  <2>2. \A i \in Produced : Sighted(i)' /\ Deal(i)' /\ i \notin failed' /\ ~Adding(i)'
                           => live'[i] = stored'[i]
    BY <2>1 DEF Deal
  <2> QED
    BY <1>1, <2>2 DEF LiveMatchesStored, Deal, Adding
<1> QED
  BY <1>2, <1>3 DEF LiveInv

\* The four properties of one message.
Agrees(i) ==
    Sighted(i) =>
        /\ live[i] >= stored[i]
        /\ Deal(i) /\ Adding(i) => live[i] >= stored[i] + 1
        /\ Deal(i) /\ i \notin failed =>
              IF Adding(i) THEN live[i] = stored[i] + 1 ELSE live[i] = stored[i]

LEMMA AgreeingLive ==
    LiveInv <=> StoringInv /\ NothingLoadedYet /\ \A i \in Produced : Agrees(i)
<1>1. LiveMatchesStored <=>
          \A i \in Produced : Sighted(i) /\ Deal(i) /\ i \notin failed /\ ~Adding(i)
                            => live[i] = stored[i]
  BY DEF LiveMatchesStored, Deal, Adding
<1> QED
  BY <1>1 DEF LiveInv, Agrees, LiveCoversStored, LiveAhead, LiveAheadByOne

LEMMA NextAgreeingLive ==
    ASSUME StoringInv', NothingLoadedYet', \A i \in Produced' : Agrees(i)'
    PROVE  LiveInv'
<1>1. LiveMatchesStored'
  BY DEF LiveMatchesStored, Deal, Adding, Agrees
<1> QED
  BY <1>1 DEF LiveInv, Agrees, LiveCoversStored, LiveAhead, LiveAheadByOne

LEMMA NextLiveInv == LiveInv /\ [Next]_vars => LiveInv'
<1> SUFFICES ASSUME LiveInv, [Next]_vars PROVE LiveInv'
  OBVIOUS
<1>0. /\ StoringInv /\ StoringInv' /\ NothingLoadedYet' /\ TypeOK /\ TypeOK'
      /\ Counts /\ Counts' /\ Produced \subseteq Messages /\ Produced' \subseteq Messages
      /\ live \in [Messages -> Nat] /\ stored \in [Messages -> Nat]
  <2>1. StoringInv /\ StoringInv' /\ NothingLoadedYet' /\ TypeOK /\ TypeOK' /\ Counts /\ Counts'
    BY NextStoringInv, NextNothingLoadedYet DEF LiveInv, StoringInv
  <2>2. live \in [Messages -> Nat] /\ stored \in [Messages -> Nat]
    BY <2>1, TypeParts
  <2>3. Produced \subseteq Messages
    BY <2>1, TypeParts DEF Produced, Messages
  <2>4. topic' \in Seq([kind : Kinds, market : Markets]) /\ Len(topic') <= MaxMessages
    BY <2>1 DEF TypeOK
  <2>5. Produced' \subseteq Messages
    BY <2>4 DEF Produced, Messages
  <2> QED
    BY <2>1, <2>2, <2>3, <2>5
<1>1. CASE UNCHANGED <<topic, stored, live, work, failed>>
           /\ \A i \in Produced : Sighted(i)' => Sighted(i)
  BY <1>0, <1>1, QuietLive DEF Adding, At
<1>2. CASE phase' \notin {"loading", "consuming"} \/ toLoad' = known'
  BY <1>0, <1>2, UnsightedLive DEF Sighted
<1>3. ASSUME NEW m \in Markets, InitCurrentCandle(m) PROVE LiveInv'
  <2>1. UNCHANGED <<topic, stored, work, failed, phase, known>> /\ toLoad' = toLoad \ {m}
        /\ phase = "loading"
    BY <1>3 DEF InitCurrentCandle, durable
  <2>2. Produced' = Produced
    BY <1>0, <2>1, SameTopic
  <2>3. \A i \in Produced : ~Adding(i)'
    BY <1>0, <2>1, TypeParts DEF Adding, At, HandsOK
  <2>4. \/ /\ blind' = blind
           /\ live' = [i \in Messages |-> IF i \in Produced /\ topic[i].market = m
                                          THEN stored[i] ELSE live[i]]
        \/ blind' = blind \cup {m} /\ live' = live
    BY <1>3 DEF InitCurrentCandle, Summed
  <2>5. ASSUME NEW i \in Produced PROVE Agrees(i)'
    <3>1. CASE topic[i].market = m
      <4>1. Sighted(i)' => live'[i] = stored'[i]
        BY <1>0, <2>1, <2>2, <2>4, <3>1 DEF Sighted
      <4> QED
        BY <1>0, <2>1, <2>3, <4>1 DEF Agrees
    <3>2. CASE topic[i].market # m
      <4>1. Sighted(i)' => Sighted(i)
        BY <2>1, <2>4, <3>2 DEF Sighted
      <4>2. live'[i] = live[i] /\ ~Adding(i)
        BY <1>0, <2>1, <2>3, <2>4, <3>2 DEF Adding, At
      <4> QED
        BY <2>1, <2>3, <4>1, <4>2, AgreeingLive DEF Agrees, Deal
    <3> QED
      BY <3>1, <3>2
  <2> QED
    BY <1>0, <2>2, <2>5, NextAgreeingLive
<1>4. ASSUME NEW w \in Workers, NEW i \in Messages, Fetch(w, i) PROVE LiveInv'
  <2>1. /\ At(w, "free") /\ work'[w] = [msg |-> i, step |-> "fetched"]
        /\ \A v \in Workers \ {w} : work'[v] = work[v] /\ work[v].msg # i
        /\ UNCHANGED <<topic, stored, settled, gaveUp, live, faults, phase, known, toLoad,
                       blind, failed>>
    BY <1>0, <1>4, FetchEffect
  <2>2. \A j \in Produced : Adding(j)' <=> Adding(j)
    BY <2>1 DEF Adding, At
  <2> QED
    BY <1>0, <2>1, <2>2, QuietLive DEF Sighted
<1>5. ASSUME NEW w \in Workers, AddDeal(w) PROVE LiveInv'
  <2> DEFINE i == work[w].msg
  <2>1. /\ i \in Produced /\ At(w, "fetched")
        /\ \A v \in Workers \ {w} : work'[v] = work[v] /\ work[v].msg # i
        /\ \A v \in Workers : work'[v].msg = work[v].msg
        /\ At(w, "failed")' \/ At(w, "added")'
        /\ UNCHANGED <<topic, stored, settled, gaveUp, faults, phase, known, toLoad, blind>>
        /\ failed \subseteq failed'
        /\ \/ live' = live /\ i \in failed' /\ ~At(w, "added")'
           \/ live' = live /\ ~(Deal(i) /\ topic[i].market \in known)
           \/ live' = [live EXCEPT ![i] = live[i] + 1] /\ At(w, "added")'
    BY <1>0, <1>5, AddDealEffect
  <2>2. Produced' = Produced /\ \A j \in Produced : Sighted(j)' <=> Sighted(j)
    BY <1>0, <2>1, SameTopic DEF Sighted
  <2>3. ASSUME NEW j \in Produced PROVE Agrees(j)'
    <3>1. Agrees(j) /\ (Sighted(j)' <=> Sighted(j)) /\ (Deal(j)' <=> Deal(j))
      BY <2>1, <2>2, AgreeingLive DEF Deal
    <3>2. CASE j # i
      <4>1. live'[j] = live[j] /\ stored'[j] = stored[j]
        BY <1>0, <2>1, <3>2
      <4>2. Adding(j)' <=> Adding(j)
        BY <2>1, <3>2 DEF Adding, At
      <4>3. j \notin failed' => j \notin failed
        BY <2>1
      <4> QED
        BY <3>1, <4>1, <4>2, <4>3 DEF Agrees
    <3>3. CASE j = i
      <4>1. ~Adding(j)
        BY <2>1, <3>3 DEF Adding, At
      <4>2. /\ Adding(j)' <=> At(w, "added")'
            /\ \A v \in Workers : work[v].msg # j \/ v = w
        BY <2>1, <3>3 DEF Adding, At
      <4>3. stored'[j] = stored[j] /\ live[j] \in Nat /\ stored[j] \in Nat
        BY <1>0, <2>1
      <4>4. \/ live'[j] = live[j] /\ j \in failed' /\ ~At(w, "added")'
            \/ live'[j] = live[j] /\ ~(Deal(j) /\ topic[j].market \in known)
            \/ live'[j] = live[j] + 1 /\ At(w, "added")'
        BY <1>0, <1>5, <2>1, <3>3
      <4>5. Sighted(j) => topic[j].market \in known
        BY DEF Sighted
      <4>6. j \notin failed' => j \notin failed
        BY <2>1
      <4> QED
        BY <3>1, <4>1, <4>2, <4>3, <4>4, <4>5, <4>6 DEF Agrees
    <3> QED
      BY <3>2, <3>3
  <2> QED
    BY <1>0, <2>2, <2>3, NextAgreeingLive
<1>6. ASSUME NEW w \in Workers, SaveDeal(w) PROVE LiveInv'
  <2>1. CASE Dies
    BY <1>2, <2>1 DEF Dies
  <2>2. CASE ~Dies
    <3> DEFINE i == work[w].msg
    <3>1. /\ i \in Produced /\ At(w, "added")
          /\ \A v \in Workers \ {w} : work'[v] = work[v] /\ work[v].msg # i
          /\ \A v \in Workers : work'[v].msg = work[v].msg
          /\ At(w, "failed")' \/ At(w, "handled")'
          /\ UNCHANGED <<topic, settled, gaveUp, phase, known, toLoad, live, blind>>
          /\ failed \subseteq failed'
          /\ At(w, "failed")' => i \in failed'
          /\ \/ stored' = stored /\ At(w, "failed")'
             \/ stored' = stored /\ ~Deal(i)
             \/ Deal(i) /\ stored' = [stored EXCEPT ![i] = stored[i] + 1]
      BY <1>0, <1>6, <2>2, SaveDealEffect
    <3>2. Produced' = Produced /\ \A j \in Produced : Sighted(j)' <=> Sighted(j)
      BY <1>0, <3>1, SameTopic DEF Sighted
    <3>3. ASSUME NEW j \in Produced PROVE Agrees(j)'
      <4>1. Agrees(j) /\ (Sighted(j)' <=> Sighted(j)) /\ (Deal(j)' <=> Deal(j))
        BY <3>1, <3>2, AgreeingLive DEF Deal
      <4>2. CASE j # i
        <5>1. live'[j] = live[j] /\ stored'[j] = stored[j]
          BY <1>0, <3>1, <4>2
        <5>2. Adding(j)' <=> Adding(j)
          BY <3>1, <4>2 DEF Adding, At
        <5>3. j \notin failed' => j \notin failed
          BY <3>1
        <5> QED
          BY <4>1, <5>1, <5>2, <5>3 DEF Agrees
      <4>3. CASE j = i
        <5>1. Adding(j) /\ ~Adding(j)'
          BY <3>1, <4>3 DEF Adding, At
        <5>2. live'[j] = live[j] /\ live[j] \in Nat /\ stored[j] \in Nat
          BY <1>0, <3>1
        <5>3. \/ stored'[j] = stored[j] /\ j \in failed'
              \/ stored'[j] = stored[j] /\ ~Deal(j)
              \/ Deal(j) /\ stored'[j] = stored[j] + 1
          BY <1>0, <3>1, <4>3
        <5>4. j \notin failed' => j \notin failed
          BY <3>1
        <5> QED
          BY <4>1, <5>1, <5>2, <5>3, <5>4 DEF Agrees
      <4> QED
        BY <4>2, <4>3
    <3> QED
      BY <1>0, <3>2, <3>3, NextAgreeingLive
  <2> QED
    BY <2>1, <2>2
<1>7. ASSUME NEW w \in Workers, Ack(w) \/ Retry(w) \/ GiveUp(w) PROVE LiveInv'
  <2>1. /\ work'[w] = Nobody
        /\ At(w, "handled") \/ At(w, "failed")
        /\ \A v \in Workers \ {w} : work'[v] = work[v]
        /\ UNCHANGED <<topic, stored, live, faults, phase, known, toLoad, blind, failed>>
    BY <1>0, <1>7, FreeEffect
  <2>2. \A j \in Produced : Adding(j)' <=> Adding(j)
    BY <2>1 DEF Adding, At, Nobody
  <2> QED
    BY <1>0, <2>1, <2>2, QuietLive DEF Sighted
<1>8. ASSUME NEW m \in Markets, NEW k \in Kinds, Produce(k, m) PROVE LiveInv'
  <2>1. PICK new \in Messages \ Produced :
        /\ Produced' = Produced \cup {new}
        /\ stored[new] = 0 /\ live[new] = 0
        /\ \A i \in Produced : topic'[i] = topic[i]
        /\ UNCHANGED <<stored, work, settled, gaveUp, live, faults, phase, known, toLoad,
                       blind, failed>>
    BY <1>0, <1>8, ProduceEffect
  <2>2. ASSUME NEW i \in Produced PROVE Agrees(i)'
    <3>1. Agrees(i)
      BY AgreeingLive
    <3> QED
      BY <2>1, <3>1 DEF Agrees, Sighted, Deal, Adding, At
  <2>3. Agrees(new)'
    <3>1. ~Adding(new)'
      BY <1>0, <2>1, TypeParts DEF Adding, WorkType, At, HandsOK
    <3> QED
      BY <2>1, <3>1 DEF Agrees
  <2> QED
    BY <1>0, <2>1, <2>2, <2>3, NextAgreeingLive
<1>9. CASE BuildAvailableMarkets \/ GetOrCreateDealsCollection \/ Crash
  BY <1>2, <1>9 DEF BuildAvailableMarkets, GetOrCreateDealsCollection, Crash, Dies
<1>10. CASE CreateIndex
  BY <1>2, <1>10 DEF CreateIndex, Dies, LiveInv, NothingLoadedYet
<1>11. CASE RunConsuming
  BY <1>1, <1>11 DEF RunConsuming, Sighted, durable, history
<1>12. CASE (\E i \in Messages : Commit(i)) \/ (\E m \in Markets : List(m)) \/ UNCHANGED vars
  BY <1>1, <1>12 DEF Commit, List, vars, Sighted, durable, history
<1> QED
  BY <1>3, <1>4, <1>5, <1>6, <1>7, <1>8, <1>9, <1>10, <1>11, <1>12
     DEF Next, StartUp, Work, Rest

\* A live candle never shows less of a deal than a chart query.
THEOREM LiveCoversStoredHolds == Spec => []LiveCoversStored
<1>1. LiveInv => LiveCoversStored
  BY DEF LiveInv
<1> QED
  BY <1>1, InitLiveInv, NextLiveInv, PTL DEF Spec

\* Of a deal that was never failed in this process it shows exactly as much, but
\* for the moment between AddDeal and the insert.
THEOREM LiveMatchesStoredHolds == Spec => []LiveMatchesStored
<1>1. LiveInv => LiveMatchesStored
  BY DEF LiveInv
<1> QED
  BY <1>1, InitLiveInv, NextLiveInv, PTL DEF Spec

===============================================================================
