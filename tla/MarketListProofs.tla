---------------------------- MODULE MarketListProofs ----------------------------
(***************************************************************************)
(* For any number of requests and loads: what a request reads of the list  *)
(* without the lock is of the last load completed, or of a later one.      *)
(***************************************************************************)
EXTENDS MarketList, TLAPS

-------------------------------------------------------------------------------
\* Each word is of the last result stored completely, or load has just written it.
WordsOK ==
    /\ word = [w \in Words |-> word[w]]
    /\ loader \in {"idle", "asking", "storing"}
    /\ loader # "storing" => unwritten = {}
    /\ \A w \in Words : word[w] = WordOf(IF loader = "storing" /\ w \notin unwritten
                                         THEN answer ELSE current, w)

\* A request may show that, and any result whose storing it could see.
ReadersOK ==
    /\ request = [q \in Requests |-> request[q]]
    /\ seen = [q \in Requests |-> seen[q]]
    /\ allowed = [q \in Requests |-> allowed[q]]
    /\ \A q \in Requests : request[q] = "reading" =>
          /\ current \in allowed[q]
          /\ loader = "storing" => answer \in allowed[q]
    /\ \A q \in Requests : request[q] # "reading" => DOMAIN seen[q] = {}

ListInv == WordsOK /\ ReadersOK /\ AnswersAreCurrent

LEMMA InitListInv == Init => ListInv
BY DEF Init, ListInv, WordsOK, ReadersOK, AnswersAreCurrent, Unread, NoResult

\* What is in memory may be shown by a request that reads now.
LEMMA WordsAllowed ==
    ASSUME ListInv, NEW q \in Requests, request[q] = "reading", NEW w \in Words
    PROVE  \E result \in allowed[q] : word[w] = WordOf(result, w)
BY DEF ListInv, WordsOK, ReadersOK

LEMMA NextListInv == ListInv /\ [Next]_vars => ListInv'
<1> SUFFICES ASSUME ListInv, [Next]_vars PROVE ListInv'
  OBVIOUS
<1>1. CASE UNCHANGED <<answer, unwritten, word, current, request, seen, allowed>>
           /\ (UNCHANGED loader \/ (loader = "idle" /\ loader' = "asking"))
  BY <1>1 DEF ListInv, WordsOK, ReadersOK, AnswersAreCurrent
<1>2. ASSUME NEW result, Returned(result) PROVE ListInv'
  <2>1. /\ loader = "asking" /\ loader' = "storing" /\ answer' = result /\ unwritten' = Words
        /\ UNCHANGED <<word, current, request, seen>>
    BY <1>2 DEF Returned
  <2>2. /\ allowed' = [q \in Requests |-> allowed'[q]]
        /\ \A q \in Requests : allowed[q] \subseteq allowed'[q]
        /\ \A q \in Requests : request[q] = "reading" => result \in allowed'[q]
    BY <1>2 DEF Returned
  <2>3. WordsOK'
    BY <2>1 DEF ListInv, WordsOK
  <2>4. ReadersOK' /\ AnswersAreCurrent'
    BY <2>1, <2>2 DEF ListInv, ReadersOK, AnswersAreCurrent
  <2> QED
    BY <2>3, <2>4 DEF ListInv
<1>3. ASSUME NEW w \in Words, StoreWord(w) PROVE ListInv'
  <2>1. /\ w \in unwritten /\ unwritten' = unwritten \ {w}
        /\ word' = [word EXCEPT ![w] = WordOf(answer, w)]
        /\ UNCHANGED <<answer, request, seen, allowed>>
        /\ \/ unwritten' = {} /\ loader' = "idle" /\ current' = answer
           \/ unwritten' # {} /\ UNCHANGED <<loader, current>>
    BY <1>3 DEF StoreWord, Stored
  <2>2. loader = "storing"
    BY <2>1 DEF ListInv, WordsOK
  <2>3. WordsOK'
    BY <2>1, <2>2 DEF ListInv, WordsOK
  <2>4. ReadersOK' /\ AnswersAreCurrent'
    BY <2>1, <2>2 DEF ListInv, ReadersOK, AnswersAreCurrent
  <2> QED
    BY <2>3, <2>4 DEF ListInv
<1>4. ASSUME NEW q \in Requests, CallList(q) PROVE ListInv'
  <2>1. /\ request[q] = "none" /\ request' = [request EXCEPT ![q] = "reading"]
        /\ allowed' = [allowed EXCEPT ![q] =
                          {current} \cup (IF loader = "storing" THEN {answer} ELSE {})]
        /\ UNCHANGED <<loader, answer, unwritten, word, current, seen>>
    BY <1>4 DEF CallList, loadVars
  <2>2. WordsOK'
    BY <2>1 DEF ListInv, WordsOK
  <2>3. ReadersOK'
    BY <2>1 DEF ListInv, ReadersOK
  <2>4. AnswersAreCurrent'
    BY <2>1 DEF ListInv, ReadersOK, AnswersAreCurrent
  <2> QED
    BY <2>2, <2>3, <2>4 DEF ListInv
<1>5. ASSUME NEW q \in Requests, NEW w \in Words, ReadWord(q, w) PROVE ListInv'
  <2>1. /\ request[q] = "reading"
        /\ seen' = [seen EXCEPT ![q] = [v \in DOMAIN seen[q] \cup {w} |->
                                           IF v = w THEN word[w] ELSE seen[q][v]]]
        /\ UNCHANGED <<loader, answer, unwritten, word, current, request, allowed>>
    BY <1>5 DEF ReadWord, loadVars
  <2>2. WordsOK'
    BY <2>1 DEF ListInv, WordsOK
  <2>3. ReadersOK'
    BY <2>1 DEF ListInv, ReadersOK
  <2>4. \E result \in allowed[q] : word[w] = WordOf(result, w)
    BY <2>1, WordsAllowed
  <2>5. ASSUME NEW p \in Requests, NEW v \in DOMAIN seen'[p]
        PROVE  \E result \in allowed'[p] : seen'[p][v] = WordOf(result, v)
    <3>1. CASE p = q
      <4>1. /\ v \in DOMAIN seen[q] \cup {w}
            /\ seen'[q][v] = IF v = w THEN word[w] ELSE seen[q][v]
        BY <2>1, <3>1 DEF ListInv, ReadersOK
      <4>2. CASE v = w
        BY <2>1, <2>4, <3>1, <4>1, <4>2
      <4>3. CASE v # w
        BY <2>1, <3>1, <4>1, <4>3 DEF ListInv, AnswersAreCurrent
      <4> QED
        BY <4>2, <4>3
    <3>2. CASE p # q
      <4>1. seen'[p] = seen[p]
        BY <2>1, <3>2 DEF ListInv, ReadersOK
      <4> QED
        BY <2>1, <4>1 DEF ListInv, AnswersAreCurrent
    <3> QED
      BY <3>1, <3>2
  <2> QED
    BY <2>2, <2>3, <2>5 DEF ListInv, AnswersAreCurrent
<1>6. ASSUME NEW q \in Requests, Respond(q) PROVE ListInv'
  <2>1. /\ request' = [request EXCEPT ![q] = "none"]
        /\ seen' = [seen EXCEPT ![q] = Unread] /\ allowed' = [allowed EXCEPT ![q] = {}]
        /\ UNCHANGED <<loader, answer, unwritten, word, current>>
    BY <1>6 DEF Respond, loadVars
  <2>2. WordsOK'
    BY <2>1 DEF ListInv, WordsOK
  <2>3. ReadersOK'
    BY <2>1 DEF ListInv, ReadersOK, Unread
  <2>4. AnswersAreCurrent'
    BY <2>1 DEF ListInv, ReadersOK, AnswersAreCurrent, Unread
  <2> QED
    BY <2>2, <2>3, <2>4 DEF ListInv
<1>7. CASE Tick \/ Start \/ Relist \/ UNCHANGED vars
  BY <1>1, <1>7 DEF Tick, Start, Relist, vars, loadVars
<1>8. CASE Loaded \/ Failed
  BY <1>2, <1>8 DEF Loaded, Failed
<1> QED
  BY <1>3, <1>4, <1>5, <1>6, <1>7, <1>8 DEF Next

\* No request is served anything older than the last load completed when it came.
THEOREM AnswersAreCurrentHolds == Spec => []AnswersAreCurrent
<1>1. ListInv => AnswersAreCurrent
  BY DEF ListInv
<1> QED
  BY <1>1, InitListInv, NextListInv, PTL DEF Spec

===============================================================================
