------------------------------ MODULE Publications ------------------------------
(***************************************************************************)
(* What clients of Centrifugo may expect of the candle updates: an update  *)
(* is published at most once, and together with neighbours, which stay in  *)
(* their order.  Not that groups come in order, nor that all come.         *)
(***************************************************************************)
EXTENDS Naturals, Sequences, SequencesExt

VARIABLES
    waiting,     \* the updates that are neither published nor lost, in order
    published,   \* the updates published
    count        \* how many there have been

vars == <<waiting, published, count>>

Init == waiting = <<>> /\ published = <<>> /\ count = 0

Arrive ==
    /\ count' = count + 1
    /\ waiting' = Append(waiting, count')
    /\ UNCHANGED published

\* Elements of s, in its order.
IsPartOf(part, s) ==
    \E at \in [DOMAIN part -> DOMAIN s] :
        /\ \A i, j \in DOMAIN part : i < j => at[i] < at[j]
        /\ \A i \in DOMAIN part : part[i] = s[at[i]]

\* Neighbours are settled together: some are published, the others lost.
Settle(first, last) ==
    LET new == SubSeq(published', Len(published) + 1, Len(published'))
    IN  /\ waiting' = SubSeq(waiting, 1, first - 1)
                         \o SubSeq(waiting, last + 1, Len(waiting))
        /\ IsPrefix(published, published')
        /\ IsPartOf(new, SubSeq(waiting, first, last))
        /\ count' = count

Next ==
    \/ Arrive
    \/ \E first, last \in DOMAIN waiting : first <= last /\ Settle(first, last)

Spec == Init /\ [][Next]_vars
===============================================================================
