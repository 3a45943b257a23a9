--------------------------- MODULE UpdatesFeedProofs ---------------------------
(***************************************************************************)
(* Theorems about the way of the updates to the clients, for any markets,  *)
(* updates, batch sizes and failures: micro-batching keeps the points and  *)
(* their order, every chart has a channel, and Publications is implemented.*)
(***************************************************************************)
EXTENDS UpdatesFeed, SequenceTheorems, WellFoundedInduction, TLAPS

-------------------------------------------------------------------------------
(***************************************************************************)
(* Induction: a set of numbers that has 0 and, with each number, the next, *)
(* has them all, since a least one outside it would have a predecessor.    *)
(***************************************************************************)
LEMMA LeastNumber ==
    ASSUME NEW T \in SUBSET Nat, T # {}
    PROVE  \E n \in T : \A k \in T : ~(k < n)
<1>1. \E n \in T : \A k \in T : ~(<<k, n>> \in OpToRel(<, Nat))
  BY NatLessThanWellFounded, WFMin
<1> QED
  BY <1>1 DEF OpToRel

LEMMA Induction ==
    ASSUME NEW S, 0 \in S, \A n \in Nat : n \in S => n + 1 \in S
    PROVE  \A n \in Nat : n \in S
<1> DEFINE T == Nat \ S
<1> SUFFICES ASSUME T # {} PROVE FALSE
  OBVIOUS
<1>1. PICK n \in T : \A k \in T : ~(k < n)
  <2>1. T \in SUBSET Nat
    OBVIOUS
  <2> HIDE DEF T
  <2> QED
    BY <2>1, LeastNumber
<1>2. n - 1 \in Nat /\ n - 1 \in S
  BY <1>1
<1> QED
  BY <1>1, <1>2

-------------------------------------------------------------------------------
(***************************************************************************)
(* FlattenSeq.                                                             *)
(***************************************************************************)
\* f[i] is the first i sequences of seqs, one after the other.
Flattens(f, seqs, n) ==
    f = [i \in 1 .. n |-> IF i = 1 THEN seqs[i] ELSE f[i - 1] \o seqs[i]]

LEMMA FlattensExists ==
    ASSUME NEW seqs, NEW n \in Nat
    PROVE  \E f : Flattens(f, seqs, n)
<1> DEFINE S == {k \in Nat : \E f : Flattens(f, seqs, k)}
<1>1. 0 \in S
  <2>1. Flattens([i \in 1 .. 0 |-> <<>>], seqs, 0)
    BY DEF Flattens
  <2> QED
    BY <2>1
<1>2. ASSUME NEW k \in Nat, k \in S PROVE k + 1 \in S
  <2>1. PICK f : Flattens(f, seqs, k)
    BY <1>2
  <2> DEFINE g == [i \in 1 .. k + 1 |-> IF i <= k THEN f[i]
                                        ELSE IF i = 1 THEN seqs[i] ELSE f[i - 1] \o seqs[i]]
  <2>2. \A i \in 1 .. k : f[i] = IF i = 1 THEN seqs[i] ELSE f[i - 1] \o seqs[i]
    BY <2>1 DEF Flattens
  <2>3. \A i \in 1 .. k + 1 : g[i] = IF i = 1 THEN seqs[i] ELSE g[i - 1] \o seqs[i]
    BY <2>2
  <2>4. Flattens(g, seqs, k + 1)
    <3>1. g = [i \in 1 .. k + 1 |-> g[i]]
      OBVIOUS
    <3> HIDE DEF g
    <3> QED
      BY <2>3, <3>1 DEF Flattens
  <2> HIDE DEF g
  <2> QED
    BY <2>4
<1> HIDE DEF S
<1>3. n \in S
  BY <1>1, <1>2, Induction
<1> QED
  BY <1>3 DEF S

LEMMA FlattenSeqIs ==
    ASSUME NEW seqs, Len(seqs) \in Nat \ {0}
    PROVE  \E f : Flattens(f, seqs, Len(seqs)) /\ FlattenSeq(seqs) = f[Len(seqs)]
<1>1. \E f : Flattens(f, seqs, Len(seqs))
  BY FlattensExists
<1> QED
  BY <1>1 DEF FlattenSeq, Flattens

\* One more sequence: its elements come last.
LEMMA FlattenAppend ==
    ASSUME NEW S, NEW seqs \in Seq(Seq(S)), NEW e \in Seq(S)
    PROVE  FlattenSeq(Append(seqs, e)) = FlattenSeq(seqs) \o e
<1> DEFINE n == Len(seqs)
           more == Append(seqs, e)
<1>1. /\ n \in Nat /\ Len(more) = n + 1 /\ more[n + 1] = e
      /\ \A i \in 1 .. n : more[i] = seqs[i]
  OBVIOUS
<1> HIDE DEF more
<1>2. PICK f : Flattens(f, more, n + 1) /\ FlattenSeq(more) = f[n + 1]
  <2>1. Len(more) \in Nat \ {0}
    BY <1>1
  <2>2. \E f : Flattens(f, more, Len(more)) /\ FlattenSeq(more) = f[Len(more)]
    BY <2>1, FlattenSeqIs
  <2> QED
    BY <1>1, <2>2
<1>3. \A i \in 1 .. n + 1 : f[i] = IF i = 1 THEN more[i] ELSE f[i - 1] \o more[i]
  BY <1>2 DEF Flattens
<1>4. CASE n = 0
  <2>1. seqs = <<>> /\ FlattenSeq(seqs) = <<>> /\ <<>> \o e = e
    BY <1>4 DEF FlattenSeq
  <2>2. f[1] = more[1] /\ more[1] = e
    BY <1>1, <1>3, <1>4
  <2> QED
    BY <1>2, <1>4, <2>1, <2>2 DEF more
<1>5. CASE n # 0
  <2>1. PICK g : Flattens(g, seqs, n) /\ FlattenSeq(seqs) = g[n]
    BY <1>1, <1>5, FlattenSeqIs
  <2>2. \A i \in 1 .. n : g[i] = IF i = 1 THEN seqs[i] ELSE g[i - 1] \o seqs[i]
    BY <2>1 DEF Flattens
  <2> HIDE DEF n
  <2> DEFINE T == {i \in Nat : i \in 1 .. n => f[i] = g[i]}
  <2>3. 0 \in T
    OBVIOUS
  <2>4. ASSUME NEW i \in Nat, i \in T PROVE i + 1 \in T
    <3> SUFFICES ASSUME i + 1 \in 1 .. n PROVE f[i + 1] = g[i + 1]
      OBVIOUS
    <3>1. more[i + 1] = seqs[i + 1] /\ i + 1 \in 1 .. n + 1
      BY <1>1
    <3>2. CASE i = 0
      BY <1>1, <1>3, <2>2, <3>1, <3>2
    <3>3. CASE i # 0
      <4>1. f[i] = g[i] /\ (i + 1) - 1 = i /\ i + 1 # 1
        BY <1>1, <2>4, <3>3
      <4>2. f[i + 1] = f[i] \o more[i + 1]
        BY <1>3, <3>1, <4>1
      <4>3. g[i + 1] = g[i] \o seqs[i + 1]
        BY <2>2, <4>1
      <4> QED
        BY <3>1, <4>1, <4>2, <4>3
    <3> QED
      BY <3>2, <3>3
  <2>5. n \in T
    <3> HIDE DEF T
    <3> QED
      BY <1>1, <2>3, <2>4, Induction
  <2>6. f[n] = g[n]
    BY <1>1, <1>5, <2>5
  <2>7. f[n + 1] = f[n] \o e
    <3>1. n + 1 \in 1 .. n + 1 /\ n + 1 # 1 /\ (n + 1) - 1 = n
      BY <1>1, <1>5
    <3> QED
      BY <1>1, <1>3, <3>1
  <2> QED
    BY <1>2, <2>1, <2>6, <2>7 DEF more
<1> QED
  BY <1>4, <1>5

LEMMA FlattenEmpty == FlattenSeq(<<>>) = <<>>
BY DEF FlattenSeq

\* The whole is m, with l before and r behind it.
Around(whole, l, m, r) == whole = (l \o m) \o r

LEMMA Regroup ==
    ASSUME NEW S, NEW l \in Seq(S), NEW m \in Seq(S), NEW r \in Seq(S)
    PROVE  Around(l \o (m \o r), l, m, r)
BY ConcatAssociative DEF Around

\* Flattening a concatenation is concatenating what is flattened.
LEMMA FlattenConcat ==
    ASSUME NEW S, NEW s \in Seq(Seq(S)), NEW t \in Seq(Seq(S))
    PROVE  /\ FlattenSeq(s) \in Seq(S)
           /\ FlattenSeq(s \o t) = FlattenSeq(s) \o FlattenSeq(t)
<1>1. \A u \in Seq(Seq(S)) : FlattenSeq(u) \in Seq(S)
  <2> DEFINE T == {n \in Nat : \A u \in Seq(Seq(S)) : Len(u) = n => FlattenSeq(u) \in Seq(S)}
  <2>1. 0 \in T
    BY FlattenEmpty
  <2>2. ASSUME NEW n \in Nat, n \in T PROVE n + 1 \in T
    <3> SUFFICES ASSUME NEW u \in Seq(Seq(S)), Len(u) = n + 1 PROVE FlattenSeq(u) \in Seq(S)
      OBVIOUS
    <3> DEFINE v == SubSeq(u, 1, n)
    <3>1. v \in Seq(Seq(S)) /\ Len(v) = n /\ u[n + 1] \in Seq(S) /\ u = Append(v, u[n + 1])
      OBVIOUS
    <3> HIDE DEF v
    <3>2. FlattenSeq(v) \in Seq(S)
      BY <2>2, <3>1
    <3>3. FlattenSeq(u) = FlattenSeq(v) \o u[n + 1]
      BY <3>1, FlattenAppend
    <3> QED
      BY <3>1, <3>2, <3>3
  <2> HIDE DEF T
  <2>3. \A n \in Nat : n \in T
    BY <2>1, <2>2, Induction
  <2> QED
    BY <2>3 DEF T
<1> DEFINE U == {n \in Nat : \A v \in Seq(Seq(S)) : Len(v) = n =>
                                FlattenSeq(s \o v) = FlattenSeq(s) \o FlattenSeq(v)}
<1>2. 0 \in U
  <2>1. \A v \in Seq(Seq(S)) : Len(v) = 0 => v = <<>>
    OBVIOUS
  <2>2. s \o <<>> = s /\ FlattenSeq(s) \o <<>> = FlattenSeq(s)
    BY <1>1
  <2> QED
    BY <2>1, <2>2, FlattenEmpty
<1>3. ASSUME NEW n \in Nat, n \in U PROVE n + 1 \in U
  <2> SUFFICES ASSUME NEW v \in Seq(Seq(S)), Len(v) = n + 1
               PROVE  FlattenSeq(s \o v) = FlattenSeq(s) \o FlattenSeq(v)
    OBVIOUS
  <2> DEFINE w == SubSeq(v, 1, n)
             e == v[n + 1]
  <2>1. w \in Seq(Seq(S)) /\ Len(w) = n /\ e \in Seq(S) /\ v = Append(w, e)
    OBVIOUS
  <2> HIDE DEF w, e
  <2>2. s \o w \in Seq(Seq(S)) /\ s \o v = Append(s \o w, e)
    BY <2>1
  <2>3. FlattenSeq(s \o v) = FlattenSeq(s \o w) \o e /\ FlattenSeq(v) = FlattenSeq(w) \o e
    BY <2>1, <2>2, FlattenAppend
  <2>4. FlattenSeq(s \o w) = FlattenSeq(s) \o FlattenSeq(w)
    BY <1>3, <2>1
  <2> DEFINE x == FlattenSeq(s)
             y == FlattenSeq(w)
  <2>5. /\ x \in Seq(S) /\ y \in Seq(S) /\ e \in Seq(S)
        /\ FlattenSeq(s \o v) = (x \o y) \o e /\ FlattenSeq(v) = y \o e
    BY <1>1, <2>1, <2>3, <2>4
  <2> HIDE DEF x, y
  <2>6. Around(x \o (y \o e), x, y, e)
    BY ONLY <2>5, Regroup
  <2>7. FlattenSeq(s \o v) = x \o FlattenSeq(v)
    BY ONLY <2>5, <2>6 DEF Around
  <2> QED
    BY <2>7 DEF x
<1> HIDE DEF U
<1>4. Len(t) \in Nat /\ Len(t) \in U
  BY <1>2, <1>3, Induction, LenProperties
<1> QED
  BY <1>1, <1>4 DEF U

LEMMA FlattenOne ==
    ASSUME NEW S, NEW s \in Seq(S)
    PROVE  FlattenSeq(<<s>>) = s
<1>1. <<s>> = Append(<<>>, s) /\ <<>> \in Seq(Seq(S)) /\ <<>> \o s = s
  OBVIOUS
<1>2. FlattenSeq(Append(<<>>, s)) = FlattenSeq(<<>>) \o s
  BY <1>1, FlattenAppend
<1> QED
  BY <1>1, <1>2, FlattenEmpty

-------------------------------------------------------------------------------
(***************************************************************************)
(* Kept.                                                                   *)
(***************************************************************************)
Masked(seqs, places) == [i \in DOMAIN seqs |-> IF i \in places THEN seqs[i] ELSE <<>>]

LEMMA MaskedIs ==
    ASSUME NEW S, NEW seqs \in Seq(Seq(S)), NEW places
    PROVE  /\ Masked(seqs, places) \in Seq(Seq(S)) /\ Len(Masked(seqs, places)) = Len(seqs)
           /\ \A i \in 1 .. Len(seqs) :
                 Masked(seqs, places)[i] = IF i \in places THEN seqs[i] ELSE <<>>
           /\ Kept(seqs, places) = FlattenSeq(Masked(seqs, places))
<1>1. /\ Len(seqs) \in Nat /\ DOMAIN seqs = 1 .. Len(seqs)
      /\ \A i \in 1 .. Len(seqs) : seqs[i] \in Seq(S)
  BY LenProperties, ElementOfSeq
<1>2. <<>> \in Seq(S)
  OBVIOUS
<1>3. /\ Masked(seqs, places) \in Seq(Seq(S)) /\ Len(Masked(seqs, places)) = Len(seqs)
      /\ \A i \in 1 .. Len(seqs) :
            Masked(seqs, places)[i] = IF i \in places THEN seqs[i] ELSE <<>>
  BY <1>1, <1>2 DEF Masked
<1>4. Kept(seqs, places) = FlattenSeq(Masked(seqs, places))
  BY DEF Kept, Masked
<1> QED
  BY <1>3, <1>4

LEMMA KeptType ==
    ASSUME NEW S, NEW seqs \in Seq(Seq(S)), NEW places
    PROVE  Kept(seqs, places) \in Seq(S)
<1>1. Masked(seqs, places) \in Seq(Seq(S)) /\ Kept(seqs, places) = FlattenSeq(Masked(seqs, places))
  BY MaskedIs
<1> QED
  BY <1>1, FlattenConcat

-------------------------------------------------------------------------------
(***************************************************************************)
(* The points of charts, and of batches.                                   *)
(***************************************************************************)
LEMMA PointsAreSeqs ==
    ASSUME NEW u \in Seq(Chart)
    PROVE  /\ [i \in DOMAIN u |-> u[i].points] \in Seq(Seq(Point))
           /\ Len([i \in DOMAIN u |-> u[i].points]) = Len(u)
<1>1. Len(u) \in Nat /\ DOMAIN u = 1 .. Len(u) /\ \A i \in 1 .. Len(u) : u[i] \in Chart
  BY LenProperties, ElementOfSeq
<1>2. \A c \in Chart : c.points \in Seq(Point)
  BY DEF Chart
<1> QED
  BY <1>1, <1>2

LEMMA PointsConcat ==
    ASSUME NEW s \in Seq(Chart), NEW t \in Seq(Chart)
    PROVE  /\ Points(s) \in Seq(Point)
           /\ Points(s \o t) = Points(s) \o Points(t)
<1> DEFINE P(u) == [i \in DOMAIN u |-> u[i].points]
<1>1. ASSUME NEW u \in Seq(Chart) PROVE P(u) \in Seq(Seq(Point)) /\ Len(P(u)) = Len(u)
                                        /\ \A i \in 1 .. Len(u) : P(u)[i] = u[i].points
  <2>1. Len(u) \in Nat /\ DOMAIN u = 1 .. Len(u) /\ \A i \in 1 .. Len(u) : u[i] \in Chart
    BY LenProperties, ElementOfSeq
  <2>2. \A c \in Chart : c.points \in Seq(Point)
    BY DEF Chart
  <2> QED
    BY <2>1, <2>2
<1>2. /\ s \o t \in Seq(Chart) /\ Len(s \o t) = Len(s) + Len(t)
      /\ \A i \in 1 .. Len(s) + Len(t) : (s \o t)[i] = IF i <= Len(s) THEN s[i] ELSE t[i - Len(s)]
  BY ConcatProperties
<1>3. /\ P(s) \o P(t) \in Seq(Seq(Point)) /\ Len(P(s) \o P(t)) = Len(s) + Len(t)
      /\ \A i \in 1 .. Len(s) + Len(t) :
            (P(s) \o P(t))[i] = IF i <= Len(s) THEN P(s)[i] ELSE P(t)[i - Len(s)]
  <2>1. /\ P(s) \in Seq(Seq(Point)) /\ Len(P(s)) = Len(s)
        /\ P(t) \in Seq(Seq(Point)) /\ Len(P(t)) = Len(t)
    BY <1>1
  <2> DEFINE a == P(s)
             b == P(t)
  <2>2. a \in Seq(Seq(Point)) /\ b \in Seq(Seq(Point))
    BY <2>1
  <2> HIDE DEF P, a, b
  <2>3. /\ a \o b \in Seq(Seq(Point)) /\ Len(a \o b) = Len(a) + Len(b)
        /\ \A i \in 1 .. Len(a) + Len(b) : (a \o b)[i] = IF i <= Len(a) THEN a[i] ELSE b[i - Len(a)]
    BY <2>2, ConcatProperties
  <2> QED
    BY <2>1, <2>3 DEF a, b
<1>4. P(s \o t) = P(s) \o P(t)
  <2>1. P(s \o t) \in Seq(Seq(Point)) /\ Len(P(s \o t)) = Len(s \o t)
        /\ \A i \in 1 .. Len(s \o t) : P(s \o t)[i] = (s \o t)[i].points
    BY <1>1, <1>2
  <2>2. \A i \in 1 .. Len(s) + Len(t) : P(s \o t)[i] = (P(s) \o P(t))[i]
    <3> SUFFICES ASSUME NEW i \in 1 .. Len(s) + Len(t) PROVE P(s \o t)[i] = (P(s) \o P(t))[i]
      OBVIOUS
    <3>1. CASE i <= Len(s)
      <4>1. i \in 1 .. Len(s)
        BY <3>1
      <4> HIDE DEF P
      <4> QED
        BY <1>1, <1>2, <1>3, <2>1, <3>1, <4>1
    <3>2. CASE ~(i <= Len(s))
      <4>1. i - Len(s) \in 1 .. Len(t)
        BY <3>2
      <4> HIDE DEF P
      <4> QED
        BY <1>1, <1>2, <1>3, <2>1, <3>2, <4>1
    <3> QED
      BY <3>1, <3>2
  <2> HIDE DEF P
  <2> QED
    BY <1>2, <1>3, <2>1, <2>2, SeqEqual
<1>5. \A u : Points(u) = FlattenSeq(P(u))
  BY DEF Points
<1> HIDE DEF P
<1> QED
  BY <1>1, <1>4, <1>5, FlattenConcat

LEMMA PointsShort ==
    /\ Points(<<>>) = <<>>
    /\ \A c \in Chart : Points(<<c>>) = c.points /\ c.points \in Seq(Point)
<1>1. Points(<<>>) = <<>>
  BY FlattenEmpty DEF Points
<1>2. ASSUME NEW c \in Chart PROVE Points(<<c>>) = c.points /\ c.points \in Seq(Point)
  <2>1. [i \in DOMAIN <<c>> |-> <<c>>[i].points] = <<c.points>> /\ c.points \in Seq(Point)
    BY DEF Chart
  <2> QED
    BY <2>1, FlattenOne DEF Points
<1> QED
  BY <1>1, <1>2

LEMMA AllPointsAppend ==
    ASSUME NEW batches \in Seq(Seq(Chart)), NEW b \in Seq(Chart)
    PROVE  /\ AllPoints(batches) \in Seq(Point)
           /\ AllPoints(Append(batches, b)) = AllPoints(batches) \o Points(b)
<1> DEFINE P(u) == [i \in DOMAIN u |-> Points(u[i])]
<1>1. P(batches) \in Seq(Seq(Point)) /\ Points(b) \in Seq(Point)
  <2>1. \A i \in 1 .. Len(batches) : batches[i] \in Seq(Chart)
    BY ElementOfSeq
  <2>2. \A i \in 1 .. Len(batches) : Points(batches[i]) \in Seq(Point)
    BY <2>1, PointsConcat
  <2>3. Len(batches) \in Nat /\ DOMAIN batches = 1 .. Len(batches)
    BY LenProperties
  <2> QED
    BY <2>2, <2>3, PointsConcat
<1>2. P(Append(batches, b)) = Append(P(batches), Points(b))
  OBVIOUS
<1>3. \A u : AllPoints(u) = FlattenSeq(P(u))
  BY DEF AllPoints
<1> HIDE DEF P
<1> QED
  BY <1>1, <1>2, <1>3, FlattenConcat, FlattenAppend

-------------------------------------------------------------------------------
(***************************************************************************)
(* mergeSameChart: what it makes of the charts from the i-th on.           *)
(***************************************************************************)
MergedFrom(f, charts, i) ==
    CASE i > Len(charts) -> <<>>
      [] i < Len(charts) /\ Joinable(charts[i], charts[i + 1]) ->
            <<Joined(charts[i], charts[i + 1])>> \o f[i + 2]
      [] OTHER -> <<charts[i]>> \o f[i + 1]

LEMMA MergeExists ==
    ASSUME NEW charts, Len(charts) \in Nat
    PROVE  \E f : f = [i \in 1 .. Len(charts) + 2 |-> MergedFrom(f, charts, i)]
<1> DEFINE n == Len(charts) + 2
           S == {k \in Nat : k < n => \E f : f = [i \in n - k .. n |-> MergedFrom(f, charts, i)]}
<1>1. 0 \in S
  <2> DEFINE f == [i \in n - 0 .. n |-> <<>>]
  <2>1. \A i \in n - 0 .. n : MergedFrom(f, charts, i) = <<>>
    BY DEF MergedFrom
  <2>2. f = [i \in n - 0 .. n |-> MergedFrom(f, charts, i)]
    BY <2>1
  <2> HIDE DEF f
  <2> QED
    BY <2>2
<1>2. ASSUME NEW k \in Nat, k \in S PROVE k + 1 \in S
  <2> SUFFICES ASSUME k + 1 < n
               PROVE  \E f : f = [i \in n - (k + 1) .. n |-> MergedFrom(f, charts, i)]
    OBVIOUS
  <2>1. PICK f : f = [i \in n - k .. n |-> MergedFrom(f, charts, i)]
    BY <1>2
  <2> DEFINE g == [i \in n - (k + 1) .. n |-> IF i \in n - k .. n THEN f[i]
                                              ELSE MergedFrom(f, charts, i)]
  <2>2. ASSUME NEW i \in n - (k + 1) .. n
        PROVE  MergedFrom(g, charts, i) = MergedFrom(f, charts, i)
    <3>1. CASE i > Len(charts)
      BY <3>1 DEF MergedFrom
    <3>2. CASE ~(i > Len(charts))
      <4>1. i + 1 \in n - k .. n /\ i + 2 \in n - k .. n
        BY <3>2
      <4>2. g[i + 1] = f[i + 1] /\ g[i + 2] = f[i + 2]
        BY <4>1
      <4> HIDE DEF g
      <4> QED
        BY <4>2 DEF MergedFrom
    <3> QED
      BY <3>1, <3>2
  <2>3. \A i \in n - k .. n : f[i] = MergedFrom(f, charts, i)
    BY <2>1
  <2>4. \A i \in n - (k + 1) .. n : g[i] = MergedFrom(g, charts, i)
    BY <2>2, <2>3
  <2>5. g = [i \in n - (k + 1) .. n |-> g[i]]
    OBVIOUS
  <2> HIDE DEF g
  <2>6. g = [i \in n - (k + 1) .. n |-> MergedFrom(g, charts, i)]
    BY <2>4, <2>5
  <2> QED
    BY <2>6
<1>3. Len(charts) + 1 \in S
  <2> HIDE DEF S
  <2> QED
    BY <1>1, <1>2, Induction
<1>4. n - (Len(charts) + 1) = 1 /\ Len(charts) + 1 < n
  OBVIOUS
<1> QED
  BY <1>3, <1>4

LEMMA MergeIs ==
    ASSUME NEW charts, Len(charts) \in Nat
    PROVE  \E f : /\ \A i \in 1 .. Len(charts) + 2 : f[i] = MergedFrom(f, charts, i)
                  /\ mergeSameChart(charts) = f[1]
<1>1. \E f : f = [i \in 1 .. Len(charts) + 2 |-> MergedFrom(f, charts, i)]
  BY MergeExists
<1> DEFINE from == CHOOSE f : f = [i \in 1 .. Len(charts) + 2 |-> MergedFrom(f, charts, i)]
<1>2. from = [i \in 1 .. Len(charts) + 2 |-> MergedFrom(from, charts, i)]
  BY <1>1
<1>3. mergeSameChart(charts) = from[1]
  BY DEF mergeSameChart, MergedFrom
<1> HIDE DEF from
<1>4. \A i \in 1 .. Len(charts) + 2 : from[i] = MergedFrom(from, charts, i)
  BY <1>2
<1> QED
  BY <1>3, <1>4

LEMMA PointsCons ==
    ASSUME NEW c \in Chart, NEW s \in Seq(Chart)
    PROVE  Points(<<c>> \o s) = c.points \o Points(s)
<1>1. <<c>> \in Seq(Chart)
  OBVIOUS
<1> QED
  BY <1>1, PointsConcat, PointsShort

\* Of charts in T come charts in T, with the same points, if T has what is joined
\* of its charts.
LEMMA MergeKeeps ==
    ASSUME NEW T \in SUBSET Chart,
           \A c, d \in T : Joinable(c, d) => Joined(c, d) \in T,
           NEW charts \in Seq(T)
    PROVE  /\ mergeSameChart(charts) \in Seq(T)
           /\ Points(mergeSameChart(charts)) = Points(charts)
<1> DEFINE n == Len(charts)
           Rest(i) == SubSeq(charts, i, n)
<1>1. /\ n \in Nat /\ \A i \in 1 .. n : charts[i] \in T
      /\ charts \in Seq(Chart) /\ \A s \in Seq(T) : s \in Seq(Chart)
  BY LenProperties, ElementOfSeq, SeqMonotonic
<1>2. PICK f : /\ \A i \in 1 .. n + 2 : f[i] = MergedFrom(f, charts, i)
               /\ mergeSameChart(charts) = f[1]
  BY <1>1, MergeIs
<1>3. \A i \in 1 .. n + 2 :
          /\ i > n => f[i] = <<>>
          /\ i < n /\ Joinable(charts[i], charts[i + 1])
                => f[i] = <<Joined(charts[i], charts[i + 1])>> \o f[i + 2]
          /\ i <= n /\ ~(i < n /\ Joinable(charts[i], charts[i + 1]))
                => f[i] = <<charts[i]>> \o f[i + 1]
  <2> SUFFICES ASSUME NEW i \in 1 .. n + 2
               PROVE  LET joined == i < n /\ Joinable(charts[i], charts[i + 1])
                      IN  /\ i > n => f[i] = <<>>
                          /\ joined => f[i] = <<Joined(charts[i], charts[i + 1])>> \o f[i + 2]
                          /\ i <= n /\ ~joined => f[i] = <<charts[i]>> \o f[i + 1]
    OBVIOUS
  <2>1. f[i] = MergedFrom(f, charts, i)
    BY <1>2
  <2>2. CASE i > n
    BY <1>1, <2>1, <2>2 DEF MergedFrom
  <2>3. CASE i < n /\ Joinable(charts[i], charts[i + 1])
    BY <1>1, <2>1, <2>3 DEF MergedFrom
  <2>4. CASE i <= n /\ ~(i < n /\ Joinable(charts[i], charts[i + 1]))
    BY <1>1, <2>1, <2>4 DEF MergedFrom
  <2> QED
    BY <1>1, <2>2, <2>3, <2>4
<1>4. \A i \in 1 .. n : Rest(i) = <<charts[i]>> \o Rest(i + 1)
  BY <1>1, SubSeqRecursiveFirst
<1>5. \A i \in 1 .. n + 2 : Rest(i) \in Seq(Chart)
  BY <1>1, SubSeqProperties
<1>6. \A i \in 1 .. n + 2 : i > n => Rest(i) = <<>>
  BY <1>1, SubSeqEmpty
<1>7. Rest(1) = charts
  BY SubSeqFull
<1> HIDE DEF n, Rest
<1> DEFINE Good(i) == f[i] \in Seq(T) /\ Points(f[i]) = Points(Rest(i))
<1>8. Good(n + 1) /\ Good(n + 2)
  <2>1. n + 1 \in 1 .. n + 2 /\ n + 2 \in 1 .. n + 2 /\ n + 1 > n /\ n + 2 > n
    BY <1>1
  <2>2. f[n + 1] = <<>> /\ f[n + 2] = <<>>
    BY <1>3, <2>1
  <2>3. Rest(n + 1) = <<>> /\ Rest(n + 2) = <<>>
    BY <1>6, <2>1
  <2> QED
    BY <2>2, <2>3
<1>9. ASSUME NEW i \in 1 .. n, Good(i + 1), Good(i + 2) PROVE Good(i)
  <2> DEFINE c == charts[i]
             d == charts[i + 1]
  <2>1. /\ c \in T /\ c \in Chart /\ f[i + 1] \in Seq(T) /\ f[i + 2] \in Seq(T)
        /\ i \in 1 .. n + 2 /\ i + 1 \in 1 .. n + 2 /\ i + 2 \in 1 .. n + 2
    BY <1>1, <1>9
  <2>2. Points(Rest(i)) = c.points \o Points(Rest(i + 1))
    BY <1>4, <1>5, <2>1, PointsCons
  <2>3. CASE i < n /\ Joinable(c, d)
    <3> DEFINE j == Joined(c, d)
    <3>1. d \in T /\ d \in Chart /\ i + 1 \in 1 .. n
      BY <1>1, <2>3
    <3>2. j \in T /\ j \in Chart
      BY <2>1, <2>3, <3>1
    <3>3. j.points = c.points \o d.points
      BY <2>1 DEF Joined, Chart
    <3>4. f[i] = <<j>> \o f[i + 2]
      BY <1>3, <2>1, <2>3
    <3> HIDE DEF j
    <3>5. f[i] \in Seq(T)
      <4>1. <<j>> \in Seq(T)
        BY <3>2
      <4> QED
        BY <2>1, <3>4, <4>1, ConcatProperties
    <3>6. Points(f[i]) = (c.points \o d.points) \o Points(Rest(i + 2))
      BY <1>1, <1>9, <2>1, <3>2, <3>3, <3>4, PointsCons
    <3>7. Points(Rest(i + 1)) = d.points \o Points(Rest(i + 2))
      <4>1. Rest(i + 1) = <<d>> \o Rest(i + 2)
        <5>1. (i + 1) + 1 = i + 2
          OBVIOUS
        <5> QED
          BY <1>4, <3>1, <5>1
      <4> QED
        BY <1>5, <2>1, <3>1, <4>1, PointsCons
    <3>8. /\ c.points \in Seq(Point) /\ d.points \in Seq(Point)
          /\ Points(Rest(i + 2)) \in Seq(Point)
      <4>1. Points(Rest(i + 2)) \in Seq(Point)
        BY <1>5, <2>1, PointsConcat
      <4> QED
        BY <2>1, <3>1, <4>1, PointsShort
    <3>9. Points(f[i]) = Points(Rest(i))
      <4> DEFINE x == c.points
                 y == d.points
                 z == Points(Rest(i + 2))
      <4>1. /\ x \in Seq(Point) /\ y \in Seq(Point) /\ z \in Seq(Point)
            /\ Points(f[i]) = (x \o y) \o z /\ Points(Rest(i)) = x \o (y \o z)
        BY <2>2, <3>6, <3>7, <3>8
      <4> HIDE DEF x, y, z
      <4>2. Around(x \o (y \o z), x, y, z)
        BY ONLY <4>1, Regroup
      <4> QED
        BY ONLY <4>1, <4>2 DEF Around
    <3> QED
      BY <3>5, <3>9
  <2>4. CASE ~(i < n /\ Joinable(c, d))
    <3>1. f[i] = <<c>> \o f[i + 1]
      <4>1. i <= n
        BY <1>1
      <4> QED
        BY <1>3, <2>1, <2>4, <4>1
    <3>2. f[i] \in Seq(T)
      <4>1. <<c>> \in Seq(T)
        BY <2>1
      <4> QED
        BY <2>1, <3>1, <4>1, ConcatProperties
    <3>3. Points(f[i]) = c.points \o Points(f[i + 1])
      BY <1>1, <2>1, <3>1, PointsCons
    <3> QED
      BY <1>9, <2>2, <3>2, <3>3
  <2> QED
    BY <2>3, <2>4
<1> DEFINE S == {k \in Nat : k <= n => Good((n + 1) - k) /\ Good((n + 2) - k)}
<1> HIDE DEF Good
<1>10. 0 \in S
  BY <1>1, <1>8
<1>11. ASSUME NEW k \in Nat, k \in S PROVE k + 1 \in S
  <2> SUFFICES ASSUME k + 1 <= n PROVE Good((n + 1) - (k + 1)) /\ Good((n + 2) - (k + 1))
    OBVIOUS
  <2>1. /\ n - k \in 1 .. n /\ (n + 1) - (k + 1) = n - k /\ (n + 2) - (k + 1) = (n - k) + 1
        /\ (n + 1) - k = (n - k) + 1 /\ (n + 2) - k = (n - k) + 2 /\ k <= n
    BY <1>1
  <2>2. Good((n - k) + 1) /\ Good((n - k) + 2)
    BY <1>11, <2>1
  <2> QED
    BY <1>9, <2>1, <2>2
<1>12. n \in S
  <2> HIDE DEF S
  <2> QED
    BY <1>1, <1>10, <1>11, Induction
<1>13. Good(1)
  <2>1. (n + 1) - n = 1 /\ n <= n
    BY <1>1
  <2> QED
    BY <1>12, <2>1
<1> QED
  BY <1>2, <1>7, <1>13 DEF Good

-------------------------------------------------------------------------------
(***************************************************************************)
(* The invariant of the feed.                                              *)
(***************************************************************************)
\* What is joined of such charts is such a chart.
GoodChart == {c \in Chart : HasChannel(c)}

\* A chart that waits has one point, the next one.
OfferedOK ==
    offered # <<>> =>
        \E c \in GoodChart : offered = <<c>> /\ Len(c.points) = 1 /\ c.points[1].n = Len(taken) + 1

ChartsOK ==
    /\ batch \in Seq(GoodChart) /\ delivered \in Seq(Seq(GoodChart))
    /\ taken \in Seq(Point) /\ published \in Seq(Point)
    /\ inFlight \subseteq 1 .. Len(delivered)

\* No batch is empty.
BatchesOK ==
    /\ mode \in {"idle", "collecting", "sending", "done"}
    /\ IF mode \in {"idle", "done"} THEN batch = <<>> ELSE Points(batch) # <<>>
    /\ \A b \in 1 .. Len(delivered) : Points(delivered[b]) # <<>>

\* What is lost comes last, and the goroutine ends with it.
OrderOK ==
    \E lost \in Seq(Point) :
        /\ taken = (AllPoints(delivered) \o Points(batch)) \o lost
        /\ lost # <<>> => cancelled /\ mode = "done"

FeedInv == OfferedOK /\ ChartsOK /\ BatchesOK /\ OrderOK

LEMMA JoinedIsGood ==
    ASSUME NEW c \in GoodChart, NEW d \in GoodChart, Joinable(c, d)
    PROVE  Joined(c, d) \in GoodChart
<1> DEFINE j == Joined(c, d)
<1>1. c.points \in Seq(Point) /\ d.points \in Seq(Point)
  BY DEF GoodChart, Chart
<1>2. c.points \o d.points \in Seq(Point)
  BY <1>1
<1>3. j \in Chart /\ j.points = c.points \o d.points /\ j.symbol = c.symbol
      /\ j.resolution = c.resolution
  BY <1>2 DEF Joined, GoodChart, Chart
<1> HIDE DEF j
<1>4. HasChannel(j)
  BY <1>3 DEF GoodChart, HasChannel
<1> QED
  BY <1>3, <1>4 DEF GoodChart, j

\* What is received is good, and has the points of the batch.
LEMMA MergeIsGood ==
    ASSUME NEW charts \in Seq(GoodChart)
    PROVE  /\ mergeSameChart(charts) \in Seq(GoodChart)
           /\ Points(mergeSameChart(charts)) = Points(charts)
<1>1. GoodChart \in SUBSET Chart
  BY DEF GoodChart
<1> QED
  BY <1>1, JoinedIsGood, MergeKeeps

LEMMA GoodSeqs ==
    /\ \A s \in Seq(GoodChart) : s \in Seq(Chart) /\ Points(s) \in Seq(Point)
    /\ \A s \in Seq(Seq(GoodChart)) : s \in Seq(Seq(Chart)) /\ AllPoints(s) \in Seq(Point)
<1>1. GoodChart \subseteq Chart
  BY DEF GoodChart
<1>2. \A s \in Seq(GoodChart) : s \in Seq(Chart) /\ Points(s) \in Seq(Point)
  BY <1>1, SeqMonotonic, PointsConcat
<1>3. Seq(GoodChart) \subseteq Seq(Chart)
  BY <1>2
<1>4. \A s \in Seq(Seq(GoodChart)) : s \in Seq(Seq(Chart))
  BY <1>3, SeqMonotonic
<1>5. \A s \in Seq(Seq(GoodChart)) : AllPoints(s) \in Seq(Point)
  BY <1>4, AllPointsAppend, EmptySeq
<1> QED
  BY <1>2, <1>4, <1>5

LEMMA InitFeedInv == FeedInit => FeedInv
<1> SUFFICES ASSUME FeedInit PROVE FeedInv
  OBVIOUS
<1>1. Points(batch) = <<>> /\ AllPoints(delivered) = <<>>
  BY PointsShort, FlattenEmpty DEF FeedInit, Init, AllPoints
<1>2. OrderOK
  <2>1. taken = (AllPoints(delivered) \o Points(batch)) \o <<>> /\ <<>> \in Seq(Point)
    BY <1>1 DEF FeedInit, Init
  <2> QED
    BY <2>1 DEF OrderOK
<1> QED
  BY <1>2 DEF FeedInit, Init, FeedInv, OfferedOK, ChartsOK, BatchesOK

-------------------------------------------------------------------------------
(***************************************************************************)
(* Every step keeps it.                                                    *)
(***************************************************************************)
\* An update becomes a chart that has a channel, by name or by ID.
LEMMA ListenIsGood ==
    ASSUME FeedInv, NEW upd \in Updates, Listen(upd)
    PROVE  FeedInv'
<1> DEFINE n == Len(taken) + 1
           point == [t |-> upd[3], n |-> n]
           c == [symbol |-> SymbolOf(upd[1]), resolution |-> upd[2], points |-> <<point>>]
<1>1. /\ upd[1] \in Symbols /\ upd[2] \in Resolutions /\ upd[3] \in Times
      /\ taken \in Seq(Point) /\ n \in 1 .. MaxCharts /\ offered' = <<c>>
      /\ UNCHANGED <<cancelled, mode, batch, delivered, taken, feedVars>>
  BY SizeAssumption, UpdatesAssumption DEF Listen, Offer, FeedInv, ChartsOK
<1>2. SymbolOf(upd[1]) \in Range(marketsMap) /\ SymbolOf(upd[1]) \in Symbols
  BY <1>1, NamesAssumption DEF SymbolOf, Range
<1>3. point \in Point /\ <<point>> \in Seq(Point)
  BY <1>1 DEF Point
<1>4. c \in Chart /\ c.points = <<point>> /\ point.n = n
  BY <1>1, <1>2, <1>3 DEF Chart
<1>5. HasChannel(c)
  BY <1>1, <1>2 DEF HasChannel, Channels
<1>6. Len(c.points) = 1 /\ c.points[1].n = n
  BY <1>4
<1> HIDE DEF c, point
<1>7. c \in GoodChart
  BY <1>4, <1>5, <1>6 DEF GoodChart
<1>8. OfferedOK'
  BY <1>1, <1>6, <1>7 DEF OfferedOK
<1> QED
  BY <1>1, <1>8 DEF FeedInv, ChartsOK, BatchesOK, OrderOK, feedVars

\* Until the goroutine ends, nothing is lost.
LEMMA NothingLost ==
    ASSUME FeedInv, mode # "done"
    PROVE  taken = AllPoints(delivered) \o Points(batch)
<1>1. PICK lost \in Seq(Point) : /\ taken = (AllPoints(delivered) \o Points(batch)) \o lost
                                 /\ lost = <<>>
  BY DEF FeedInv, OrderOK
<1>2. AllPoints(delivered) \o Points(batch) \in Seq(Point)
  BY GoodSeqs, ConcatProperties DEF FeedInv, ChartsOK
<1> QED
  BY <1>1, <1>2

LEMMA TakeIsGood ==
    ASSUME FeedInv, Take, UNCHANGED feedVars
    PROVE  FeedInv'
<1>1. PICK c \in GoodChart : offered = <<c>> /\ Len(c.points) = 1
  BY DEF Take, FeedInv, OfferedOK
<1>2. /\ batch' = batch \o <<c>> /\ taken' = taken \o c.points /\ offered' = <<>>
      /\ mode' \in {"collecting", "sending"} /\ mode # "done"
      /\ UNCHANGED <<cancelled, delivered, published, inFlight>>
  BY <1>1, PointsShort DEF Take, feedVars, GoodChart
<1>3. /\ batch \in Seq(GoodChart) /\ batch \in Seq(Chart) /\ <<c>> \in Seq(GoodChart)
      /\ c \in Chart /\ <<c>> \in Seq(Chart) /\ c.points \in Seq(Point)
  <2>1. c \in Chart /\ batch \in Seq(GoodChart)
    BY DEF FeedInv, ChartsOK, GoodChart
  <2>2. <<c>> \in Seq(GoodChart) /\ <<c>> \in Seq(Chart)
    BY <2>1
  <2> QED
    BY <2>1, <2>2, GoodSeqs, PointsShort
<1>4. Points(batch') = Points(batch) \o c.points /\ Points(batch) \in Seq(Point)
  BY <1>2, <1>3, PointsConcat, PointsShort
<1>5. Points(batch') # <<>>
  <2>1. c.points # <<>>
    <3>1. Len(c.points) = 1 /\ Len(<<>>) = 0
      BY <1>1
    <3> QED
      BY ONLY <3>1
  <2> QED
    BY <1>3, <1>4, <2>1, ConcatEqualIffEmpty
<1>6. ChartsOK'
  BY <1>2, <1>3 DEF FeedInv, ChartsOK
<1>7. BatchesOK'
  BY <1>2, <1>5 DEF FeedInv, BatchesOK
<1>8. taken = AllPoints(delivered) \o Points(batch)
  BY <1>2, NothingLost
<1>9. taken' = AllPoints(delivered') \o Points(batch')
  <2>1. AllPoints(delivered) \in Seq(Point)
    BY GoodSeqs DEF FeedInv, ChartsOK
  <2> DEFINE x == AllPoints(delivered)
             y == Points(batch)
             z == c.points
  <2>2. /\ x \in Seq(Point) /\ y \in Seq(Point) /\ z \in Seq(Point)
        /\ taken' = (x \o y) \o z /\ Points(batch') = y \o z
    BY <1>2, <1>3, <1>4, <1>8, <2>1
  <2> HIDE DEF x, y, z
  <2>3. Around(x \o (y \o z), x, y, z)
    BY ONLY <2>2, Regroup
  <2>4. taken' = x \o Points(batch')
    BY ONLY <2>2, <2>3 DEF Around
  <2> QED
    BY <1>2, <2>4 DEF x
<1>10. OrderOK'
  <2>1. taken' \in Seq(Point) /\ <<>> \in Seq(Point)
    BY <1>6 DEF ChartsOK
  <2>2. taken' = (AllPoints(delivered') \o Points(batch')) \o <<>>
    BY <1>9, <2>1, ConcatEmptySeq
  <2> QED
    BY <2>1, <2>2 DEF OrderOK
<1> QED
  BY <1>2, <1>6, <1>7, <1>10 DEF FeedInv, OfferedOK

LEMMA SeeCancelledIsGood ==
    ASSUME FeedInv, SeeCancelled, UNCHANGED feedVars
    PROVE  FeedInv'
<1>1. /\ cancelled /\ mode # "done" /\ mode' = "done" /\ batch' = <<>>
      /\ UNCHANGED <<offered, cancelled, delivered, taken, published, inFlight>>
  BY DEF SeeCancelled, feedVars
<1>2. taken = AllPoints(delivered) \o Points(batch)
  BY <1>1, NothingLost
<1>3. AllPoints(delivered) \in Seq(Point) /\ Points(batch) \in Seq(Point)
  BY GoodSeqs DEF FeedInv, ChartsOK
<1>4. AllPoints(delivered') \o Points(batch') = AllPoints(delivered)
  BY <1>1, <1>3, PointsShort, ConcatEmptySeq
<1>5. OrderOK'
  BY <1>1, <1>2, <1>3, <1>4 DEF OrderOK
<1>6. <<>> \in Seq(GoodChart)
  OBVIOUS
<1> QED
  BY <1>1, <1>5, <1>6 DEF FeedInv, OfferedOK, ChartsOK, BatchesOK

LEMMA ReceiveIsGood ==
    ASSUME FeedInv, ReceiveBatch
    PROVE  FeedInv'
<1> DEFINE b == mergeSameChart(batch)
           n == Len(delivered) + 1
<1>1. /\ batch \in Seq(GoodChart) /\ delivered \in Seq(Seq(GoodChart))
      /\ mode = "sending" /\ mode' = "idle" /\ delivered' = Append(delivered, b)
      /\ batch' = <<>> /\ inFlight' = inFlight \cup {Len(delivered')}
      /\ UNCHANGED <<offered, cancelled, taken, published>>
  BY DEF ReceiveBatch, Deliver, Publish, FeedInv, ChartsOK
<1>2. b \in Seq(GoodChart) /\ Points(b) = Points(batch)
  BY <1>1, MergeIsGood
<1> HIDE DEF b
<1>3. /\ delivered' \in Seq(Seq(GoodChart)) /\ Len(delivered) \in Nat /\ Len(delivered') = n
      /\ \A i \in 1 .. n : delivered'[i] = IF i = n THEN b ELSE delivered[i]
  <2> DEFINE d == delivered
  <2>1. d \in Seq(Seq(GoodChart)) /\ b \in Seq(GoodChart) /\ delivered' = Append(d, b) /\ n = Len(d) + 1
    BY <1>1, <1>2
  <2> HIDE DEF d, n
  <2>2. /\ Append(d, b) \in Seq(Seq(GoodChart)) /\ Len(d) \in Nat /\ Len(Append(d, b)) = Len(d) + 1
        /\ \A i \in 1 .. Len(d) : Append(d, b)[i] = d[i]
        /\ Append(d, b)[Len(d) + 1] = b
    BY ONLY <2>1, AppendProperties, LenProperties
  <2>3. \A i \in 1 .. n : i # n => i \in 1 .. Len(d)
    BY <2>1, <2>2
  <2>4. delivered' \in Seq(Seq(GoodChart)) /\ Len(delivered') = n /\ Len(d) \in Nat
    BY <2>1, <2>2
  <2>5. ASSUME NEW i \in 1 .. n PROVE delivered'[i] = IF i = n THEN b ELSE d[i]
    <3>1. CASE i = n
      BY <2>1, <2>2, <3>1
    <3>2. CASE i # n
      BY <2>1, <2>2, <2>3, <3>2
    <3> QED
      BY <3>1, <3>2
  <2> QED
    BY <2>4, <2>5 DEF d
<1> DEFINE m == Len(delivered)
           more == Len(delivered')
<1>4. m \in Nat /\ more = n /\ n = m + 1
  BY <1>3
<1>5. inFlight \subseteq 1 .. m /\ inFlight' = inFlight \cup {more}
  BY <1>1 DEF FeedInv, ChartsOK
<1> HIDE DEF m, n, more
<1>6. ChartsOK'
  <2>1. batch' \in Seq(GoodChart) /\ taken' \in Seq(Point) /\ published' \in Seq(Point)
    BY <1>1, EmptySeq DEF FeedInv, ChartsOK
  <2>2. inFlight' \subseteq 1 .. more
    BY <1>4, <1>5
  <2> QED
    BY <1>3, <2>1, <2>2 DEF ChartsOK, more
<1>7. BatchesOK'
  BY <1>1, <1>2, <1>3 DEF FeedInv, BatchesOK
<1>8. AllPoints(delivered') \o Points(batch') = AllPoints(delivered) \o Points(batch)
  <2>1. /\ delivered \in Seq(Seq(Chart)) /\ b \in Seq(Chart)
        /\ AllPoints(delivered) \in Seq(Point) /\ Points(batch) \in Seq(Point)
    BY <1>1, <1>2, GoodSeqs
  <2>2. AllPoints(delivered') = AllPoints(delivered) \o Points(batch)
    BY <1>1, <1>2, <2>1, AllPointsAppend
  <2>3. AllPoints(delivered') \in Seq(Point)
    BY <2>1, <2>2, ConcatProperties
  <2> QED
    BY <1>1, <2>2, <2>3, PointsShort, ConcatEmptySeq
<1>9. OrderOK'
  BY <1>1, <1>8 DEF FeedInv, OrderOK
<1> QED
  BY <1>1, <1>6, <1>7, <1>9 DEF FeedInv, OfferedOK

\* What Centrifugo takes of a batch are points.
LEMMA SentArePoints ==
    ASSUME ChartsOK, NEW b \in 1 .. Len(delivered), NEW accepted
    PROVE  Kept([i \in DOMAIN delivered[b] |-> delivered[b][i].points], accepted) \in Seq(Point)
<1> DEFINE charts == delivered[b]
           P == [i \in DOMAIN charts |-> charts[i].points]
<1>1. charts \in Seq(Chart)
  BY ElementOfSeq, GoodSeqs DEF ChartsOK
<1> HIDE DEF charts
<1>2. P \in Seq(Seq(Point))
  BY <1>1, PointsAreSeqs
<1> HIDE DEF P
<1>3. Kept(P, accepted) \in Seq(Point)
  BY <1>2, KeptType
<1> QED
  BY <1>3 DEF P, charts

LEMMA BroadcastIsGood ==
    ASSUME FeedInv, NEW b \in inFlight, Broadcast(b)
    PROVE  FeedInv'
<1>1. PICK accepted : Sent(b, Kept([i \in DOMAIN delivered[b] |-> delivered[b][i].points], accepted))
  BY DEF Broadcast
<1>2. UNCHANGED <<offered, cancelled, mode, batch, delivered, taken>>
  BY DEF Broadcast, vars
<1>3. b \in 1 .. Len(delivered) /\ ChartsOK
  BY DEF FeedInv, ChartsOK
<1>4. published' \in Seq(Point) /\ inFlight' \subseteq inFlight
  BY <1>1, <1>3, SentArePoints DEF Sent, ChartsOK
<1> QED
  BY <1>2, <1>4 DEF FeedInv, OfferedOK, ChartsOK, BatchesOK, OrderOK

\* Nothing else touches charts that were taken.
LEMMA OthersAreGood ==
    ASSUME FeedInv, UNCHANGED <<batch, delivered, taken, published, inFlight>>,
           UNCHANGED offered \/ offered' = <<>>, cancelled => cancelled',
           \/ UNCHANGED mode
           \/ mode = "collecting" /\ mode' = "sending"
           \/ mode = "idle" /\ mode' = "done"
    PROVE  FeedInv'
<1>1. OrderOK'
  BY DEF FeedInv, OrderOK
<1>2. BatchesOK'
  BY DEF FeedInv, BatchesOK
<1> QED
  BY <1>1, <1>2 DEF FeedInv, OfferedOK, ChartsOK

LEMMA NextFeedInv == FeedInv /\ [FeedNext]_allVars => FeedInv'
<1> SUFFICES ASSUME FeedInv, [FeedNext]_allVars PROVE FeedInv'
  OBVIOUS
<1>1. CASE Timeout /\ UNCHANGED feedVars
  BY <1>1, OthersAreGood DEF Timeout, feedVars
<1>2. CASE SeeClosed /\ UNCHANGED feedVars
  BY <1>2, OthersAreGood DEF SeeClosed, feedVars
<1>3. CASE Cancel /\ UNCHANGED feedVars
  BY <1>3, OthersAreGood DEF Cancel, feedVars
<1>4. CASE ListenerEnds \/ ListenerGivesUp \/ StopReceiving
  BY <1>4, OthersAreGood DEF ListenerEnds, Close, ListenerGivesUp, StopReceiving, feedVars, vars
<1>5. CASE ReceiveNil \/ BroadcastNil
  BY <1>5, OthersAreGood DEF ReceiveNil, BroadcastNil, vars
<1>6. CASE FeedEnded \/ UNCHANGED allVars
  BY <1>6, OthersAreGood DEF FeedEnded, Ended, allVars, feedVars, vars
<1> QED
  BY <1>1, <1>2, <1>3, <1>4, <1>5, <1>6, TakeIsGood, SeeCancelledIsGood, ListenIsGood, ReceiveIsGood,
     BroadcastIsGood DEF FeedNext

LEMMA FeedInvHolds == FeedSpec => []FeedInv
BY InitFeedInv, NextFeedInv, PTL DEF FeedSpec

-------------------------------------------------------------------------------
(***************************************************************************)
(* Order and channels.                                                     *)
(***************************************************************************)
LEMMA PrefixOfConcat ==
    ASSUME NEW S, NEW s \in Seq(S), NEW t \in Seq(S)
    PROVE  IsPrefix(s, s \o t)
<1>1. /\ Len(s) \in Nat /\ Len(t) \in Nat /\ Len(s \o t) = Len(s) + Len(t)
      /\ \A i \in 1 .. Len(s) : (s \o t)[i] = s[i] /\ s[i] \in S
  BY ConcatProperties, LenProperties, ElementOfSeq
<1>2. \A i \in 1 .. Len(s) : i \in Int /\ (1 + i) - 1 = i
  OBVIOUS
<1>3. SubSeq(s, 1, Len(s)) = s
  BY SubSeqFull
<1>4. SubSeq(s \o t, 1, Len(s)) = s
  <2> DEFINE p == SubSeq(s \o t, 1, Len(s))
  <2>1. p \in Seq(S) /\ Len(p) = Len(s) /\ \A i \in 1 .. Len(s) : p[i] = s[i]
    BY <1>1
  <2> HIDE DEF p
  <2>2. p = s
    BY <2>1, SeqEqual
  <2> QED
    BY <2>2 DEF p
<1> QED
  BY <1>1, <1>3, <1>4 DEF IsPrefix

\* Joining neighbours, a timeout that races with the next chart, the closing of
\* the channel: none of them loses, doubles or moves a point on its way through
\* Microbatching, whatever the size of batches; only cancelling loses the last.
THEOREM PointsInOrderHolds == FeedSpec => []PointsInOrder
<1>1. FeedInv => PointsInOrder
  <2> SUFFICES ASSUME FeedInv PROVE PointsInOrder
    OBVIOUS
  <2>1. PICK lost \in Seq(Point) : /\ taken = (AllPoints(delivered) \o Points(batch)) \o lost
                                   /\ lost # <<>> => cancelled
    BY DEF FeedInv, OrderOK
  <2> DEFINE a == AllPoints(delivered)
             c == Points(batch)
  <2>2. a \in Seq(Point) /\ c \in Seq(Point) /\ taken = (a \o c) \o lost
    BY <2>1, GoodSeqs DEF FeedInv, ChartsOK
  <2> HIDE DEF a, c
  <2>3. taken = a \o (c \o lost) /\ c \o lost \in Seq(Point) /\ a \o c \in Seq(Point)
    <3>1. Around(a \o (c \o lost), a, c, lost)
      BY <2>2, Regroup
    <3>2. taken = a \o (c \o lost)
      BY <2>2, <3>1 DEF Around
    <3>3. c \o lost \in Seq(Point) /\ a \o c \in Seq(Point)
      BY <2>2, ConcatProperties
    <3> QED
      BY <3>2, <3>3
  <2>4. IsPrefix(a, taken)
    BY <2>2, <2>3, PrefixOfConcat
  <2>5. ~cancelled => a \o c = taken
    BY <2>1, <2>2, <2>3, ConcatEmptySeq
  <2> QED
    BY <2>4, <2>5 DEF PointsInOrder, a, c
<1> QED
  BY <1>1, FeedInvHolds, PTL

\* Whether an update carries its market's name or its ID, the chart made of it has
\* a channel, and so has what it is joined to: no handler of a batch panics.
THEOREM ChannelsExistHolds == FeedSpec => []ChannelsExist
<1>1. FeedInv => ChannelsExist
  <2> SUFFICES ASSUME FeedInv, NEW b \in DOMAIN delivered, NEW chart \in Range(delivered[b])
               PROVE  HasChannel(chart)
    BY DEF ChannelsExist
  <2>1. delivered[b] \in Seq(GoodChart)
    BY DEF FeedInv, ChartsOK
  <2>2. chart \in GoodChart
    BY <2>1 DEF Range
  <2> QED
    BY <2>2 DEF GoodChart
<1> QED
  BY <1>1, FeedInvHolds, PTL

-------------------------------------------------------------------------------
(***************************************************************************)
(* Sequences put together of parts, and what Publications says of parts.   *)
(***************************************************************************)
\* The parts a concatenation of two has as subsequences.
LEMMA TwoParts ==
    ASSUME NEW S, NEW s \in Seq(S), NEW t \in Seq(S)
    PROVE  /\ SubSeq(s \o t, 1, Len(s)) = s
           /\ SubSeq(s \o t, Len(s) + 1, Len(s \o t)) = t
<1>1. /\ s \o t \in Seq(S) /\ Len(s) \in Nat /\ Len(t) \in Nat
      /\ Len(s \o t) = Len(s) + Len(t)
      /\ \A i \in 1 .. Len(s) + Len(t) : (s \o t)[i] = IF i <= Len(s) THEN s[i] ELSE t[i - Len(s)]
  BY ConcatProperties, LenProperties
<1>2. /\ \A i \in 1 .. Len(s) : (s \o t)[i] = s[i] /\ s[i] \in S
      /\ \A i \in 1 .. Len(t) : (s \o t)[i + Len(s)] = t[i] /\ t[i] \in S
  <2>1. \A i \in 1 .. Len(s) : i \in 1 .. Len(s) + Len(t) /\ i <= Len(s)
    BY <1>1
  <2>2. \A i \in 1 .. Len(t) : /\ i + Len(s) \in 1 .. Len(s) + Len(t) /\ ~(i + Len(s) <= Len(s))
                               /\ (i + Len(s)) - Len(s) = i
    BY <1>1
  <2> QED
    BY <1>1, <2>1, <2>2, ElementOfSeq
<1> DEFINE c == s \o t
           m == Len(s)
           n == Len(t)
<1>3. /\ c \in Seq(S) /\ m \in Nat /\ n \in Nat /\ Len(c) = m + n
      /\ \A i \in 1 .. m : c[i] = s[i] /\ s[i] \in S
      /\ \A i \in 1 .. n : c[i + m] = t[i] /\ t[i] \in S
  BY <1>1, <1>2
<1> HIDE DEF c, m, n
<1>4. SubSeq(c, 1, m) = s
  <2>1. /\ SubSeq(c, 1, m) \in Seq(S) /\ Len(SubSeq(c, 1, m)) = m
        /\ \A i \in 1 .. m : SubSeq(c, 1, m)[i] = s[i]
    BY <1>3
  <2> QED
    BY <2>1, SeqEqual DEF m
<1>5. SubSeq(c, m + 1, m + n) = t
  <2> DEFINE p == SubSeq(c, m + 1, m + n)
  <2>1. p \in Seq(S) /\ Len(p) = n /\ \A i \in 1 .. n : p[i] = t[i]
    <3>1. \A i \in 1 .. n : i + m \in 1 .. Len(c)
      BY <1>3
    <3>2. p \in Seq(S) /\ Len(p) = n /\ \A i \in 1 .. n : p[i] = c[i + m]
      BY <1>3
    <3> QED
      BY <1>3, <3>2
  <2> HIDE DEF p
  <2> QED
    BY <2>1, SeqEqual DEF n, p
<1> QED
  BY <1>3, <1>4, <1>5 DEF c, m

\* From first to last, w is m; l is before, r behind.
Cut(w, first, last, l, m, r) ==
    /\ SubSeq(w, 1, first - 1) = l
    /\ SubSeq(w, first, last) = m
    /\ SubSeq(w, last + 1, Len(w)) = r

LEMMA ThreeParts ==
    ASSUME NEW S, NEW l \in Seq(S), NEW m \in Seq(S), NEW r \in Seq(S), m # <<>>
    PROVE  LET w == (l \o m) \o r
               first == Len(l) + 1
               last == Len(l) + Len(m)
           IN  /\ first \in 1 .. Len(w) /\ last \in 1 .. Len(w) /\ first <= last
               /\ Cut(w, first, last, l, m, r)
<1> DEFINE w == (l \o m) \o r
           a == l \o m
           x == Len(l)
           y == Len(m)
<1>1. /\ x \in Nat /\ y \in Nat /\ y > 0 /\ Len(r) \in Nat
      /\ a \in Seq(S) /\ Len(a) = x + y /\ w \in Seq(S) /\ Len(w) = (x + y) + Len(r)
  BY ConcatProperties, LenProperties, EmptySeq
<1>2. /\ SubSeq(a, 1, x) = l /\ SubSeq(a, x + 1, x + y) = m
      /\ SubSeq(w, 1, x + y) = a /\ SubSeq(w, x + y + 1, Len(w)) = r
  <2>1. SubSeq(a, 1, x) = l /\ SubSeq(a, x + 1, Len(a)) = m
    BY TwoParts
  <2> HIDE DEF a
  <2>2. SubSeq(w, 1, Len(a)) = a /\ SubSeq(w, Len(a) + 1, Len(w)) = r
    BY <1>1, TwoParts DEF a
  <2> QED
    BY <1>1, <2>1, <2>2
<1>3. /\ \A i \in 1 .. x + y : w[i] = a[i] /\ a[i] \in S
      /\ \A i \in 1 .. x : a[i] = l[i]
  BY <1>1, ConcatProperties, ElementOfSeq
<1>4. w = a \o r
  OBVIOUS
<1> HIDE DEF a, x, y, w
<1>5. SubSeq(w, 1, x) = SubSeq(a, 1, x) /\ SubSeq(w, x + 1, x + y) = SubSeq(a, x + 1, x + y)
  <2>1. w = a \o r
    BY <1>4
  <2>2. SubSeq(w, x + 1, x + y) = SubSeq(a, x + 1, x + y)
    BY <1>1, <2>1, SubSeqOfConcat1
  <2>3. CASE x = 0
    BY <1>1, <2>2, <2>3, SubSeqEmpty
  <2>4. CASE x # 0
    <3>1. 1 \in 1 .. Len(a) /\ x \in 1 .. Len(a)
      BY <1>1, <2>4
    <3>2. SubSeq(w, 1, x) = SubSeq(a, 1, x)
      BY <1>1, <2>1, <3>1, SubSeqOfConcat1
    <3> QED
      BY <2>2, <3>2
  <2> QED
    BY <2>3, <2>4
<1>6. x + 1 \in 1 .. Len(w) /\ x + y \in 1 .. Len(w) /\ x + 1 <= x + y /\ (x + 1) - 1 = x
  BY <1>1
<1> QED
  BY <1>2, <1>5, <1>6 DEF x, y, w, Cut

\* A sequence around one of its elements.
LEMMA AroundElement ==
    ASSUME NEW S, NEW s \in Seq(S), NEW b \in 1 .. Len(s)
    PROVE  /\ SubSeq(s, 1, b - 1) \in Seq(S) /\ SubSeq(s, b + 1, Len(s)) \in Seq(S)
           /\ s = (SubSeq(s, 1, b - 1) \o <<s[b]>>) \o SubSeq(s, b + 1, Len(s))
<1>1. Len(s) \in Nat /\ \A i \in 1 .. Len(s) : s[i] \in S
  BY LenProperties, ElementOfSeq
<1>2. SubSeq(s, 1, b - 1) \in Seq(S) /\ SubSeq(s, b + 1, Len(s)) \in Seq(S)
  BY <1>1, SubSeqProperties
<1>3. SubSeq(s, 1, b) \o SubSeq(s, b + 1, Len(s)) = SubSeq(s, 1, Len(s))
  <2>1. 1 \in 1 .. Len(s) + 1 /\ b \in 1 - 1 .. Len(s) /\ Len(s) \in b .. Len(s)
    BY <1>1
  <2> QED
    BY <2>1, ConcatAdjacentSubSeq
<1>4. SubSeq(s, 1, b) = SubSeq(s, 1, b - 1) \o <<s[b]>>
  <2>1. 1 \in 1 .. Len(s) /\ b \in 1 .. Len(s)
    BY <1>1
  <2> QED
    BY <2>1, SubSeqRecursiveSecond
<1>5. SubSeq(s, 1, Len(s)) = s
  BY SubSeqFull
<1> QED
  BY <1>2, <1>3, <1>4, <1>5

LEMMA SameAround ==
    ASSUME NEW S, NEW s \in Seq(S), NEW t \in Seq(S), Len(s) = Len(t), NEW b \in 1 .. Len(s),
           \A i \in 1 .. Len(s) : i # b => s[i] = t[i]
    PROVE  /\ SubSeq(s, 1, b - 1) = SubSeq(t, 1, b - 1)
           /\ SubSeq(s, b + 1, Len(s)) = SubSeq(t, b + 1, Len(t))
<1>1. Len(s) \in Nat /\ \A i \in 1 .. Len(s) : s[i] \in S /\ t[i] \in S
  BY LenProperties, ElementOfSeq
<1>2. ASSUME NEW x \in 1 .. Len(s) + 1, NEW y \in Int, y <= Len(s), b \notin x .. y
      PROVE  SubSeq(s, x, y) = SubSeq(t, x, y)
  <2>1. \A i \in x .. y : s[i] \in S /\ t[i] \in S /\ s[i] = t[i]
    BY <1>1, <1>2
  <2>2. /\ SubSeq(s, x, y) \in Seq(S) /\ SubSeq(t, x, y) \in Seq(S)
        /\ Len(SubSeq(s, x, y)) = IF x <= y THEN y - x + 1 ELSE 0
        /\ Len(SubSeq(t, x, y)) = IF x <= y THEN y - x + 1 ELSE 0
        /\ \A i \in 1 .. y - x + 1 : SubSeq(s, x, y)[i] = s[x + i - 1]
        /\ \A i \in 1 .. y - x + 1 : SubSeq(t, x, y)[i] = t[x + i - 1]
    BY <2>1, SubSeqProperties
  <2>3. \A i \in 1 .. y - x + 1 : x + i - 1 \in x .. y
    OBVIOUS
  <2> DEFINE p == SubSeq(s, x, y)
             q == SubSeq(t, x, y)
  <2>4. p \in Seq(S) /\ q \in Seq(S) /\ Len(p) = Len(q) /\ \A i \in 1 .. Len(p) : p[i] = q[i]
    BY <2>1, <2>2, <2>3
  <2> HIDE DEF p, q
  <2>5. p = q
    BY <2>4, SeqEqual
  <2> QED
    BY <2>5 DEF p, q
<1>3. /\ 1 \in 1 .. Len(s) + 1 /\ b - 1 \in Int /\ b - 1 <= Len(s) /\ b \notin 1 .. b - 1
      /\ b + 1 \in 1 .. Len(s) + 1 /\ Len(s) \in Int /\ b \notin b + 1 .. Len(s)
  BY <1>1
<1> QED
  BY <1>2, <1>3

\* Another sequence is kept, or not.
LEMMA KeptAppend ==
    ASSUME NEW S, NEW seqs \in Seq(Seq(S)), NEW e \in Seq(S), NEW places
    PROVE  Kept(Append(seqs, e), places) =
             Kept(seqs, places) \o (IF Len(seqs) + 1 \in places THEN e ELSE <<>>)
<1> DEFINE more == Append(seqs, e)
           n == Len(seqs)
           x == IF n + 1 \in places THEN e ELSE <<>>
           u == Masked(seqs, places)
           v == Masked(more, places)
<1>1. /\ more \in Seq(Seq(S)) /\ n \in Nat /\ Len(more) = n + 1 /\ more[n + 1] = e
      /\ \A i \in 1 .. n : more[i] = seqs[i]
  BY AppendProperties, LenProperties
<1>2. x \in Seq(S)
  BY EmptySeq
<1> HIDE DEF more, n
<1>3. /\ u \in Seq(Seq(S)) /\ Len(u) = n /\ Kept(seqs, places) = FlattenSeq(u)
      /\ \A i \in 1 .. n : u[i] = IF i \in places THEN seqs[i] ELSE <<>>
  BY MaskedIs DEF n
<1>4. /\ v \in Seq(Seq(S)) /\ Len(v) = n + 1 /\ Kept(more, places) = FlattenSeq(v)
      /\ \A i \in 1 .. n + 1 : v[i] = IF i \in places THEN more[i] ELSE <<>>
  BY <1>1, MaskedIs
<1> HIDE DEF u, v
<1>5. v = Append(u, x)
  <2>1. /\ Append(u, x) \in Seq(Seq(S)) /\ Len(Append(u, x)) = n + 1
        /\ Append(u, x)[n + 1] = x /\ \A i \in 1 .. n : Append(u, x)[i] = u[i]
    BY <1>2, <1>3, AppendProperties
  <2>2. v[n + 1] = x
    BY <1>1, <1>4
  <2>3. \A i \in 1 .. n : v[i] = u[i]
    <3>1. \A i \in 1 .. n : i \in 1 .. n + 1
      BY <1>1
    <3>2. \A i \in 1 .. n : more[i] = seqs[i]
      BY <1>1
    <3> QED
      BY <1>3, <1>4, <3>1, <3>2
  <2>4. \A i \in 1 .. n + 1 : i = n + 1 \/ i \in 1 .. n
    BY <1>1
  <2>5. \A i \in 1 .. n + 1 : v[i] = Append(u, x)[i]
    BY <2>1, <2>2, <2>3, <2>4
  <2> HIDE DEF x
  <2> QED
    BY <1>4, <2>1, <2>5, SeqEqual
<1>6. Kept(more, places) = Kept(seqs, places) \o x
  <2> HIDE DEF x
  <2> QED
    BY <1>2, <1>3, <1>4, <1>5, FlattenAppend
<1> QED
  BY <1>6 DEF more, n, x

\* Only the places there are count.
LEMMA KeptPlaces ==
    ASSUME NEW seqs, NEW p, NEW q, \A i \in DOMAIN seqs : i \in p <=> i \in q
    PROVE  Kept(seqs, p) = Kept(seqs, q)
<1>1. [i \in DOMAIN seqs |-> IF i \in p THEN seqs[i] ELSE <<>>]
        = [i \in DOMAIN seqs |-> IF i \in q THEN seqs[i] ELSE <<>>]
  OBVIOUS
<1> QED
  BY <1>1 DEF Kept

\* What is kept of the places before b, and of those behind it.
KeptBefore(seqs, places, b) == FlattenSeq(SubSeq(Masked(seqs, places), 1, b - 1))

KeptBehind(seqs, places, b) ==
    FlattenSeq(SubSeq(Masked(seqs, places), b + 1, Len(Masked(seqs, places))))

\* A place is left out: what was kept of it goes, the rest stays around it.
LEMMA KeptWithout ==
    ASSUME NEW S, NEW seqs \in Seq(Seq(S)), NEW places, NEW b \in 1 .. Len(seqs), b \in places
    PROVE  LET l == KeptBefore(seqs, places, b)
               r == KeptBehind(seqs, places, b)
           IN  /\ l \in Seq(S) /\ r \in Seq(S)
               /\ Around(Kept(seqs, places), l, seqs[b], r)
               /\ Around(Kept(seqs, places \ {b}), l, <<>>, r)
<1> DEFINE u == Masked(seqs, places)
           v == Masked(seqs, places \ {b})
           e == seqs[b]
<1>1. /\ u \in Seq(Seq(S)) /\ Len(u) = Len(seqs) /\ Kept(seqs, places) = FlattenSeq(u)
      /\ \A i \in 1 .. Len(seqs) : u[i] = IF i \in places THEN seqs[i] ELSE <<>>
  BY MaskedIs
<1>2. /\ v \in Seq(Seq(S)) /\ Len(v) = Len(seqs) /\ Kept(seqs, places \ {b}) = FlattenSeq(v)
      /\ \A i \in 1 .. Len(seqs) : v[i] = IF i \in places \ {b} THEN seqs[i] ELSE <<>>
  BY MaskedIs
<1>3. e \in Seq(S) /\ <<>> \in Seq(S)
  BY ElementOfSeq
<1> HIDE DEF u, v, e
<1>4. u[b] = e /\ v[b] = <<>> /\ b \in 1 .. Len(u) /\ b \in 1 .. Len(v)
      /\ \A i \in 1 .. Len(u) : i # b => u[i] = v[i]
  BY <1>1, <1>2 DEF e
<1> DEFINE L == SubSeq(u, 1, b - 1)
           R == SubSeq(u, b + 1, Len(u))
<1>5. L \in Seq(Seq(S)) /\ R \in Seq(Seq(S)) /\ u = (L \o <<e>>) \o R
  BY <1>1, <1>4, AroundElement
<1>6. v = (L \o <<<<>>>>) \o R
  <2>1. L = SubSeq(v, 1, b - 1) /\ R = SubSeq(v, b + 1, Len(v))
    BY <1>1, <1>2, <1>4, SameAround
  <2>2. v = (SubSeq(v, 1, b - 1) \o <<v[b]>>) \o SubSeq(v, b + 1, Len(v))
    BY <1>2, <1>4, AroundElement
  <2> QED
    BY <1>4, <2>1, <2>2
<1> HIDE DEF L, R
<1>7. ASSUME NEW x \in Seq(S)
      PROVE  FlattenSeq((L \o <<x>>) \o R) = (FlattenSeq(L) \o x) \o FlattenSeq(R)
  <2>1. <<x>> \in Seq(Seq(S)) /\ L \o <<x>> \in Seq(Seq(S))
    <3>1. <<x>> \in Seq(Seq(S))
      BY <1>7
    <3> QED
      BY <1>5, <3>1, ConcatProperties
  <2>2. FlattenSeq((L \o <<x>>) \o R) = FlattenSeq(L \o <<x>>) \o FlattenSeq(R)
    BY <1>5, <2>1, FlattenConcat
  <2>3. FlattenSeq(L \o <<x>>) = FlattenSeq(L) \o FlattenSeq(<<x>>)
    BY <1>5, <2>1, FlattenConcat
  <2>4. FlattenSeq(<<x>>) = x
    BY <1>7, FlattenOne
  <2> QED
    BY <2>2, <2>3, <2>4
<1> DEFINE l == FlattenSeq(L)
           r == FlattenSeq(R)
<1>8. l \in Seq(S) /\ r \in Seq(S)
  BY <1>5, FlattenConcat
<1>9. FlattenSeq(u) = (l \o e) \o r /\ FlattenSeq(v) = (l \o <<>>) \o r
  BY <1>3, <1>5, <1>6, <1>7
<1>10. l = KeptBefore(seqs, places, b) /\ r = KeptBehind(seqs, places, b)
  BY DEF KeptBefore, KeptBehind, L, R, u
<1>11. /\ Around(Kept(seqs, places), l, e, r)
       /\ Around(Kept(seqs, places \ {b}), l, <<>>, r)
  <2> HIDE DEF l, r
  <2> QED
    BY <1>1, <1>2, <1>9 DEF Around
<1> HIDE DEF l, r
<1> QED
  BY <1>8, <1>10, <1>11 DEF e

-------------------------------------------------------------------------------
\* A part of each of two is a part of both.
LEMMA PartOfConcat ==
    ASSUME NEW S, NEW p \in Seq(S), NEW q \in Seq(S), NEW s \in Seq(S), NEW t \in Seq(S),
           Promise!IsPartOf(p, s), Promise!IsPartOf(q, t)
    PROVE  Promise!IsPartOf(p \o q, s \o t)
<1> DEFINE a == Len(p)
           b == Len(q)
           c == Len(s)
           d == Len(t)
<1>1. /\ a \in Nat /\ b \in Nat /\ c \in Nat /\ d \in Nat
      /\ DOMAIN p = 1 .. a /\ DOMAIN q = 1 .. b /\ DOMAIN s = 1 .. c /\ DOMAIN t = 1 .. d
  BY LenProperties
<1>2. /\ DOMAIN (p \o q) = 1 .. a + b /\ DOMAIN (s \o t) = 1 .. c + d
      /\ \A i \in 1 .. a + b : (p \o q)[i] = IF i <= a THEN p[i] ELSE q[i - a]
      /\ \A i \in 1 .. c + d : (s \o t)[i] = IF i <= c THEN s[i] ELSE t[i - c]
  BY ConcatProperties, LenProperties
<1>3. PICK f \in [1 .. a -> 1 .. c] : /\ \A i, j \in 1 .. a : i < j => f[i] < f[j]
                                      /\ \A i \in 1 .. a : p[i] = s[f[i]]
  BY <1>1 DEF Promise!IsPartOf
<1>4. PICK g \in [1 .. b -> 1 .. d] : /\ \A i, j \in 1 .. b : i < j => g[i] < g[j]
                                      /\ \A i \in 1 .. b : q[i] = t[g[i]]
  BY <1>1 DEF Promise!IsPartOf
<1> HIDE DEF a, b, c, d
<1> DEFINE h == [i \in 1 .. a + b |-> IF i <= a THEN f[i] ELSE c + g[i - a]]
<1>5. \A i \in 1 .. a + b : IF i <= a THEN i \in 1 .. a ELSE i - a \in 1 .. b
  BY <1>1
<1>6. \A i \in 1 .. a + b : IF i <= a THEN h[i] = f[i] /\ f[i] \in 1 .. c
                            ELSE h[i] = c + g[i - a] /\ g[i - a] \in 1 .. d
  BY <1>3, <1>4, <1>5
<1>7. h \in [1 .. a + b -> 1 .. c + d]
  <2>1. \A i \in 1 .. a + b : h[i] \in 1 .. c + d
    BY <1>1, <1>6
  <2>2. h = [i \in 1 .. a + b |-> h[i]]
    OBVIOUS
  <2> HIDE DEF h
  <2> QED
    BY <2>1, <2>2
<1> HIDE DEF h
<1>8. ASSUME NEW i \in 1 .. a + b, NEW j \in 1 .. a + b, i < j PROVE h[i] < h[j]
  <2>1. CASE j <= a
    <3>1. i <= a
      BY <1>1, <1>8, <2>1
    <3>2. h[i] = f[i] /\ h[j] = f[j] /\ i \in 1 .. a /\ j \in 1 .. a
      BY <1>5, <1>6, <2>1, <3>1
    <3> QED
      BY <1>3, <1>8, <3>2
  <2>2. CASE i <= a /\ ~(j <= a)
    BY <1>1, <1>6, <2>2
  <2>3. CASE ~(i <= a)
    <3>1. ~(j <= a)
      BY <1>1, <1>8, <2>3
    <3>2. i - a \in 1 .. b /\ j - a \in 1 .. b /\ i - a < j - a
      BY <1>1, <1>5, <1>8, <2>3, <3>1
    <3>3. g[i - a] < g[j - a] /\ g[i - a] \in Nat /\ g[j - a] \in Nat
      BY <1>4, <3>2
    <3>4. h[i] = c + g[i - a] /\ h[j] = c + g[j - a]
      BY <1>6, <2>3, <3>1
    <3>5. c \in Nat
      BY <1>1
    <3> QED
      BY <3>3, <3>4, <3>5
  <2> QED
    BY <2>1, <2>2, <2>3
<1>9. ASSUME NEW i \in 1 .. a + b PROVE (p \o q)[i] = (s \o t)[h[i]]
  <2>1. CASE i <= a
    <3>1. h[i] = f[i] /\ f[i] \in 1 .. c /\ p[i] = s[f[i]]
      BY <1>3, <1>5, <1>6, <2>1
    <3>2. f[i] \in 1 .. c + d /\ f[i] <= c
      BY <1>1, <3>1
    <3> QED
      BY <1>2, <2>1, <3>1, <3>2
  <2>2. CASE ~(i <= a)
    <3>1. h[i] = c + g[i - a] /\ g[i - a] \in 1 .. d /\ q[i - a] = t[g[i - a]]
      BY <1>4, <1>5, <1>6, <2>2
    <3>2. /\ c + g[i - a] \in 1 .. c + d /\ ~(c + g[i - a] <= c)
          /\ (c + g[i - a]) - c = g[i - a]
      BY <1>1, <3>1
    <3> QED
      BY <1>2, <2>2, <3>1, <3>2
  <2> QED
    BY <2>1, <2>2
<1>10. \A i, j \in 1 .. a + b : i < j => h[i] < h[j]
  BY <1>8
<1>11. /\ h \in [DOMAIN (p \o q) -> DOMAIN (s \o t)]
       /\ \A i, j \in DOMAIN (p \o q) : i < j => h[i] < h[j]
       /\ \A i \in DOMAIN (p \o q) : (p \o q)[i] = (s \o t)[h[i]]
  BY <1>2, <1>7, <1>9, <1>10
<1> DEFINE pq == p \o q
           st == s \o t
<1> HIDE DEF pq, st
<1>12. /\ h \in [DOMAIN pq -> DOMAIN st]
       /\ \A i, j \in DOMAIN pq : i < j => h[i] < h[j]
       /\ \A i \in DOMAIN pq : pq[i] = st[h[i]]
  BY <1>11 DEF pq, st
<1>13. Promise!IsPartOf(pq, st)
  BY <1>12 DEF Promise!IsPartOf
<1> QED
  BY <1>13 DEF pq, st

LEMMA PartsOfAny ==
    ASSUME NEW S, NEW s \in Seq(S)
    PROVE  Promise!IsPartOf(<<>>, s) /\ Promise!IsPartOf(s, s)
<1>1. Promise!IsPartOf(<<>>, s)
  <2>1. [i \in {} |-> i] \in [DOMAIN <<>> -> DOMAIN s] /\ DOMAIN <<>> = {}
    OBVIOUS
  <2> QED
    BY <2>1 DEF Promise!IsPartOf
<1>2. Promise!IsPartOf(s, s)
  <2> DEFINE f == [i \in DOMAIN s |-> i]
  <2>1. /\ f \in [DOMAIN s -> DOMAIN s]
        /\ \A i, j \in DOMAIN s : i < j => f[i] < f[j]
        /\ \A i \in DOMAIN s : s[i] = s[f[i]]
    OBVIOUS
  <2> HIDE DEF f
  <2> QED
    BY <2>1 DEF Promise!IsPartOf
<1> QED
  BY <1>1, <1>2

\* What is kept of sequences is a part of all of them.
LEMMA KeptIsPart ==
    ASSUME NEW S, NEW seqs \in Seq(Seq(S)), NEW places
    PROVE  Promise!IsPartOf(Kept(seqs, places), FlattenSeq(seqs))
<1> DEFINE T == {n \in Nat : \A u \in Seq(Seq(S)) : Len(u) = n =>
                                Promise!IsPartOf(Kept(u, places), FlattenSeq(u))}
<1>1. 0 \in T
  <2> SUFFICES ASSUME NEW u \in Seq(Seq(S)), Len(u) = 0
               PROVE  Promise!IsPartOf(Kept(u, places), FlattenSeq(u))
    OBVIOUS
  <2>1. u = <<>>
    BY EmptySeq
  <2>2. Masked(u, places) = <<>>
    <3>1. Masked(u, places) \in Seq(Seq(S)) /\ Len(Masked(u, places)) = 0
      BY MaskedIs
    <3> QED
      BY <3>1, EmptySeq
  <2>3. Kept(u, places) = <<>>
    <3>1. Kept(u, places) = FlattenSeq(Masked(u, places))
      BY MaskedIs
    <3> QED
      BY <2>2, <3>1, FlattenEmpty
  <2>4. FlattenSeq(u) \in Seq(S)
    BY FlattenConcat
  <2> QED
    BY <2>3, <2>4, PartsOfAny
<1>2. ASSUME NEW n \in Nat, n \in T PROVE n + 1 \in T
  <2> SUFFICES ASSUME NEW u \in Seq(Seq(S)), Len(u) = n + 1
               PROVE  Promise!IsPartOf(Kept(u, places), FlattenSeq(u))
    OBVIOUS
  <2> DEFINE v == SubSeq(u, 1, n)
             e == u[n + 1]
             x == IF n + 1 \in places THEN e ELSE <<>>
  <2>1. v \in Seq(Seq(S)) /\ Len(v) = n /\ e \in Seq(S) /\ u = Append(v, e)
    OBVIOUS
  <2> HIDE DEF v, e
  <2>2. x \in Seq(S) /\ Promise!IsPartOf(x, e)
    <3>1. <<>> \in Seq(S) /\ Promise!IsPartOf(<<>>, e) /\ Promise!IsPartOf(e, e)
      BY <2>1, PartsOfAny
    <3> QED
      BY <2>1, <3>1
  <2>3. Kept(u, places) = Kept(v, places) \o x
    BY <2>1, KeptAppend
  <2>4. FlattenSeq(u) = FlattenSeq(v) \o e
    BY <2>1, FlattenAppend
  <2>5. Kept(v, places) \in Seq(S) /\ FlattenSeq(v) \in Seq(S)
    BY <2>1, KeptType, FlattenConcat
  <2>6. Promise!IsPartOf(Kept(v, places), FlattenSeq(v))
    BY <1>2, <2>1
  <2> HIDE DEF x
  <2> QED
    BY <2>1, <2>2, <2>3, <2>4, <2>5, <2>6, PartOfConcat
<1> HIDE DEF T
<1>3. Len(seqs) \in Nat /\ Len(seqs) \in T
  BY <1>1, <1>2, Induction, LenProperties
<1> QED
  BY <1>3 DEF T

LEMMA NumbersType ==
    ASSUME NEW u \in Seq(Point)
    PROVE  /\ Numbers(u) \in Seq(Nat) /\ Len(Numbers(u)) = Len(u) /\ DOMAIN Numbers(u) = DOMAIN u
           /\ \A i \in 1 .. Len(u) : Numbers(u)[i] = u[i].n
<1>1. Len(u) \in Nat /\ DOMAIN u = 1 .. Len(u) /\ \A i \in 1 .. Len(u) : u[i] \in Point
  BY LenProperties, ElementOfSeq
<1>2. \A p \in Point : p.n \in Nat
  BY SizeAssumption DEF Point
<1> QED
  BY <1>1, <1>2 DEF Numbers

LEMMA NumbersOfConcat ==
    ASSUME NEW s \in Seq(Point), NEW t \in Seq(Point)
    PROVE  Numbers(s \o t) = Numbers(s) \o Numbers(t)
<1> DEFINE a == Numbers(s)
           b == Numbers(t)
           c == Numbers(s \o t)
<1>1. /\ s \o t \in Seq(Point) /\ Len(s \o t) = Len(s) + Len(t)
      /\ Len(s) \in Nat /\ Len(t) \in Nat
      /\ \A i \in 1 .. Len(s) + Len(t) : (s \o t)[i] = IF i <= Len(s) THEN s[i] ELSE t[i - Len(s)]
  BY ConcatProperties, LenProperties
<1>2. /\ a \in Seq(Nat) /\ Len(a) = Len(s) /\ \A i \in 1 .. Len(s) : a[i] = s[i].n
      /\ b \in Seq(Nat) /\ Len(b) = Len(t) /\ \A i \in 1 .. Len(t) : b[i] = t[i].n
  BY NumbersType
<1>3. /\ c \in Seq(Nat) /\ Len(c) = Len(s) + Len(t)
      /\ \A i \in 1 .. Len(s) + Len(t) : c[i] = (s \o t)[i].n
  BY <1>1, NumbersType
<1> HIDE DEF a, b, c
<1>4. /\ a \o b \in Seq(Nat) /\ Len(a \o b) = Len(s) + Len(t)
      /\ \A i \in 1 .. Len(s) + Len(t) : (a \o b)[i] = IF i <= Len(s) THEN a[i] ELSE b[i - Len(s)]
  BY <1>2, ConcatProperties
<1>5. ASSUME NEW i \in 1 .. Len(s) + Len(t) PROVE c[i] = (a \o b)[i]
  <2>1. CASE i <= Len(s)
    <3>1. i \in 1 .. Len(s)
      BY <1>1, <2>1
    <3> QED
      BY <1>1, <1>2, <1>3, <1>4, <2>1, <3>1
  <2>2. CASE ~(i <= Len(s))
    <3>1. i - Len(s) \in 1 .. Len(t)
      BY <1>1, <2>2
    <3> QED
      BY <1>1, <1>2, <1>3, <1>4, <2>2, <3>1
  <2> QED
    BY <2>1, <2>2
<1>6. c = a \o b
  BY <1>3, <1>4, <1>5, SeqEqual
<1> QED
  BY <1>6 DEF a, b, c

LEMMA NumbersOfPart ==
    ASSUME NEW s \in Seq(Point), NEW t \in Seq(Point), Promise!IsPartOf(s, t)
    PROVE  Promise!IsPartOf(Numbers(s), Numbers(t))
<1>1. PICK f \in [DOMAIN s -> DOMAIN t] : /\ \A i, j \in DOMAIN s : i < j => f[i] < f[j]
                                          /\ \A i \in DOMAIN s : s[i] = t[f[i]]
  BY DEF Promise!IsPartOf
<1>2. DOMAIN Numbers(s) = DOMAIN s /\ DOMAIN Numbers(t) = DOMAIN t
  BY NumbersType
<1>3. \A i \in DOMAIN s : Numbers(s)[i] = Numbers(t)[f[i]]
  BY <1>1 DEF Numbers
<1> QED
  BY <1>1, <1>2, <1>3 DEF Promise!IsPartOf

-------------------------------------------------------------------------------
(***************************************************************************)
(* The refinement.                                                         *)
(***************************************************************************)
\* The points of each batch received.
Batches == [b \in DOMAIN delivered |-> Points(delivered[b])]

LEMMA WaitingIs ==
    ASSUME FeedInv
    PROVE  /\ Batches \in Seq(Seq(Point)) /\ Len(Batches) = Len(delivered)
           /\ \A b \in 1 .. Len(delivered) : Batches[b] = Points(delivered[b])
           /\ Points(batch) \in Seq(Point) /\ Kept(Batches, inFlight) \in Seq(Point)
           /\ Waiting = Kept(Batches, inFlight) \o Points(batch)
           /\ Waiting \in Seq(Point)
<1>1. /\ Len(delivered) \in Nat /\ DOMAIN delivered = 1 .. Len(delivered)
      /\ \A b \in 1 .. Len(delivered) : delivered[b] \in Seq(GoodChart)
  BY LenProperties, ElementOfSeq DEF FeedInv, ChartsOK
<1>2. \A b \in 1 .. Len(delivered) : Points(delivered[b]) \in Seq(Point)
  BY <1>1, GoodSeqs
<1>3. /\ Batches \in Seq(Seq(Point)) /\ Len(Batches) = Len(delivered)
      /\ \A b \in 1 .. Len(delivered) : Batches[b] = Points(delivered[b])
  BY <1>1, <1>2 DEF Batches
<1>4. Points(batch) \in Seq(Point)
  BY GoodSeqs DEF FeedInv, ChartsOK
<1>5. Waiting = Kept(Batches, inFlight) \o Points(batch)
  BY DEF Waiting, Batches
<1>6. Kept(Batches, inFlight) \in Seq(Point)
  BY <1>3, KeptType
<1>7. Waiting \in Seq(Point)
  BY <1>4, <1>5, <1>6, ConcatProperties
<1> QED
  BY <1>3, <1>4, <1>5, <1>6, <1>7

LEMMA InitPromise == FeedInit => Promise!Init
<1> SUFFICES ASSUME FeedInit PROVE Promise!Init
  OBVIOUS
<1>1. /\ delivered = <<>> /\ batch = <<>> /\ published = <<>> /\ taken = <<>> /\ inFlight = {}
      /\ Points(batch) = <<>>
  BY PointsShort DEF FeedInit, Init
<1>2. Kept(Batches, inFlight) = <<>>
  <2>1. [i \in DOMAIN Batches |-> IF i \in inFlight THEN Batches[i] ELSE <<>>] = <<>>
    BY <1>1 DEF Batches
  <2> QED
    BY <2>1, FlattenEmpty DEF Kept
<1>3. Waiting = <<>>
  BY <1>1, <1>2 DEF Waiting, Batches
<1>4. Numbers(<<>>) = <<>>
  BY DEF Numbers
<1> QED
  BY <1>1, <1>3, <1>4 DEF Promise!Init

\* A part in the middle goes, and some of it is published.
LEMMA SettlesPart ==
    ASSUME NEW l \in Seq(Point), NEW m \in Seq(Point), NEW r \in Seq(Point), m # <<>>,
           NEW new \in Seq(Point), Promise!IsPartOf(new, m),
           Around(Waiting, l, m, r), Waiting' = l \o r,
           published \in Seq(Point), published' = published \o new,
           Len(taken') = Len(taken)
    PROVE  Promise!Next
<1> DEFINE L == Numbers(l)
           M == Numbers(m)
           R == Numbers(r)
           N == Numbers(new)
           P == Numbers(published)
           W == Numbers(Waiting)
<1>1. /\ L \in Seq(Nat) /\ M \in Seq(Nat) /\ R \in Seq(Nat) /\ N \in Seq(Nat) /\ P \in Seq(Nat)
      /\ M # <<>> /\ Promise!IsPartOf(N, M)
  <2>1. Len(m) # 0 /\ Len(M) = Len(m)
    BY EmptySeq, LenProperties, NumbersType
  <2>2. M # <<>>
    BY <2>1, EmptySeq
  <2> QED
    BY <2>2, NumbersType, NumbersOfPart
<1>2. W = (L \o M) \o R
  <2>1. l \o m \in Seq(Point)
    BY ConcatProperties
  <2> QED
    BY <2>1, NumbersOfConcat DEF Around
<1>3. Numbers(Waiting') = L \o R /\ Numbers(published') = P \o N
  BY NumbersOfConcat
<1> HIDE DEF L, M, R, N, P, W
<1> DEFINE first == Len(L) + 1
           last == Len(L) + Len(M)
<1>4. /\ first \in 1 .. Len(W) /\ last \in 1 .. Len(W) /\ first <= last
      /\ Cut(W, first, last, L, M, R)
  <2> DEFINE w == (L \o M) \o R
  <2>1. Cut(w, first, last, L, M, R)
    BY <1>1, ThreeParts
  <2>2. first \in 1 .. Len(w) /\ last \in 1 .. Len(w) /\ first <= last
    BY <1>1, ThreeParts
  <2> HIDE DEF first, last
  <2> QED
    BY <1>2, <2>1, <2>2
<1>5. DOMAIN W = 1 .. Len(W)
  BY <1>1, <1>2
<1> HIDE DEF first, last
<1>6. /\ SubSeq(P \o N, Len(P) + 1, Len(P \o N)) = N
      /\ IsPrefix(P, P \o N)
  BY <1>1, TwoParts, PrefixOfConcat
<1>7. Promise!IsPrefix(P, P \o N)
  BY <1>6 DEF IsPrefix, Promise!IsPrefix
<1>8. Numbers(Waiting)' = SubSeq(W, 1, first - 1) \o SubSeq(W, last + 1, Len(W))
  BY <1>3, <1>4 DEF Cut
<1>9. /\ Promise!IsPrefix(P, Numbers(published)')
      /\ Promise!IsPartOf(SubSeq(Numbers(published)', Len(P) + 1, Len(Numbers(published)')),
                          SubSeq(W, first, last))
  BY <1>1, <1>3, <1>4, <1>6, <1>7 DEF Cut
<1>10. Promise!Settle(first, last)
  BY <1>8, <1>9 DEF Promise!Settle, P, W
<1>11. first \in DOMAIN Numbers(Waiting) /\ last \in DOMAIN Numbers(Waiting) /\ first <= last
  BY <1>4, <1>5 DEF W
<1> QED
  BY <1>10, <1>11 DEF Promise!Next

\* A chart is taken: its point waits behind all others.
LEMMA TakeArrives ==
    ASSUME FeedInv, Take, UNCHANGED feedVars
    PROVE  Promise!Next
<1>1. PICK c \in GoodChart : /\ offered = <<c>> /\ Len(c.points) = 1
                             /\ c.points[1].n = Len(taken) + 1
  BY DEF Take, FeedInv, OfferedOK
<1>2. /\ c \in Chart /\ c.points \in Seq(Point) /\ batch \in Seq(Chart) /\ <<c>> \in Seq(Chart)
      /\ Points(<<c>>) = c.points /\ taken \in Seq(Point)
  <2>1. c \in Chart /\ batch \in Seq(GoodChart) /\ taken \in Seq(Point)
    BY DEF FeedInv, ChartsOK, GoodChart
  <2>2. <<c>> \in Seq(Chart)
    BY <2>1
  <2> QED
    BY <2>1, <2>2, GoodSeqs, PointsShort
<1> DEFINE k == Kept(Batches, inFlight)
           y == Points(batch)
           z == c.points
<1>3. /\ batch' = batch \o <<c>> /\ taken' = taken \o z
      /\ UNCHANGED <<delivered, published, inFlight>>
  BY <1>1, <1>2 DEF Take, feedVars
<1>4. k' = k
  BY <1>3 DEF Batches, Kept
<1>5. Waiting' = k \o (y \o z)
  <2>1. Waiting' = k' \o Points(batch')
    BY DEF Waiting, Batches
  <2>2. Points(batch') = y \o z
    BY <1>2, <1>3, PointsConcat
  <2> QED
    BY <1>4, <2>1, <2>2
<1>6. /\ k \in Seq(Point) /\ y \in Seq(Point) /\ z \in Seq(Point)
      /\ Waiting = k \o y /\ Waiting \in Seq(Point)
  BY <1>2, WaitingIs
<1>7. Len(z) = 1 /\ z[1].n = Len(taken) + 1
  BY <1>1
<1> HIDE DEF k, y, z
<1>8. Waiting' = Waiting \o z
  <2>1. Around(k \o (y \o z), k, y, z)
    BY ONLY <1>6, Regroup
  <2> QED
    BY <1>5, <1>6, <2>1 DEF Around
<1>9. Len(taken') = Len(taken) + 1
  <2>1. Len(taken \o z) = Len(taken) + Len(z)
    BY <1>2, <1>6, ConcatProperties
  <2> QED
    BY <1>3, <1>7, <2>1
<1>10. Numbers(z) = <<Len(taken) + 1>>
  <2>1. /\ Numbers(z) \in Seq(Nat) /\ Len(Numbers(z)) = 1 /\ Numbers(z)[1] = Len(taken) + 1
    BY <1>6, <1>7, NumbersType
  <2> DEFINE v == Numbers(z)
             n == Len(taken) + 1
  <2>2. v \in Seq(Nat) /\ Len(v) = 1 /\ v[1] = n
    BY <2>1
  <2> HIDE DEF v, n
  <2>3. v = <<n>>
    BY <2>2
  <2> QED
    BY <2>3 DEF v, n
<1>11. Numbers(Waiting)' = Append(Numbers(Waiting), Len(taken) + 1)
  <2> DEFINE w == Numbers(Waiting)
             n == Len(taken) + 1
  <2>1. Numbers(Waiting \o z) = w \o <<n>>
    BY <1>6, <1>10, NumbersOfConcat
  <2>2. w \in Seq(Nat) /\ n \in Nat
    <3>1. w \in Seq(Nat)
      BY <1>6, NumbersType
    <3>2. Len(taken) \in Nat
      BY <1>2, LenProperties
    <3> QED
      BY <3>1, <3>2
  <2> HIDE DEF w, n
  <2>3. w \o <<n>> = Append(w, n)
    BY <2>2, AppendIsConcat
  <2>4. Numbers(Waiting)' = Append(w, n)
    BY <1>8, <2>1, <2>3
  <2> QED
    BY <2>4 DEF w, n
<1>12. Numbers(published)' = Numbers(published)
  BY <1>3 DEF Numbers
<1>13. Promise!Arrive
  BY <1>9, <1>11, <1>12 DEF Promise!Arrive
<1> QED
  BY <1>13 DEF Promise!Next

\* The goroutine is cancelled: what it has collected is lost.
LEMMA CancelledSettles ==
    ASSUME FeedInv, SeeCancelled, UNCHANGED feedVars
    PROVE  Promise!Next \/ UNCHANGED Promise!vars
<1> DEFINE k == Kept(Batches, inFlight)
           m == Points(batch)
<1>1. /\ batch' = <<>> /\ UNCHANGED <<delivered, taken, published, inFlight>>
  BY DEF SeeCancelled, feedVars
<1>2. k' = k
  BY <1>1 DEF Batches, Kept
<1>3. Waiting' = k \o <<>>
  BY <1>1, <1>2, PointsShort DEF Waiting, Batches
<1>4. /\ k \in Seq(Point) /\ m \in Seq(Point) /\ Waiting = k \o m
      /\ published \in Seq(Point)
  BY WaitingIs DEF FeedInv, ChartsOK
<1> HIDE DEF k, m
<1>5. CASE m = <<>>
  <2>1. Waiting' = Waiting
    BY <1>3, <1>4, <1>5
  <2> QED
    BY <1>1, <2>1 DEF Promise!vars, Numbers
<1>6. CASE m # <<>>
  <2>1. <<>> \in Seq(Point) /\ Promise!IsPartOf(<<>>, m)
    BY <1>4, PartsOfAny
  <2>2. Around(Waiting, k, m, <<>>) /\ published' = published \o <<>>
    BY <1>1, <1>4, ConcatProperties, ConcatEmptySeq DEF Around
  <2>3. Len(taken') = Len(taken)
    BY <1>1
  <2> QED
    BY <1>3, <1>4, <1>6, <2>1, <2>2, <2>3, SettlesPart
<1> QED
  BY <1>5, <1>6

\* A batch is received: its points wait on, for the request.
LEMMA ReceiveKeepsWaiting ==
    ASSUME FeedInv, ReceiveBatch
    PROVE  UNCHANGED Promise!vars
<1> DEFINE b == mergeSameChart(batch)
           p == Points(batch)
           k == Kept(Batches, inFlight)
           n == Len(Batches)
<1>1. /\ delivered' = Append(delivered, b) /\ batch' = <<>>
      /\ inFlight' = inFlight \cup {Len(delivered')} /\ UNCHANGED <<taken, published>>
  BY DEF ReceiveBatch, Deliver, Publish
<1>2. b \in Seq(GoodChart) /\ Points(b) = p
  BY MergeIsGood DEF FeedInv, ChartsOK
<1>3. /\ Batches \in Seq(Seq(Point)) /\ n = Len(delivered) /\ n \in Nat
      /\ p \in Seq(Point) /\ k \in Seq(Point) /\ Waiting = k \o p
      /\ delivered \in Seq(Seq(GoodChart)) /\ inFlight \subseteq 1 .. n
  BY WaitingIs, LenProperties DEF FeedInv, ChartsOK
<1> HIDE DEF b
<1>4. Len(delivered') = n + 1
  BY <1>1, <1>2, <1>3, AppendProperties
<1>5. Batches' = Append(Batches, p)
  <2>1. Batches' = [i \in DOMAIN delivered' |-> Points(delivered'[i])]
    BY DEF Batches
  <2>2. [i \in DOMAIN Append(delivered, b) |-> Points(Append(delivered, b)[i])]
          = Append([i \in DOMAIN delivered |-> Points(delivered[i])], Points(b))
    BY <1>2, <1>3
  <2> QED
    BY <1>1, <1>2, <2>1, <2>2 DEF Batches
<1> HIDE DEF n, p
<1>6. Kept(Batches', inFlight') = Kept(Batches, inFlight') \o p
  <2>1. Len(Batches) + 1 \in inFlight'
    BY <1>1, <1>4 DEF n
  <2> QED
    BY <1>3, <1>5, <2>1, KeptAppend
<1>7. Kept(Batches, inFlight') = k
  <2>1. DOMAIN Batches = 1 .. n
    BY <1>3, LenProperties DEF n
  <2>2. n + 1 \notin 1 .. n
    BY <1>3
  <2>3. \A i \in DOMAIN Batches : i \in inFlight' <=> i \in inFlight
    BY <1>1, <1>4, <2>1, <2>2
  <2> QED
    BY <2>3, KeptPlaces
<1> HIDE DEF k
<1>8. Waiting' = (k \o p) \o <<>>
  <2>1. Waiting' = Kept(Batches', inFlight') \o Points(batch')
    BY DEF Waiting, Batches
  <2> QED
    BY <1>1, <1>6, <1>7, <2>1, PointsShort
<1>9. Waiting' = Waiting
  BY <1>3, <1>8, ConcatProperties, ConcatEmptySeq
<1> QED
  BY <1>1, <1>9 DEF Promise!vars, Numbers

\* The broadcaster's request returns, or its handler has panicked: the batch waits
\* no longer, and what Centrifugo took of it is published.
LEMMA BroadcastSettles ==
    ASSUME FeedInv, NEW b \in inFlight, Broadcast(b)
    PROVE  Promise!Next
<1> DEFINE seqs == [i \in DOMAIN delivered[b] |-> delivered[b][i].points]
           m == Points(delivered[b])
           p == Points(batch)
<1>1. PICK accepted : Sent(b, Kept(seqs, accepted))
  BY DEF Broadcast
<1> DEFINE new == Kept(seqs, accepted)
<1>2. /\ inFlight' = inFlight \ {b} /\ published' = published \o new
      /\ UNCHANGED <<batch, delivered, taken>>
  BY <1>1 DEF Broadcast, Sent, vars
<1>3. /\ b \in 1 .. Len(delivered) /\ delivered \in Seq(Seq(GoodChart))
      /\ published \in Seq(Point) /\ m # <<>>
  BY DEF FeedInv, ChartsOK, BatchesOK
<1>4. seqs \in Seq(Seq(Point)) /\ m = FlattenSeq(seqs)
  <2>1. delivered[b] \in Seq(Chart)
    BY <1>3, ElementOfSeq, GoodSeqs
  <2> QED
    BY <2>1, PointsAreSeqs DEF Points
<1>5. /\ Batches \in Seq(Seq(Point)) /\ b \in 1 .. Len(Batches) /\ Batches[b] = m
      /\ p \in Seq(Point) /\ Waiting = Kept(Batches, inFlight) \o p
  BY <1>3, WaitingIs
<1> HIDE DEF seqs, m, p
<1>6. new \in Seq(Point) /\ m \in Seq(Point) /\ Promise!IsPartOf(new, m)
  BY <1>4, KeptType, FlattenConcat, KeptIsPart
<1> HIDE DEF new
<1> DEFINE l == KeptBefore(Batches, inFlight, b)
           r == KeptBehind(Batches, inFlight, b)
<1>7. /\ l \in Seq(Point) /\ r \in Seq(Point)
      /\ Kept(Batches, inFlight) = (l \o m) \o r
      /\ Kept(Batches, inFlight \ {b}) = l \o r
  <2>1. /\ l \in Seq(Point) /\ r \in Seq(Point)
        /\ Around(Kept(Batches, inFlight), l, m, r)
        /\ Around(Kept(Batches, inFlight \ {b}), l, <<>>, r)
    BY <1>5, KeptWithout
  <2> HIDE DEF l, r
  <2>2. l \o <<>> = l
    BY <2>1, ConcatEmptySeq
  <2> QED
    BY <2>1, <2>2 DEF Around
<1> HIDE DEF l, r
<1>8. Waiting' = (l \o r) \o p
  <2>1. Batches' = Batches
    BY <1>2 DEF Batches
  <2>2. Waiting' = Kept(Batches', inFlight') \o Points(batch')
    BY DEF Waiting, Batches
  <2> QED
    BY <1>2, <1>7, <2>1, <2>2 DEF p
<1>9. /\ Around(Waiting, l, m, r \o p) /\ Waiting' = l \o (r \o p) /\ r \o p \in Seq(Point)
  <2> DEFINE lm == l \o m
             rp == r \o p
  <2>1. /\ l \in Seq(Point) /\ r \in Seq(Point) /\ p \in Seq(Point)
        /\ lm \in Seq(Point) /\ rp \in Seq(Point)
    BY <1>5, <1>6, <1>7, ConcatProperties
  <2>2. Around(l \o rp, l, r, p)
    BY <2>1, Regroup
  <2>3. Around(lm \o rp, lm, r, p)
    <3> HIDE DEF lm
    <3> QED
      BY <2>1, Regroup
  <2>4. Waiting = lm \o rp
    BY <1>5, <1>7, <2>3 DEF Around
  <2>5. Waiting' = l \o rp
    BY <1>8, <2>2 DEF Around
  <2>6. Around(Waiting, l, m, rp)
    BY <2>4 DEF Around
  <2> HIDE DEF rp
  <2>7. rp = r \o p
    BY DEF rp
  <2> QED
    BY <2>1, <2>5, <2>6, <2>7
<1>10. Len(taken') = Len(taken)
  BY <1>2
<1> QED
  BY <1>2, <1>3, <1>6, <1>7, <1>9, <1>10, SettlesPart

\* Nothing else changes what waits, or what is published.
LEMMA OthersKeepWaiting ==
    ASSUME UNCHANGED <<batch, delivered, taken, published, inFlight>>
    PROVE  UNCHANGED Promise!vars
<1>1. Waiting' = Waiting
  BY DEF Waiting, Kept, Points
<1> QED
  BY <1>1 DEF Promise!vars, Numbers

\* Batches overtake one another, requests fail in whole or in part, handlers panic
\* and the context is cancelled; all the same every point is published at most
\* once and the points of a batch stay in order, for any markets, updates,
\* batch size and number of failures.
THEOREM FeedImplementsPublications == FeedSpec => ImplementsPublications
<1>1. FeedInv /\ [FeedNext]_allVars => [Promise!Next]_Promise!vars
  <2> SUFFICES ASSUME FeedInv, [FeedNext]_allVars
               PROVE  Promise!Next \/ UNCHANGED Promise!vars
    OBVIOUS
  <2>1. CASE Timeout /\ UNCHANGED feedVars
    BY <2>1, OthersKeepWaiting DEF Timeout, feedVars
  <2>2. CASE SeeClosed /\ UNCHANGED feedVars
    BY <2>2, OthersKeepWaiting DEF SeeClosed, feedVars
  <2>3. CASE Cancel /\ UNCHANGED feedVars
    BY <2>3, OthersKeepWaiting DEF Cancel, feedVars
  <2>4. CASE \E upd \in Updates : Listen(upd)
    BY <2>4, OthersKeepWaiting DEF Listen, Offer, feedVars
  <2>5. CASE ListenerEnds \/ ListenerGivesUp \/ StopReceiving
    BY <2>5, OthersKeepWaiting DEF ListenerEnds, Close, ListenerGivesUp, StopReceiving,
       feedVars, vars
  <2>6. CASE ReceiveNil \/ BroadcastNil
    BY <2>6, OthersKeepWaiting DEF ReceiveNil, BroadcastNil, vars
  <2>7. CASE FeedEnded \/ UNCHANGED allVars
    BY <2>7, OthersKeepWaiting DEF FeedEnded, Ended, allVars, feedVars, vars
  <2> QED
    BY <2>1, <2>2, <2>3, <2>4, <2>5, <2>6, <2>7, TakeArrives, CancelledSettles, ReceiveKeepsWaiting,
       BroadcastSettles DEF FeedNext
<1> QED
  BY <1>1, InitPromise, FeedInvHolds, PTL DEF FeedSpec, ImplementsPublications, Promise!Spec
===============================================================================
