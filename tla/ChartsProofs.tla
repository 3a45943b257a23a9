----------------------------- MODULE ChartsProofs -----------------------------
(***************************************************************************)
(* Theorems about the deals consumed and the answers to queries about them, *)
(* for every set of markets, resolutions, instants and deals: the live candle *)
(* of a window tells of the documents of the window, and with that charts, *)
(* minute candles, klines, trades and statistics agree with one another.   *)
(*                                                                         *)
(* What is added up in the pipelines is a fold over a finite set. The first *)
(* part shows that such a fold exists and which facts determine it.        *)
(***************************************************************************)
EXTENDS MCCharts, FiniteSetTheorems, SequenceTheorems, WellFoundedInduction, TLAPS

\* Some natural numbers have a least one.
LEMMA LeastNumber ==
    ASSUME NEW T \in SUBSET Nat, T # {}
    PROVE  \E n \in T : \A k \in T : ~(k < n)
<1>1. \E n \in T : \A k \in T : ~(<<k, n>> \in OpToRel(<, Nat))
  BY NatLessThanWellFounded, WFMin
<1> QED
  BY <1>1 DEF OpToRel

\* A set of numbers with 0 and with every number's successor has them all.
LEMMA Induction ==
    ASSUME NEW S, 0 \in S, \A n \in Nat : n \in S => n + 1 \in S
    PROVE  \A n \in Nat : n \in S
<1> DEFINE T == Nat \ S
<1> SUFFICES ASSUME T # {} PROVE FALSE
  OBVIOUS
<1>1. PICK n \in T : \A k \in T : ~(k < n)
  <2>1. T \in SUBSET Nat
    OBVIOUS
  <2> HIDE DEF T
  <2> QED
    BY <2>1, LeastNumber
<1>2. n - 1 \in Nat /\ n - 1 \in S
  BY <1>1
<1> QED
  BY <1>1, <1>2

-------------------------------------------------------------------------------
(***************************************************************************)
(* Sums over finite sets.                                                  *)
(***************************************************************************)
\* A sum is taken element by element, OneOf(s) first.
OneOf(s) == CHOOSE x \in s : TRUE

Summand(f, g, s) == IF s = {} THEN 0 ELSE f[OneOf(s)] + g[s \ {OneOf(s)}]

\* g[s] is the sum of f over s, for the subsets s of S.
IsSum(g, f, S) == g = [s \in SUBSET S |-> Summand(f, g, s)]

\* The subsets of at most n elements.
Parts(S, n) == {s \in SUBSET S : Cardinality(s) <= n}

\* There is such a function, by induction on the size of the subsets.
LEMMA SumExists ==
    ASSUME NEW S, IsFiniteSet(S), NEW f, \A x \in S : f[x] \in Int
    PROVE  \E g : IsSum(g, f, S)
<1> DEFINE N == {n \in Nat : \E g : g = [s \in Parts(S, n) |-> Summand(f, g, s)]}
<1>0. \A s \in SUBSET S : /\ IsFiniteSet(s) /\ Cardinality(s) \in Nat
                          /\ Cardinality(s) <= Cardinality(S)
                          /\ Cardinality(s) = 0 => s = {}
                          /\ s # {} => OneOf(s) \in s
  BY FS_Subset, FS_CardinalityType, FS_EmptySet DEF OneOf
<1>1. 0 \in N
  <2> DEFINE g == [s \in Parts(S, 0) |-> 0]
  <2>1. \A s \in Parts(S, 0) : s = {}
    BY <1>0 DEF Parts
  <2>2. g = [s \in Parts(S, 0) |-> Summand(f, g, s)]
    BY <2>1 DEF Summand
  <2> QED
    BY <2>2
<1>2. ASSUME NEW n \in Nat, n \in N PROVE n + 1 \in N
  <2>1. PICK g : g = [s \in Parts(S, n) |-> Summand(f, g, s)]
    BY <1>2
  <2> DEFINE h == [s \in Parts(S, n + 1) |-> Summand(f, g, s)]
  <2>2. \A s \in Parts(S, n) : s \in Parts(S, n + 1) /\ g[s] = h[s]
    <3>1. \A s \in Parts(S, n) : s \in Parts(S, n + 1)
      BY <1>0 DEF Parts
    <3> QED
      BY <2>1, <3>1
  <2>3. \A s \in Parts(S, n + 1) : s # {} => s \ {OneOf(s)} \in Parts(S, n)
    <3> SUFFICES ASSUME NEW s \in Parts(S, n + 1), s # {} PROVE s \ {OneOf(s)} \in Parts(S, n)
      OBVIOUS
    <3>1. s \in SUBSET S /\ Cardinality(s) <= n + 1 /\ s \ {OneOf(s)} \in SUBSET S
      BY DEF Parts
    <3>2. Cardinality(s \ {OneOf(s)}) = Cardinality(s) - 1
      BY <1>0, <3>1, FS_RemoveElement
    <3> QED
      BY <1>0, <3>1, <3>2 DEF Parts
  <2>4. \A s \in Parts(S, n + 1) : h[s] = Summand(f, h, s)
    BY <2>2, <2>3 DEF Summand
  <2>5. h = [s \in Parts(S, n + 1) |-> h[s]]
    OBVIOUS
  <2>6. h = [s \in Parts(S, n + 1) |-> Summand(f, h, s)]
    <3> HIDE DEF h
    <3> QED
      BY <2>4, <2>5
  <2> HIDE DEF h
  <2> QED
    BY <2>6
<1> HIDE DEF N
<1>3. Cardinality(S) \in N
  BY <1>0, <1>1, <1>2, Induction
<1>4. Parts(S, Cardinality(S)) = SUBSET S
  BY <1>0 DEF Parts
<1> QED
  BY <1>3, <1>4 DEF N, IsSum

\* The sums over the subsets are integers, and any element can be taken off first.
LEMMA SumSteps ==
    ASSUME NEW S, IsFiniteSet(S), NEW f, \A x \in S : f[x] \in Int,
           NEW g, IsSum(g, f, S)
    PROVE  /\ g[{}] = 0
           /\ \A s \in SUBSET S : g[s] \in Int
           /\ \A s \in SUBSET S : \A x \in s : g[s] = f[x] + g[s \ {x}]
<1> DEFINE Adds(s) == g[s] \in Int /\ \A x \in s : g[s] = f[x] + g[s \ {x}]
           N == {n \in Nat : \A s \in SUBSET S : Cardinality(s) <= n => Adds(s)}
<1>0. \A s \in SUBSET S : /\ IsFiniteSet(s) /\ Cardinality(s) \in Nat
                          /\ Cardinality(s) = 0 => s = {}
                          /\ s # {} => OneOf(s) \in s
  BY FS_Subset, FS_CardinalityType, FS_EmptySet DEF OneOf
<1>1. /\ g[{}] = 0
      /\ \A s \in SUBSET S : s # {} => g[s] = f[OneOf(s)] + g[s \ {OneOf(s)}]
  BY DEF IsSum, Summand
<1>2. 0 \in N
  <2> SUFFICES ASSUME NEW s \in SUBSET S, Cardinality(s) <= 0
               PROVE  Adds(s)
    OBVIOUS
  <2>1. s = {}
    BY <1>0
  <2> QED
    BY <1>1, <2>1
<1>3. ASSUME NEW n \in Nat, n \in N PROVE n + 1 \in N
  <2> HIDE DEF Adds
  <2> SUFFICES ASSUME NEW s \in SUBSET S, Cardinality(s) <= n + 1
               PROVE  Adds(s)
    OBVIOUS
  <2>0. CASE s = {}
    BY <1>1, <2>0 DEF Adds
  <2> SUFFICES ASSUME s # {} PROVE Adds(s)
    BY <2>0
  <2>1. \A x \in s : s \ {x} \in SUBSET S /\ Cardinality(s \ {x}) <= n
    <3> SUFFICES ASSUME NEW x \in s PROVE Cardinality(s \ {x}) <= n
      OBVIOUS
    <3>1. Cardinality(s \ {x}) = Cardinality(s) - 1
      BY <1>0, FS_RemoveElement
    <3> QED
      BY <1>0, <3>1
  <2>2. PICK a \in s : g[s] = f[a] + g[s \ {a}]
    BY <1>0, <1>1
  <2>3. \A x \in s : g[s \ {x}] \in Int /\ \A y \in s \ {x} : g[s \ {x}] = f[y] + g[(s \ {x}) \ {y}]
    BY <1>3, <2>1 DEF Adds
  <2>4. ASSUME NEW x \in s, x # a PROVE g[s] = f[x] + g[s \ {x}]
    <3> DEFINE rest == (s \ {x}) \ {a}
    <3>1. g[s \ {a}] = f[x] + g[rest] /\ g[s \ {x}] = f[a] + g[rest]
      <4>1. rest = (s \ {a}) \ {x}
        OBVIOUS
      <4> QED
        BY <2>3, <2>4, <4>1
    <3>2. g[rest] \in Int
      <4>1. rest \in SUBSET S
        OBVIOUS
      <4>2. Cardinality(rest) <= n
        <5>1. rest \subseteq s \ {x} /\ IsFiniteSet(s \ {x})
          BY <1>0
        <5>2. Cardinality(rest) <= Cardinality(s \ {x})
          BY <5>1, FS_Subset
        <5> QED
          BY <1>0, <2>1, <4>1, <5>2
      <4> HIDE DEF rest
      <4> QED
        BY <1>3, <4>1, <4>2 DEF Adds
    <3> HIDE DEF rest
    <3> QED
      BY <2>2, <3>1, <3>2
  <2>5. f[a] \in Int /\ g[s \ {a}] \in Int
    BY <2>3
  <2> QED
    <3>1. g[s] \in Int
      BY <2>2, <2>5
    <3> QED
      BY <2>2, <2>4, <3>1 DEF Adds
<1> HIDE DEF N
<1>4. \A s \in SUBSET S : Cardinality(s) \in N
  BY <1>0, <1>2, <1>3, Induction
<1> QED
  <2> SUFFICES ASSUME NEW s \in SUBSET S
               PROVE  Adds(s)
    BY <1>1
  <2> QED
    BY <1>0, <1>4 DEF N

\* Induction on finite sets, with a set of sets for the property.
LEMMA SetInduction ==
    ASSUME NEW S, IsFiniteSet(S), NEW P, {} \in P,
           \A s \in SUBSET S : \A x \in S \ s : s \in P => s \cup {x} \in P
    PROVE  S \in P
<1> DEFINE N == {n \in Nat : \A s \in SUBSET S : Cardinality(s) <= n => s \in P}
<1>0. \A s \in SUBSET S : /\ IsFiniteSet(s) /\ Cardinality(s) \in Nat
                          /\ Cardinality(s) = 0 => s = {}
  BY FS_Subset, FS_CardinalityType, FS_EmptySet
<1>1. 0 \in N
  <2> SUFFICES ASSUME NEW s \in SUBSET S, Cardinality(s) <= 0 PROVE s \in P
    OBVIOUS
  <2>1. s = {}
    BY <1>0
  <2> QED
    BY <2>1
<1>2. ASSUME NEW n \in Nat, n \in N PROVE n + 1 \in N
  <2> SUFFICES ASSUME NEW s \in SUBSET S, Cardinality(s) <= n + 1 PROVE s \in P
    OBVIOUS
  <2>0. CASE s = {}
    BY <2>0
  <2> SUFFICES ASSUME s # {} PROVE s \in P
    BY <2>0
  <2>1. PICK x \in s : TRUE
    OBVIOUS
  <2>2. Cardinality(s \ {x}) <= n
    <3>1. Cardinality(s \ {x}) = Cardinality(s) - 1
      BY <1>0, FS_RemoveElement
    <3> QED
      BY <1>0, <3>1
  <2>3. s \ {x} \in P /\ (s \ {x}) \cup {x} = s
    BY <1>2, <2>2
  <2> QED
    BY <2>3
<1> HIDE DEF N
<1>3. Cardinality(S) \in N
  BY <1>0, <1>1, <1>2, Induction
<1> QED
  BY <1>0, <1>3 DEF N

\* What is summed up decides the sum.
LEMMA SumAgrees ==
    ASSUME NEW S, IsFiniteSet(S), NEW T, IsFiniteSet(T), S \subseteq T,
           NEW f, \A x \in S : f[x] \in Int, NEW g, IsSum(g, f, S),
           NEW h, \A x \in T : h[x] \in Int, NEW k, IsSum(k, h, T),
           \A x \in S : f[x] = h[x]
    PROVE  g[S] = k[S]
<1> DEFINE P == {s \in SUBSET S : g[s] = k[s]}
<1>1. /\ g[{}] = 0
      /\ \A s \in SUBSET S : \A x \in s : g[s] = f[x] + g[s \ {x}]
  BY SumSteps
<1>2. /\ k[{}] = 0
      /\ \A s \in SUBSET S : \A x \in s : k[s] = h[x] + k[s \ {x}]
  BY SumSteps
<1>3. {} \in P
  BY <1>1, <1>2
<1>4. ASSUME NEW s \in SUBSET S, NEW x \in S \ s, s \in P PROVE s \cup {x} \in P
  <2>1. s \cup {x} \in SUBSET S /\ x \in s \cup {x} /\ (s \cup {x}) \ {x} = s
    OBVIOUS
  <2>2. g[s \cup {x}] = f[x] + g[s] /\ k[s \cup {x}] = h[x] + k[s]
    <3>1. g[s \cup {x}] = f[x] + g[(s \cup {x}) \ {x}]
      BY ONLY <1>1, <2>1
    <3>2. k[s \cup {x}] = h[x] + k[(s \cup {x}) \ {x}]
      BY ONLY <1>2, <2>1
    <3> QED
      BY <2>1, <3>1, <3>2
  <2> QED
    BY <1>4, <2>1, <2>2
<1> HIDE DEF P
<1>5. S \in P
  BY <1>3, <1>4, SetInduction
<1> QED
  BY <1>5 DEF P

\* The sum of f over S.
Sum(f, S) == (CHOOSE g : IsSum(g, f, S))[S]

\* Whatever set the summing function covers, its value is the sum.
LEMMA SumIs ==
    ASSUME NEW S, IsFiniteSet(S), NEW T, IsFiniteSet(T), S \subseteq T,
           NEW f, \A x \in T : f[x] \in Int, NEW g, IsSum(g, f, T)
    PROVE  g[S] = Sum(f, S)
<1> DEFINE k == CHOOSE k : IsSum(k, f, S)
<1>1. IsSum(k, f, S)
  BY SumExists
<1>2. Sum(f, S) = k[S]
  BY DEF Sum
<1> HIDE DEF k
<1>3. k[S] = g[S]
  BY <1>1, SumAgrees
<1> QED
  BY <1>2, <1>3

\* Nothing adds up to 0.
LEMMA SumEmpty == \A f : Sum(f, {}) = 0
<1> TAKE f
<1>1. IsFiniteSet({})
  BY FS_EmptySet
<1>2. PICK g : IsSum(g, f, {})
  BY <1>1, SumExists
<1> QED
  BY <1>1, <1>2, SumIs, SumSteps

\* Integers add up to an integer.
LEMMA SumInteger ==
    ASSUME NEW S, IsFiniteSet(S), NEW f, \A x \in S : f[x] \in Int
    PROVE  Sum(f, S) \in Int
<1>1. PICK g : IsSum(g, f, S)
  BY SumExists
<1> QED
  BY <1>1, SumIs, SumSteps

\* Any element can be taken off first.
LEMMA SumRemove ==
    ASSUME NEW S, IsFiniteSet(S), NEW f, \A x \in S : f[x] \in Int, NEW x \in S
    PROVE  Sum(f, S) = f[x] + Sum(f, S \ {x})
<1>1. PICK g : IsSum(g, f, S)
  BY SumExists
<1>2. IsFiniteSet(S \ {x})
  BY FS_RemoveElement
<1>3. g[S] = Sum(f, S) /\ g[S \ {x}] = Sum(f, S \ {x})
  BY <1>1, <1>2, SumIs
<1>4. /\ g[{}] = 0
      /\ \A s \in SUBSET S : g[s] \in Int
      /\ \A s \in SUBSET S : \A y \in s : g[s] = f[y] + g[s \ {y}]
  BY ONLY <1>1, SumSteps, IsFiniteSet(S), \A y \in S : f[y] \in Int
<1>5. g[S] = f[x] + g[S \ {x}]
  BY <1>4
<1> QED
  BY <1>3, <1>5

\* An element more.
LEMMA SumAdd ==
    ASSUME NEW S, IsFiniteSet(S), NEW x, x \notin S,
           NEW f, \A y \in S \cup {x} : f[y] \in Int
    PROVE  Sum(f, S \cup {x}) = f[x] + Sum(f, S)
<1>1. IsFiniteSet(S \cup {x}) /\ (S \cup {x}) \ {x} = S /\ x \in S \cup {x}
  BY FS_AddElement
<1>2. Sum(f, S \cup {x}) = f[x] + Sum(f, (S \cup {x}) \ {x})
  BY <1>1, SumRemove
<1> QED
  BY <1>1, <1>2

\* Equal elements have equal sums.
LEMMA SumSame ==
    ASSUME NEW S, IsFiniteSet(S), NEW f, \A x \in S : f[x] \in Int,
           NEW h, \A x \in S : f[x] = h[x]
    PROVE  Sum(f, S) = Sum(h, S)
<1>1. PICK g : IsSum(g, f, S)
  BY SumExists
<1>2. PICK k : IsSum(k, h, S)
  BY SumExists
<1>3. g[S] = k[S]
  BY <1>1, <1>2, SumAgrees
<1> QED
  BY <1>1, <1>2, <1>3, SumIs

\* Amounts: what is traded is a natural number, and none only where nothing is.
LEMMA SumPositive ==
    ASSUME NEW S, IsFiniteSet(S), NEW f, \A x \in S : f[x] \in Nat \ {0}
    PROVE  Sum(f, S) \in Nat /\ (Sum(f, S) = 0 <=> S = {})
<1> DEFINE P == {s \in SUBSET S : Sum(f, s) \in Nat /\ (Sum(f, s) = 0 <=> s = {})}
<1>1. {} \in P
  BY SumEmpty
<1>2. ASSUME NEW s \in SUBSET S, NEW x \in S \ s, s \in P PROVE s \cup {x} \in P
  <2>1. IsFiniteSet(s)
    BY FS_Subset
  <2>2. x \notin s /\ \A y \in s \cup {x} : f[y] \in Int
    OBVIOUS
  <2>3. Sum(f, s \cup {x}) = f[x] + Sum(f, s)
    BY <2>1, <2>2, SumAdd
  <2>4. Sum(f, s) \in Nat /\ f[x] \in Nat \ {0} /\ s \cup {x} \in SUBSET S /\ s \cup {x} # {}
    BY <1>2
  <2> HIDE DEF P
  <2>5. Sum(f, s \cup {x}) \in Nat /\ Sum(f, s \cup {x}) # 0
    BY <2>3, <2>4
  <2> QED
    BY <2>4, <2>5 DEF P
<1> HIDE DEF P
<1>3. S \in P
  BY <1>1, <1>2, SetInduction
<1> QED
  BY <1>3 DEF P

-------------------------------------------------------------------------------
(***************************************************************************)
(* The volume of documents is such a sum.                                  *)
(***************************************************************************)
AmountsOf(ds, S) == [i \in S |-> ds[i].amount]

\* $group's volume of some documents is the sum of their amounts.
LEMMA VolumeIsSum ==
    ASSUME NEW ds, NEW S, IsFiniteSet(S), \A i \in S : ds[i].amount \in Int
    PROVE  Volume(ds, S) = Sum(AmountsOf(ds, S), S)
<1> DEFINE f == AmountsOf(ds, S)
<1>1. \A i \in S : f[i] \in Int /\ f[i] = ds[i].amount
  BY DEF AmountsOf
<1>2. \A s \in SUBSET S : s # {} => OneOf(s) \in S
  BY DEF OneOf
<1> HIDE DEF f
<1> DEFINE Is(g) == g = [s \in SUBSET S |-> IF s = {} THEN 0
                                            ELSE ds[CHOOSE x \in s : TRUE].amount
                                                 + g[s \ {CHOOSE x \in s : TRUE}]]
           h == CHOOSE g : Is(g)
<1>3. \A g : IsSum(g, f, S) <=> Is(g)
  BY <1>1, <1>2 DEF IsSum, Summand, OneOf
<1>4. \E g : IsSum(g, f, S)
  BY <1>1, SumExists
<1>5. Volume(ds, S) = h[S]
  BY DEF Volume, Total, MapThenSumSet, MapThenFoldSet
<1> HIDE DEF Is
<1>6. IsSum(h, f, S)
  BY <1>3, <1>4
<1> HIDE DEF h
<1> QED
  BY <1>1, <1>5, <1>6, SumIs DEF f

\* A chart row adds up the same amounts.
LEMMA RowVolume ==
    \A ds, S : MapThenSumSet(LAMBDA i : ds[i].amount, S) = Volume(ds, S)
BY Zenon DEF Volume, Total

-------------------------------------------------------------------------------
(***************************************************************************)
(* Windows.                                                                *)
(***************************************************************************)
USE ResolutionAssumption, PriceAssumption, AmountAssumption

\* The windows of a resolution cover the time: an instant lies in the window
\* that GetResolutionStartTimestampByTime gives for it.
LEMMA WindowContains ==
    ASSUME NEW r \in Resolutions, NEW t \in Nat
    PROVE  /\ WindowStart(r, t) \in Nat
           /\ WindowStart(r, t) <= t
           /\ t < WindowStart(r, t) + Duration[r]
<1>1. Duration[r] \in Nat \ {0}
  OBVIOUS
<1> QED
  BY <1>1 DEF WindowStart

\* A window starts at a multiple of its length.
LEMMA WindowIsMultiple ==
    ASSUME NEW r \in Resolutions, NEW t \in Nat
    PROVE  /\ t \div Duration[r] \in Nat
           /\ WindowStart(r, t) = Duration[r] * (t \div Duration[r])
<1>1. Duration[r] \in Nat \ {0}
  OBVIOUS
<1> QED
  BY <1>1 DEF WindowStart

\* A multiple of d is at least d after the one before.
LEMMA NextMultiple ==
    ASSUME NEW d \in Nat \ {0}, NEW j \in Int, NEW k \in Int, j < k
    PROVE  d * j + d <= d * k
OBVIOUS

\* Windows do not overlap: an instant between the start and the end of the
\* window of u is of that window.
LEMMA WindowUnique ==
    ASSUME NEW r \in Resolutions, NEW t \in Nat, NEW u \in Nat,
           WindowStart(r, u) <= t, t < WindowStart(r, u) + Duration[r]
    PROVE  WindowStart(r, t) = WindowStart(r, u)
<1> DEFINE d == Duration[r]
           j == t \div d
           k == u \div d
<1>1. d \in Nat \ {0} /\ j \in Nat /\ k \in Nat
  BY WindowIsMultiple
<1>2. WindowStart(r, t) = d * j /\ WindowStart(r, u) = d * k
  BY WindowIsMultiple
<1>3. d * j <= t /\ t < d * j + d /\ d * k <= t /\ t < d * k + d
  BY <1>2, WindowContains
<1> HIDE DEF d, j, k
<1>4. d * j \in Int /\ d * k \in Int
  BY <1>1
<1>5. ~(j < k)
  BY <1>1, <1>3, <1>4, NextMultiple
<1>6. ~(k < j)
  BY <1>1, <1>3, <1>4, NextMultiple
<1>7. j = k
  BY <1>1, <1>5, <1>6
<1> QED
  BY <1>2, <1>7

\* The start of a window is in that window.
LEMMA WindowStartIdempotent ==
    ASSUME NEW r \in Resolutions, NEW t \in Nat
    PROVE  WindowStart(r, WindowStart(r, t)) = WindowStart(r, t)
<1>1. Duration[r] \in Nat \ {0}
  OBVIOUS
<1> QED
  BY <1>1, WindowContains, WindowUnique

\* ContainsTs on the candle of the window that starts at o, at an instant that
\* is not the last nanosecond of a window: the candle contains the instants of
\* its window and no other.
LEMMA ContainsIsWindow ==
    ASSUME NEW r \in Resolutions, NEW t \in Nat, t + 1 # WindowEnd(r, t),
           NEW o \in Nat, WindowStart(r, o) = o
    PROVE  (o <= t /\ CloseTime(o, r) > t) <=> WindowStart(r, t) = o
<1>1. Duration[r] \in Nat \ {0}
  OBVIOUS
<1>2. ASSUME o <= t, CloseTime(o, r) > t PROVE WindowStart(r, t) = o
  BY <1>1, <1>2, WindowUnique DEF CloseTime
<1>3. ASSUME WindowStart(r, t) = o PROVE o <= t /\ CloseTime(o, r) > t
  BY <1>1, <1>3, WindowContains DEF CloseTime, WindowEnd
<1> QED
  BY <1>2, <1>3

\* The database keeps the millisecond of a deal, and with it the window.
LEMMA StoredInWindow ==
    ASSUME NEW r \in Resolutions, NEW t \in Nat
    PROVE  /\ StoredTime(t) \in Nat /\ StoredTime(t) <= t /\ StoredTime(t) % 2 = 0
           /\ WindowStart(r, StoredTime(t)) = WindowStart(r, t)
<1> DEFINE d == Duration[r]
           k == t \div d
<1>1. d \in Nat \ {0} /\ d % 2 = 0 /\ k \in Nat /\ WindowStart(r, t) = d * k
  BY DurationAssumption, WindowIsMultiple
<1>2. StoredTime(t) \in Nat /\ StoredTime(t) <= t /\ t - 1 <= StoredTime(t) /\ StoredTime(t) % 2 = 0
  BY DEF StoredTime
<1>3. PICK e \in Nat : d = 2 * e
  <2> HIDE DEF d
  <2>1. d = 2 * (d \div 2) /\ d \div 2 \in Nat
    BY <1>1
  <2> QED
    BY <2>1
<1>4. d * k = 2 * (e * k) /\ e * k \in Int
  <2> HIDE DEF d, k
  <2> QED
    BY <1>1, <1>3
<1>5. d * k <= t /\ t < d * k + d /\ d * k \in Nat
  BY <1>1, WindowContains
<1>6. d * k <= StoredTime(t)
  <2> DEFINE ek == e * k
  <2>1. ek \in Int /\ d * k = 2 * ek
    BY <1>4
  <2> HIDE DEF d, k, ek
  <2> DEFINE dk == d * k
  <2>2. dk = 2 * ek /\ dk <= t /\ dk \in Int
    BY <1>5, <2>1
  <2> HIDE DEF dk
  <2>3. dk <= StoredTime(t)
    BY <2>1, <2>2 DEF StoredTime
  <2> QED
    BY <2>3 DEF dk
<1> QED
  BY <1>1, <1>2, <1>5, <1>6, WindowUnique

-------------------------------------------------------------------------------
(***************************************************************************)
(* Prices: the order of the values is that of the coefficients.            *)
(***************************************************************************)
\* A price is a positive decimal.
LEMMA PriceType ==
    ASSUME NEW p \in Prices
    PROVE  p \in Decimal /\ p.coef \in Nat \ {0} /\ p.exp \in Int /\ p # ZeroDecimal
BY ScaleAssumption DEF UniformScale, Decimal, ZeroDecimal

\* Prices of one scale with the same coefficient are the same.
LEMMA OneCoefficient ==
    ASSUME NEW p \in Prices, NEW q \in Prices, p.coef = q.coef
    PROVE  p = q
BY ScaleAssumption, PriceType DEF UniformScale, Decimal

\* On prices of one scale ValueOrder is the order of the coefficients.
LEMMA PriceOrder ==
    ASSUME NEW p \in Prices, NEW q \in Prices
    PROVE  ValueOrder(p, q) <= 0 <=> p.coef <= q.coef
<1>1. /\ p.coef \in Nat \ {0} /\ q.coef \in Nat \ {0} /\ p.exp = q.exp
  BY PriceType, ScaleAssumption DEF UniformScale
<1>2. Sign(p.coef) = 1 /\ Sign(q.coef) = 1
  BY <1>1 DEF Sign
<1>3. ValueOrder(p, q) = Sign(p.coef - q.coef)
  BY <1>1, <1>2 DEF ValueOrder
<1> QED
  BY <1>1, <1>3 DEF Sign

\* CompareDecimal128 on prices compares the coefficients.
LEMMA PriceCompare ==
    ASSUME NEW p \in Prices, NEW q \in Prices
    PROVE  CompareDecimal128(p, q) = Sign(p.coef - q.coef)
<1>1. /\ p.coef \in Nat \ {0} /\ q.coef \in Nat \ {0} /\ p.exp = q.exp
  BY PriceType, ScaleAssumption DEF UniformScale
<1>2. Sign(p.coef) = 1 /\ Sign(q.coef) = 1
  BY <1>1 DEF Sign
<1> QED
  BY <1>1, <1>2 DEF CompareDecimal128

\* The first deal of a window makes high and low, a later one moves them.
LEMMA HigherLower ==
    ASSUME NEW p \in Prices
    PROVE  /\ Higher(ZeroDecimal, p) = p /\ Lower(ZeroDecimal, p) = p
           /\ \A q \in Prices : Higher(q, p) = IF p.coef > q.coef THEN p ELSE q
           /\ \A q \in Prices : Lower(q, p) = IF p.coef < q.coef THEN p ELSE q
<1>1. Higher(ZeroDecimal, p) = p
  <2>1. Sign(p.coef) = 1 /\ Sign(ZeroDecimal.coef) = 0
    BY PriceType DEF Sign, ZeroDecimal
  <2>2. CompareDecimal128(p, ZeroDecimal) = 1
    BY <2>1 DEF CompareDecimal128
  <2> QED
    BY <2>2 DEF Higher
<1>2. Lower(ZeroDecimal, p) = p
  BY DEF Lower, IsZero
<1>3. ASSUME NEW q \in Prices
      PROVE  /\ Higher(q, p) = IF p.coef > q.coef THEN p ELSE q
             /\ Lower(q, p) = IF p.coef < q.coef THEN p ELSE q
  <2>1. /\ CompareDecimal128(p, q) > 0 <=> p.coef > q.coef
        /\ CompareDecimal128(p, q) < 0 <=> p.coef < q.coef
    BY PriceCompare, PriceType DEF Sign
  <2> QED
    BY <2>1, PriceType DEF Higher, Lower, IsZero
<1> QED
  BY <1>1, <1>2, <1>3

\* The highest and the lowest of a set of prices are the only ones that bound it.
LEMMA HighestIs ==
    ASSUME NEW P \in SUBSET Prices, NEW p \in P, \A q \in P : q.coef <= p.coef
    PROVE  Highest(P) = p
<1>1. \A q \in P : ValueOrder(q, p) <= 0
  BY PriceOrder
<1> DEFINE h == CHOOSE h \in P : \A q \in P : ValueOrder(q, h) <= 0
<1>2. h \in P /\ \A q \in P : ValueOrder(q, h) <= 0
  BY <1>1
<1>3. Highest(P) = h
  BY DEF Highest
<1> HIDE DEF h
<1>4. p.coef <= h.coef /\ h.coef <= p.coef
  BY <1>2, PriceOrder
<1> QED
  BY <1>2, <1>3, <1>4, PriceType, OneCoefficient

\* The same for the lowest.
LEMMA LowestIs ==
    ASSUME NEW P \in SUBSET Prices, NEW p \in P, \A q \in P : p.coef <= q.coef
    PROVE  Lowest(P) = p
<1>1. \A q \in P : ValueOrder(p, q) <= 0
  BY PriceOrder
<1> DEFINE l == CHOOSE l \in P : \A q \in P : ValueOrder(l, q) <= 0
<1>2. l \in P /\ \A q \in P : ValueOrder(l, q) <= 0
  BY <1>1
<1>3. Lowest(P) = l
  BY DEF Lowest
<1> HIDE DEF l
<1>4. p.coef <= l.coef /\ l.coef <= p.coef
  BY <1>2, PriceOrder
<1> QED
  BY <1>2, <1>3, <1>4, PriceType, OneCoefficient

-------------------------------------------------------------------------------
(***************************************************************************)
(* Live candles and the documents of their windows.                        *)
(***************************************************************************)
\* A document of the deals collection.
StoredDeal == [market : Markets, createdAt : Nat, price : Prices, amount : Amounts,
               isBuyerMaker : BOOLEAN]

\* The candle c tells of the documents S, in the order they came.
Summary(ds, S, c) ==
    /\ c.volume = Volume(ds, S)
    /\ S = {} => c.high = ZeroDecimal /\ c.low = ZeroDecimal
    /\ S # {} =>
          /\ \E i \in S : c.open = ds[i].price /\ \A j \in S : i <= j
          /\ \E i \in S : c.close = ds[i].price /\ \A j \in S : j <= i
          /\ \E i \in S : c.high = ds[i].price
          /\ \A j \in S : ds[j].price.coef <= c.high.coef
          /\ \E i \in S : c.low = ds[i].price
          /\ \A j \in S : c.low.coef <= ds[j].price.coef

\* Places of documents: finitely many, and what is at them.
LEMMA Places ==
    ASSUME NEW ds \in Seq(StoredDeal), NEW S \in SUBSET (DOMAIN ds)
    PROVE  /\ IsFiniteSet(S) /\ S \in SUBSET Nat
           /\ \A i \in S : /\ ds[i] \in StoredDeal /\ ds[i].price \in Prices
                           /\ ds[i].amount \in Nat \ {0} /\ ds[i].createdAt \in Nat
                           /\ i \in Nat \ {0}
<1>1. DOMAIN ds = 1 .. Len(ds) /\ Len(ds) \in Nat
  OBVIOUS
<1>2. IsFiniteSet(1 .. Len(ds))
  BY <1>1, FS_Interval
<1>3. IsFiniteSet(S)
  BY <1>1, <1>2, FS_Subset
<1>4. \A i \in S : ds[i] \in StoredDeal /\ i \in Nat \ {0}
  BY <1>1
<1> QED
  BY <1>3, <1>4 DEF StoredDeal

\* Documents have a volume, and only no documents have none.
LEMMA VolumeType ==
    ASSUME NEW ds \in Seq(StoredDeal), NEW S \in SUBSET (DOMAIN ds)
    PROVE  Volume(ds, S) \in Nat /\ (Volume(ds, S) = 0 <=> S = {})
<1>1. IsFiniteSet(S) /\ \A i \in S : ds[i].amount \in Nat \ {0}
  BY Places
<1>2. Volume(ds, S) = Sum(AmountsOf(ds, S), S)
  BY <1>1, VolumeIsSum
<1>3. \A i \in S : AmountsOf(ds, S)[i] \in Nat \ {0}
  BY <1>1 DEF AmountsOf
<1> QED
  BY <1>1, <1>2, <1>3, SumPositive

\* A document more is an amount more.
LEMMA VolumeAdds ==
    ASSUME NEW ds \in Seq(StoredDeal), NEW d \in StoredDeal, NEW S \in SUBSET (DOMAIN ds)
    PROVE  /\ Volume(Append(ds, d), S) = Volume(ds, S)
           /\ Volume(Append(ds, d), S \cup {Len(ds) + 1}) = Volume(ds, S) + d.amount
<1> DEFINE es == Append(ds, d)
           x == Len(ds) + 1
           T == S \cup {x}
<1>1. /\ es \in Seq(StoredDeal) /\ DOMAIN es = DOMAIN ds \cup {x} /\ x \notin DOMAIN ds
      /\ es[x] = d /\ \A i \in DOMAIN ds : es[i] = ds[i]
  OBVIOUS
<1>2. S \in SUBSET (DOMAIN es) /\ T \in SUBSET (DOMAIN es) /\ x \notin S
  BY <1>1
<1> HIDE DEF es, x
<1>3. /\ IsFiniteSet(S) /\ IsFiniteSet(T)
      /\ \A i \in T : es[i].amount \in Nat
      /\ \A i \in S : es[i].amount \in Nat /\ ds[i].amount \in Nat /\ es[i].amount = ds[i].amount
  BY <1>1, <1>2, Places
<1>4. /\ Volume(ds, S) = Sum(AmountsOf(ds, S), S)
      /\ Volume(es, S) = Sum(AmountsOf(es, S), S)
      /\ Volume(es, T) = Sum(AmountsOf(es, T), T)
  BY <1>3, VolumeIsSum
<1>5. Sum(AmountsOf(ds, S), S) = Sum(AmountsOf(es, S), S)
  <2>1. \A i \in S : AmountsOf(ds, S)[i] \in Int /\ AmountsOf(ds, S)[i] = AmountsOf(es, S)[i]
    BY <1>3 DEF AmountsOf
  <2> QED
    BY <1>3, <2>1, SumSame
<1>6. Sum(AmountsOf(ds, S), S) = Sum(AmountsOf(es, T), S)
  <2>1. \A i \in S : AmountsOf(ds, S)[i] \in Int /\ AmountsOf(ds, S)[i] = AmountsOf(es, T)[i]
    BY <1>3 DEF AmountsOf
  <2> QED
    BY <1>3, <2>1, SumSame
<1>7. Sum(AmountsOf(es, T), T) = d.amount + Sum(AmountsOf(es, T), S)
  <2>1. \A i \in T : AmountsOf(es, T)[i] \in Int
    BY <1>3 DEF AmountsOf
  <2>2. AmountsOf(es, T)[x] = d.amount
    BY <1>1 DEF AmountsOf
  <2> QED
    BY <1>2, <1>3, <2>1, <2>2, SumAdd
<1>8. d.amount \in Nat /\ Volume(ds, S) \in Nat
  BY VolumeType DEF StoredDeal
<1>9. Volume(es, T) = Volume(ds, S) + d.amount
  BY <1>4, <1>6, <1>7, <1>8
<1> QED
  BY <1>4, <1>5, <1>9 DEF es, x

\* A document of another window changes nothing.
LEMMA SummaryStays ==
    ASSUME NEW ds \in Seq(StoredDeal), NEW d \in StoredDeal, NEW S \in SUBSET (DOMAIN ds),
           NEW c, Summary(ds, S, c)
    PROVE  Summary(Append(ds, d), S, c)
<1>1. \A i \in S : Append(ds, d)[i] = ds[i]
  OBVIOUS
<1>2. Volume(Append(ds, d), S) = Volume(ds, S)
  BY VolumeAdds
<1> QED
  BY <1>1, <1>2 DEF Summary

\* updateCandle: a document more of the window.
LEMMA SummaryGrows ==
    ASSUME NEW ds \in Seq(StoredDeal), NEW d \in StoredDeal, NEW S \in SUBSET (DOMAIN ds),
           NEW c \in Candle, Summary(ds, S, c),
           NEW e, e.price = d.price, e.amount = d.amount
    PROVE  Summary(Append(ds, d), S \cup {Len(ds) + 1}, UpdateCandle(c, e))
<1> DEFINE es == Append(ds, d)
           x == Len(ds) + 1
           u == UpdateCandle(c, e)
           p == d.price
<1>0. Len(ds) \in Nat /\ DOMAIN ds = 1 .. Len(ds) /\ \A i \in S : i \in Nat /\ i < x
  OBVIOUS
<1>1. /\ es[x] = d /\ x \in Nat /\ \A i \in S : es[i] = ds[i] /\ i \in Nat /\ i < x
      /\ p \in Prices /\ d.amount \in Nat \ {0}
  <2>1. es[x] = d /\ \A i \in S : es[i] = ds[i]
    OBVIOUS
  <2>2. p \in Prices /\ d.amount \in Nat \ {0}
    BY DEF StoredDeal
  <2> HIDE DEF es
  <2> QED
    BY <1>0, <2>1, <2>2
<1>2. \A i \in S : ds[i].price \in Prices
  BY Places
<1>3. /\ u.open = IF c.volume = 0 THEN p ELSE c.open
      /\ u.close = p
      /\ u.high = Higher(c.high, p)
      /\ u.low = Lower(c.low, p)
      /\ u.volume = c.volume + d.amount
  BY DEF UpdateCandle, Candle
<1>4. u.volume = Volume(es, S \cup {x})
  BY <1>3, VolumeAdds DEF Summary
<1>5. c.volume = 0 <=> S = {}
  BY VolumeType DEF Summary
<1> HIDE DEF es, x, u
<1>6. CASE S = {}
  <2>1. u.open = p /\ u.close = p /\ u.high = p /\ u.low = p
    BY <1>1, <1>3, <1>5, <1>6, HigherLower DEF Summary
  <2>2. p.coef \in Nat
    BY <1>1, PriceType
  <2> QED
    BY <1>1, <1>4, <1>6, <2>1, <2>2 DEF Summary, es, x, u
<1>7. CASE S # {}
  <2>1. /\ c.high \in Prices /\ c.low \in Prices
        /\ \A j \in S : ds[j].price.coef <= c.high.coef /\ c.low.coef <= ds[j].price.coef
    BY <1>2, <1>7 DEF Summary
  <2>2. /\ u.high = IF p.coef > c.high.coef THEN p ELSE c.high
        /\ u.low = IF p.coef < c.low.coef THEN p ELSE c.low
    BY <1>1, <1>3, <2>1, HigherLower
  <2>3. /\ p.coef \in Nat /\ c.high.coef \in Nat /\ c.low.coef \in Nat
        /\ \A j \in S : ds[j].price.coef \in Nat
    BY <1>1, <1>2, <2>1, PriceType
  <2>4. u.open = c.open
    BY <1>3, <1>5, <1>7
  <2>5. /\ \E i \in S \cup {x} : u.open = es[i].price /\ \A j \in S \cup {x} : i <= j
        /\ \E i \in S \cup {x} : u.close = es[i].price /\ \A j \in S \cup {x} : j <= i
    <3>1. PICK i \in S : c.open = ds[i].price /\ \A j \in S : i <= j
      BY <1>7 DEF Summary
    <3>2. u.open = es[i].price /\ \A j \in S \cup {x} : i <= j
      BY <1>1, <2>4, <3>1
    <3>3. u.close = es[x].price /\ \A j \in S \cup {x} : j <= x
      BY <1>1, <1>3
    <3> QED
      BY <3>2, <3>3
  <2>6. /\ \E i \in S \cup {x} : u.high = es[i].price
        /\ \A j \in S \cup {x} : es[j].price.coef <= u.high.coef
    <3>1. PICK i \in S : c.high = ds[i].price
      BY <1>7 DEF Summary
    <3>2. \E k \in S \cup {x} : u.high = es[k].price
      BY <1>1, <2>2, <3>1
    <3>3. \A j \in S \cup {x} : es[j].price.coef <= u.high.coef
      BY <1>1, <2>1, <2>2, <2>3
    <3> QED
      BY <3>2, <3>3
  <2>7. /\ \E i \in S \cup {x} : u.low = es[i].price
        /\ \A j \in S \cup {x} : u.low.coef <= es[j].price.coef
    <3>1. PICK i \in S : c.low = ds[i].price
      BY <1>7 DEF Summary
    <3>2. \E k \in S \cup {x} : u.low = es[k].price
      BY <1>1, <2>2, <3>1
    <3>3. ASSUME NEW j \in S PROVE u.low.coef <= es[j].price.coef
      BY <1>1, <2>1, <2>2, <2>3
    <3>4. u.low.coef <= es[x].price.coef
      BY <1>1, <2>1, <2>2, <2>3
    <3> QED
      BY <3>2, <3>3, <3>4
  <2> QED
    BY <1>4, <1>7, <2>5, <2>6, <2>7 DEF Summary, es, x, u
<1> QED
  BY <1>6, <1>7

-------------------------------------------------------------------------------
(***************************************************************************)
(* The invariant of the deals handled one after the other.                 *)
(***************************************************************************)
\* A document's time is that of a deal, cut to the millisecond.
TimesKept == \A i \in DOMAIN docs : \E t \in Times : docs[i].createdAt = StoredTime(t)

\* The state's type, and the bounds of the windows the live candles are of.
TypeOK ==
    /\ docs \in Seq(StoredDeal)
    /\ TimesKept
    /\ live \in [Windows -> Candle]
    /\ \A w \in Windows : /\ live[w].openTime = w[3]
                          /\ live[w].closeTime = CloseTime(w[3], w[2])

\* Every live candle tells of the documents of its window.
Summaries == \A w \in Windows : Summary(docs, OfWindow(w), live[w])

\* The inductive invariant.
Inv == TypeOK /\ Summaries

\* The length of an hour and a minute.
LEMMA HourType == Duration[Hour] \in Nat \ {0} /\ Hour \in Resolutions /\ Minute \in Resolutions
                  /\ Duration[Minute] \in Nat \ {0}
BY PairAssumption

\* The instants of deals lie in the first hour.
LEMMA TimesType == Times \in SUBSET Nat /\ \A t \in Times : t <= Duration[Hour] - 1 /\ InsideWindows(t)
BY HourType DEF Times

\* A window is of a market and a resolution, and starts where windows do.
LEMMA WindowsType ==
    ASSUME NEW w \in Windows
    PROVE  /\ w = <<w[1], w[2], w[3]>> /\ w[1] \in Markets /\ w[2] \in Resolutions
           /\ w[3] \in Nat /\ WindowStart(w[2], w[3]) = w[3]
<1>1. PICK m \in Markets, r \in Resolutions, t \in Times : w = <<m, r, WindowStart(r, t)>>
  BY DEF Windows
<1>2. t \in Nat
  BY TimesType
<1>3. WindowStart(r, t) \in Nat /\ WindowStart(r, WindowStart(r, t)) = WindowStart(r, t)
  BY <1>2, WindowContains, WindowStartIdempotent
<1> QED
  BY <1>1, <1>3

\* Every deal has a window of each resolution.
LEMMA SomeWindow ==
    ASSUME NEW m \in Markets, NEW r \in Resolutions, NEW t \in Times
    PROVE  <<m, r, WindowStart(r, t)>> \in Windows
BY DEF Windows

\* No documents, no volume.
LEMMA VolumeEmpty == Volume(<<>>, {}) = 0
<1>1. <<>> \in Seq(StoredDeal) /\ {} \in SUBSET (DOMAIN <<>>)
  OBVIOUS
<1> QED
  BY <1>1, VolumeType

\* buildFreshCandle: an empty candle of the window.
LEMMA FreshCandleShape ==
    ASSUME NEW m \in Markets, NEW r \in Resolutions, NEW t \in Nat
    PROVE  LET c == FreshCandle(m, r, t) IN
           /\ c \in Candle /\ c.openTime = WindowStart(r, t)
           /\ c.closeTime = CloseTime(WindowStart(r, t), r)
           /\ c.volume = 0 /\ c.high = ZeroDecimal /\ c.low = ZeroDecimal
<1>1. Duration[r] \in Nat \ {0}
  OBVIOUS
<1>2. WindowStart(r, t) \in Nat
  BY WindowContains
<1>3. CloseTime(WindowStart(r, t), r) \in Nat
  BY <1>1, <1>2 DEF CloseTime
<1> QED
  BY <1>2, <1>3 DEF FreshCandle, Candle, ZeroDecimal, Decimal

\* No deals and fresh candles.
LEMMA InitInv ==
    ASSUME Init
    PROVE  Inv
<1>1. docs = <<>> /\ DOMAIN docs = {} /\ docs \in Seq(StoredDeal)
  BY DEF Init
<1>2. \A w \in Windows : live[w] = FreshCandle(w[1], w[2], w[3])
  BY DEF Init
<1>3. ASSUME NEW w \in Windows
      PROVE  /\ live[w] \in Candle /\ live[w].openTime = w[3]
             /\ live[w].closeTime = CloseTime(w[3], w[2])
             /\ live[w].volume = 0 /\ live[w].high = ZeroDecimal /\ live[w].low = ZeroDecimal
  BY <1>2, WindowsType, FreshCandleShape
<1>4. TypeOK
  <2>1. TimesKept
    BY <1>1 DEF TimesKept
  <2>2. live \in [Windows -> Candle]
    BY <1>3 DEF Init
  <2> QED
    BY <1>1, <1>3, <2>1, <2>2 DEF TypeOK
<1>5. ASSUME NEW w \in Windows PROVE Summary(docs, OfWindow(w), live[w])
  <2>1. OfWindow(w) = {}
    BY <1>1 DEF OfWindow
  <2> QED
    BY <1>1, <1>3, <2>1, VolumeEmpty DEF Summary
<1> QED
  BY <1>4, <1>5 DEF Inv, Summaries

\* The live candle a deal is for is that of the window its document is put into.
LEMMA DealOfWindow ==
    ASSUME NEW m \in Markets, NEW t \in Times, NEW w \in Windows, NEW c,
           c.openTime = w[3], c.closeTime = CloseTime(w[3], w[2])
    PROVE  ContainsTs(c, t) <=> WindowStart(w[2], StoredTime(t)) = w[3]
<1>1. t \in Nat /\ t + 1 # WindowEnd(w[2], t)
  BY TimesType, WindowsType DEF InsideWindows
<1>2. WindowStart(w[2], StoredTime(t)) = WindowStart(w[2], t)
  BY <1>1, WindowsType, StoredInWindow
<1>3. (w[3] <= t /\ CloseTime(w[3], w[2]) > t) <=> WindowStart(w[2], t) = w[3]
  BY <1>1, WindowsType, ContainsIsWindow
<1> QED
  BY <1>2, <1>3 DEF ContainsTs

\* A deal stored and put into the live candle of its window in each resolution.
LEMMA NextInv ==
    ASSUME Inv, [Next]_<<docs, live>>
    PROVE  Inv'
<1>1. CASE UNCHANGED <<docs, live>>
  BY <1>1 DEF Inv, TypeOK, TimesKept, Summaries, OfWindow
<1>2. ASSUME NEW m \in Markets, NEW t \in Times, NEW p \in Prices, NEW a \in Amounts,
             NEW b \in BOOLEAN,
             Handle([market |-> m, createdAt |-> t, price |-> p, amount |-> a,
                     isBuyerMaker |-> b])
      PROVE  Inv'
  <2> DEFINE d == [market |-> m, createdAt |-> t, price |-> p, amount |-> a, isBuyerMaker |-> b]
             e == Document(d)
  <2>1. t \in Nat /\ StoredTime(t) \in Nat
    BY TimesType, PairAssumption, StoredInWindow
  <2>2. e = [market |-> m, createdAt |-> StoredTime(t), price |-> p, amount |-> a,
             isBuyerMaker |-> b] /\ e \in StoredDeal
    BY <2>1 DEF Document, StoredDeal
  <2>3. /\ d.market = m /\ d.createdAt = t /\ d.price = e.price /\ d.amount = e.amount
        /\ e.market = m /\ e.createdAt = StoredTime(t) /\ d.price \in Prices /\ d.amount \in Nat \ {0}
    BY <2>2
  <2>4. /\ docs' = Append(docs, e)
        /\ live' = [w \in Windows |-> IF w[1] = d.market /\ ContainsTs(live[w], d.createdAt)
                                      THEN UpdateCandle(live[w], d) ELSE live[w]]
    BY <1>2 DEF Handle
  <2> HIDE DEF d, e
  <2>5. /\ docs \in Seq(StoredDeal) /\ docs' \in Seq(StoredDeal)
        /\ DOMAIN docs' = DOMAIN docs \cup {Len(docs) + 1} /\ Len(docs) + 1 \notin DOMAIN docs
        /\ docs'[Len(docs) + 1] = e /\ \A i \in DOMAIN docs : docs'[i] = docs[i]
    BY <2>2, <2>4 DEF Inv, TypeOK
  <2>6. ASSUME NEW w \in Windows
        PROVE  /\ live'[w] \in Candle /\ live'[w].openTime = w[3]
               /\ live'[w].closeTime = CloseTime(w[3], w[2])
               /\ Summary(docs', OfWindow(w)', live'[w])
    <3>1. /\ live[w] \in Candle /\ live[w].openTime = w[3]
          /\ live[w].closeTime = CloseTime(w[3], w[2]) /\ Summary(docs, OfWindow(w), live[w])
      BY DEF Inv, TypeOK, Summaries
    <3>2. OfWindow(w) \in SUBSET (DOMAIN docs)
      BY DEF OfWindow
    <3>3. Within(e, w) <=> (w[1] = d.market /\ ContainsTs(live[w], d.createdAt))
      BY <2>3, <3>1, DealOfWindow DEF Within
    <3>4. CASE Within(e, w)
      <4>1. OfWindow(w)' = OfWindow(w) \cup {Len(docs) + 1}
        BY <2>5, <3>4 DEF OfWindow
      <4>2. live'[w] = UpdateCandle(live[w], d)
        BY <2>4, <3>3, <3>4
      <4>3. Summary(docs', OfWindow(w)', live'[w])
        BY <2>2, <2>3, <2>4, <2>5, <3>1, <3>2, <4>1, <4>2, SummaryGrows
      <4>4. /\ live'[w] \in Candle /\ live'[w].openTime = live[w].openTime
            /\ live'[w].closeTime = live[w].closeTime
        <5> DEFINE c == live[w]
        <5>1. /\ Higher(c.high, d.price) \in Decimal /\ Lower(c.low, d.price) \in Decimal
              /\ d.price \in Decimal /\ c.volume + d.amount \in Nat
          BY <2>3, <3>1 DEF Higher, Lower, Candle
        <5> QED
          BY <3>1, <4>2, <5>1 DEF UpdateCandle, Candle
      <4> QED
        BY <3>1, <4>3, <4>4
    <3>5. CASE ~Within(e, w)
      <4>1. OfWindow(w)' = OfWindow(w)
        BY <2>5, <3>5 DEF OfWindow
      <4>2. live'[w] = live[w]
        BY <2>4, <3>3, <3>5
      <4> QED
        BY <2>2, <2>4, <2>5, <3>1, <3>2, <4>1, <4>2, SummaryStays
    <3> QED
      BY <3>4, <3>5
  <2>7. TimesKept'
    BY <2>3, <2>5 DEF Inv, TypeOK, TimesKept
  <2>8. live' \in [Windows -> Candle]
    BY <2>4, <2>6
  <2> QED
    BY <2>5, <2>6, <2>7, <2>8 DEF Inv, TypeOK, Summaries
<1> QED
  BY <1>1, <1>2 DEF Next

\* At all times every live candle tells of the documents stored for its window: HandleDeal
\* stores a deal and updates the candles of all resolutions in one go.
THEOREM InvHolds == Spec => []Inv
<1>1. Init => Inv
  BY InitInv
<1>2. Inv /\ [Next]_<<docs, live>> => Inv'
  BY NextInv
<1> QED
  BY <1>1, <1>2, PTL DEF Spec

-------------------------------------------------------------------------------
(***************************************************************************)
(* CandleSummarises.                                                       *)
(***************************************************************************)
\* The least of some numbers.
LEMMA LeastIs ==
    ASSUME NEW S \in SUBSET Nat, NEW i \in S, \A j \in S : i <= j
    PROVE  Min(S) = i
<1> DEFINE m == CHOOSE x \in S : \A y \in S : x =< y
<1>1. m \in S /\ \A y \in S : m =< y
  OBVIOUS
<1>2. Min(S) = m
  BY DEF Min
<1> HIDE DEF m
<1> QED
  BY <1>1, <1>2

\* The greatest of some numbers.
LEMMA GreatestIs ==
    ASSUME NEW S \in SUBSET Nat, NEW i \in S, \A j \in S : j <= i
    PROVE  Max(S) = i
<1> DEFINE m == CHOOSE x \in S : \A y \in S : x >= y
<1>1. m \in S /\ \A y \in S : m >= y
  OBVIOUS
<1>2. Max(S) = m
  BY DEF Max
<1> HIDE DEF m
<1> QED
  BY <1>1, <1>2

\* The summary in the words of the chart query.
LEMMA SummaryTells ==
    ASSUME NEW ds \in Seq(StoredDeal), NEW S \in SUBSET (DOMAIN ds), S # {},
           NEW c, Summary(ds, S, c)
    PROVE  /\ Min(S) \in S /\ \A i \in S : Min(S) <= i
           /\ Max(S) \in S /\ \A i \in S : i <= Max(S)
           /\ c.open = ds[Min(S)].price /\ c.close = ds[Max(S)].price
           /\ c.high = Highest(PricesOf(ds, S)) /\ c.low = Lowest(PricesOf(ds, S))
           /\ c.volume = Volume(ds, S)
<1>1. S \in SUBSET Nat /\ \A i \in S : ds[i].price \in Prices
  BY Places
<1>2. PICK i \in S : c.open = ds[i].price /\ \A j \in S : i <= j
  BY DEF Summary
<1>3. PICK k \in S : c.close = ds[k].price /\ \A j \in S : j <= k
  BY DEF Summary
<1>4. Min(S) = i /\ Max(S) = k
  BY <1>1, <1>2, <1>3, LeastIs, GreatestIs
<1> DEFINE P == PricesOf(ds, S)
<1>5. /\ P \in SUBSET Prices /\ c.high \in P /\ c.low \in P
      /\ \A q \in P : q.coef <= c.high.coef /\ c.low.coef <= q.coef
  BY <1>1 DEF PricesOf, Summary
<1> HIDE DEF P
<1>6. Highest(P) = c.high /\ Lowest(P) = c.low
  BY <1>5, HighestIs, LowestIs
<1> QED
  BY <1>2, <1>3, <1>4, <1>6 DEF P, Summary

\* The invariant gives the property: what a summary says, word for word.
LEMMA InvSummarises ==
    ASSUME Inv
    PROVE  CandleSummarises
<1> SUFFICES ASSUME NEW w \in Windows, OfWindow(w) # {}
             PROVE  /\ live[w].open = docs[Min(OfWindow(w))].price
                    /\ live[w].close = docs[Max(OfWindow(w))].price
                    /\ live[w].high = Highest(PricesOf(docs, OfWindow(w)))
                    /\ live[w].low = Lowest(PricesOf(docs, OfWindow(w)))
                    /\ live[w].volume = Volume(docs, OfWindow(w))
  BY DEF CandleSummarises
<1>1. /\ docs \in Seq(StoredDeal) /\ OfWindow(w) \in SUBSET (DOMAIN docs)
      /\ Summary(docs, OfWindow(w), live[w])
  BY DEF Inv, TypeOK, Summaries, OfWindow
<1> QED
  BY <1>1, SummaryTells

\* CandleSummarises: the live candle that updateCandle grew deal by deal has the open, high,
\* low, close and volume of the documents of its window.
THEOREM CandleSummarisesHolds == Spec => []CandleSummarises
BY InvHolds, InvSummarises, PTL

-------------------------------------------------------------------------------
(***************************************************************************)
(* ChartsTellLiveCandles.                                                  *)
(***************************************************************************)
\* Numbers with a bound have a greatest one.
LEMMA LastNumber ==
    ASSUME NEW T \in SUBSET Nat, T # {}, NEW b \in Nat, \A n \in T : n <= b
    PROVE  \E n \in T : \A k \in T : k <= n
<1> DEFINE U == {n \in Nat : b - n \in T}
<1>1. PICK x \in T : TRUE
  OBVIOUS
<1>2. b - x \in U
  BY <1>1
<1>3. U \in SUBSET Nat /\ U # {}
  BY <1>2
<1> HIDE DEF U
<1>4. PICK u \in U : \A k \in U : ~(k < u)
  BY <1>3, LeastNumber
<1>5. b - u \in T /\ u \in Nat
  BY <1>4 DEF U
<1>6. \A k \in T : k <= b - u
  <2> SUFFICES ASSUME NEW k \in T PROVE k <= b - u
    OBVIOUS
  <2>1. k \in Nat /\ k <= b /\ b - k \in Nat /\ b - (b - k) = k
    OBVIOUS
  <2>2. b - k \in U
    BY <2>1 DEF U
  <2> QED
    BY <1>4, <1>5, <2>1, <2>2
<1> QED
  BY <1>5, <1>6

\* Every group of documents has a first and a last one in time.
LEMMA EndsExist ==
    ASSUME NEW ds \in Seq(StoredDeal), NEW S \in SUBSET (DOMAIN ds), S # {},
           NEW b \in Nat, \A i \in S : ds[i].createdAt <= b
    PROVE  Earliest(ds, S) # {} /\ Latest(ds, S) # {}
<1> DEFINE T == {ds[i].createdAt : i \in S}
<1>1. \A i \in S : ds[i].createdAt \in Nat
  BY Places
<1>2. T \in SUBSET Nat /\ T # {} /\ \A n \in T : n <= b
  BY <1>1
<1>3. \E n \in T : \A k \in T : ~(k < n)
  <2> HIDE DEF T
  <2> QED
    BY <1>2, LeastNumber
<1>4. \E n \in T : \A k \in T : k <= n
  <2> HIDE DEF T
  <2> QED
    BY <1>2, LastNumber
<1>5. Earliest(ds, S) # {}
  <2>1. PICK i \in S : \A k \in T : ~(k < ds[i].createdAt)
    BY <1>3
  <2>2. \A j \in S : ds[j].createdAt \in T
    OBVIOUS
  <2> HIDE DEF T
  <2>3. \A j \in S : ds[i].createdAt <= ds[j].createdAt
    BY <1>1, <2>1, <2>2
  <2>4. i \in Earliest(ds, S)
    BY <2>3 DEF Earliest
  <2> QED
    BY <2>4
<1>6. Latest(ds, S) # {}
  <2>1. PICK i \in S : \A k \in T : k <= ds[i].createdAt
    BY <1>4
  <2>2. i \in Latest(ds, S)
    BY <2>1 DEF Latest
  <2> QED
    BY <2>2
<1> QED
  BY <1>5, <1>6

\* The documents of a window, as GetCandles groups them.
LEMMA GroupIsWindow ==
    ASSUME Inv, NEW m \in Markets, NEW r \in Resolutions
    PROVE  LET S == Matching(docs, m, 0, Duration[Hour] - 1) IN
           /\ \A t : {i \in S : WindowStart(r, docs[i].createdAt) = t} = OfWindow(<<m, r, t>>)
           /\ \A i \in S : <<m, r, WindowStart(r, docs[i].createdAt)>> \in Windows
<1> DEFINE S == Matching(docs, m, 0, Duration[Hour] - 1)
<1>1. ASSUME NEW i \in DOMAIN docs
      PROVE  /\ docs[i].createdAt \in Nat
             /\ docs[i].createdAt <= Duration[Hour] - 1
             /\ \E t \in Times : WindowStart(r, docs[i].createdAt) = WindowStart(r, t)
  <2>1. PICK t \in Times : docs[i].createdAt = StoredTime(t)
    BY DEF Inv, TypeOK, TimesKept
  <2>2. t \in Nat /\ t <= Duration[Hour] - 1 /\ Duration[Hour] \in Nat
    BY TimesType, HourType
  <2>3. /\ StoredTime(t) \in Nat /\ StoredTime(t) <= t
        /\ WindowStart(r, StoredTime(t)) = WindowStart(r, t)
    BY <2>2, StoredInWindow
  <2> QED
    BY <2>1, <2>2, <2>3
<1>2. S = {i \in DOMAIN docs : docs[i].market = m}
  BY <1>1 DEF Matching
<1> HIDE DEF S
<1>3. \A t : {i \in S : WindowStart(r, docs[i].createdAt) = t} = OfWindow(<<m, r, t>>)
  BY <1>2 DEF OfWindow, Within
<1>4. \A i \in S : <<m, r, WindowStart(r, docs[i].createdAt)>> \in Windows
  BY <1>1, <1>2, SomeWindow
<1> QED
  BY <1>3, <1>4 DEF S

\* The windows of a chart: those with deals, and their rows.
LEMMA ChartRows ==
    ASSUME Inv, NEW m \in Markets, NEW r \in Resolutions
    PROVE  LET traded == {t \in {w[3] : w \in Windows} :
                              <<m, r, t>> \in Windows /\ OfWindow(<<m, r, t>>) # {}}
           IN  \A row : row \in GetCandles(docs, m, r, 0, Duration[Hour] - 1) <=>
                            \E t \in traded : row \in Rows(docs, OfWindow(<<m, r, t>>), t)
<1> DEFINE S == Matching(docs, m, 0, Duration[Hour] - 1)
           starts == {WindowStart(r, docs[i].createdAt) : i \in S}
           traded == {t \in {w[3] : w \in Windows} :
                          <<m, r, t>> \in Windows /\ OfWindow(<<m, r, t>>) # {}}
<1>1. /\ \A t : {i \in S : WindowStart(r, docs[i].createdAt) = t} = OfWindow(<<m, r, t>>)
      /\ \A i \in S : <<m, r, WindowStart(r, docs[i].createdAt)>> \in Windows
  BY GroupIsWindow
<1>2. GetCandles(docs, m, r, 0, Duration[Hour] - 1) =
          UNION {Rows(docs, {i \in S : WindowStart(r, docs[i].createdAt) = t}, t) : t \in starts}
  BY DEF GetCandles
<1> HIDE DEF S
<1>3. starts = traded
  <2>1. ASSUME NEW t \in starts PROVE t \in traded
    <3>1. PICK i \in S : t = WindowStart(r, docs[i].createdAt)
      OBVIOUS
    <3>2. i \in OfWindow(<<m, r, t>>) /\ <<m, r, t>> \in Windows
      BY <1>1, <3>1
    <3>3. t \in {w[3] : w \in Windows}
      BY <3>2
    <3> QED
      BY <3>2, <3>3
  <2>2. ASSUME NEW t \in traded PROVE t \in starts
    <3>1. PICK i \in OfWindow(<<m, r, t>>) : TRUE
      OBVIOUS
    <3>2. i \in S /\ WindowStart(r, docs[i].createdAt) = t
      BY <1>1, <3>1
    <3> QED
      BY <3>2
  <2> HIDE DEF starts, traded
  <2> QED
    BY <2>1, <2>2
<1> HIDE DEF starts
<1> QED
  BY <1>1, <1>2, <1>3

\* What a row of a window tells, and that there is one.
Tells(row, ds, S, t) ==
    /\ row.t = t /\ row.h = Highest(PricesOf(ds, S)) /\ row.l = Lowest(PricesOf(ds, S))
    /\ row.v = Volume(ds, S)
    /\ \E i \in Earliest(ds, S) : row.o = ds[i].price
    /\ \E i \in Latest(ds, S) : row.c = ds[i].price

\* Every row of a window does.
LEMMA RowTells ==
    ASSUME NEW ds \in Seq(StoredDeal), NEW S \in SUBSET (DOMAIN ds), NEW t,
           NEW row \in Rows(ds, S, t)
    PROVE  Tells(row, ds, S, t)
<1> DEFINE v == MapThenSumSet(LAMBDA i : ds[i].amount, S)
<1>1. v = Volume(ds, S)
  BY RowVolume
<1>2. row \in [t : {t}, o : PricesOf(ds, Earliest(ds, S)), c : PricesOf(ds, Latest(ds, S)),
               h : {Highest(PricesOf(ds, S))}, l : {Lowest(PricesOf(ds, S))}, v : {v}]
  BY DEF Rows
<1> HIDE DEF v
<1>3. /\ row.t = t /\ row.h = Highest(PricesOf(ds, S)) /\ row.l = Lowest(PricesOf(ds, S))
      /\ row.v = v /\ row.o \in PricesOf(ds, Earliest(ds, S))
      /\ row.c \in PricesOf(ds, Latest(ds, S))
  BY <1>2
<1> QED
  BY <1>1, <1>3 DEF PricesOf, Tells

\* A window with deals has a row.
LEMMA RowExists ==
    ASSUME NEW ds \in Seq(StoredDeal), NEW S \in SUBSET (DOMAIN ds), S # {}, NEW t,
           NEW b \in Nat, \A i \in S : ds[i].createdAt \in Nat /\ ds[i].createdAt <= b
    PROVE  \E row : row \in Rows(ds, S, t)
<1> DEFINE v == MapThenSumSet(LAMBDA i : ds[i].amount, S)
<1>1. PICK i \in Earliest(ds, S), k \in Latest(ds, S) : TRUE
  BY EndsExist
<1>2. ds[i].price \in PricesOf(ds, Earliest(ds, S)) /\ ds[k].price \in PricesOf(ds, Latest(ds, S))
  BY DEF PricesOf
<1>3. Rows(ds, S, t) =
          [t : {t}, o : PricesOf(ds, Earliest(ds, S)), c : PricesOf(ds, Latest(ds, S)),
           h : {Highest(PricesOf(ds, S))}, l : {Lowest(PricesOf(ds, S))}, v : {v}]
  BY DEF Rows
<1> HIDE DEF v
<1>4. [t |-> t, o |-> ds[i].price, c |-> ds[k].price, h |-> Highest(PricesOf(ds, S)),
       l |-> Lowest(PricesOf(ds, S)), v |-> v] \in Rows(ds, S, t)
  BY <1>2, <1>3
<1> QED
  BY <1>4

\* Deals that came in the order of their time: the first is the earliest.
LEMMA InOrderEnds ==
    ASSUME NEW ds \in Seq(StoredDeal), NEW S \in SUBSET (DOMAIN ds), S # {},
           \A i, j \in S : i < j => ds[i].createdAt < ds[j].createdAt
    PROVE  /\ \A i \in Earliest(ds, S), k \in S : (\A j \in S : k <= j) => i = k
           /\ \A i \in Latest(ds, S), k \in S : (\A j \in S : j <= k) => i = k
<1>1. \A i \in S : ds[i].createdAt \in Nat /\ i \in Nat
  BY Places
<1>2. ASSUME NEW i \in Earliest(ds, S), NEW k \in S, \A j \in S : k <= j PROVE i = k
  <2>1. i \in S /\ ds[i].createdAt <= ds[k].createdAt
    BY DEF Earliest
  <2>2. ~(k < i)
    BY <1>1, <2>1
  <2> QED
    BY <1>1, <1>2, <2>1, <2>2
<1>3. ASSUME NEW i \in Latest(ds, S), NEW k \in S, \A j \in S : j <= k PROVE i = k
  <2>1. i \in S /\ ds[k].createdAt <= ds[i].createdAt
    BY DEF Latest
  <2>2. ~(i < k)
    BY <1>1, <2>1
  <2> QED
    BY <1>1, <1>3, <2>1, <2>2
<1> QED
  BY <1>2, <1>3

\* The property, request by request.
ChartTells(m, r) ==
    /\ Answer(m, r).symbol = m
    /\ {row.t : row \in Answer(m, r).rows} =
           {w[3] : w \in {x \in Windows : x[1] = m /\ x[2] = r /\ live[x].volume # 0}}
    /\ \A row \in Answer(m, r).rows :
          LET c == live[<<m, r, row.t>>]
          IN  /\ row.h = Number(c.high) /\ row.l = Number(c.low) /\ row.v = c.volume
              /\ InOrder(<<m, r, row.t>>) =>
                    row.o = Number(c.open) /\ row.c = Number(c.close)

\* The rows of a chart are of the windows with deals, and these are the windows whose
\* live candle has a volume.
LEMMA InvTells ==
    ASSUME Inv
    PROVE  ChartsTellLiveCandles
<1> SUFFICES ASSUME NEW m \in Markets, NEW r \in Resolutions PROVE ChartTells(m, r)
  BY DEF ChartsTellLiveCandles, ChartTells
<1> DEFINE rows == GetCandles(docs, m, r, 0, Duration[Hour] - 1)
           Told(row) == [t |-> row.t, o |-> Number(row.o), h |-> Number(row.h),
                         l |-> Number(row.l), c |-> Number(row.c), v |-> row.v]
           traded == {t \in {w[3] : w \in Windows} :
                          <<m, r, t>> \in Windows /\ OfWindow(<<m, r, t>>) # {}}
<1>1. Answer(m, r) = [symbol |-> m, rows |-> {Told(row) : row \in rows}]
  BY DEF Answer, GetChart, MakeChartResponse
<1>2. \A row : row \in rows <=> \E t \in traded : row \in Rows(docs, OfWindow(<<m, r, t>>), t)
  BY ChartRows
<1>3. /\ docs \in Seq(StoredDeal)
      /\ \A w \in Windows : /\ OfWindow(w) \in SUBSET (DOMAIN docs)
                            /\ Summary(docs, OfWindow(w), live[w])
  BY DEF Inv, TypeOK, Summaries, OfWindow
<1>4. \A w \in Windows : live[w].volume # 0 <=> OfWindow(w) # {}
  BY <1>3, VolumeType DEF Summary
<1> HIDE DEF rows
<1>5. \A t \in traded : \E row \in rows : row.t = t
  <2> SUFFICES ASSUME NEW t \in traded PROVE \E row \in rows : row.t = t
    OBVIOUS
  <2> DEFINE S == OfWindow(<<m, r, t>>)
  <2>1. S \in SUBSET (DOMAIN docs) /\ S # {}
    BY <1>3
  <2>2. /\ Duration[Hour] \in Nat
        /\ \A i \in S : docs[i].createdAt \in Nat /\ docs[i].createdAt <= Duration[Hour]
    <3> SUFFICES ASSUME NEW i \in S
                 PROVE  docs[i].createdAt \in Nat /\ docs[i].createdAt <= Duration[Hour]
      BY HourType
    <3>1. PICK u \in Times : docs[i].createdAt = StoredTime(u)
      BY <2>1 DEF Inv, TypeOK, TimesKept
    <3>2. u \in Nat /\ u <= Duration[Hour] - 1 /\ Duration[Hour] \in Nat
      BY TimesType, HourType
    <3>3. StoredTime(u) \in Nat /\ StoredTime(u) <= u
      BY <3>2, HourType, StoredInWindow
    <3> QED
      BY <3>1, <3>2, <3>3
  <2> HIDE DEF S
  <2>3. PICK row : row \in Rows(docs, S, t)
    BY <1>3, <2>1, <2>2, RowExists
  <2>4. row.t = t
    <3>1. Tells(row, docs, S, t)
      BY <1>3, <2>1, <2>3, RowTells
    <3> QED
      BY <3>1 DEF Tells
  <2>5. row \in rows
    BY <1>2, <2>3 DEF S
  <2> QED
    BY <2>4, <2>5
<1>6. ASSUME NEW row \in rows
      PROVE  /\ row.t \in traded
             /\ LET c == live[<<m, r, row.t>>]
                IN  /\ row.h = c.high /\ row.l = c.low /\ row.v = c.volume
                    /\ InOrder(<<m, r, row.t>>) => row.o = c.open /\ row.c = c.close
  <2>1. PICK t \in traded : row \in Rows(docs, OfWindow(<<m, r, t>>), t)
    BY <1>2
  <2> DEFINE w == <<m, r, t>>
             S == OfWindow(w)
             c == live[w]
  <2>2. w \in Windows /\ S # {} /\ S \in SUBSET (DOMAIN docs) /\ Summary(docs, S, c)
    BY <1>3
  <2>3. InOrder(w) => \A i, j \in S : i < j => docs[i].createdAt < docs[j].createdAt
    BY DEF InOrder
  <2>a. row \in Rows(docs, S, t)
    BY <2>1
  <2>b. docs \in Seq(StoredDeal)
    BY <1>3
  <2> HIDE DEF w, S, c
  <2>4. /\ row.t = t /\ row.h = Highest(PricesOf(docs, S)) /\ row.l = Lowest(PricesOf(docs, S))
        /\ row.v = Volume(docs, S)
        /\ \E i \in Earliest(docs, S) : row.o = docs[i].price
        /\ \E i \in Latest(docs, S) : row.c = docs[i].price
    <3>1. Tells(row, docs, S, t)
      BY ONLY <2>b, <2>2, <2>a, RowTells
    <3> QED
      BY <3>1 DEF Tells
  <2>5. /\ c.high = Highest(PricesOf(docs, S)) /\ c.low = Lowest(PricesOf(docs, S))
        /\ c.volume = Volume(docs, S)
    BY ONLY <2>b, <2>2, SummaryTells
  <2>6. ASSUME InOrder(w) PROVE row.o = c.open /\ row.c = c.close
    <3>a. \A i, j \in S : i < j => docs[i].createdAt < docs[j].createdAt
      BY <2>3, <2>6
    <3>1. /\ \A i \in Earliest(docs, S), k \in S : (\A j \in S : k <= j) => i = k
          /\ \A i \in Latest(docs, S), k \in S : (\A j \in S : j <= k) => i = k
      BY ONLY <2>b, <2>2, <3>a, InOrderEnds
    <3>2. PICK k \in S : c.open = docs[k].price /\ \A j \in S : k <= j
      BY <2>2 DEF Summary
    <3>3. PICK l \in S : c.close = docs[l].price /\ \A j \in S : j <= l
      BY <2>2 DEF Summary
    <3> QED
      BY <2>4, <3>1, <3>2, <3>3
  <2>7. /\ row.t = t
        /\ row.h = c.high /\ row.l = c.low /\ row.v = c.volume
        /\ InOrder(w) => row.o = c.open /\ row.c = c.close
    BY <2>4, <2>5, <2>6
  <2> QED
    BY <2>7 DEF w, c
<1>7. Answer(m, r).symbol = m /\ Answer(m, r).rows = {Told(row) : row \in rows}
  BY <1>1
<1>8. {row.t : row \in Answer(m, r).rows} = traded
  <2>1. \A row \in rows : Told(row).t = row.t
    OBVIOUS
  <2> HIDE DEF traded, Told
  <2>2. {row.t : row \in Answer(m, r).rows} = {Told(row).t : row \in rows}
    BY <1>7
  <2>3. \A t \in traded : t \in {Told(row).t : row \in rows}
    BY <1>5, <2>1
  <2>4. \A row \in rows : Told(row).t \in traded
    <3>1. \A row \in rows : row.t \in traded
      BY <1>6
    <3> QED
      BY <2>1, <3>1
  <2> QED
    BY <2>2, <2>3, <2>4
<1>9. traded = {w[3] : w \in {x \in Windows : x[1] = m /\ x[2] = r /\ live[x].volume # 0}}
  <2>1. ASSUME NEW t \in traded
        PROVE  t \in {w[3] : w \in {x \in Windows : x[1] = m /\ x[2] = r /\ live[x].volume # 0}}
    <3> DEFINE w == <<m, r, t>>
    <3>1. w \in Windows /\ w[1] = m /\ w[2] = r /\ w[3] = t /\ live[w].volume # 0
      BY <1>4
    <3> HIDE DEF w
    <3> QED
      BY <3>1
  <2>2. ASSUME NEW w \in Windows, w[1] = m, w[2] = r, live[w].volume # 0
        PROVE  w[3] \in traded
    <3>1. w = <<m, r, w[3]>> /\ OfWindow(w) # {}
      BY <1>4, <2>2, WindowsType
    <3> QED
      BY <3>1
  <2> HIDE DEF traded
  <2> QED
    BY <2>1, <2>2
<1>10. ASSUME NEW told \in Answer(m, r).rows
       PROVE  LET c == live[<<m, r, told.t>>]
              IN  /\ told.h = Number(c.high) /\ told.l = Number(c.low) /\ told.v = c.volume
                  /\ InOrder(<<m, r, told.t>>) =>
                        told.o = Number(c.open) /\ told.c = Number(c.close)
  <2>1. PICK row \in rows : told = Told(row)
    BY <1>7
  <2>2. /\ told.t = row.t /\ told.o = Number(row.o) /\ told.h = Number(row.h)
        /\ told.l = Number(row.l) /\ told.c = Number(row.c) /\ told.v = row.v
    BY <2>1
  <2> HIDE DEF traded, Told
  <2> QED
    BY <1>6, <2>2
<1> HIDE DEF traded
<1> QED
  BY <1>7, <1>8, <1>9, <1>10 DEF ChartTells

\* ChartsTellLiveCandles: a chart computed by GetCandles from the documents has the rows of
\* the live candles, for every market and resolution.
THEOREM ChartsTellLiveCandlesHolds == Spec => []ChartsTellLiveCandles
BY InvHolds, InvTells, PTL

-------------------------------------------------------------------------------
(***************************************************************************)
(* MinutePipelinesAgree.                                                   *)
(***************************************************************************)
\* A minute candle, as a row, is a row of its group.
LEMMA MinuteRow ==
    ASSUME NEW ds, NEW G, NEW m, NEW t
    PROVE  /\ \A c \in MinuteCandlesOf(ds, <<m, t>>, G) : AsRow(c) \in Rows(ds, G, t)
           /\ \A row \in Rows(ds, G, t) :
                 \E c \in MinuteCandlesOf(ds, <<m, t>>, G) : AsRow(c) = row
<1> DEFINE v == Volume(ds, G)
           O == PricesOf(ds, Earliest(ds, G))
           C == PricesOf(ds, Latest(ds, G))
           h == Highest(PricesOf(ds, G))
           l == Lowest(PricesOf(ds, G))
<1>1. Rows(ds, G, t) = [t : {t}, o : O, c : C, h : {h}, l : {l}, v : {v}]
  BY RowVolume DEF Rows
<1>2. MinuteCandlesOf(ds, <<m, t>>, G) =
          [symbol : {m}, openTime : {t}, open : O, close : C, high : {h}, low : {l}, volume : {v}]
  BY DEF MinuteCandlesOf
<1> HIDE DEF v, O, C, h, l
<1>3. ASSUME NEW c \in MinuteCandlesOf(ds, <<m, t>>, G) PROVE AsRow(c) \in Rows(ds, G, t)
  <2>1. /\ c.openTime = t /\ c.open \in O /\ c.close \in C /\ c.high = h /\ c.low = l
        /\ c.volume = v
    <3>1. c \in [symbol : {m}, openTime : {t}, open : O, close : C, high : {h}, low : {l},
                 volume : {v}]
      BY <1>2
    <3> QED
      BY ONLY <3>1
  <2> QED
    BY <1>1, <2>1 DEF AsRow
<1>4. ASSUME NEW row \in Rows(ds, G, t)
      PROVE  \E c \in MinuteCandlesOf(ds, <<m, t>>, G) : AsRow(c) = row
  <2> DEFINE c == [symbol |-> m, openTime |-> t, open |-> row.o, close |-> row.c,
                   high |-> h, low |-> l, volume |-> v]
  <2>1. row.o \in O /\ row.c \in C /\ row = [t |-> t, o |-> row.o, c |-> row.c, h |-> h, l |-> l, v |-> v]
    BY <1>1
  <2>2. c \in MinuteCandlesOf(ds, <<m, t>>, G)
    BY <1>2, <2>1
  <2>3. AsRow(c) = [t |-> t, o |-> row.o, h |-> h, l |-> l, c |-> row.c, v |-> v]
    BY DEF AsRow
  <2> QED
    BY <2>1, <2>2, <2>3
<1> QED
  BY <1>3, <1>4

\* A kline, as a row, is one too.
LEMMA KlineRow ==
    ASSUME NEW ds, NEW G, NEW m, NEW t
    PROVE  /\ \A k \in KlinesOf(ds, <<m, t>>, G) : AsRow(k) \in Rows(ds, G, t)
           /\ \A row \in Rows(ds, G, t) :
                 \E k \in KlinesOf(ds, <<m, t>>, G) : AsRow(k) = row
<1> DEFINE v == Volume(ds, G)
           O == PricesOf(ds, Earliest(ds, G))
           C == PricesOf(ds, Latest(ds, G))
           h == Highest(PricesOf(ds, G))
           l == Lowest(PricesOf(ds, G))
<1>1. Rows(ds, G, t) = [t : {t}, o : O, c : C, h : {h}, l : {l}, v : {v}]
  BY RowVolume DEF Rows
<1>2. \E d, f, z, n, q, ta, tq : KlinesOf(ds, <<m, t>>, G) =
          [symbol : {m}, openTime : {t}, closeTime : {d}, open : O, close : C, high : {h},
           low : {l}, volume : {v}, quotes : {q}, first : {f}, last : {z}, trades : {n},
           takerAssets : {ta}, takerQuotes : {tq}]
  BY Zenon DEF KlinesOf
<1> HIDE DEF v, O, C, h, l
<1>3. PICK d, f, z, n, q, ta, tq : KlinesOf(ds, <<m, t>>, G) =
          [symbol : {m}, openTime : {t}, closeTime : {d}, open : O, close : C, high : {h},
           low : {l}, volume : {v}, quotes : {q}, first : {f}, last : {z}, trades : {n},
           takerAssets : {ta}, takerQuotes : {tq}]
  BY <1>2
<1>4. ASSUME NEW c \in KlinesOf(ds, <<m, t>>, G) PROVE AsRow(c) \in Rows(ds, G, t)
  <2>1. /\ c.openTime = t /\ c.open \in O /\ c.close \in C /\ c.high = h /\ c.low = l
        /\ c.volume = v
    <3>1. c \in [symbol : {m}, openTime : {t}, closeTime : {d}, open : O, close : C, high : {h},
                 low : {l}, volume : {v}, quotes : {q}, first : {f}, last : {z}, trades : {n},
                 takerAssets : {ta}, takerQuotes : {tq}]
      BY <1>3
    <3> QED
      BY ONLY <3>1
  <2> QED
    BY <1>1, <2>1 DEF AsRow
<1>5. ASSUME NEW row \in Rows(ds, G, t)
      PROVE  \E k \in KlinesOf(ds, <<m, t>>, G) : AsRow(k) = row
  <2> DEFINE k == [symbol |-> m, openTime |-> t, closeTime |-> d, open |-> row.o,
                   close |-> row.c, high |-> h, low |-> l, volume |-> v, quotes |-> q,
                   first |-> f, last |-> z, trades |-> n, takerAssets |-> ta,
                   takerQuotes |-> tq]
  <2>1. /\ row.o \in O /\ row.c \in C
        /\ row = [t |-> t, o |-> row.o, c |-> row.c, h |-> h, l |-> l, v |-> v]
    BY <1>1
  <2>2. k \in KlinesOf(ds, <<m, t>>, G)
    BY <1>3, <2>1
  <2>3. AsRow(k) = [t |-> t, o |-> row.o, h |-> h, l |-> l, c |-> row.c, v |-> v]
    BY DEF AsRow
  <2> QED
    BY <2>1, <2>2, <2>3
<1> QED
  BY <1>4, <1>5

\* The documents of the interval, their markets and minutes, as both minute pipelines
\* group them.
Inside(from, to) == {i \in DOMAIN docs : StoredTime(from) <= docs[i].createdAt
                                         /\ docs[i].createdAt <= StoredTime(to)}

MinuteId(i) == <<docs[i].market, WindowStart(Minute, docs[i].createdAt)>>

MinuteGroup(from, to, i) == {j \in Inside(from, to) : MinuteId(j) = MinuteId(i)}

\* The groups of a minute pipeline.
LEMMA MinuteGroupsAre ==
    ASSUME NEW from, NEW to
    PROVE  /\ DOMAIN MinuteGroups(docs, from, to) = {MinuteId(i) : i \in Inside(from, to)}
           /\ \A i \in Inside(from, to) :
                 MinuteGroups(docs, from, to)[MinuteId(i)] = MinuteGroup(from, to, i)
<1> DEFINE Id(i) == MinuteId(i)
           S == Inside(from, to)
<1>1. MinuteGroups(docs, from, to) =
          [id \in {Id(i) : i \in S} |-> {i \in S : Id(i) = id}]
  BY PairAssumption, Zenon DEF MinuteGroups, Inside, MinuteId
<1> HIDE DEF Id, S
<1>2. /\ DOMAIN MinuteGroups(docs, from, to) = {Id(i) : i \in S}
      /\ \A i \in S : MinuteGroups(docs, from, to)[Id(i)] = {j \in S : Id(j) = Id(i)}
  BY <1>1
<1> QED
  BY <1>2, Zenon DEF Id, S, MinuteGroup

\* The documents of a window among those a chart request matches.
GroupOf(m, r, from, to, t) ==
    {i \in Matching(docs, m, from, to) : WindowStart(r, docs[i].createdAt) = t}

\* GetCandles: the rows of these groups.
LEMMA CandlesOfGroups ==
    ASSUME NEW m, NEW r, NEW from, NEW to
    PROVE  GetCandles(docs, m, r, from, to) =
               UNION {Rows(docs, GroupOf(m, r, from, to, t), t) :
                          t \in {WindowStart(r, docs[i].createdAt) :
                                     i \in Matching(docs, m, from, to)}}
BY DEF GetCandles, GroupOf

\* The rows of GetCandles, market by market, are those of the same groups.
LEMMA MinuteRows ==
    ASSUME docs \in Seq(StoredDeal), NEW from, NEW to, NEW row
    PROVE  row \in UNION {GetCandles(docs, m, Minute, StoredTime(from), StoredTime(to)) :
                              m \in Markets}
           <=> \E i \in Inside(from, to) :
                  row \in Rows(docs, MinuteGroup(from, to, i), WindowStart(Minute, docs[i].createdAt))
<1> DEFINE S(m) == Matching(docs, m, StoredTime(from), StoredTime(to))
           ws(i) == WindowStart(Minute, docs[i].createdAt)
           G(m, t) == GroupOf(m, Minute, StoredTime(from), StoredTime(to), t)
<1>1. \A m : GetCandles(docs, m, Minute, StoredTime(from), StoredTime(to)) =
                 UNION {Rows(docs, G(m, t), t) : t \in {ws(i) : i \in S(m)}}
  BY CandlesOfGroups, Zenon
<1>2. \A i \in DOMAIN docs : docs[i].market \in Markets
  <2>1. DOMAIN docs = 1 .. Len(docs) /\ \A i \in 1 .. Len(docs) : docs[i] \in StoredDeal
    OBVIOUS
  <2> QED
    BY <2>1 DEF StoredDeal
<1>3. \A m : \A i : i \in S(m) <=> i \in Inside(from, to) /\ docs[i].market = m
  BY DEF Matching, Inside
<1> HIDE DEF ws
<1>4. \A i \in Inside(from, to) : MinuteGroup(from, to, i) = G(docs[i].market, ws(i))
  <2>1. \A i : MinuteId(i) = <<docs[i].market, ws(i)>>
    BY DEF MinuteId, ws
  <2> HIDE DEF S
  <2> QED
    BY <1>3, <2>1 DEF MinuteGroup, GroupOf, S, ws
<1>5. \A i \in Inside(from, to) : docs[i].market \in Markets
  BY <1>2 DEF Inside
<1> HIDE DEF S, G
<1>6. (row \in UNION {GetCandles(docs, m, Minute, StoredTime(from), StoredTime(to)) : m \in Markets})
      <=> \E m \in Markets : \E i \in S(m) : row \in Rows(docs, G(m, ws(i)), ws(i))
  BY <1>1
<1>7. (\E m \in Markets : \E i \in S(m) : row \in Rows(docs, G(m, ws(i)), ws(i)))
      <=> \E i \in Inside(from, to) : row \in Rows(docs, MinuteGroup(from, to, i), ws(i))
  BY <1>3, <1>4, <1>5
<1> QED
  BY <1>6, <1>7 DEF ws

\* Each of the three pipelines gives the rows of the same groups.
LEMMA InvAgree ==
    ASSUME Inv
    PROVE  MinutePipelinesAgree
<1> SUFFICES ASSUME NEW from, NEW to
             PROVE  LET rows == UNION {GetCandles(docs, m, Minute, StoredTime(from), StoredTime(to)) :
                                           m \in Markets}
                    IN  /\ {AsRow(c) : c \in GenerateMinuteCandles(docs, from, to)} = rows
                        /\ {AsRow(k) : k \in Klines(docs, from, to)} = rows
  BY DEF MinutePipelinesAgree
<1> DEFINE rows == UNION {GetCandles(docs, m, Minute, StoredTime(from), StoredTime(to)) : m \in Markets}
           ws(i) == WindowStart(Minute, docs[i].createdAt)
           S == Inside(from, to)
           G(i) == MinuteGroup(from, to, i)
           groups == MinuteGroups(docs, from, to)
<1>1. \A row : row \in rows <=> \E i \in S : row \in Rows(docs, G(i), ws(i))
  BY MinuteRows DEF Inv, TypeOK
<1>2. /\ DOMAIN groups = {MinuteId(i) : i \in S}
      /\ \A i \in S : groups[MinuteId(i)] = G(i)
  BY MinuteGroupsAre
<1>3. \A i : MinuteId(i) = <<docs[i].market, ws(i)>>
  BY DEF MinuteId
<1>4. GenerateMinuteCandles(docs, from, to) =
          UNION {MinuteCandlesOf(docs, id, groups[id]) : id \in DOMAIN groups}
  BY DEF GenerateMinuteCandles
<1>5. Klines(docs, from, to) = UNION {KlinesOf(docs, id, groups[id]) : id \in DOMAIN groups}
  BY DEF Klines
<1> HIDE DEF rows, ws, S, G, groups
<1>6. \A c : c \in GenerateMinuteCandles(docs, from, to) <=>
                \E i \in S : c \in MinuteCandlesOf(docs, <<docs[i].market, ws(i)>>, G(i))
  BY <1>2, <1>3, <1>4
<1>7. \A c : c \in Klines(docs, from, to) <=>
                \E i \in S : c \in KlinesOf(docs, <<docs[i].market, ws(i)>>, G(i))
  BY <1>2, <1>3, <1>5
<1>8. {AsRow(c) : c \in GenerateMinuteCandles(docs, from, to)} = rows
  <2>1. ASSUME NEW c \in GenerateMinuteCandles(docs, from, to) PROVE AsRow(c) \in rows
    BY <1>1, <1>6, MinuteRow
  <2>2. ASSUME NEW row \in rows
        PROVE  \E c \in GenerateMinuteCandles(docs, from, to) : AsRow(c) = row
    <3>1. PICK i \in S : row \in Rows(docs, G(i), ws(i))
      BY <1>1
    <3>2. PICK c \in MinuteCandlesOf(docs, <<docs[i].market, ws(i)>>, G(i)) : AsRow(c) = row
      BY <3>1, MinuteRow
    <3> QED
      BY <1>6, <3>2
  <2> QED
    BY <2>1, <2>2
<1>9. {AsRow(k) : k \in Klines(docs, from, to)} = rows
  <2>1. ASSUME NEW k \in Klines(docs, from, to) PROVE AsRow(k) \in rows
    BY <1>1, <1>7, KlineRow
  <2>2. ASSUME NEW row \in rows
        PROVE  \E k \in Klines(docs, from, to) : AsRow(k) = row
    <3>1. PICK i \in S : row \in Rows(docs, G(i), ws(i))
      BY <1>1
    <3>2. PICK k \in KlinesOf(docs, <<docs[i].market, ws(i)>>, G(i)) : AsRow(k) = row
      BY <3>1, KlineRow
    <3> QED
      BY <1>7, <3>2
  <2> QED
    BY <2>1, <2>2
<1> QED
  BY <1>8, <1>9 DEF rows

\* MinutePipelinesAgree: the two minute pipelines and the chart pipeline give the same minute
\* candles of every interval.
THEOREM MinutePipelinesAgreeHolds == Spec => []MinutePipelinesAgree
BY InvHolds, InvAgree, PTL

-------------------------------------------------------------------------------
(***************************************************************************)
(* NewestTradesFirst.                                                      *)
(***************************************************************************)
\* The documents S, each once, the newest first.
Newest(ds, S, q) ==
    /\ q \in [1 .. Cardinality(S) -> S]
    /\ \A j, k \in 1 .. Cardinality(S) : j # k => q[j] # q[k]
    /\ \A j, k \in 1 .. Cardinality(S) : j < k => ds[q[j]].createdAt >= ds[q[k]].createdAt

\* No document is left out: as many places as documents are all taken.
LEMMA NewestTakesAll ==
    ASSUME NEW ds, NEW S, IsFiniteSet(S), NEW q, Newest(ds, S, q)
    PROVE  \A i \in S : \E k \in 1 .. Cardinality(S) : q[k] = i
<1> DEFINE n == Cardinality(S)
<1>1. n \in Nat
  BY FS_CardinalityType
<1>2. IsFiniteSet(1 .. n) /\ Cardinality(1 .. n) = n
  BY <1>1, FS_Interval
<1>3. q \in Injection(1 .. n, S)
  BY DEF Newest, Injection, IsInjective
<1>4. q \in Surjection(1 .. n, S)
  BY <1>2, <1>3, FS_Injection
<1> QED
  BY <1>4 DEF Surjection

\* The first n of them are n.
Firsts(q, n) == {q[k] : k \in 1 .. n}

LEMMA FirstAreMany ==
    ASSUME NEW ds, NEW S, IsFiniteSet(S), NEW q, Newest(ds, S, q),
           NEW n \in Nat, n <= Cardinality(S)
    PROVE  Cardinality(Firsts(q, n)) = n
<1> DEFINE T == {q[k] : k \in 1 .. n}
           f == [k \in 1 .. n |-> q[k]]
<1>1. Cardinality(S) \in Nat
  BY FS_CardinalityType
<1>2. \A j, k \in 1 .. n : j # k => q[j] # q[k]
  BY <1>1 DEF Newest
<1>3. f \in Injection(1 .. n, T) /\ f \in Surjection(1 .. n, T)
  BY <1>2 DEF Injection, Surjection, IsInjective
<1>4. ExistsBijection(1 .. n, T)
  BY <1>3 DEF ExistsBijection, Bijection
<1>5. IsFiniteSet(1 .. n) /\ Cardinality(1 .. n) = n
  BY FS_Interval
<1> HIDE DEF T, f
<1>6. Cardinality(T) = n
  BY <1>4, <1>5, FS_Bijection
<1> QED
  BY <1>6 DEF T, Firsts

\* The documents of a market.
Mine(m) == {i \in DOMAIN docs : docs[i].market = m}

\* s is the first n places of q.
Cut(s, q, n) == s \in Seq(Nat) /\ Len(s) = n /\ DOMAIN s = 1 .. n /\ \A k \in 1 .. n : s[k] = q[k]

\* The guard of GetLastTrades, for a market with a name.
LEMMA GoodArgsMean ==
    ASSUME NEW m \in Markets, NEW limit
    PROVE  GoodArgs(m, limit) <=> limit > 0 /\ limit < 1000
BY MarketAssumption, Zenon DEF GoodArgs

\* GetLastTrades answers with the first of the market's documents, the newest first.
LEMMA LastTradesAre ==
    ASSUME docs \in Seq(StoredDeal), NEW m \in Markets, NEW limit \in Int, GoodArgs(m, limit),
           NEW s \in GetLastTrades(docs, m, limit)
    PROVE  \E n, q : /\ n \in Nat /\ Newest(docs, Mine(m), q) /\ Cut(s, q, n)
                     /\ n <= Cardinality(Mine(m)) /\ n <= limit
                     /\ (n = limit \/ n = Cardinality(Mine(m)))
<1> DEFINE S == Mine(m)
           c == Cardinality(S)
           n == Min({limit, c})
<1>1. limit \in Nat \ {0}
  BY GoodArgsMean
<1>2. IsFiniteSet(S) /\ S \in SUBSET Nat
  <2>1. S \in SUBSET (DOMAIN docs)
    BY DEF Mine
  <2> QED
    BY <2>1, Places
<1>3. c \in Nat
  BY <1>2, FS_CardinalityType
<1>4. GetLastTrades(docs, m, limit) =
          {SubSeq(q, 1, n) : q \in {f \in SetToSeqs(S) :
                  \A j, k \in DOMAIN f : j < k => docs[f[j]].createdAt >= docs[f[k]].createdAt}}
  BY DEF GetLastTrades, Mine
<1>5. n \in {limit, c} /\ n <= limit /\ n <= c
  <2> DEFINE both == {limit, c}
             x == CHOOSE z \in both : \A y \in both : z =< y
  <2>1. \E z \in both : \A y \in both : z =< y
    <3>1. CASE limit <= c
      BY <1>1, <1>3, <3>1
    <3>2. CASE c <= limit
      BY <1>1, <1>3, <3>2
    <3> QED
      BY <1>1, <1>3, <3>1, <3>2
  <2>2. x \in both /\ \A y \in both : x =< y
    BY <2>1
  <2>3. n = x
    BY DEF Min
  <2> HIDE DEF x
  <2> QED
    BY <2>2, <2>3
<1> HIDE DEF n
<1>6. PICK q \in SetToSeqs(S) :
          /\ \A j, k \in DOMAIN q : j < k => docs[q[j]].createdAt >= docs[q[k]].createdAt
          /\ s = SubSeq(q, 1, n)
  BY <1>4
<1>7. q \in [1 .. c -> S] /\ \A j, k \in 1 .. c : j # k => q[j] # q[k]
  BY DEF SetToSeqs
<1> HIDE DEF S
<1>8. Newest(docs, S, q)
  BY <1>6, <1>7 DEF Newest
<1>9. n \in Nat /\ \A k \in 1 .. n : q[k] \in Nat
  <2>1. n \in Nat /\ \A k \in 1 .. n : k \in 1 .. c
    BY <1>1, <1>3, <1>5
  <2> QED
    BY <1>2, <1>7, <2>1
<1>10. /\ SubSeq(q, 1, n) \in Seq(Nat)
       /\ Len(SubSeq(q, 1, n)) = IF 1 <= n THEN n - 1 + 1 ELSE 0
       /\ \A i \in 1 .. n - 1 + 1 : SubSeq(q, 1, n)[i] = q[1 + i - 1]
  BY <1>9, SubSeqProperties
<1>11. Cut(s, q, n)
  <2> DEFINE u == SubSeq(q, 1, n)
  <2>1. u \in Seq(Nat) /\ Len(u) = n /\ DOMAIN u = 1 .. Len(u)
    BY <1>9, <1>10
  <2>2. \A k \in 1 .. n : u[k] = q[k]
    <3> SUFFICES ASSUME NEW k \in 1 .. n PROVE u[k] = q[k]
      OBVIOUS
    <3> HIDE DEF u
    <3>1. k \in 1 .. n - 1 + 1 /\ 1 + k - 1 = k
      BY <1>9
    <3> QED
      BY <1>10, <3>1 DEF u
  <2> HIDE DEF u
  <2>3. s = u
    BY <1>6 DEF u
  <2> QED
    BY <2>1, <2>2, <2>3 DEF Cut
<1> QED
  BY <1>5, <1>8, <1>9, <1>11 DEF S

\* An answer of trades: the documents s, one trade each.
LEMMA BodyIs ==
    ASSUME docs \in Seq(StoredDeal), NEW s, NEW q, NEW n \in Nat, Cut(s, q, n), NEW body,
           body = [k \in DOMAIN s |-> Trade(docs, s[k])]
    PROVE  /\ Len(body) = n
           /\ \A k \in 1 .. n : /\ body[k].id = q[k] /\ body[k].time = docs[q[k]].createdAt
<1>1. body = [k \in 1 .. n |-> Trade(docs, s[k])]
  BY DEF Cut
<1> DEFINE T == {Trade(docs, s[k]) : k \in 1 .. n}
<1>2. body \in [1 .. n -> T]
  BY <1>1
<1> HIDE DEF T
<1>3. body \in Seq(T)
  BY <1>2
<1>4. Len(body) = n
  BY <1>2, <1>3
<1>5. ASSUME NEW k \in 1 .. n
      PROVE  body[k].id = q[k] /\ body[k].time = docs[q[k]].createdAt
  <2>1. body[k] = Trade(docs, q[k])
    BY <1>1 DEF Cut
  <2> QED
    BY <2>1 DEF Trade
<1> QED
  BY <1>4, <1>5

\* The property for one answer.
GoodAnswer(m, p, r) ==
    LET n == Len(r.body)
        shown == {r.body[k].id : k \in 1 .. n}
        mine == {i \in DOMAIN docs : docs[i].market = m}
    IN  /\ NoLimit(p) => r = Response(400, <<>>)
        /\ p.kind = "number" /\ p.number \in 1 .. 999 =>
              /\ r.code = 200 /\ Cardinality(shown) = n /\ shown \subseteq mine
              /\ n = p.number \/ (n < p.number /\ shown = mine)
              /\ \A j, k \in 1 .. n : j < k => r.body[j].time >= r.body[k].time
              /\ \A k \in 1 .. n : \A i \in mine \ shown :
                    docs[i].createdAt <= r.body[k].time
              /\ r.body \in GrpcGetLastTrades(docs, m, p.number)

\* What a good limit is answered with.
Answers(m, limit, body) ==
    LET n == Len(body)
        shown == {body[k].id : k \in 1 .. n}
        mine == {i \in DOMAIN docs : docs[i].market = m}
    IN  /\ Cardinality(shown) = n /\ shown \subseteq mine
        /\ n = limit \/ (n < limit /\ shown = mine)
        /\ \A j, k \in 1 .. n : j < k => body[j].time >= body[k].time
        /\ \A k \in 1 .. n : \A i \in mine \ shown : docs[i].createdAt <= body[k].time
        /\ body \in GrpcGetLastTrades(docs, m, limit)

\* A body of such trades is a good answer.
LEMMA BodyAnswers ==
    ASSUME docs \in Seq(StoredDeal), NEW m \in Markets, NEW limit \in Int, GoodArgs(m, limit),
           NEW s \in GetLastTrades(docs, m, limit), NEW body,
           body = [k \in DOMAIN s |-> Trade(docs, s[k])]
    PROVE  Answers(m, limit, body)
<1> DEFINE S == Mine(m)
           c == Cardinality(S)
<1>1. PICK n, q : /\ n \in Nat /\ Newest(docs, S, q) /\ Cut(s, q, n)
                  /\ n <= c /\ n <= limit /\ (n = limit \/ n = c)
  BY LastTradesAre
<1>2. IsFiniteSet(S) /\ \A i \in S : docs[i].createdAt \in Nat
  <2>1. S \in SUBSET (DOMAIN docs)
    BY DEF Mine
  <2> QED
    BY <2>1, Places
<1>3. c \in Nat
  BY <1>2, FS_CardinalityType
<1>4. Len(body) = n /\ \A k \in 1 .. n : body[k].id = q[k] /\ body[k].time = docs[q[k]].createdAt
  BY <1>1, BodyIs
<1> HIDE DEF S
<1> DEFINE shown == {body[k].id : k \in 1 .. n}
<1>5. shown = Firsts(q, n)
  <2>1. \A i \in shown : i \in Firsts(q, n)
    BY <1>4 DEF Firsts
  <2>2. \A i \in Firsts(q, n) : i \in shown
    <3> SUFFICES ASSUME NEW k \in 1 .. n PROVE q[k] \in shown
      BY DEF Firsts
    <3>1. body[k].id = q[k]
      BY <1>4
    <3> QED
      BY <3>1
  <2> HIDE DEF shown
  <2> QED
    BY <2>1, <2>2
<1>6. Cardinality(Firsts(q, n)) = n
  BY <1>1, <1>2, FirstAreMany
<1>7. \A i \in S : \E k \in 1 .. c : q[k] = i
  BY <1>1, <1>2, NewestTakesAll
<1>8. \A k \in 1 .. n : k \in 1 .. c
  BY <1>1, <1>3
<1>9. shown \subseteq S
  <2>1. \A k \in 1 .. c : q[k] \in S
    BY <1>1 DEF Newest
  <2> HIDE DEF c, shown
  <2>2. \A k \in 1 .. n : q[k] \in S
    BY ONLY <1>8, <2>1
  <2> QED
    BY ONLY <1>5, <2>2 DEF Firsts
<1>10. n = c => shown = S
  BY <1>5, <1>7, <1>9 DEF Firsts
<1>11. \A j, k \in 1 .. n : j < k => body[j].time >= body[k].time
  BY <1>1, <1>4, <1>8 DEF Newest
<1>12. ASSUME NEW k \in 1 .. n, NEW i \in S \ shown PROVE docs[i].createdAt <= body[k].time
  <2>1. PICK j \in 1 .. c : q[j] = i
    BY <1>7
  <2>2. j \notin 1 .. n
    <3> HIDE DEF shown
    <3>1. i \notin shown
      BY <1>12
    <3>2. ASSUME j \in 1 .. n PROVE i \in Firsts(q, n)
      <4>1. \A k_1 \in 1 .. n : q[k_1] \in Firsts(q, n)
        BY DEF Firsts
      <4> QED
        BY <2>1, <3>2, <4>1
    <3> QED
      BY <1>5, <3>1, <3>2
  <2>3. k < j /\ k \in 1 .. c
    BY <1>1, <1>3, <1>8, <2>2
  <2>4. docs[q[k]].createdAt >= docs[q[j]].createdAt
    BY <1>1, <2>3 DEF Newest
  <2>5. q[k] \in S /\ q[j] \in S
    BY <1>1, <2>3 DEF Newest
  <2> QED
    BY <1>2, <1>4, <2>1, <2>4, <2>5
<1>13. body \in GrpcGetLastTrades(docs, m, limit)
  BY DEF GrpcGetLastTrades
<1> HIDE DEF shown
<1>14. /\ Cardinality(shown) = n /\ shown \subseteq S
       /\ n = limit \/ (n < limit /\ shown = S)
  BY <1>1, <1>3, <1>5, <1>6, <1>9, <1>10
<1> QED
  BY <1>4, <1>11, <1>12, <1>13, <1>14 DEF S, shown, Answers, Mine

\* What a parameter is read as, and when it is no limit.
LEMMA LimitIs ==
    ASSUME NEW p \in Limits
    PROVE  LET limit == ParseInt32Parameter(p) IN
           IF p.kind = "number"
           THEN limit.err = FALSE /\ limit.value = p.number /\ p.number \in Int
           ELSE limit.err \/ limit.value = 0
<1>1. CASE p = [kind |-> "missing"]
  BY <1>1 DEF ParseInt32Parameter
<1>2. CASE p = [kind |-> "text"]
  BY <1>2 DEF ParseInt32Parameter
<1>3. CASE \E n \in LimitNumbers : p = [kind |-> "number", number |-> n]
  BY <1>3, LimitAssumption DEF ParseInt32Parameter
<1> QED
  BY <1>1, <1>2, <1>3 DEF Limits

\* Limits in range are answered so, and what is no limit is refused.
LEMMA InvNewest ==
    ASSUME Inv
    PROVE  NewestTradesFirst
<1> SUFFICES ASSUME NEW m \in Markets, NEW p \in Limits, NEW r \in ApiV1TradesGet(docs, m, p)
             PROVE  GoodAnswer(m, p, r)
  BY DEF NewestTradesFirst, GoodAnswer
<1> DEFINE limit == ParseInt32Parameter(p)
<1>1. docs \in Seq(StoredDeal)
  BY DEF Inv, TypeOK
<1>2. IF p.kind = "number"
      THEN limit.err = FALSE /\ limit.value = p.number /\ p.number \in Int
      ELSE limit.err \/ limit.value = 0
  BY LimitIs
<1>3. ApiV1TradesGet(docs, m, p) =
          IF limit.err \/ ~GoodArgs(m, limit.value) THEN {Response(400, <<>>)}
          ELSE {Response(200, [k \in DOMAIN s |-> Trade(docs, s[k])]) :
                    s \in GetLastTrades(docs, m, limit.value)}
  BY DEF ApiV1TradesGet
<1> HIDE DEF limit
<1>4. ~(limit.err \/ ~GoodArgs(m, limit.value)) <=> p.kind = "number" /\ p.number \in 1 .. 999
  <2>1. GoodArgs(m, limit.value) <=> limit.value > 0 /\ limit.value < 1000
    BY GoodArgsMean
  <2>2. CASE p.kind = "number"
    <3>1. limit.err = FALSE /\ limit.value = p.number /\ p.number \in Int
      BY <1>2, <2>2
    <3>2. p.number \in 1 .. 999 <=> (p.number > 0 /\ p.number < 1000)
      <4> DEFINE n == p.number
      <4>1. n \in Int
        BY <3>1
      <4> HIDE DEF n
      <4>2. n \in 1 .. 999 <=> (n > 0 /\ n < 1000)
        BY ONLY <4>1
      <4> QED
        BY <4>2 DEF n
    <3> QED
      BY ONLY <2>1, <2>2, <3>1, <3>2
  <2>3. CASE p.kind # "number"
    <3>1. limit.err \/ limit.value = 0
      BY <1>2, <2>3
    <3>2. ~(0 > 0)
      OBVIOUS
    <3> QED
      BY ONLY <2>1, <2>3, <3>1, <3>2
  <2> QED
    BY <2>2, <2>3
<1>5. CASE limit.err \/ ~GoodArgs(m, limit.value)
  <2>1. r = Response(400, <<>>)
    BY ONLY <1>3, <1>5, r \in ApiV1TradesGet(docs, m, p)
  <2>2. ~(p.kind = "number" /\ p.number \in 1 .. 999)
    BY ONLY <1>4, <1>5
  <2> QED
    BY <2>1, <2>2 DEF GoodAnswer
<1>6. CASE ~(limit.err \/ ~GoodArgs(m, limit.value))
  <2>1. limit.value = p.number /\ p.number \in Int /\ GoodArgs(m, p.number)
    BY <1>2, <1>4, <1>6
  <2>2. PICK s \in GetLastTrades(docs, m, p.number) :
            r = Response(200, [k \in DOMAIN s |-> Trade(docs, s[k])])
    BY <1>3, <1>6, <2>1
  <2> DEFINE body == [k \in DOMAIN s |-> Trade(docs, s[k])]
  <2>3. r.code = 200 /\ r.body = body
    BY <2>2 DEF Response
  <2>4. body = [k \in DOMAIN s |-> Trade(docs, s[k])]
    OBVIOUS
  <2> HIDE DEF body
  <2>5. Answers(m, p.number, body)
    BY <1>1, <2>1, <2>4, BodyAnswers
  <2>6. Answers(m, p.number, r.body)
    BY <2>3, <2>5
  <2>7. p.kind = "number" /\ p.number \in 1 .. 999
    BY ONLY <1>4, <1>6
  <2>8. ~NoLimit(p)
    <3>1. p.number \in Int /\ ~(p.number < 1) /\ ~(p.number > 1000)
      <4> DEFINE n == p.number
      <4>1. n \in 1 .. 999
        BY <2>7
      <4> HIDE DEF n
      <4>2. n \in Int /\ ~(n < 1) /\ ~(n > 1000)
        BY ONLY <4>1
      <4> QED
        BY <4>2 DEF n
    <3>2. p.kind # "text"
      BY <2>7
    <3> QED
      BY ONLY <3>1, <3>2 DEF NoLimit
  <2> QED
    BY <2>3, <2>6, <2>8, Zenon DEF GoodAnswer, Answers
<1> QED
  BY <1>5, <1>6

\* NewestTradesFirst: a trades request with a limit in range is answered with the newest
\* trades of the market, and one whose limit is no limit to anybody is refused.
THEOREM NewestTradesFirstHolds == Spec => []NewestTradesFirst
BY InvHolds, InvNewest, PTL

-------------------------------------------------------------------------------
(***************************************************************************)
(* More about sums: of two sets, of a partition, of ones, and bounds.      *)
(***************************************************************************)
\* The sum over two sets without a common element.
LEMMA SumUnion ==
    ASSUME NEW S, IsFiniteSet(S), NEW T, IsFiniteSet(T), S \cap T = {},
           NEW f, \A x \in S \cup T : f[x] \in Int
    PROVE  Sum(f, S \cup T) = Sum(f, S) + Sum(f, T)
<1> DEFINE P == {s \in SUBSET T : Sum(f, S \cup s) = Sum(f, S) + Sum(f, s)}
<1>0. Sum(f, S) \in Int
  BY SumInteger
<1>1. {} \in P
  <2>1. S \cup {} = S
    OBVIOUS
  <2> QED
    BY <1>0, <2>1, SumEmpty
<1>2. ASSUME NEW s \in SUBSET T, NEW x \in T \ s, s \in P PROVE s \cup {x} \in P
  <2>1. IsFiniteSet(s) /\ IsFiniteSet(S \cup s)
    BY FS_Subset, FS_Union
  <2>2. x \notin s /\ x \notin S \cup s /\ S \cup (s \cup {x}) = (S \cup s) \cup {x}
    OBVIOUS
  <2>3. (\A y \in s \cup {x} : f[y] \in Int) /\ \A y \in (S \cup s) \cup {x} : f[y] \in Int
    OBVIOUS
  <2>4. Sum(f, s \cup {x}) = f[x] + Sum(f, s)
    BY ONLY <2>1, <2>2, <2>3, SumAdd
  <2>5. Sum(f, (S \cup s) \cup {x}) = f[x] + Sum(f, S \cup s)
    BY ONLY <2>1, <2>2, <2>3, SumAdd
  <2>6. Sum(f, S \cup s) = Sum(f, S) + Sum(f, s)
    BY <1>2
  <2>7. Sum(f, s) \in Int /\ f[x] \in Int
    BY <2>1, <2>3, SumInteger
  <2>8. Sum(f, S \cup (s \cup {x})) = Sum(f, S) + Sum(f, s \cup {x})
    <3>1. Sum(f, S \cup (s \cup {x})) = f[x] + Sum(f, S \cup s)
      BY <2>2, <2>5
    <3> QED
      BY ONLY <1>0, <2>4, <2>6, <2>7, <3>1
  <2> QED
    BY <2>8
<1> HIDE DEF P
<1>3. T \in P
  BY <1>1, <1>2, SetInduction
<1> QED
  BY <1>3 DEF P

\* A set S cut into parts: the sums over the parts, summed up.
Partition(part, I, S) ==
    /\ \A i \in I : part[i] \in SUBSET S
    /\ \A i, j \in I : i # j => part[i] \cap part[j] = {}
    /\ \A x \in S : \E i \in I : x \in part[i]

LEMMA SumPartition ==
    ASSUME NEW S, IsFiniteSet(S), NEW I, IsFiniteSet(I), NEW part, Partition(part, I, S),
           NEW f, \A x \in S : f[x] \in Int,
           NEW sums, \A i \in I : sums[i] = Sum(f, part[i])
    PROVE  Sum(sums, I) = Sum(f, S)
<1> DEFINE Of(J) == UNION {part[i] : i \in J}
           P == {J \in SUBSET I : Sum(sums, J) = Sum(f, Of(J))}
<1>1. {} \in P
  <2>1. Of({}) = {}
    OBVIOUS
  <2> QED
    BY <2>1, SumEmpty
<1>0. \A s \in SUBSET S : IsFiniteSet(s) /\ Sum(f, s) \in Int
  BY FS_Subset, SumInteger
<1>2. \A i \in I : part[i] \in SUBSET S /\ sums[i] \in Int
  BY <1>0 DEF Partition
<1>3. ASSUME NEW J \in SUBSET I, NEW x \in I \ J, J \in P PROVE J \cup {x} \in P
  <2>1. IsFiniteSet(J) /\ Of(J) \in SUBSET S /\ Of(J \cup {x}) = Of(J) \cup part[x]
    BY <1>2, FS_Subset
  <2>2. Of(J) \cap part[x] = {}
    BY DEF Partition
  <2>3. Sum(sums, J \cup {x}) = sums[x] + Sum(sums, J)
    <3>1. x \notin J /\ \A y \in J \cup {x} : sums[y] \in Int
      BY <1>2
    <3> QED
      BY ONLY <2>1, <3>1, SumAdd
  <2>4. Sum(sums, J) = Sum(f, Of(J))
    BY <1>3
  <2> HIDE DEF Of
  <2>5. Sum(f, Of(J) \cup part[x]) = Sum(f, Of(J)) + Sum(f, part[x])
    <3>1. IsFiniteSet(Of(J)) /\ IsFiniteSet(part[x]) /\ \A y \in Of(J) \cup part[x] : f[y] \in Int
      BY <1>0, <1>2, <2>1
    <3> QED
      BY ONLY <2>2, <3>1, SumUnion
  <2>6. Sum(f, Of(J)) \in Int /\ Sum(f, part[x]) \in Int
    BY <1>0, <1>2, <2>1
  <2>7. sums[x] = Sum(f, part[x])
    OBVIOUS
  <2>8. Sum(sums, J \cup {x}) = Sum(f, Of(J)) + Sum(f, part[x])
    BY ONLY <2>3, <2>4, <2>6, <2>7
  <2>9. Sum(sums, J \cup {x}) = Sum(f, Of(J \cup {x}))
    BY <2>1, <2>5, <2>8
  <2> QED
    BY <2>9
<1>4. Of(I) = S
  BY DEF Partition
<1> HIDE DEF P, Of
<1>5. I \in P
  BY <1>1, <1>3, SetInduction
<1> QED
  BY <1>4, <1>5 DEF P

\* As many ones as elements.
LEMMA SumOnes ==
    ASSUME NEW S, IsFiniteSet(S), NEW f, \A x \in S : f[x] = 1
    PROVE  Sum(f, S) = Cardinality(S)
<1> DEFINE P == {s \in SUBSET S : Sum(f, s) = Cardinality(s)}
<1>1. {} \in P
  BY SumEmpty, FS_EmptySet
<1>2. ASSUME NEW s \in SUBSET S, NEW x \in S \ s, s \in P PROVE s \cup {x} \in P
  <2>1. IsFiniteSet(s) /\ x \notin s /\ \A y \in s \cup {x} : f[y] \in Int
    BY FS_Subset
  <2>2. Sum(f, s \cup {x}) = f[x] + Sum(f, s)
    BY ONLY <2>1, SumAdd
  <2>3. Cardinality(s \cup {x}) = Cardinality(s) + 1 /\ Cardinality(s) \in Nat
    BY <2>1, FS_AddElement, FS_CardinalityType
  <2> QED
    BY <1>2, <2>2, <2>3
<1> HIDE DEF P
<1>3. S \in P
  BY <1>1, <1>2, SetInduction
<1> QED
  BY <1>3 DEF P

\* A bound of the elements, by a factor, bounds the sums.
LEMMA SumBound ==
    ASSUME NEW S, IsFiniteSet(S), NEW low \in Int,
           NEW f, NEW h, \A x \in S : f[x] \in Int /\ h[x] \in Int /\ low * f[x] <= h[x]
    PROVE  low * Sum(f, S) <= Sum(h, S)
<1> DEFINE P == {s \in SUBSET S : low * Sum(f, s) <= Sum(h, s)}
<1>1. {} \in P
  BY SumEmpty
<1>2. ASSUME NEW s \in SUBSET S, NEW x \in S \ s, s \in P PROVE s \cup {x} \in P
  <2>1. IsFiniteSet(s) /\ x \notin s
    BY FS_Subset
  <2>2. (\A y \in s \cup {x} : f[y] \in Int) /\ \A y \in s \cup {x} : h[y] \in Int
    OBVIOUS
  <2>3. Sum(f, s \cup {x}) = f[x] + Sum(f, s) /\ Sum(h, s \cup {x}) = h[x] + Sum(h, s)
    BY ONLY <2>1, <2>2, SumAdd
  <2>4. Sum(f, s) \in Int /\ Sum(h, s) \in Int
    BY ONLY <2>1, <2>2, SumInteger
  <2>5. low * Sum(f, s) <= Sum(h, s) /\ low * f[x] <= h[x] /\ f[x] \in Int /\ h[x] \in Int
    BY <1>2
  <2>6. \A a, b \in Int : low * (a + b) = low * a + low * b
    OBVIOUS
  <2>7. low * Sum(f, s \cup {x}) <= Sum(h, s \cup {x})
    <3>1. \A a, b, c, d \in Int : low * a <= c /\ low * b <= d => low * (a + b) <= c + d
      BY <2>6
    <3> QED
      BY ONLY <2>3, <2>4, <2>5, <3>1
  <2> QED
    BY <2>7
<1> HIDE DEF P
<1>3. S \in P
  BY <1>1, <1>2, SetInduction
<1> QED
  BY <1>3 DEF P

\* The same from above.
LEMMA SumBoundAbove ==
    ASSUME NEW S, IsFiniteSet(S), NEW high \in Int,
           NEW f, NEW h, \A x \in S : f[x] \in Int /\ h[x] \in Int /\ h[x] <= high * f[x]
    PROVE  Sum(h, S) <= high * Sum(f, S)
<1> DEFINE P == {s \in SUBSET S : Sum(h, s) <= high * Sum(f, s)}
<1>1. {} \in P
  BY SumEmpty
<1>2. ASSUME NEW s \in SUBSET S, NEW x \in S \ s, s \in P PROVE s \cup {x} \in P
  <2>1. IsFiniteSet(s) /\ x \notin s
    BY FS_Subset
  <2>2. (\A y \in s \cup {x} : f[y] \in Int) /\ \A y \in s \cup {x} : h[y] \in Int
    OBVIOUS
  <2>3. Sum(f, s \cup {x}) = f[x] + Sum(f, s) /\ Sum(h, s \cup {x}) = h[x] + Sum(h, s)
    BY ONLY <2>1, <2>2, SumAdd
  <2>4. Sum(f, s) \in Int /\ Sum(h, s) \in Int
    BY ONLY <2>1, <2>2, SumInteger
  <2>5. Sum(h, s) <= high * Sum(f, s) /\ h[x] <= high * f[x] /\ f[x] \in Int /\ h[x] \in Int
    BY <1>2
  <2>6. \A a, b \in Int : high * (a + b) = high * a + high * b
    OBVIOUS
  <2>7. Sum(h, s \cup {x}) <= high * Sum(f, s \cup {x})
    <3>1. \A a, b, c, d \in Int : c <= high * a /\ d <= high * b => c + d <= high * (a + b)
      BY <2>6
    <3> QED
      BY ONLY <2>3, <2>4, <2>5, <3>1
  <2> QED
    BY <2>7
<1> HIDE DEF P
<1>3. S \in P
  BY <1>1, <1>2, SetInduction
<1> QED
  BY <1>3 DEF P

-------------------------------------------------------------------------------
(***************************************************************************)
(* AggregationKeepsTotals.                                                 *)
(***************************************************************************)
\* The ends of a set of places.
LEMMA PlacesEnds ==
    ASSUME NEW n \in Nat, NEW S \in SUBSET (1 .. n), S # {}
    PROVE  /\ Min(S) \in S /\ \A i \in S : Min(S) <= i
           /\ Max(S) \in S /\ \A i \in S : i <= Max(S)
<1>1. S \in SUBSET Nat /\ \A i \in S : i <= n
  OBVIOUS
<1>2. PICK a \in S : \A i \in S : ~(i < a)
  BY <1>1, LeastNumber
<1>3. \A i \in S : a <= i
  BY <1>1, <1>2
<1>4. PICK b \in S : \A i \in S : i <= b
  BY <1>1, LastNumber
<1> QED
  BY <1>1, <1>3, <1>4, LeastIs, GreatestIs

\* The candles at the places s, after base, compared one after the other.
Joined(candles, base, g, s) ==
    IF s = {} THEN base ELSE Compare(g[s \ {Max(s)}], candles[Max(s)])

\* g[s] are the candles at the places s put together, for the subsets s of S.
IsJoin(g, candles, base, S) == g = [s \in SUBSET S |-> Joined(candles, base, g, s)]

\* There is such a function, by induction on the last place.
LEMMA JoinExists ==
    ASSUME NEW n \in Nat, NEW S \in SUBSET (1 .. n), NEW candles, NEW base
    PROVE  \E g : IsJoin(g, candles, base, S)
<1> DEFINE N == {k \in Nat : \E g : g = [s \in Parts(S, k) |-> Joined(candles, base, g, s)]}
<1>0. \A s \in SUBSET S : /\ IsFiniteSet(s) /\ Cardinality(s) \in Nat
                          /\ Cardinality(s) <= Cardinality(S)
                          /\ Cardinality(s) = 0 => s = {}
                          /\ s # {} => Max(s) \in s
  <2>1. IsFiniteSet(S)
    <3>1. IsFiniteSet(1 .. n)
      BY FS_Interval
    <3> QED
      BY <3>1, FS_Subset
  <2>2. \A s \in SUBSET S : s # {} => Max(s) \in s
    BY PlacesEnds
  <2> QED
    BY <2>1, <2>2, FS_Subset, FS_CardinalityType, FS_EmptySet
<1>1. 0 \in N
  <2> DEFINE g == [s \in Parts(S, 0) |-> base]
  <2>1. \A s \in Parts(S, 0) : s = {}
    BY <1>0 DEF Parts
  <2>2. g = [s \in Parts(S, 0) |-> Joined(candles, base, g, s)]
    BY <2>1 DEF Joined
  <2> QED
    BY <2>2
<1>2. ASSUME NEW k \in Nat, k \in N PROVE k + 1 \in N
  <2>1. PICK g : g = [s \in Parts(S, k) |-> Joined(candles, base, g, s)]
    BY <1>2
  <2> DEFINE h == [s \in Parts(S, k + 1) |-> Joined(candles, base, g, s)]
  <2>2. \A s \in Parts(S, k) : s \in Parts(S, k + 1) /\ g[s] = h[s]
    <3>1. \A s \in Parts(S, k) : s \in Parts(S, k + 1)
      BY <1>0 DEF Parts
    <3> QED
      BY <2>1, <3>1
  <2>3. \A s \in Parts(S, k + 1) : s # {} => s \ {Max(s)} \in Parts(S, k)
    <3> SUFFICES ASSUME NEW s \in Parts(S, k + 1), s # {} PROVE s \ {Max(s)} \in Parts(S, k)
      OBVIOUS
    <3>1. s \in SUBSET S /\ Cardinality(s) <= k + 1 /\ s \ {Max(s)} \in SUBSET S
      BY DEF Parts
    <3>2. Cardinality(s \ {Max(s)}) = Cardinality(s) - 1
      BY <1>0, <3>1, FS_RemoveElement
    <3> QED
      BY <1>0, <3>1, <3>2 DEF Parts
  <2>4. \A s \in Parts(S, k + 1) : h[s] = Joined(candles, base, h, s)
    BY <2>2, <2>3 DEF Joined
  <2>5. h = [s \in Parts(S, k + 1) |-> h[s]]
    OBVIOUS
  <2>6. h = [s \in Parts(S, k + 1) |-> Joined(candles, base, h, s)]
    <3> HIDE DEF h
    <3> QED
      BY <2>4, <2>5
  <2> HIDE DEF h
  <2> QED
    BY <2>6
<1> HIDE DEF N
<1>3. Cardinality(S) \in N
  BY <1>0, <1>1, <1>2, Induction
<1>4. Parts(S, Cardinality(S)) = SUBSET S
  BY <1>0 DEF Parts
<1> QED
  BY <1>3, <1>4 DEF N, IsJoin

\* The candles at the places S are put together one after the other.
LEMMA ComparedIsJoin ==
    ASSUME NEW n \in Nat, NEW S \in SUBSET (1 .. n), NEW candles
    PROVE  \E g : /\ IsJoin(g, candles, candles[Min(S)], S \ {Min(S)})
                  /\ Compared(candles, S) = g[S \ {Min(S)}]
<1> DEFINE T == S \ {Min(S)}
           base == candles[Min(S)]
           h == CHOOSE g : g = [s \in SUBSET T |->
                                 IF s = {} THEN base
                                 ELSE Compare(g[s \ {Max(s)}], candles[Max(s)])]
<1>1. Compared(candles, S) = h[T]
  BY DEF Compared, MapThenFoldSet
<1>2. \A g : IsJoin(g, candles, base, T) <=>
          g = [s \in SUBSET T |-> IF s = {} THEN base
                                  ELSE Compare(g[s \ {Max(s)}], candles[Max(s)])]
  BY DEF IsJoin, Joined
<1>3. \E g : IsJoin(g, candles, base, T)
  BY JoinExists
<1>4. IsJoin(h, candles, base, T)
  BY <1>2, <1>3
<1> HIDE DEF h
<1> QED
  BY <1>1, <1>4

\* Candles in the order of time.
Ascending(candles, n) ==
    \A i, j \in 1 .. n : i < j => candles[i].openTime < candles[j].openTime

\* Their volumes.
VolumesOf(candles, n) == [i \in 1 .. n |-> candles[i].volume]

\* Put together they have the first open, the last close and the volume of all.
LEMMA ComparedIs ==
    ASSUME NEW n \in Nat \ {0}, NEW candles, Ascending(candles, n),
           \A i \in 1 .. n : candles[i].volume \in Int /\ candles[i].openTime \in Int
    PROVE  LET c == Compared(candles, 1 .. n) IN
           /\ c.open = candles[1].open /\ c.close = candles[n].close
           /\ c.volume = Sum(VolumesOf(candles, n), 1 .. n)
<1> DEFINE T == 2 .. n
           f == VolumesOf(candles, n)
           LastAt(s) == IF s = {} THEN 1 ELSE Max(s)
<1>1. Min(1 .. n) = 1 /\ (1 .. n) \ {1} = T /\ T \in SUBSET (1 .. n)
  <2>1. 1 .. n \in SUBSET Nat /\ 1 \in 1 .. n /\ \A j \in 1 .. n : 1 <= j
    OBVIOUS
  <2>2. Min(1 .. n) = 1
    BY <2>1, LeastIs
  <2> QED
    BY <2>2
<1>2. PICK g : IsJoin(g, candles, candles[1], T) /\ Compared(candles, 1 .. n) = g[T]
  BY <1>1, ComparedIsJoin
<1>3. \A s \in SUBSET T : g[s] = Joined(candles, candles[1], g, s)
  BY <1>2 DEF IsJoin
<1>12. LastAt(T) = n /\ {1} \cup T = 1 .. n /\ \A i \in T : i # 1 /\ i \in 1 .. n
  <2>1. CASE n = 1
    BY <2>1
  <2>2. CASE n # 1
    <3>1. T \in SUBSET Nat /\ n \in T /\ \A j \in T : j <= n
      BY <2>2
    <3>2. Max(T) = n /\ T # {}
      BY ONLY <3>1, GreatestIs
    <3>3. LastAt(T) = n
      BY <3>2
    <3>4. {1} \cup T = 1 .. n /\ \A i \in T : i # 1 /\ i \in 1 .. n
      BY <2>2
    <3> QED
      BY <3>3, <3>4
  <2> QED
    BY <2>1, <2>2
<1>4. \A i \in 1 .. n : f[i] = candles[i].volume /\ f[i] \in Int
  BY DEF VolumesOf
<1>13. IsFiniteSet(T)
  BY FS_Interval
<1> HIDE DEF f, T
<1>5. \A s \in SUBSET T : /\ IsFiniteSet(s) /\ Cardinality(s) \in Nat
                          /\ Cardinality(s) = 0 => s = {}
  BY <1>13, FS_Subset, FS_CardinalityType, FS_EmptySet
<1>11. \A s \in SUBSET T : s # {} => Max(s) \in s /\ \A i \in s : i <= Max(s)
  BY <1>1, PlacesEnds
<1> DEFINE Good(c, s) == /\ c.open = candles[1].open
                         /\ c.close = candles[LastAt(s)].close
                         /\ c.openTime = candles[LastAt(s)].openTime
                         /\ c.volume = Sum(f, {1} \cup s)
           N == {k \in Nat : \A s \in SUBSET T : Cardinality(s) <= k => Good(g[s], s)}
<1>6. Good(g[{}], {})
  <2>1. g[{}] = candles[1]
    BY <1>3 DEF Joined
  <2>2. Sum(f, {1}) = f[1] + Sum(f, {})
    <3>1. IsFiniteSet({}) /\ 1 \notin {} /\ \A y \in {} \cup {1} : f[y] \in Int
      BY <1>1, <1>4, FS_EmptySet
    <3>2. Sum(f, {} \cup {1}) = f[1] + Sum(f, {})
      BY ONLY <3>1, SumAdd
    <3> QED
      BY <3>2
  <2>3. f[1] \in Int /\ f[1] = candles[1].volume /\ Sum(f, {}) = 0
    BY <1>1, <1>4, SumEmpty
  <2>4. Sum(f, {1}) = candles[1].volume /\ {1} \cup {} = {1}
    BY <2>2, <2>3
  <2> QED
    BY <2>1, <2>4
<1>7. 0 \in N
  <2> HIDE DEF Good
  <2> SUFFICES ASSUME NEW s \in SUBSET T, Cardinality(s) <= 0 PROVE Good(g[s], s)
    OBVIOUS
  <2>1. s = {}
    BY <1>5
  <2> QED
    BY <1>6, <2>1
<1>8. ASSUME NEW k \in Nat, k \in N PROVE k + 1 \in N
  <2> HIDE DEF Good
  <2> SUFFICES ASSUME NEW s \in SUBSET T, Cardinality(s) <= k + 1 PROVE Good(g[s], s)
    OBVIOUS
  <2>0. CASE s = {}
    BY <1>6, <2>0
  <2> SUFFICES ASSUME s # {} PROVE Good(g[s], s)
    BY <2>0
  <2> DEFINE x == Max(s)
             r == s \ {x}
             c == g[r]
             d == candles[x]
  <2>1. x \in s /\ x \in 1 .. n /\ \A i \in r : i < x
    <3>1. x \in s /\ \A i \in s : i <= x
      BY <1>11
    <3>2. \A i \in s : i \in 1 .. n
      BY <1>12
    <3> QED
      BY <3>1, <3>2
  <2> HIDE DEF x
  <2>2. r \in SUBSET T /\ Cardinality(r) <= k
    <3>1. IsFiniteSet(s) /\ Cardinality(s) \in Nat
      BY <1>5
    <3>2. Cardinality(r) = Cardinality(s) - 1
      BY <2>1, <3>1, FS_RemoveElement
    <3> QED
      BY <3>1, <3>2
  <2>3. Good(c, r)
    BY <1>8, <2>2
  <2>4. g[s] = Compare(c, d)
    BY <1>3 DEF Joined, x
  <2>5. LastAt(r) \in 1 .. n /\ LastAt(r) < x /\ x \in 1 .. n
    <3>1. CASE r = {}
      BY <1>12, <2>1, <3>1
    <3>2. CASE r # {}
      <4>1. Max(r) \in r
        BY <1>11, <2>2, <3>2
      <4> QED
        BY <1>12, <2>1, <2>2, <3>2, <4>1
    <3> QED
      BY <3>1, <3>2
  <2>6. c.openTime < d.openTime
    BY <2>3, <2>5 DEF Good, Ascending
  <2>7. Sum(f, {1} \cup s) = f[x] + Sum(f, {1} \cup r)
    <3>1. IsFiniteSet({1} \cup r) /\ x \notin {1} \cup r
      <4>1. IsFiniteSet(r) /\ {1} \cup r = r \cup {1}
        BY <1>5, <2>2
      <4>2. IsFiniteSet(r \cup {1})
        BY <4>1, FS_AddElement
      <4> QED
        BY <1>12, <2>1, <4>1, <4>2
    <3>2. \A y \in ({1} \cup r) \cup {x} : f[y] \in Int
      BY <1>4, <1>12, <2>1, <2>2
    <3>3. Sum(f, ({1} \cup r) \cup {x}) = f[x] + Sum(f, {1} \cup r)
      BY ONLY <3>1, <3>2, SumAdd
    <3>4. ({1} \cup r) \cup {x} = {1} \cup s
      BY <2>1
    <3> QED
      BY <3>3, <3>4
  <2>8. Sum(f, {1} \cup r) \in Int
    <3>1. IsFiniteSet({1} \cup r)
      <4>1. IsFiniteSet(r) /\ {1} \cup r = r \cup {1}
        BY <1>5, <2>2
      <4>2. IsFiniteSet(r \cup {1})
        BY <4>1, FS_AddElement
      <4> QED
        BY <4>1, <4>2
    <3>2. \A y \in {1} \cup r : f[y] \in Int
      BY <1>4, <1>12, <2>2
    <3> QED
      BY ONLY <3>1, <3>2, SumInteger
  <2>9. LastAt(s) = x
    BY DEF x
  <2>10. /\ g[s].open = c.open /\ g[s].close = d.close /\ g[s].openTime = d.openTime
         /\ g[s].volume = c.volume + d.volume
    BY <2>4, <2>6 DEF Compare
  <2>11. f[x] = d.volume /\ f[x] \in Int
    BY <1>4, <2>5
  <2>12. g[s].volume = Sum(f, {1} \cup s)
    <3>1. c.volume = Sum(f, {1} \cup r)
      BY <2>3 DEF Good
    <3> QED
      BY ONLY <2>7, <2>8, <2>10, <2>11, <3>1
  <2>13. g[s].open = candles[1].open
    BY <2>3, <2>10 DEF Good
  <2> QED
    BY <2>9, <2>10, <2>12, <2>13 DEF Good
<1> HIDE DEF N
<1>9. Cardinality(T) \in N
  BY <1>5, <1>7, <1>8, Induction
<1>10. Good(g[T], T)
  <2> HIDE DEF Good
  <2>1. T \in SUBSET T /\ Cardinality(T) \in Nat /\ Cardinality(T) <= Cardinality(T)
    BY <1>5
  <2> QED
    BY <1>9, <2>1 DEF N
<1> QED
  BY <1>2, <1>10, <1>12 DEF f

\* A later instant does not lie in an earlier window.
LEMMA WindowsAscend ==
    ASSUME NEW r \in Resolutions, NEW t \in Nat, NEW u \in Nat, t <= u
    PROVE  WindowStart(r, t) <= WindowStart(r, u)
<1> DEFINE d == Duration[r]
           j == t \div d
           k == u \div d
<1>1. d \in Nat \ {0} /\ j \in Nat /\ k \in Nat
  BY WindowIsMultiple
<1>2. WindowStart(r, t) = d * j /\ WindowStart(r, u) = d * k
  BY WindowIsMultiple
<1>3. d * j <= t /\ u < d * k + d
  BY <1>2, WindowContains
<1> HIDE DEF d, j, k
<1>4. d * j \in Int /\ d * k \in Int
  BY <1>1
<1>5. ~(k < j)
  BY <1>1, <1>3, <1>4, NextMultiple
<1>6. j = k \/ j < k
  BY <1>1, <1>5
<1>7. j < k => d * j + d <= d * k
  BY <1>1, NextMultiple
<1>8. d * j <= d * k
  BY <1>1, <1>4, <1>6, <1>7
<1> QED
  BY <1>2, <1>8

\* All that happens lies in the first hour.
LEMMA FirstHour ==
    ASSUME NEW t \in Nat, t <= Duration[Hour] - 1
    PROVE  WindowStart(Hour, t) = 0
<1>1. WindowStart(Hour, 0) = 0
  BY HourType, WindowContains
<1> QED
  BY <1>1, HourType, WindowUnique

\* A document's time is within the hour, and the windows of its minute and its hour
\* have a live candle.
LEMMA DocumentTime ==
    ASSUME Inv, NEW i \in DOMAIN docs
    PROVE  /\ docs[i].createdAt \in Nat /\ docs[i].createdAt <= Duration[Hour] - 1
           /\ docs[i].market \in Markets
           /\ WindowStart(Hour, docs[i].createdAt) = 0
           /\ WindowStart(Minute, docs[i].createdAt) \in Nat
           /\ WindowStart(Minute, docs[i].createdAt) <= docs[i].createdAt
           /\ \A r \in Resolutions :
                 <<docs[i].market, r, WindowStart(r, docs[i].createdAt)>> \in Windows
<1>1. PICK t \in Times : docs[i].createdAt = StoredTime(t)
  BY DEF Inv, TypeOK, TimesKept
<1>2. t \in Nat /\ t <= Duration[Hour] - 1 /\ Duration[Hour] \in Nat
  BY TimesType, HourType
<1>3. StoredTime(t) \in Nat /\ StoredTime(t) <= t /\ StoredTime(t) <= Duration[Hour] - 1
  <2>1. StoredTime(t) \in Nat /\ StoredTime(t) <= t
    BY <1>2, HourType, StoredInWindow
  <2> QED
    BY <1>2, <2>1
<1>4. docs[i].market \in Markets
  <2>1. docs \in Seq(StoredDeal)
    BY DEF Inv, TypeOK
  <2>2. docs[i] \in StoredDeal
    BY <2>1
  <2> QED
    BY <2>2 DEF StoredDeal
<1>5. ASSUME NEW r \in Resolutions
      PROVE  <<docs[i].market, r, WindowStart(r, docs[i].createdAt)>> \in Windows
  BY <1>1, <1>2, <1>4, SomeWindow, StoredInWindow
<1>6. WindowStart(Hour, docs[i].createdAt) = 0
  BY <1>1, <1>3, FirstHour
<1>7. WindowStart(Minute, docs[i].createdAt) \in Nat
      /\ WindowStart(Minute, docs[i].createdAt) <= docs[i].createdAt
  BY <1>1, <1>3, HourType, WindowContains
<1> QED
  BY <1>1, <1>3, <1>4, <1>5, <1>6, <1>7

\* The minutes of a market with deals.
Traded(m) == {w \in Windows : w[1] = m /\ w[2] = Minute /\ live[w].volume # 0}

\* They are finitely many, each with documents, and every document has one.
LEMMA TradedMinutes ==
    ASSUME Inv, NEW m \in Markets
    PROVE  /\ IsFiniteSet(Traded(m))
           /\ \A w \in Traded(m) : /\ w \in Windows /\ w = <<m, Minute, w[3]>>
                                   /\ w[3] \in Nat /\ WindowStart(Hour, w[3]) = 0
                                   /\ OfWindow(w) \in SUBSET Mine(m) /\ OfWindow(w) # {}
           /\ \A i \in Mine(m) : <<m, Minute, WindowStart(Minute, docs[i].createdAt)>> \in Traded(m)
<1>1. docs \in Seq(StoredDeal) /\ Duration[Hour] \in Nat \ {0} /\ Minute \in Resolutions
  BY HourType DEF Inv, TypeOK
<1>2. \A w \in Windows : /\ OfWindow(w) \in SUBSET (DOMAIN docs)
                         /\ live[w].volume = Volume(docs, OfWindow(w))
  BY DEF Inv, Summaries, Summary, OfWindow
<1>3. \A w \in Windows : live[w].volume # 0 <=> OfWindow(w) # {}
  BY <1>1, <1>2, VolumeType
<1>4. ASSUME NEW w \in Traded(m)
      PROVE  /\ w \in Windows /\ w = <<m, Minute, w[3]>> /\ OfWindow(w) # {}
             /\ w[3] \in 0 .. Duration[Hour] - 1
             /\ OfWindow(w) \in SUBSET Mine(m)
  <2>1. w \in Windows /\ w[1] = m /\ w[2] = Minute /\ live[w].volume # 0
    BY DEF Traded
  <2>2. w = <<m, Minute, w[3]>> /\ w[3] \in Nat
    BY <2>1, WindowsType
  <2>3. OfWindow(w) # {} /\ OfWindow(w) \in SUBSET Mine(m)
    BY <1>2, <1>3, <2>1 DEF OfWindow, Within, Mine
  <2>4. PICK i \in DOMAIN docs : WindowStart(Minute, docs[i].createdAt) = w[3]
    BY <2>1, <2>3 DEF OfWindow, Within
  <2>5. w[3] <= Duration[Hour] - 1
    BY <1>1, <2>4, DocumentTime
  <2> QED
    BY <1>1, <2>1, <2>2, <2>3, <2>5
<1>5. IsFiniteSet(Traded(m))
  <2> DEFINE K == 0 .. Duration[Hour] - 1
             f == [k \in K |-> <<m, Minute, k>>]
             T == {f[k] : k \in K}
  <2>1. IsFiniteSet(K)
    <3>1. 0 \in Int /\ Duration[Hour] - 1 \in Int
      BY <1>1
    <3> QED
      BY <3>1, FS_Interval
  <2>2. f \in Surjection(K, T)
    BY DEF Surjection
  <2>3. Traded(m) \subseteq T
    BY <1>4
  <2> HIDE DEF f, T, K
  <2>4. IsFiniteSet(T)
    BY <2>1, <2>2, FS_Surjection
  <2> QED
    BY <2>3, <2>4, FS_Subset
<1>6. \A w \in Traded(m) : WindowStart(Hour, w[3]) = 0 /\ w[3] \in Nat
  BY <1>1, <1>4, FirstHour
<1>7. ASSUME NEW i \in Mine(m)
      PROVE  <<m, Minute, WindowStart(Minute, docs[i].createdAt)>> \in Traded(m)
  <2> DEFINE w == <<m, Minute, WindowStart(Minute, docs[i].createdAt)>>
  <2>1. i \in DOMAIN docs /\ docs[i].market = m
    BY DEF Mine
  <2>2. w \in Windows /\ i \in OfWindow(w)
    BY <1>1, <2>1, DocumentTime DEF OfWindow, Within
  <2>3. live[w].volume # 0
    <3> HIDE DEF w
    <3> QED
      BY <1>3, <2>2
  <2> QED
    BY <2>2, <2>3 DEF Traded
<1> QED
  BY <1>4, <1>5, <1>6, <1>7

\* All deals of a market are of the first hour.
LEMMA HourIsMine ==
    ASSUME Inv, NEW m \in Markets, Mine(m) # {}
    PROVE  <<m, Hour, 0>> \in Windows /\ OfWindow(<<m, Hour, 0>>) = Mine(m)
<1>1. \A i \in DOMAIN docs : WindowStart(Hour, docs[i].createdAt) = 0
  BY DocumentTime
<1>2. OfWindow(<<m, Hour, 0>>) = Mine(m)
  BY <1>1 DEF OfWindow, Within, Mine
<1>3. PICK i \in DOMAIN docs : docs[i].market = m
  BY DEF Mine
<1>4. <<m, Hour, 0>> \in Windows
  BY <1>1, <1>3, DocumentTime, HourType
<1> QED
  BY <1>2, <1>4

\* The minutes of a market with deals, in the order of time.
InTime(m, q, n) ==
    /\ n \in Nat /\ q \in [1 .. n -> Traded(m)]
    /\ \A i, j \in 1 .. n : i < j => q[i][3] < q[j][3]
    /\ \A w \in Traded(m) : \E k \in 1 .. n : q[k] = w

\* The minute candles of a market are those of its minutes, in the order of time.
LEMMA MinutesInTime ==
    ASSUME Inv, NEW m \in Markets, NEW candles \in MinuteCandles(m)
    PROVE  \E n, q : InTime(m, q, n) /\ candles = [i \in 1 .. n |-> live[q[i]]]
<1> DEFINE n == Cardinality(Traded(m))
<1>1. IsFiniteSet(Traded(m)) /\ n \in Nat
  BY TradedMinutes, FS_CardinalityType
<1>2. PICK q \in SetToSeqs(Traded(m)) :
          /\ \A i, j \in DOMAIN q : i < j => q[i][3] <= q[j][3]
          /\ candles = [i \in DOMAIN q |-> live[q[i]]]
  BY DEF MinuteCandles, Traded
<1>3. q \in [1 .. n -> Traded(m)] /\ \A j, k \in 1 .. n : j # k => q[j] # q[k]
  BY DEF SetToSeqs
<1> HIDE DEF n
<1>4. ASSUME NEW i \in 1 .. n, NEW j \in 1 .. n, i < j PROVE q[i][3] < q[j][3]
  <2>1. q[i] # q[j] /\ q[i][3] <= q[j][3]
    <3>1. DOMAIN q = 1 .. n /\ i # j
      BY <1>1, <1>3, <1>4
    <3> QED
      BY <1>2, <1>3, <1>4, <3>1
  <2>2. /\ q[i] = <<m, Minute, q[i][3]>> /\ q[i][3] \in Nat
        /\ q[j] = <<m, Minute, q[j][3]>> /\ q[j][3] \in Nat
    BY <1>3, TradedMinutes
  <2>3. q[i][3] # q[j][3]
    BY <2>1, <2>2
  <2> QED
    BY <2>1, <2>2, <2>3
<1>5. \A w \in Traded(m) : \E k \in 1 .. n : q[k] = w
  <2>1. IsFiniteSet(1 .. n) /\ Cardinality(1 .. n) = n
    BY <1>1, FS_Interval
  <2>2. q \in Injection(1 .. n, Traded(m))
    BY <1>3 DEF Injection, IsInjective
  <2>3. q \in Surjection(1 .. n, Traded(m))
    BY <1>1, <2>1, <2>2, FS_Injection DEF n
  <2> QED
    BY <2>3 DEF Surjection
<1>6. InTime(m, q, n)
  BY <1>1, <1>3, <1>4, <1>5 DEF InTime
<1>7. candles = [i \in 1 .. n |-> live[q[i]]]
  BY <1>2, <1>3
<1> QED
  BY <1>6, <1>7

\* The one row the minutes of a market are put together to.
LEMMA OneRow ==
    ASSUME Inv, NEW m \in Markets, NEW n, NEW q, InTime(m, q, n),
           NEW candles, candles = [i \in 1 .. n |-> live[q[i]]],
           NEW row \in AggregateCandles(candles, Hour)
    PROVE  n # 0 /\ row = Row(0, Compared(candles, 1 .. n))
<1>1. DOMAIN candles = 1 .. n
  OBVIOUS
<1>2. ASSUME NEW i \in 1 .. n PROVE Timestamp(Hour, candles[i]) = 0
  <2>1. q[i] \in Traded(m)
    BY DEF InTime
  <2>2. q[i] \in Windows /\ WindowStart(Hour, q[i][3]) = 0
    BY <2>1, TradedMinutes
  <2>3. live[q[i]].openTime = q[i][3]
    BY <2>2 DEF Inv, TypeOK
  <2> QED
    BY <2>2, <2>3 DEF Timestamp
<1>3. PICK t \in {Timestamp(Hour, candles[i]) : i \in DOMAIN candles} :
          row = Row(t, Compared(candles, {i \in DOMAIN candles : Timestamp(Hour, candles[i]) = t}))
  BY DEF AggregateCandles
<1>4. t = 0 /\ n # 0
  <2>1. PICK i \in 1 .. n : t = Timestamp(Hour, candles[i])
    BY <1>1
  <2> QED
    BY <1>2, <2>1 DEF InTime
<1>5. {i \in DOMAIN candles : Timestamp(Hour, candles[i]) = 0} = 1 .. n
  BY <1>1, <1>2
<1> QED
  BY <1>3, <1>4, <1>5

\* The volumes of the minutes add up to that of the hour.
LEMMA MinutesAddUp ==
    ASSUME Inv, NEW m \in Markets, NEW n, NEW q, InTime(m, q, n),
           NEW candles, candles = [i \in 1 .. n |-> live[q[i]]]
    PROVE  /\ Sum(VolumesOf(candles, n), 1 .. n) = Volume(docs, Mine(m))
           /\ Ascending(candles, n)
           /\ \A i \in 1 .. n : candles[i].volume \in Int /\ candles[i].openTime \in Int
<1> DEFINE S == Mine(m)
           part == [i \in 1 .. n |-> OfWindow(q[i])]
           f == AmountsOf(docs, S)
           sums == VolumesOf(candles, n)
<1>1. docs \in Seq(StoredDeal) /\ S \in SUBSET (DOMAIN docs) /\ n \in Nat
  BY DEF Inv, TypeOK, Mine, InTime
<1> HIDE DEF S
<1>10. IsFiniteSet(S) /\ \A x \in S : docs[x].amount \in Nat \ {0}
  BY <1>1, Places
<1>2. \A x \in S : f[x] = docs[x].amount /\ f[x] \in Int
  BY <1>10 DEF AmountsOf
<1>3. Volume(docs, S) = Sum(f, S)
  <2>1. \A x \in S : docs[x].amount \in Int
    BY <1>10
  <2> QED
    BY <1>10, <2>1, VolumeIsSum
<1>4. ASSUME NEW i \in 1 .. n
      PROVE  /\ q[i] \in Traded(m) /\ q[i] \in Windows /\ q[i] = <<m, Minute, q[i][3]>>
             /\ q[i][3] \in Nat
             /\ part[i] = OfWindow(q[i]) /\ part[i] \in SUBSET S
             /\ candles[i] = live[q[i]] /\ candles[i].openTime = q[i][3]
             /\ candles[i].volume = Volume(docs, OfWindow(q[i]))
  <2>1. q[i] \in Traded(m)
    BY DEF InTime
  <2>2. q[i] \in Windows /\ q[i] = <<m, Minute, q[i][3]>> /\ OfWindow(q[i]) \in SUBSET S
        /\ q[i][3] \in Nat
    BY <2>1, TradedMinutes DEF S
  <2>3. live[q[i]].openTime = q[i][3] /\ live[q[i]].volume = Volume(docs, OfWindow(q[i]))
    BY <2>2 DEF Inv, TypeOK, Summaries, Summary
  <2> QED
    BY <2>1, <2>2, <2>3
<1>5. ASSUME NEW i \in 1 .. n PROVE sums[i] = Sum(f, part[i]) /\ sums[i] \in Nat
  <2> DEFINE W == OfWindow(q[i])
  <2>1. W \in SUBSET S /\ W \in SUBSET (DOMAIN docs)
    BY <1>1, <1>4
  <2> HIDE DEF W
  <2>2. /\ IsFiniteSet(W) /\ \A x \in W : docs[x].amount \in Int
        /\ Volume(docs, W) \in Nat
    <3>1. IsFiniteSet(W)
      BY <1>10, <2>1, FS_Subset
    <3>2. \A x \in W : docs[x].amount \in Int
      BY <1>10, <2>1
    <3>3. Volume(docs, W) \in Nat
      BY <1>1, <2>1, VolumeType
    <3> QED
      BY <3>1, <3>2, <3>3
  <2>3. Volume(docs, W) = Sum(AmountsOf(docs, W), W)
    BY <2>2, VolumeIsSum
  <2>4. Sum(AmountsOf(docs, W), W) = Sum(f, W)
    <3>1. \A x \in W : AmountsOf(docs, W)[x] \in Int /\ AmountsOf(docs, W)[x] = f[x]
      BY <1>2, <2>1, <2>2 DEF AmountsOf
    <3> HIDE DEF f
    <3> QED
      BY <2>2, <3>1, SumSame
  <2>5. sums[i] = Volume(docs, W)
    BY <1>4 DEF VolumesOf, W
  <2>6. part[i] = W
    BY DEF W
  <2> QED
    BY <2>2, <2>3, <2>4, <2>5, <2>6
<1>6. Partition(part, 1 .. n, S)
  <2>1. ASSUME NEW i \in 1 .. n, NEW j \in 1 .. n, i # j PROVE part[i] \cap part[j] = {}
    <3>1. q[i][3] # q[j][3]
      <4>1. i < j \/ j < i
        BY <1>1, <2>1
      <4>2. (i < j => q[i][3] < q[j][3]) /\ (j < i => q[j][3] < q[i][3])
        BY DEF InTime
      <4> QED
        BY <1>4, <4>1, <4>2
    <3>2. \A x \in part[i] : WindowStart(Minute, docs[x].createdAt) = q[i][3]
      <4>1. q[i] = <<m, Minute, q[i][3]>> /\ part[i] = OfWindow(q[i])
        BY <1>4
      <4> HIDE DEF part
      <4> QED
        BY <4>1 DEF OfWindow, Within
    <3>3. \A x \in part[j] : WindowStart(Minute, docs[x].createdAt) = q[j][3]
      <4>1. q[j] = <<m, Minute, q[j][3]>> /\ part[j] = OfWindow(q[j])
        BY <1>4
      <4> HIDE DEF part
      <4> QED
        BY <4>1 DEF OfWindow, Within
    <3> QED
      BY <3>1, <3>2, <3>3
  <2>2. ASSUME NEW x \in S PROVE \E i \in 1 .. n : x \in part[i]
    <3>1. <<m, Minute, WindowStart(Minute, docs[x].createdAt)>> \in Traded(m)
      BY TradedMinutes DEF S
    <3>2. PICK i \in 1 .. n : q[i] = <<m, Minute, WindowStart(Minute, docs[x].createdAt)>>
      BY <3>1 DEF InTime
    <3>3. x \in OfWindow(q[i])
      BY <3>2 DEF OfWindow, Within, Mine, S
    <3> QED
      BY <3>3
  <2> HIDE DEF part
  <2> QED
    BY <1>4, <2>1, <2>2 DEF Partition
<1>7. Sum(sums, 1 .. n) = Sum(f, S)
  <2> DEFINE I == 1 .. n
  <2>1. IsFiniteSet(I)
    BY <1>1, FS_Interval
  <2>2. (\A x \in S : f[x] \in Int) /\ \A i \in I : sums[i] = Sum(f, part[i])
    BY <1>2, <1>5
  <2>3. Partition(part, I, S)
    BY <1>6
  <2> HIDE DEF part, f, sums, I
  <2>4. Sum(sums, I) = Sum(f, S)
    BY <1>10, <2>1, <2>2, <2>3, SumPartition
  <2> QED
    BY <2>4 DEF I
<1>8. Ascending(candles, n)
  BY <1>4 DEF Ascending, InTime
<1>9. \A i \in 1 .. n : candles[i].volume \in Int /\ candles[i].openTime \in Int
  BY <1>4, <1>5 DEF VolumesOf
<1> QED
  BY <1>3, <1>7, <1>8, <1>9 DEF S

\* Deals in the order of their time: the first of the hour is the first of its
\* first minute, the last the last of its last.
LEMMA EndsOfMinutes ==
    ASSUME Inv, NEW m \in Markets, NEW n \in Nat \ {0}, NEW q, InTime(m, q, n),
           \A i, j \in Mine(m) : i < j => docs[i].createdAt < docs[j].createdAt
    PROVE  /\ Min(Mine(m)) = Min(OfWindow(q[1])) /\ Max(Mine(m)) = Max(OfWindow(q[n]))
           /\ Mine(m) # {}
<1> DEFINE S == Mine(m)
           A == OfWindow(q[1])
           B == OfWindow(q[n])
<1>1. docs \in Seq(StoredDeal) /\ S \in SUBSET (DOMAIN docs) /\ S \in SUBSET (1 .. Len(docs))
  BY DEF Inv, TypeOK, Mine
<1>2. 1 \in 1 .. n /\ n \in 1 .. n
  OBVIOUS
<1>3. ASSUME NEW k \in 1 .. n
      PROVE  /\ OfWindow(q[k]) \in SUBSET S /\ OfWindow(q[k]) # {} /\ q[k][3] \in Nat
             /\ q[k] = <<m, Minute, q[k][3]>>
             /\ \A x \in OfWindow(q[k]) : WindowStart(Minute, docs[x].createdAt) = q[k][3]
  <2>1. q[k] \in Traded(m)
    BY DEF InTime
  <2>2. q[k] = <<m, Minute, q[k][3]>>
    BY <2>1, TradedMinutes
  <2>3. \A x \in OfWindow(q[k]) : WindowStart(Minute, docs[x].createdAt) = q[k][3]
    BY <2>2 DEF OfWindow, Within
  <2> QED
    BY <2>1, <2>2, <2>3, TradedMinutes
<1>4. A \in SUBSET S /\ A # {} /\ B \in SUBSET S /\ B # {} /\ S # {}
  BY <1>2, <1>3
<1>5. ASSUME NEW x \in S PROVE \E k \in 1 .. n : x \in OfWindow(q[k])
  <2>1. <<m, Minute, WindowStart(Minute, docs[x].createdAt)>> \in Traded(m)
    BY TradedMinutes
  <2>2. PICK k \in 1 .. n : q[k] = <<m, Minute, WindowStart(Minute, docs[x].createdAt)>>
    BY <2>1 DEF InTime
  <2>3. x \in OfWindow(q[k])
    BY <2>2 DEF OfWindow, Within, Mine
  <2> QED
    BY <2>3
<1>6. \A i \in S : docs[i].createdAt \in Nat /\ i \in Nat
  <2> HIDE DEF S
  <2>1. S \in SUBSET Nat
    BY <1>1, Places
  <2>2. \A i \in S : docs[i].createdAt \in Nat
    BY <1>1, Places
  <2> QED
    BY <2>1, <2>2
<1>7. /\ Min(S) \in S /\ \A i \in S : Min(S) <= i
      /\ Max(S) \in S /\ \A i \in S : i <= Max(S)
  <2>1. S # {} /\ Len(docs) \in Nat
    BY <1>1, <1>4
  <2> HIDE DEF S
  <2> QED
    BY ONLY <1>1, <2>1, PlacesEnds
<1>8. Min(S) \in A
  <2> DEFINE a == Min(S)
  <2>1. PICK k \in 1 .. n : a \in OfWindow(q[k])
    BY <1>5, <1>7
  <2>2. PICK j \in A : TRUE
    BY <1>4
  <2>3. docs[a].createdAt <= docs[j].createdAt
    BY <1>4, <1>6, <1>7
  <2>4. WindowStart(Minute, docs[a].createdAt) <= WindowStart(Minute, docs[j].createdAt)
    BY <1>4, <1>6, <1>7, <2>3, HourType, WindowsAscend
  <2>5. q[k][3] <= q[1][3] /\ q[k][3] \in Nat /\ q[1][3] \in Nat
    BY <1>2, <1>3, <2>1, <2>4
  <2>6. ~(1 < k)
    BY <1>2, <2>5 DEF InTime
  <2>7. k = 1
    BY <2>6
  <2> QED
    BY <2>1, <2>7
<1>9. Max(S) \in B
  <2> DEFINE b == Max(S)
  <2>1. PICK k \in 1 .. n : b \in OfWindow(q[k])
    BY <1>5, <1>7
  <2>2. PICK j \in B : TRUE
    BY <1>4
  <2>3. docs[j].createdAt <= docs[b].createdAt
    BY <1>4, <1>6, <1>7
  <2>4. WindowStart(Minute, docs[j].createdAt) <= WindowStart(Minute, docs[b].createdAt)
    BY <1>4, <1>6, <1>7, <2>3, HourType, WindowsAscend
  <2>5. q[n][3] <= q[k][3] /\ q[k][3] \in Nat /\ q[n][3] \in Nat
    BY <1>2, <1>3, <2>1, <2>4
  <2>6. ~(k < n)
    BY <1>2, <2>5 DEF InTime
  <2>7. k = n
    BY <2>6
  <2> QED
    BY <2>1, <2>7
<1>10. A \in SUBSET Nat /\ B \in SUBSET Nat
  BY <1>4, <1>6
<1> HIDE DEF S, A, B
<1>11. Min(A) = Min(S) /\ Max(B) = Max(S)
  BY <1>4, <1>7, <1>8, <1>9, <1>10, LeastIs, GreatestIs
<1> QED
  BY <1>4, <1>11 DEF S, A, B

\* The row of the hour has what the live candle of the hour has.
LEMMA InvKeeps ==
    ASSUME Inv
    PROVE  AggregationKeepsTotals
<1> SUFFICES ASSUME NEW m \in Markets, NEW candles \in MinuteCandles(m),
                    NEW row \in AggregateCandles(candles, Hour)
             PROVE  LET c == live[<<m, Hour, row.t>>]
                    IN  /\ row.v = c.volume
                        /\ InOrder(<<m, Hour, row.t>>) => row.o = c.open /\ row.c = c.close
  BY DEF AggregationKeepsTotals
<1>1. PICK n, q : InTime(m, q, n) /\ candles = [i \in 1 .. n |-> live[q[i]]]
  BY MinutesInTime
<1>2. n # 0 /\ row = Row(0, Compared(candles, 1 .. n))
  BY <1>1, OneRow
<1>3. n \in Nat \ {0}
  BY <1>1, <1>2 DEF InTime
<1> DEFINE c == Compared(candles, 1 .. n)
           w == <<m, Hour, 0>>
<1>4. /\ Sum(VolumesOf(candles, n), 1 .. n) = Volume(docs, Mine(m))
      /\ Ascending(candles, n)
      /\ \A i \in 1 .. n : candles[i].volume \in Int /\ candles[i].openTime \in Int
  BY <1>1, MinutesAddUp
<1>5. /\ c.open = candles[1].open /\ c.close = candles[n].close
      /\ c.volume = Volume(docs, Mine(m))
  BY <1>3, <1>4, ComparedIs
<1>6. row.t = 0 /\ row.v = c.volume /\ row.o = c.open /\ row.c = c.close
  BY <1>2 DEF Row
<1> HIDE DEF c
<1>7. 1 \in 1 .. n /\ n \in 1 .. n /\ docs \in Seq(StoredDeal)
  BY <1>3 DEF Inv, TypeOK
<1>8. ASSUME NEW k \in 1 .. n
      PROVE  /\ q[k] \in Windows /\ OfWindow(q[k]) # {} /\ OfWindow(q[k]) \in SUBSET Mine(m)
             /\ candles[k] = live[q[k]]
  BY <1>1, TradedMinutes DEF InTime
<1>9. Mine(m) # {}
  BY <1>7, <1>8
<1>10. w \in Windows /\ OfWindow(w) = Mine(m)
  BY <1>9, HourIsMine
<1>11. \A v \in Windows : OfWindow(v) \in SUBSET (DOMAIN docs) /\ Summary(docs, OfWindow(v), live[v])
  BY DEF Inv, Summaries, OfWindow
<1> HIDE DEF w
<1>12. \A v \in Windows : OfWindow(v) # {} =>
          /\ live[v].open = docs[Min(OfWindow(v))].price
          /\ live[v].close = docs[Max(OfWindow(v))].price
          /\ live[v].volume = Volume(docs, OfWindow(v))
  BY <1>7, <1>11, SummaryTells
<1>13. row.v = live[w].volume
  BY <1>5, <1>6, <1>9, <1>10, <1>12
<1>14. ASSUME InOrder(w) PROVE row.o = live[w].open /\ row.c = live[w].close
  <2>1. \A i, j \in Mine(m) : i < j => docs[i].createdAt < docs[j].createdAt
    BY <1>10, <1>14 DEF InOrder
  <2>2. Min(Mine(m)) = Min(OfWindow(q[1])) /\ Max(Mine(m)) = Max(OfWindow(q[n]))
    BY <1>1, <1>3, <2>1, EndsOfMinutes
  <2>3. live[w].open = docs[Min(Mine(m))].price /\ live[w].close = docs[Max(Mine(m))].price
    BY <1>9, <1>10, <1>12
  <2>4. /\ candles[1].open = docs[Min(OfWindow(q[1]))].price
        /\ candles[n].close = docs[Max(OfWindow(q[n]))].price
    BY <1>7, <1>8, <1>12
  <2> QED
    BY <1>5, <1>6, <2>2, <2>3, <2>4
<1> QED
  BY <1>6, <1>13, <1>14 DEF w

\* AggregationKeepsTotals: the aggregator turns the minute candles of a market into the
\* candle of the hour.
THEOREM AggregationKeepsTotalsHolds == Spec => []AggregationKeepsTotals
BY InvHolds, InvKeeps, PTL

-------------------------------------------------------------------------------
(***************************************************************************)
(* StatisticsSumUpKlines.                                                  *)
(***************************************************************************)
\* Of finitely many numbers one is the greatest, and one the least.
LEMMA GreatestExists ==
    ASSUME NEW S, IsFiniteSet(S), S # {}, NEW f, \A x \in S : f[x] \in Int
    PROVE  \E x \in S : \A y \in S : f[y] <= f[x]
<1> DEFINE P == {s \in SUBSET S : s # {} => \E x \in s : \A y \in s : f[y] <= f[x]}
<1>1. {} \in P
  OBVIOUS
<1>2. ASSUME NEW s \in SUBSET S, NEW z \in S \ s, s \in P PROVE s \cup {z} \in P
  <2>1. CASE s = {}
    BY <2>1
  <2>2. CASE s # {}
    <3>1. PICK x \in s : \A y \in s : f[y] <= f[x]
      BY <1>2, <2>2
    <3>2. CASE f[z] <= f[x]
      BY <3>1, <3>2
    <3>3. CASE ~(f[z] <= f[x])
      <4>1. \A y \in s \cup {z} : f[y] <= f[z]
        BY <3>1, <3>3
      <4> QED
        BY <4>1
    <3> QED
      BY <3>2, <3>3
  <2> QED
    BY <2>1, <2>2
<1> HIDE DEF P
<1>3. S \in P
  BY <1>1, <1>2, SetInduction
<1> QED
  BY <1>3 DEF P

LEMMA LeastExists ==
    ASSUME NEW S, IsFiniteSet(S), S # {}, NEW f, \A x \in S : f[x] \in Int
    PROVE  \E x \in S : \A y \in S : f[x] <= f[y]
<1> DEFINE g == [x \in S |-> 0 - f[x]]
<1>1. \A x \in S : g[x] \in Int /\ g[x] = 0 - f[x]
  OBVIOUS
<1> HIDE DEF g
<1>2. PICK x \in S : \A y \in S : g[y] <= g[x]
  BY <1>1, GreatestExists
<1>3. ASSUME NEW y \in S PROVE f[x] <= f[y]
  <2>1. g[y] <= g[x] /\ g[y] = 0 - f[y] /\ g[x] = 0 - f[x] /\ f[x] \in Int /\ f[y] \in Int
    BY <1>1, <1>2
  <2> QED
    BY <2>1
<1> QED
  BY <1>3

\* Highest and Lowest of some prices are among them, and their bounds.
LEMMA ExtremesOf ==
    ASSUME NEW ds \in Seq(StoredDeal), NEW S \in SUBSET (DOMAIN ds), S # {}
    PROVE  /\ \E i \in S : Highest(PricesOf(ds, S)) = ds[i].price
           /\ \A i \in S : ds[i].price.coef <= Highest(PricesOf(ds, S)).coef
           /\ \E i \in S : Lowest(PricesOf(ds, S)) = ds[i].price
           /\ \A i \in S : Lowest(PricesOf(ds, S)).coef <= ds[i].price.coef
<1>1. IsFiniteSet(S) /\ \A i \in S : ds[i].price \in Prices
  BY Places
<1> DEFINE f == [i \in S |-> ds[i].price.coef]
           P == PricesOf(ds, S)
<1>2. \A i \in S : f[i] = ds[i].price.coef /\ f[i] \in Int
  BY <1>1, PriceType
<1> HIDE DEF f
<1>3. PICK i \in S : \A j \in S : f[j] <= f[i]
  BY <1>1, <1>2, GreatestExists
<1>4. PICK k \in S : \A j \in S : f[k] <= f[j]
  BY <1>1, <1>2, LeastExists
<1>5. /\ P \in SUBSET Prices /\ ds[i].price \in P /\ ds[k].price \in P
      /\ \A q \in P : q.coef <= ds[i].price.coef
      /\ \A q \in P : ds[k].price.coef <= q.coef
  BY <1>1, <1>2, <1>3, <1>4 DEF PricesOf
<1> HIDE DEF P
<1>6. Highest(P) = ds[i].price /\ Lowest(P) = ds[k].price
  BY <1>5, HighestIs, LowestIs
<1>7. \A j \in S : ds[j].price.coef <= ds[i].price.coef /\ ds[k].price.coef <= ds[j].price.coef
  BY <1>2, <1>3, <1>4
<1> QED
  BY <1>6, <1>7 DEF P

\* What the deals of S are worth.
QuotesOf(ds, S) == [i \in S |-> Quotes(ds[i])]

\* The quotes of some documents are a sum.
LEMMA QuotesIsSum ==
    ASSUME NEW ds, NEW S, IsFiniteSet(S), \A i \in S : Quotes(ds[i]) \in Int
    PROVE  Total(ds, S, Quotes) = Sum(QuotesOf(ds, S), S)
<1> DEFINE f == QuotesOf(ds, S)
<1>1. \A i \in S : f[i] \in Int /\ f[i] = Quotes(ds[i])
  BY DEF QuotesOf
<1>2. \A s \in SUBSET S : s # {} => OneOf(s) \in S
  BY DEF OneOf
<1> HIDE DEF f
<1> DEFINE Is(g) == g = [s \in SUBSET S |-> IF s = {} THEN 0
                                          ELSE Quotes(ds[CHOOSE x \in s : TRUE])
                                               + g[s \ {CHOOSE x \in s : TRUE}]]
           h == CHOOSE g : Is(g)
<1>3. \A g : IsSum(g, f, S) <=> Is(g)
  BY <1>1, <1>2 DEF IsSum, Summand, OneOf
<1>4. \E g : IsSum(g, f, S)
  BY <1>1, SumExists
<1>5. Total(ds, S, Quotes) = h[S]
  BY DEF Total, MapThenSumSet, MapThenFoldSet
<1> HIDE DEF Is
<1>6. IsSum(h, f, S)
  BY <1>3, <1>4
<1> HIDE DEF h
<1> QED
  BY <1>1, <1>5, <1>6, SumIs DEF f

\* The quotes of one deal and of several.
LEMMA QuotesType ==
    ASSUME NEW ds \in Seq(StoredDeal), NEW i \in DOMAIN ds
    PROVE  /\ Quotes(ds[i]) \in Int /\ Quotes(ds[i]) = ds[i].price.coef * ds[i].amount
           /\ ds[i].price.coef \in Nat \ {0} /\ ds[i].amount \in Nat \ {0}
<1>1. ds[i] \in StoredDeal
  OBVIOUS
<1>2. ds[i].price \in Prices /\ ds[i].amount \in Nat \ {0}
  BY <1>1 DEF StoredDeal
<1>3. ds[i].price.coef \in Nat \ {0}
  BY <1>2, PriceType
<1> QED
  BY <1>2, <1>3 DEF Quotes

\* The amounts and quotes of a part T of the deals S are sums over it.
LEMMA PartSums ==
    ASSUME NEW ds \in Seq(StoredDeal), NEW S \in SUBSET (DOMAIN ds), NEW T \in SUBSET S
    PROVE  /\ Volume(ds, T) = Sum(AmountsOf(ds, S), T)
           /\ Total(ds, T, Quotes) = Sum(QuotesOf(ds, S), T)
           /\ Volume(ds, T) \in Nat /\ Total(ds, T, Quotes) \in Int
           /\ IsFiniteSet(T)
<1>1. T \in SUBSET (DOMAIN ds)
  OBVIOUS
<1>2. IsFiniteSet(T)
  BY <1>1, Places
<1>3. \A i \in T : ds[i].amount \in Int /\ Quotes(ds[i]) \in Int
  BY <1>1, QuotesType
<1>4. Volume(ds, T) = Sum(AmountsOf(ds, T), T) /\ Total(ds, T, Quotes) = Sum(QuotesOf(ds, T), T)
  BY <1>2, <1>3, VolumeIsSum, QuotesIsSum
<1>5. \A i \in T : AmountsOf(ds, T)[i] \in Int /\ AmountsOf(ds, T)[i] = AmountsOf(ds, S)[i]
  BY <1>3 DEF AmountsOf
<1>6. \A i \in T : QuotesOf(ds, T)[i] \in Int /\ QuotesOf(ds, T)[i] = QuotesOf(ds, S)[i]
  BY <1>3 DEF QuotesOf
<1>7. Sum(AmountsOf(ds, T), T) = Sum(AmountsOf(ds, S), T)
  BY <1>2, <1>5, SumSame
<1>8. Sum(QuotesOf(ds, T), T) = Sum(QuotesOf(ds, S), T)
  BY <1>2, <1>6, SumSame
<1>9. Volume(ds, T) \in Nat
  BY <1>1, VolumeType
<1>10. Sum(QuotesOf(ds, T), T) \in Int
  BY <1>2, <1>6, SumInteger
<1> QED
  BY <1>2, <1>4, <1>7, <1>8, <1>9, <1>10

\* What deals are worth lies between their lowest and highest price times what is traded.
LEMMA QuotesBetween ==
    ASSUME NEW ds \in Seq(StoredDeal), NEW T \in SUBSET (DOMAIN ds),
           NEW low \in Int, NEW high \in Int,
           \A i \in T : low <= ds[i].price.coef /\ ds[i].price.coef <= high
    PROVE  /\ low * Volume(ds, T) <= Total(ds, T, Quotes)
           /\ Total(ds, T, Quotes) <= high * Volume(ds, T)
<1> DEFINE f == AmountsOf(ds, T)
           h == QuotesOf(ds, T)
<1>1. T \in SUBSET T
  OBVIOUS
<1>2. /\ Volume(ds, T) = Sum(f, T) /\ Total(ds, T, Quotes) = Sum(h, T)
      /\ IsFiniteSet(T)
  BY <1>1, PartSums
<1>3. ASSUME NEW i \in T
      PROVE  /\ f[i] \in Int /\ h[i] \in Int /\ low * f[i] <= h[i] /\ h[i] <= high * f[i]
  <2> DEFINE p == ds[i].price.coef
             a == ds[i].amount
  <2>1. p \in Nat /\ a \in Nat /\ h[i] = p * a /\ f[i] = a /\ h[i] \in Int
    BY QuotesType DEF AmountsOf, QuotesOf
  <2>2. low <= p /\ p <= high
    OBVIOUS
  <2> HIDE DEF p, a, f, h
  <2>3. low * a <= p * a /\ p * a <= high * a
    BY ONLY <2>1, <2>2, low \in Int, high \in Int
  <2> QED
    BY <2>1, <2>3
<1> HIDE DEF f, h
<1>4. low * Sum(f, T) <= Sum(h, T)
  BY <1>2, <1>3, SumBound
<1>5. Sum(h, T) <= high * Sum(f, T)
  BY <1>2, <1>3, SumBoundAbove
<1> QED
  BY <1>2, <1>4, <1>5

\* A factor can be taken away.
LEMMA Cancel ==
    ASSUME NEW v \in Nat \ {0}, NEW x \in Int, NEW y \in Int, v * x <= v * y
    PROVE  x <= y
<1> SUFFICES ASSUME y < x PROVE FALSE
  OBVIOUS
<1>1. v * y + v <= v * x
  BY NextMultiple
<1>2. v * x \in Int /\ v * y \in Int
  OBVIOUS
<1> QED
  BY <1>1, <1>2

\* Division rounds down.
LEMMA DivideDown ==
    ASSUME NEW n \in Int, NEW d \in Nat \ {0}
    PROVE  n \div d \in Int /\ d * (n \div d) <= n /\ n < d * (n \div d) + d
OBVIOUS

\* The rounded quotient of what deals are worth and what is traded lies between the
\* prices, but for half a unit of its last decimal.
LEMMA RoundedNear ==
    ASSUME NEW Q \in Int, NEW V \in Nat \ {0}, NEW low \in Int, NEW high \in Int,
           low * V <= Q, Q <= high * V,
           NEW exp \in Int, PriceUnit(exp) > 0, AverageUnit(exp) > 0
    PROVE  NearPrice(Rounded(Q, V, exp, 4), low, high, exp)
<1> DEFINE p == PriceUnit(exp)
           a == AverageUnit(exp)
<1>1. p \in Nat \ {0} /\ a \in Nat \ {0}
  <2>1. CASE exp + 4 >= 0
    <3>1. exp + 4 \in Nat
      BY <2>1
    <3>2. 10^(exp + 4) \in Int
      BY <3>1
    <3>3. p = 10^(exp + 4) /\ a = 1
      BY <2>1 DEF PriceUnit, AverageUnit
    <3>4. p \in Int /\ p > 0
      BY ONLY <3>2, <3>3, PriceUnit(exp) > 0
    <3>5. a = 1
      BY <3>3
    <3> HIDE DEF p, a
    <3> QED
      BY ONLY <3>4, <3>5
  <2>2. CASE ~(exp + 4 >= 0)
    <3>1. 0 - exp - 4 \in Nat
      BY <2>2
    <3>2. 10^(0 - exp - 4) \in Int
      BY <3>1
    <3>3. p = 1 /\ a = 10^(0 - exp - 4)
      BY <2>2 DEF PriceUnit, AverageUnit
    <3>4. a \in Int /\ a > 0
      BY ONLY <3>2, <3>3, AverageUnit(exp) > 0
    <3>5. p = 1
      BY <3>3
    <3> HIDE DEF p, a
    <3> QED
      BY ONLY <3>4, <3>5
  <2> QED
    BY <2>1, <2>2
<1> DEFINE N == Q * p
           D == V * a
           A == (2 * N + D) \div (2 * D)
<1>2. Rounded(Q, V, exp, 4) = A
  <2>1. CASE exp + 4 >= 0
    <3>1. p = 10^(exp + 4) /\ a = 1
      BY <2>1 DEF PriceUnit, AverageUnit
    <3>2. Rounded(Q, V, exp, 4) = (2 * (Q * 10^(exp + 4)) + V) \div (2 * V)
      BY <2>1 DEF Rounded
    <3>3. D = V
      BY <3>1
    <3> QED
      BY <3>1, <3>2, <3>3
  <2>2. CASE ~(exp + 4 >= 0)
    <3>1. p = 1 /\ a = 10^(0 - exp - 4)
      BY <2>2 DEF PriceUnit, AverageUnit
    <3>2. Rounded(Q, V, exp, 4)
              = (2 * Q + V * 10^(0 - exp - 4)) \div (2 * (V * 10^(0 - exp - 4)))
      BY <2>2 DEF Rounded
    <3>3. N = Q
      BY <3>1
    <3> QED
      BY <3>1, <3>2, <3>3
  <2> QED
    BY <2>1, <2>2
<1> HIDE DEF p, a
<1>3. N \in Int /\ D \in Nat \ {0}
  BY <1>1
<1>4. A \in Int /\ (2 * D) * A <= 2 * N + D /\ 2 * N + D < (2 * D) * A + 2 * D
  <2>1. 2 * N + D \in Int /\ 2 * D \in Nat \ {0}
    BY <1>3
  <2> HIDE DEF N, D
  <2> QED
    BY ONLY <2>1, DivideDown DEF A
<1>5. p * (low * V) <= N /\ N <= p * (high * V)
  <2>1. low * V \in Int /\ high * V \in Int
    OBVIOUS
  <2>2. \A x, y \in Int : x <= y => p * x <= p * y
    BY <1>1
  <2>3. p * (low * V) <= p * Q /\ p * Q <= p * (high * V)
    BY <2>1, <2>2
  <2>4. p * Q = N
    BY <1>1
  <2> QED
    BY <2>3, <2>4
<1>6. 2 * p * low - a <= 2 * a * A
  <2>1. V * (2 * p * low - a) = 2 * (p * (low * V)) - D
    BY <1>1
  <2>2. V * (2 * a * A) = (2 * D) * A
    <3> HIDE DEF A
    <3> QED
      BY <1>1, <1>4
  <2>3. p * (low * V) \in Int
    BY <1>1
  <2>4. (2 * D) * A \in Int
    <3> HIDE DEF A, D
    <3> QED
      BY <1>3, <1>4
  <2> HIDE DEF A, D, N
  <2>5. 2 * (p * (low * V)) - D <= (2 * D) * A
    BY ONLY <1>3, <1>4, <1>5, <2>3, <2>4
  <2>6. V * (2 * p * low - a) <= V * (2 * a * A)
    BY <2>1, <2>2, <2>5
  <2>7. 2 * p * low - a \in Int /\ 2 * a * A \in Int
    BY <1>1, <1>4
  <2> QED
    BY ONLY <2>6, <2>7, Cancel, V \in Nat \ {0}
<1>7. 2 * a * A <= 2 * p * high + a
  <2>1. V * (2 * p * high + a) = 2 * (p * (high * V)) + D
    BY <1>1
  <2>2. V * (2 * a * A) = (2 * D) * A
    <3> HIDE DEF A
    <3> QED
      BY <1>1, <1>4
  <2>3. p * (high * V) \in Int
    BY <1>1
  <2>4. (2 * D) * A \in Int
    <3> HIDE DEF A, D
    <3> QED
      BY <1>3, <1>4
  <2> HIDE DEF A, D, N
  <2>5. (2 * D) * A <= 2 * (p * (high * V)) + D
    BY ONLY <1>3, <1>4, <1>5, <2>3, <2>4
  <2>6. V * (2 * a * A) <= V * (2 * p * high + a)
    BY <2>1, <2>2, <2>5
  <2>7. 2 * p * high + a \in Int /\ 2 * a * A \in Int
    BY <1>1, <1>4
  <2> QED
    BY ONLY <2>6, <2>7, Cancel, V \in Nat \ {0}
<1> HIDE DEF A
<1> QED
  BY <1>2, <1>6, <1>7 DEF NearPrice, p, a

\* What a kline of the deals G of a minute tells.
Takers(ds, G) == {i \in G : ds[i].isBuyerMaker}
TimesOf(ds, G) == {ds[i].createdAt : i \in G}

KlineTells(k, ds, G, m, t) ==
    /\ k.symbol = m /\ k.openTime = t /\ k.closeTime = t + Duration[MinuteUnit]
    /\ k.open \in PricesOf(ds, Earliest(ds, G)) /\ k.close \in PricesOf(ds, Latest(ds, G))
    /\ k.high = Highest(PricesOf(ds, G)) /\ k.low = Lowest(PricesOf(ds, G))
    /\ k.volume = Volume(ds, G) /\ k.quotes = Total(ds, G, Quotes)
    /\ k.first = Min(TimesOf(ds, G)) /\ k.last = Max(TimesOf(ds, G))
    /\ k.trades = Cardinality(G)
    /\ k.takerAssets = Volume(ds, Takers(ds, G))
    /\ k.takerQuotes = Total(ds, Takers(ds, G), Quotes)

\* Every kline of a group tells that, and each first and last price has one.
LEMMA KlineIs ==
    ASSUME NEW ds, NEW G, NEW m, NEW t
    PROVE  /\ \A k \in KlinesOf(ds, <<m, t>>, G) : KlineTells(k, ds, G, m, t)
           /\ \A o \in PricesOf(ds, Earliest(ds, G)), c \in PricesOf(ds, Latest(ds, G)) :
                 \E k \in KlinesOf(ds, <<m, t>>, G) : k.open = o /\ k.close = c
<1> DEFINE O == PricesOf(ds, Earliest(ds, G))
           C == PricesOf(ds, Latest(ds, G))
           d == t + Duration[MinuteUnit]
           h == Highest(PricesOf(ds, G))
           l == Lowest(PricesOf(ds, G))
           v == Volume(ds, G)
           q == Total(ds, G, Quotes)
           f == Min(TimesOf(ds, G))
           z == Max(TimesOf(ds, G))
           n == Cardinality(G)
           ta == Volume(ds, Takers(ds, G))
           tq == Total(ds, Takers(ds, G), Quotes)
<1>1. KlinesOf(ds, <<m, t>>, G) =
          [symbol : {m}, openTime : {t}, closeTime : {d}, open : O, close : C, high : {h},
           low : {l}, volume : {v}, quotes : {q}, first : {f}, last : {z}, trades : {n},
           takerAssets : {ta}, takerQuotes : {tq}]
  BY Zenon DEF KlinesOf, Takers, TimesOf
<1>2. ASSUME NEW k,
             k.symbol = m, k.openTime = t, k.closeTime = d, k.open \in O, k.close \in C,
             k.high = h, k.low = l, k.volume = v, k.quotes = q, k.first = f, k.last = z,
             k.trades = n, k.takerAssets = ta, k.takerQuotes = tq
      PROVE  KlineTells(k, ds, G, m, t)
  BY <1>2, Zenon DEF KlineTells
<1> HIDE DEF O, C, d, h, l, v, q, f, z, n, ta, tq
<1>3. ASSUME NEW k \in KlinesOf(ds, <<m, t>>, G)
      PROVE  KlineTells(k, ds, G, m, t)
  <2>1. /\ k.symbol = m /\ k.openTime = t /\ k.closeTime = d /\ k.open \in O /\ k.close \in C
        /\ k.high = h /\ k.low = l /\ k.volume = v /\ k.quotes = q /\ k.first = f /\ k.last = z
        /\ k.trades = n /\ k.takerAssets = ta /\ k.takerQuotes = tq
    <3>1. k \in [symbol : {m}, openTime : {t}, closeTime : {d}, open : O, close : C, high : {h},
                 low : {l}, volume : {v}, quotes : {q}, first : {f}, last : {z}, trades : {n},
                 takerAssets : {ta}, takerQuotes : {tq}]
      BY <1>1
    <3> QED
      BY ONLY <3>1
  <2> QED
    BY <1>2, <2>1
<1>4. ASSUME NEW o \in O, NEW c \in C
      PROVE  \E k \in KlinesOf(ds, <<m, t>>, G) : k.open = o /\ k.close = c
  <2> DEFINE k == [symbol |-> m, openTime |-> t, closeTime |-> d, open |-> o, close |-> c,
                   high |-> h, low |-> l, volume |-> v, quotes |-> q, first |-> f, last |-> z,
                   trades |-> n, takerAssets |-> ta, takerQuotes |-> tq]
  <2>1. k \in KlinesOf(ds, <<m, t>>, G)
    BY <1>1
  <2> QED
    BY <2>1
<1> QED
  BY <1>3, <1>4 DEF O, C

\* The deals of a market from an instant on, those of them of a minute, and the minutes.
Since(m, from) == {i \in DOMAIN docs : docs[i].market = m /\ StoredTime(from) <= docs[i].createdAt}
InMinute(S, t) == {i \in S : WindowStart(Minute, docs[i].createdAt) = t}
MinutesOf(S) == {WindowStart(Minute, docs[i].createdAt) : i \in S}

\* The klines of a market that a request from an instant on is answered with.
KlinesSince(m, from) == {k \in Klines(docs, from, End) : k.symbol = m}

\* Times stay in order when cut to the millisecond.
LEMMA StoredAscends ==
    ASSUME NEW t \in Nat, NEW u \in Nat, t <= u
    PROVE  StoredTime(t) <= StoredTime(u)
BY DEF StoredTime

\* They are the klines of the minutes with deals.
LEMMA KlinesOfMarket ==
    ASSUME Inv, NEW m \in Markets, NEW from \in Times
    PROVE  \A k : k \in KlinesSince(m, from) <=>
               \E t \in MinutesOf(Since(m, from)) :
                   k \in KlinesOf(docs, <<m, t>>, InMinute(Since(m, from), t))
<1> DEFINE I == Inside(from, End)
           S == Since(m, from)
           ws(i) == WindowStart(Minute, docs[i].createdAt)
           G(i) == MinuteGroup(from, End, i)
           groups == MinuteGroups(docs, from, End)
<1>1. /\ DOMAIN groups = {MinuteId(i) : i \in I}
      /\ \A i \in I : groups[MinuteId(i)] = G(i)
  BY MinuteGroupsAre
<1>2. \A i : MinuteId(i) = <<docs[i].market, ws(i)>>
  BY DEF MinuteId
<1>3. Klines(docs, from, End) = UNION {KlinesOf(docs, id, groups[id]) : id \in DOMAIN groups}
  BY DEF Klines
<1>4. \A i \in DOMAIN docs : docs[i].createdAt <= StoredTime(End)
  <2> SUFFICES ASSUME NEW i \in DOMAIN docs PROVE docs[i].createdAt <= StoredTime(End)
    OBVIOUS
  <2>1. PICK t \in Times : docs[i].createdAt = StoredTime(t)
    BY DEF Inv, TypeOK, TimesKept
  <2>2. t \in Nat /\ End \in Nat /\ t <= End
    BY TimesType, HourType DEF End
  <2> QED
    BY <2>1, <2>2, StoredAscends
<1>5. \A i : i \in S <=> i \in I /\ docs[i].market = m
  BY <1>4 DEF Since, Inside
<1> HIDE DEF ws
<1>6. \A i \in S : G(i) = InMinute(S, ws(i))
  <2> HIDE DEF S, I
  <2> SUFFICES ASSUME NEW i \in S PROVE G(i) = InMinute(S, ws(i))
    OBVIOUS
  <2>1. G(i) = {j \in I : MinuteId(j) = MinuteId(i)}
    BY DEF MinuteGroup, I
  <2>2. InMinute(S, ws(i)) = {j \in S : ws(j) = ws(i)}
    BY DEF InMinute, ws
  <2> HIDE DEF G
  <2> QED
    BY <1>2, <1>5, <2>1, <2>2
<1>7. MinutesOf(S) = {ws(i) : i \in S}
  BY DEF MinutesOf, ws
<1> HIDE DEF S, I, G, groups
<1>8. \A k : k \in Klines(docs, from, End) <=>
                \E i \in I : k \in KlinesOf(docs, <<docs[i].market, ws(i)>>, G(i))
  BY <1>1, <1>2, <1>3
<1>9. ASSUME NEW k, k \in KlinesSince(m, from)
      PROVE  \E t \in MinutesOf(S) : k \in KlinesOf(docs, <<m, t>>, InMinute(S, t))
  <2>1. k \in Klines(docs, from, End) /\ k.symbol = m
    BY <1>9 DEF KlinesSince
  <2>2. PICK i \in I : k \in KlinesOf(docs, <<docs[i].market, ws(i)>>, G(i))
    BY <1>8, <2>1
  <2>3. k.symbol = docs[i].market
    <3>1. KlineTells(k, docs, G(i), docs[i].market, ws(i))
      BY <2>2, KlineIs
    <3> QED
      BY <3>1 DEF KlineTells
  <2>4. i \in S /\ docs[i].market = m
    BY <1>5, <2>1, <2>3
  <2> QED
    BY <1>6, <1>7, <2>2, <2>4
<1>10. ASSUME NEW k, NEW t \in MinutesOf(S), k \in KlinesOf(docs, <<m, t>>, InMinute(S, t))
       PROVE  k \in KlinesSince(m, from)
  <2>1. PICK i \in S : t = ws(i)
    BY <1>7
  <2>2. k \in KlinesOf(docs, <<docs[i].market, ws(i)>>, G(i)) /\ i \in I
    BY <1>5, <1>6, <1>10, <2>1
  <2>3. k \in Klines(docs, from, End)
    BY <1>8, <2>2
  <2>4. KlineTells(k, docs, InMinute(S, t), m, t)
    BY <1>10, KlineIs
  <2> QED
    BY <2>3, <2>4 DEF KlineTells, KlinesSince
<1> QED
  BY <1>9, <1>10 DEF S

\* The values of a function on a finite set are finitely many.
LEMMA FiniteImage ==
    ASSUME NEW S, IsFiniteSet(S), NEW f
    PROVE  IsFiniteSet({f[x] : x \in S})
<1> DEFINE g == [x \in S |-> f[x]]
           T == {f[x] : x \in S}
<1>1. g \in Surjection(S, T)
  BY DEF Surjection
<1> HIDE DEF g, T
<1>2. IsFiniteSet(T)
  BY <1>1, FS_Surjection
<1> QED
  BY <1>2 DEF T

\* Documents from an instant on: places, times and minutes.
LEMMA SinceType ==
    ASSUME Inv, NEW m \in Markets, NEW from \in Times
    PROVE  LET S == Since(m, from) IN
           /\ docs \in Seq(StoredDeal) /\ S \in SUBSET (DOMAIN docs) /\ IsFiniteSet(S)
           /\ \A i \in S : docs[i].createdAt \in Nat /\ docs[i].createdAt <= End
           /\ \A i \in S : WindowStart(Minute, docs[i].createdAt) \in Nat
           /\ End \in Nat
<1> DEFINE S == Since(m, from)
<1>1. docs \in Seq(StoredDeal) /\ S \in SUBSET (DOMAIN docs)
  BY DEF Inv, TypeOK, Since
<1>2. /\ \A i \in S : docs[i].createdAt \in Nat /\ docs[i].createdAt <= End
      /\ \A i \in S : WindowStart(Minute, docs[i].createdAt) \in Nat
      /\ End \in Nat
  BY <1>1, DocumentTime, HourType DEF End
<1> HIDE DEF S
<1>3. IsFiniteSet(S)
  BY <1>1, Places
<1> QED
  BY <1>1, <1>2, <1>3 DEF S

\* The klines of the minutes, one of each.
KlinesEach(ks, S, m) ==
    /\ IsFiniteSet(ks)
    /\ \A k \in ks : /\ k.openTime \in MinutesOf(S)
                     /\ KlineTells(k, docs, InMinute(S, k.openTime), m, k.openTime)
    /\ \A t \in MinutesOf(S) : \E k \in ks : k.openTime = t
    /\ \A j, k \in ks : j.openTime = k.openTime => j = k

\* Every minute with deals has a kline.
LEMMA MinuteHasKline ==
    ASSUME Inv, NEW m \in Markets, NEW from \in Times, NEW t \in MinutesOf(Since(m, from))
    PROVE  /\ \E k \in KlinesSince(m, from) : k.openTime = t
           /\ \A i \in Earliest(docs, InMinute(Since(m, from), t)) :
                 \E k \in KlinesSince(m, from) : k.openTime = t /\ k.open = docs[i].price
           /\ \A i \in Latest(docs, InMinute(Since(m, from), t)) :
                 \E k \in KlinesSince(m, from) : k.openTime = t /\ k.close = docs[i].price
<1> DEFINE S == Since(m, from)
           G == InMinute(S, t)
<1>1. /\ docs \in Seq(StoredDeal) /\ S \in SUBSET (DOMAIN docs) /\ End \in Nat
      /\ \A i \in S : docs[i].createdAt \in Nat /\ docs[i].createdAt <= End
  BY SinceType
<1>2. G \in SUBSET (DOMAIN docs) /\ G # {} /\ \A i \in G : docs[i].createdAt <= End
  BY <1>1 DEF InMinute, MinutesOf
<1>3. ASSUME NEW k \in KlinesOf(docs, <<m, t>>, G)
      PROVE  k \in KlinesSince(m, from) /\ k.openTime = t
  <2>1. KlineTells(k, docs, G, m, t)
    BY KlineIs
  <2> QED
    BY <2>1, KlinesOfMarket DEF KlineTells
<1> HIDE DEF S, G
<1>4. Earliest(docs, G) # {} /\ Latest(docs, G) # {}
  BY <1>1, <1>2, EndsExist
<1>5. PICK a \in Earliest(docs, G), b \in Latest(docs, G) : TRUE
  BY <1>4
<1>6. \A i \in Earliest(docs, G), j \in Latest(docs, G) :
          \E k \in KlinesOf(docs, <<m, t>>, G) : k.open = docs[i].price /\ k.close = docs[j].price
  <2>1. ASSUME NEW i \in Earliest(docs, G), NEW j \in Latest(docs, G)
        PROVE  \E k \in KlinesOf(docs, <<m, t>>, G) :
                   k.open = docs[i].price /\ k.close = docs[j].price
    <3>1. docs[i].price \in PricesOf(docs, Earliest(docs, G))
          /\ docs[j].price \in PricesOf(docs, Latest(docs, G))
      BY DEF PricesOf
    <3> QED
      BY <3>1, KlineIs
  <2> QED
    BY <2>1
<1> QED
  BY <1>3, <1>5, <1>6 DEF S, G

\* A kline of each minute, the kline of the first minute and of the last.
EachOf(all) == {CHOOSE k \in all : k.openTime = t : t \in {k.openTime : k \in all}}

FirstOf(ks) == CHOOSE k \in ks : \A j \in ks : k.openTime <= j.openTime

LastOf(ks) == CHOOSE k \in ks : \A j \in ks : j.openTime <= k.openTime

\* Taking one kline of each minute gives klines of all minutes, one of each.
LEMMA KlinesAreEach ==
    ASSUME Inv, NEW m \in Markets, NEW from \in Times
    PROVE  KlinesEach(EachOf(KlinesSince(m, from)), Since(m, from), m)
<1> DEFINE all == KlinesSince(m, from)
           ks == EachOf(all)
           S == Since(m, from)
           M == MinutesOf(S)
           pick(t) == CHOOSE k \in all : k.openTime = t
<1>1. \A k \in all : \E t \in M : k \in KlinesOf(docs, <<m, t>>, InMinute(S, t))
  BY KlinesOfMarket
<1>2. ASSUME NEW k \in all
      PROVE  k.openTime \in M /\ KlineTells(k, docs, InMinute(S, k.openTime), m, k.openTime)
  <2>1. PICK t \in M : k \in KlinesOf(docs, <<m, t>>, InMinute(S, t))
    BY <1>1
  <2>2. KlineTells(k, docs, InMinute(S, t), m, t)
    BY <2>1, KlineIs
  <2>3. k.openTime = t
    BY <2>2 DEF KlineTells
  <2> QED
    BY <2>2, <2>3
<1>3. \A t \in M : \E k \in all : k.openTime = t
  BY MinuteHasKline
<1>4. {k.openTime : k \in all} = M
  BY <1>2, <1>3
<1>5. \A t \in M : pick(t) \in all /\ pick(t).openTime = t
  BY <1>3
<1>6. ks = {pick(t) : t \in M}
  BY <1>4 DEF EachOf
<1> HIDE DEF pick, ks
<1>7. IsFiniteSet(ks)
  <2>1. IsFiniteSet(S)
    BY SinceType
  <2> DEFINE f == [i \in S |-> WindowStart(Minute, docs[i].createdAt)]
             g == [t \in M |-> pick(t)]
  <2>2. M = {f[i] : i \in S}
    BY DEF MinutesOf
  <2>3. ks = {g[t] : t \in M}
    BY <1>6
  <2> HIDE DEF f, g, M, S
  <2>4. IsFiniteSet(M)
    BY <2>1, <2>2, FiniteImage
  <2> QED
    BY <2>3, <2>4, FiniteImage
<1> HIDE DEF M, S
<1>8. \A k \in ks : k \in all
  BY <1>5, <1>6
<1>9. \A t \in M : \E k \in ks : k.openTime = t
  BY <1>5, <1>6
<1>10. ASSUME NEW j \in ks, NEW k \in ks, j.openTime = k.openTime PROVE j = k
  <2>1. PICK t \in M : j = pick(t)
    BY <1>6
  <2>2. PICK u \in M : k = pick(u)
    BY <1>6
  <2>3. j.openTime = t /\ k.openTime = u
    BY <1>5, <2>1, <2>2
  <2> QED
    BY <1>10, <2>1, <2>2, <2>3
<1>11. \A k \in ks : k.openTime \in M /\ KlineTells(k, docs, InMinute(S, k.openTime), m, k.openTime)
  BY <1>2, <1>8
<1> QED
  BY <1>7, <1>9, <1>10, <1>11 DEF KlinesEach, M, S, ks

\* The volumes of klines are summed up.
KlineVolumes(ks) == [k \in ks |-> k.volume]

LEMMA SummedVolumes ==
    ASSUME NEW ks, IsFiniteSet(ks), \A k \in ks : k.volume \in Int
    PROVE  Summed(ks, LAMBDA k : k.volume) = Sum(KlineVolumes(ks), ks)
<1> DEFINE f == KlineVolumes(ks)
<1>1. \A k \in ks : f[k] \in Int /\ f[k] = k.volume
  BY DEF KlineVolumes
<1>2. \A s \in SUBSET ks : s # {} => OneOf(s) \in ks
  BY DEF OneOf
<1> HIDE DEF f
<1> DEFINE Is(g) == g = [s \in SUBSET ks |-> IF s = {} THEN 0
                                           ELSE (CHOOSE x \in s : TRUE).volume
                                                + g[s \ {CHOOSE x \in s : TRUE}]]
           h == CHOOSE g : Is(g)
<1>7. \A g : \A s \in SUBSET ks :
          Summand(f, g, s) = IF s = {} THEN 0 ELSE (CHOOSE x \in s : TRUE).volume
                                                   + g[s \ {CHOOSE x \in s : TRUE}]
  BY <1>1, <1>2 DEF Summand, OneOf
<1>3. ASSUME NEW g PROVE IsSum(g, f, ks) <=> Is(g)
  <2>1. [s \in SUBSET ks |-> Summand(f, g, s)]
        = [s \in SUBSET ks |-> IF s = {} THEN 0 ELSE (CHOOSE x \in s : TRUE).volume
                                                      + g[s \ {CHOOSE x \in s : TRUE}]]
    BY <1>7
  <2> QED
    BY <2>1, Zenon DEF IsSum
<1>4. \E g : IsSum(g, f, ks)
  BY <1>1, SumExists
<1>5. Summed(ks, LAMBDA k : k.volume) = h[ks]
  BY DEF Summed, MapThenSumSet, MapThenFoldSet
<1> HIDE DEF Is
<1>6. IsSum(h, f, ks)
  BY <1>3, <1>4
<1> HIDE DEF h
<1> QED
  BY <1>1, <1>5, <1>6, SumIs DEF f

\* The quotes of klines are summed up.
KlineQuotes(ks) == [k \in ks |-> k.quotes]

LEMMA SummedQuotes ==
    ASSUME NEW ks, IsFiniteSet(ks), \A k \in ks : k.quotes \in Int
    PROVE  Summed(ks, LAMBDA k : k.quotes) = Sum(KlineQuotes(ks), ks)
<1> DEFINE f == KlineQuotes(ks)
<1>1. \A k \in ks : f[k] \in Int /\ f[k] = k.quotes
  BY DEF KlineQuotes
<1>2. \A s \in SUBSET ks : s # {} => OneOf(s) \in ks
  BY DEF OneOf
<1> HIDE DEF f
<1> DEFINE Is(g) == g = [s \in SUBSET ks |-> IF s = {} THEN 0
                                           ELSE (CHOOSE x \in s : TRUE).quotes
                                                + g[s \ {CHOOSE x \in s : TRUE}]]
           h == CHOOSE g : Is(g)
<1>7. \A g : \A s \in SUBSET ks :
          Summand(f, g, s) = IF s = {} THEN 0 ELSE (CHOOSE x \in s : TRUE).quotes
                                                   + g[s \ {CHOOSE x \in s : TRUE}]
  BY <1>1, <1>2 DEF Summand, OneOf
<1>3. ASSUME NEW g PROVE IsSum(g, f, ks) <=> Is(g)
  <2>1. [s \in SUBSET ks |-> Summand(f, g, s)]
        = [s \in SUBSET ks |-> IF s = {} THEN 0 ELSE (CHOOSE x \in s : TRUE).quotes
                                                      + g[s \ {CHOOSE x \in s : TRUE}]]
    BY <1>7
  <2> QED
    BY <2>1, Zenon DEF IsSum
<1>4. \E g : IsSum(g, f, ks)
  BY <1>1, SumExists
<1>5. Summed(ks, LAMBDA k : k.quotes) = h[ks]
  BY DEF Summed, MapThenSumSet, MapThenFoldSet
<1> HIDE DEF Is
<1>6. IsSum(h, f, ks)
  BY <1>3, <1>4
<1> HIDE DEF h
<1> QED
  BY <1>1, <1>5, <1>6, SumIs DEF f

\* The counts of klines are summed up.
KlineTrades(ks) == [k \in ks |-> k.trades]

LEMMA SummedTrades ==
    ASSUME NEW ks, IsFiniteSet(ks), \A k \in ks : k.trades \in Int
    PROVE  Summed(ks, LAMBDA k : k.trades) = Sum(KlineTrades(ks), ks)
<1> DEFINE f == KlineTrades(ks)
<1>1. \A k \in ks : f[k] \in Int /\ f[k] = k.trades
  BY DEF KlineTrades
<1>2. \A s \in SUBSET ks : s # {} => OneOf(s) \in ks
  BY DEF OneOf
<1> HIDE DEF f
<1> DEFINE Is(g) == g = [s \in SUBSET ks |-> IF s = {} THEN 0
                                           ELSE (CHOOSE x \in s : TRUE).trades
                                                + g[s \ {CHOOSE x \in s : TRUE}]]
           h == CHOOSE g : Is(g)
<1>7. \A g : \A s \in SUBSET ks :
          Summand(f, g, s) = IF s = {} THEN 0 ELSE (CHOOSE x \in s : TRUE).trades
                                                   + g[s \ {CHOOSE x \in s : TRUE}]
  BY <1>1, <1>2 DEF Summand, OneOf
<1>3. ASSUME NEW g PROVE IsSum(g, f, ks) <=> Is(g)
  <2>1. [s \in SUBSET ks |-> Summand(f, g, s)]
        = [s \in SUBSET ks |-> IF s = {} THEN 0 ELSE (CHOOSE x \in s : TRUE).trades
                                                      + g[s \ {CHOOSE x \in s : TRUE}]]
    BY <1>7
  <2> QED
    BY <2>1, Zenon DEF IsSum
<1>4. \E g : IsSum(g, f, ks)
  BY <1>1, SumExists
<1>5. Summed(ks, LAMBDA k : k.trades) = h[ks]
  BY DEF Summed, MapThenSumSet, MapThenFoldSet
<1> HIDE DEF Is
<1>6. IsSum(h, f, ks)
  BY <1>3, <1>4
<1> HIDE DEF h
<1> QED
  BY <1>1, <1>5, <1>6, SumIs DEF f

\* The minutes cut the deals into parts, one for each kline.
MinuteParts(ks, S) == [k \in ks |-> InMinute(S, k.openTime)]

LEMMA MinutesPart ==
    ASSUME NEW ks, NEW S, NEW m, KlinesEach(ks, S, m)
    PROVE  Partition(MinuteParts(ks, S), ks, S)
<1> DEFINE part == MinuteParts(ks, S)
<1>1. \A k \in ks : part[k] = InMinute(S, k.openTime)
  BY DEF MinuteParts
<1> HIDE DEF part
<1>2. \A k \in ks : part[k] \in SUBSET S
  BY <1>1 DEF InMinute
<1>3. ASSUME NEW j \in ks, NEW k \in ks, j # k PROVE part[j] \cap part[k] = {}
  <2>1. j.openTime # k.openTime
    BY <1>3 DEF KlinesEach
  <2> QED
    BY <1>1, <2>1 DEF InMinute
<1>4. ASSUME NEW i \in S PROVE \E k \in ks : i \in part[k]
  <2>1. PICK k \in ks : k.openTime = WindowStart(Minute, docs[i].createdAt)
    BY DEF KlinesEach, MinutesOf
  <2> QED
    BY <1>1, <2>1 DEF InMinute
<1> QED
  BY <1>2, <1>3, <1>4 DEF Partition, part

\* Volumes, quotes and counts of the klines add up to those of the deals.
LEMMA KlinesAddUp ==
    ASSUME docs \in Seq(StoredDeal), NEW S \in SUBSET (DOMAIN docs), NEW ks, NEW m,
           KlinesEach(ks, S, m)
    PROVE  /\ Summed(ks, LAMBDA k : k.volume) = Volume(docs, S)
           /\ Summed(ks, LAMBDA k : k.quotes) = Total(docs, S, Quotes)
           /\ Summed(ks, LAMBDA k : k.trades) = Cardinality(S)
<1> DEFINE part == MinuteParts(ks, S)
           a == AmountsOf(docs, S)
           q == QuotesOf(docs, S)
           one == [i \in S |-> 1]
<1>1. IsFiniteSet(ks) /\ Partition(part, ks, S)
  BY MinutesPart DEF KlinesEach
<1>2. /\ Volume(docs, S) = Sum(a, S) /\ Total(docs, S, Quotes) = Sum(q, S)
      /\ IsFiniteSet(S)
  BY PartSums
<1>3. \A i \in S : a[i] \in Int
  BY QuotesType DEF AmountsOf
<1>4. \A i \in S : q[i] \in Int
  BY QuotesType DEF QuotesOf
<1>5. (\A i \in S : one[i] = 1) /\ \A i \in S : one[i] \in Int
  OBVIOUS
<1>6. Sum(one, S) = Cardinality(S)
  <2> HIDE DEF one
  <2> QED
    BY <1>2, <1>5, SumOnes
<1>7. ASSUME NEW k \in ks
      PROVE  /\ k.volume = Sum(a, part[k]) /\ k.volume \in Int
             /\ k.quotes = Sum(q, part[k]) /\ k.quotes \in Int
             /\ k.trades = Sum(one, part[k]) /\ k.trades \in Int
  <2> DEFINE G == InMinute(S, k.openTime)
  <2>1. /\ k.volume = Volume(docs, G) /\ k.quotes = Total(docs, G, Quotes)
        /\ k.trades = Cardinality(G)
    BY DEF KlinesEach, KlineTells
  <2>2. part[k] = G /\ G \in SUBSET S
    BY DEF MinuteParts, InMinute
  <2> HIDE DEF G, part, a, q
  <2>3. /\ Volume(docs, G) = Sum(AmountsOf(docs, S), G)
        /\ Total(docs, G, Quotes) = Sum(QuotesOf(docs, S), G)
        /\ Volume(docs, G) \in Nat /\ Total(docs, G, Quotes) \in Int
        /\ IsFiniteSet(G)
    BY <2>2, PartSums
  <2>4. \A i \in G : one[i] = 1
    BY <1>5, <2>2
  <2>5. Sum(one, G) = Cardinality(G) /\ Cardinality(G) \in Nat
    <3> HIDE DEF one
    <3> QED
      BY <2>3, <2>4, SumOnes, FS_CardinalityType
  <2> HIDE DEF one
  <2> QED
    BY <2>1, <2>2, <2>3, <2>5 DEF a, q
<1> HIDE DEF part, a, q, one
<1>8. Summed(ks, LAMBDA k : k.volume) = Sum(a, S)
  <2> DEFINE v == KlineVolumes(ks)
  <2>1. Summed(ks, LAMBDA k : k.volume) = Sum(v, ks)
    BY <1>1, <1>7, SummedVolumes
  <2>2. \A k \in ks : v[k] = Sum(a, part[k])
    BY <1>7 DEF KlineVolumes
  <2> HIDE DEF v
  <2>3. Sum(v, ks) = Sum(a, S)
    BY ONLY <1>1, <1>2, <1>3, <2>2, SumPartition
  <2> QED
    BY <2>1, <2>3
<1>9. Summed(ks, LAMBDA k : k.quotes) = Sum(q, S)
  <2> DEFINE v == KlineQuotes(ks)
  <2>1. Summed(ks, LAMBDA k : k.quotes) = Sum(v, ks)
    BY <1>1, <1>7, SummedQuotes
  <2>2. \A k \in ks : v[k] = Sum(q, part[k])
    BY <1>7 DEF KlineQuotes
  <2> HIDE DEF v
  <2>3. Sum(v, ks) = Sum(q, S)
    BY ONLY <1>1, <1>2, <1>4, <2>2, SumPartition
  <2> QED
    BY <2>1, <2>3
<1>10. Summed(ks, LAMBDA k : k.trades) = Sum(one, S)
  <2> DEFINE v == KlineTrades(ks)
  <2>1. Summed(ks, LAMBDA k : k.trades) = Sum(v, ks)
    BY <1>1, <1>7, SummedTrades
  <2>2. \A k \in ks : v[k] = Sum(one, part[k])
    BY <1>7 DEF KlineTrades
  <2> HIDE DEF v
  <2>3. Sum(v, ks) = Sum(one, S)
    BY ONLY <1>1, <1>2, <1>5, <2>2, SumPartition
  <2> QED
    BY <2>1, <2>3
<1> QED
  BY <1>2, <1>6, <1>8, <1>9, <1>10

\* Deals with a time.
Dated(S) == \A i \in S : docs[i].createdAt \in Nat

\* The kline of the first minute, and of the last, has the first deal, and the last.
LEMMA FirstKline ==
    ASSUME NEW S, Dated(S), NEW ks, NEW m, KlinesEach(ks, S, m),
           NEW i \in Earliest(docs, S), NEW first, first = FirstOf(ks)
    PROVE  /\ first \in ks /\ first.first = docs[i].createdAt
           /\ first.openTime = WindowStart(Minute, docs[i].createdAt)
           /\ i \in Earliest(docs, InMinute(S, first.openTime))
<1> DEFINE t == WindowStart(Minute, docs[i].createdAt)
<1>1. i \in S /\ \A j \in S : docs[i].createdAt <= docs[j].createdAt
  BY DEF Earliest
<1>2. PICK k \in ks : k.openTime = t
  BY <1>1 DEF KlinesEach, MinutesOf
<1>3. ASSUME NEW j \in ks PROVE j.openTime \in Nat /\ t <= j.openTime
  <2>1. PICK x \in S : j.openTime = WindowStart(Minute, docs[x].createdAt)
    BY DEF KlinesEach, MinutesOf
  <2>2. docs[i].createdAt \in Nat /\ docs[x].createdAt \in Nat
    BY <1>1 DEF Dated
  <2>3. docs[i].createdAt <= docs[x].createdAt
    BY <1>1
  <2> QED
    BY <2>1, <2>2, <2>3, HourType, WindowsAscend, WindowContains
<1> HIDE DEF t
<1>4. first \in ks /\ \A j \in ks : first.openTime <= j.openTime
  BY <1>2, <1>3 DEF FirstOf
<1>5. first.openTime = t
  BY <1>2, <1>3, <1>4
<1> DEFINE G == InMinute(S, t)
<1>6. i \in Earliest(docs, G)
  BY <1>1 DEF InMinute, Earliest, t
<1>7. first.first = Min(TimesOf(docs, G))
  BY <1>4, <1>5 DEF KlinesEach, KlineTells
<1>8. /\ TimesOf(docs, G) \in SUBSET Nat /\ docs[i].createdAt \in TimesOf(docs, G)
      /\ \A x \in TimesOf(docs, G) : docs[i].createdAt <= x
  <2>1. i \in G /\ \A j \in G : j \in S /\ docs[i].createdAt <= docs[j].createdAt
    BY <1>1, <1>6 DEF InMinute, Earliest
  <2> HIDE DEF G
  <2> QED
    BY <2>1 DEF TimesOf, Dated
<1> HIDE DEF G
<1>9. Min(TimesOf(docs, G)) = docs[i].createdAt
  BY <1>8, LeastIs
<1> QED
  BY <1>4, <1>5, <1>6, <1>7, <1>9 DEF t, G

\* The kline of the last minute has the last deal.
LEMMA LastKline ==
    ASSUME NEW S, Dated(S), NEW ks, NEW m, KlinesEach(ks, S, m),
           NEW i \in Latest(docs, S), NEW last, last = LastOf(ks)
    PROVE  /\ last \in ks /\ last.last = docs[i].createdAt
           /\ last.openTime = WindowStart(Minute, docs[i].createdAt)
           /\ i \in Latest(docs, InMinute(S, last.openTime))
<1> DEFINE t == WindowStart(Minute, docs[i].createdAt)
<1>1. i \in S /\ \A j \in S : docs[j].createdAt <= docs[i].createdAt
  BY DEF Latest
<1>2. PICK k \in ks : k.openTime = t
  BY <1>1 DEF KlinesEach, MinutesOf
<1>3. ASSUME NEW j \in ks PROVE j.openTime \in Nat /\ j.openTime <= t /\ t \in Nat
  <2>1. PICK x \in S : j.openTime = WindowStart(Minute, docs[x].createdAt)
    BY DEF KlinesEach, MinutesOf
  <2>2. docs[i].createdAt \in Nat /\ docs[x].createdAt \in Nat
    BY <1>1 DEF Dated
  <2>3. docs[x].createdAt <= docs[i].createdAt
    BY <1>1
  <2> QED
    BY <2>1, <2>2, <2>3, HourType, WindowsAscend, WindowContains
<1> HIDE DEF t
<1>4. last \in ks /\ \A j \in ks : j.openTime <= last.openTime
  BY <1>2, <1>3 DEF LastOf
<1>5. last.openTime = t
  BY <1>2, <1>3, <1>4
<1> DEFINE G == InMinute(S, t)
<1>6. i \in Latest(docs, G)
  BY <1>1 DEF InMinute, Latest, t
<1>7. last.last = Max(TimesOf(docs, G))
  BY <1>4, <1>5 DEF KlinesEach, KlineTells
<1>8. /\ TimesOf(docs, G) \in SUBSET Nat /\ docs[i].createdAt \in TimesOf(docs, G)
      /\ \A x \in TimesOf(docs, G) : x <= docs[i].createdAt
  <2>1. i \in G /\ \A j \in G : j \in S /\ docs[j].createdAt <= docs[i].createdAt
    BY <1>1, <1>6 DEF InMinute, Latest
  <2> HIDE DEF G
  <2> QED
    BY <2>1 DEF TimesOf, Dated
<1> HIDE DEF G
<1>9. Max(TimesOf(docs, G)) = docs[i].createdAt
  BY <1>8, GreatestIs
<1> QED
  BY <1>4, <1>5, <1>6, <1>7, <1>9 DEF t, G

\* The extremes of the klines are those of the deals.
LEMMA KlinesExtremes ==
    ASSUME docs \in Seq(StoredDeal), NEW S \in SUBSET (DOMAIN docs), S # {}, NEW ks, NEW m,
           KlinesEach(ks, S, m)
    PROVE  /\ Highest({k.high : k \in ks}) = Highest(PricesOf(docs, S))
           /\ Lowest({k.low : k \in ks}) = Lowest(PricesOf(docs, S))
<1> DEFINE H == {k.high : k \in ks}
           L == {k.low : k \in ks}
           hi == Highest(PricesOf(docs, S))
           lo == Lowest(PricesOf(docs, S))
<1>1. \A i \in S : docs[i].price \in Prices
  BY Places
<1>2. /\ \E i \in S : hi = docs[i].price
      /\ \A i \in S : docs[i].price.coef <= hi.coef
      /\ \E i \in S : lo = docs[i].price
      /\ \A i \in S : lo.coef <= docs[i].price.coef
  BY ExtremesOf
<1> HIDE DEF hi, lo
<1>3. ASSUME NEW k \in ks
      PROVE  /\ \E i \in S : k.high = docs[i].price
             /\ \E i \in S : k.low = docs[i].price
             /\ \A i \in InMinute(S, k.openTime) :
                   docs[i].price.coef <= k.high.coef /\ k.low.coef <= docs[i].price.coef
  <2> DEFINE G == InMinute(S, k.openTime)
  <2>1. /\ k.high = Highest(PricesOf(docs, G)) /\ k.low = Lowest(PricesOf(docs, G))
        /\ k.openTime \in MinutesOf(S)
    BY DEF KlinesEach, KlineTells
  <2>2. G \in SUBSET (DOMAIN docs) /\ G # {} /\ G \in SUBSET S
    BY <2>1 DEF InMinute, MinutesOf
  <2> HIDE DEF G
  <2>3. /\ \E i \in G : Highest(PricesOf(docs, G)) = docs[i].price
        /\ \A i \in G : docs[i].price.coef <= Highest(PricesOf(docs, G)).coef
        /\ \E i \in G : Lowest(PricesOf(docs, G)) = docs[i].price
        /\ \A i \in G : Lowest(PricesOf(docs, G)).coef <= docs[i].price.coef
    BY <2>2, ExtremesOf
  <2> QED
    BY <2>1, <2>2, <2>3 DEF G
<1>4. \A i \in S : \E k \in ks : i \in InMinute(S, k.openTime)
  <2> SUFFICES ASSUME NEW i \in S PROVE \E k \in ks : i \in InMinute(S, k.openTime)
    OBVIOUS
  <2>1. PICK k \in ks : k.openTime = WindowStart(Minute, docs[i].createdAt)
    BY DEF KlinesEach, MinutesOf
  <2> QED
    BY <2>1 DEF InMinute
<1>5. hi \in Prices /\ lo \in Prices /\ \A k \in ks : k.high \in Prices /\ k.low \in Prices
  BY <1>1, <1>2, <1>3
<1>6. \A p \in Prices : p.coef \in Int
  BY PriceType
<1>7. \E k \in ks : k.high = hi
  <2>1. PICK i \in S : hi = docs[i].price
    BY <1>2
  <2>2. PICK k \in ks : i \in InMinute(S, k.openTime)
    BY <1>4
  <2>3. hi.coef <= k.high.coef /\ k.high.coef <= hi.coef
    BY <1>2, <1>3, <2>1, <2>2
  <2>4. hi.coef = k.high.coef
    BY <1>5, <1>6, <2>3
  <2> QED
    BY <1>5, <2>4, OneCoefficient
<1>8. \E k \in ks : k.low = lo
  <2>1. PICK i \in S : lo = docs[i].price
    BY <1>2
  <2>2. PICK k \in ks : i \in InMinute(S, k.openTime)
    BY <1>4
  <2>3. k.low.coef <= lo.coef /\ lo.coef <= k.low.coef
    BY <1>2, <1>3, <2>1, <2>2
  <2>4. lo.coef = k.low.coef
    BY <1>5, <1>6, <2>3
  <2> QED
    BY <1>5, <2>4, OneCoefficient
<1>9. H \in SUBSET Prices /\ hi \in H /\ \A q \in H : q.coef <= hi.coef
  BY <1>2, <1>3, <1>5, <1>7
<1>10. L \in SUBSET Prices /\ lo \in L /\ \A q \in L : lo.coef <= q.coef
  BY <1>2, <1>3, <1>5, <1>8
<1> HIDE DEF H, L
<1>11. Highest(H) = hi /\ Lowest(L) = lo
  BY <1>9, <1>10, HighestIs, LowestIs
<1> QED
  BY <1>11 DEF H, L, hi, lo

\* The times of a kline lie in its minute, and the quotes of its takers between its
\* lowest and highest price times what they traded.
LEMMA KlineInMinute ==
    ASSUME Inv, NEW m \in Markets, NEW from \in Times, NEW k \in KlinesSince(m, from)
    PROVE  /\ k.openTime <= k.first /\ k.first <= k.last /\ k.last < k.closeTime
           /\ k.low.coef * k.takerAssets <= k.takerQuotes
           /\ k.takerQuotes <= k.high.coef * k.takerAssets
<1> DEFINE S == Since(m, from)
<1>1. PICK t \in MinutesOf(S) : k \in KlinesOf(docs, <<m, t>>, InMinute(S, t))
  BY KlinesOfMarket
<1> DEFINE G == InMinute(S, t)
           T == Takers(docs, G)
<1>2. KlineTells(k, docs, G, m, t)
  BY <1>1, KlineIs
<1>3. /\ docs \in Seq(StoredDeal) /\ S \in SUBSET (DOMAIN docs) /\ End \in Nat
      /\ \A i \in S : docs[i].createdAt \in Nat /\ docs[i].createdAt <= End
  BY SinceType
<1>4. /\ G \in SUBSET (DOMAIN docs) /\ G # {} /\ T \in SUBSET (DOMAIN docs) /\ T \in SUBSET G
      /\ \A i \in G : /\ docs[i].createdAt \in Nat /\ docs[i].createdAt <= End
                      /\ WindowStart(Minute, docs[i].createdAt) = t
  BY <1>3 DEF InMinute, MinutesOf, Takers
<1> HIDE DEF S, G, T
<1>5. \A i \in G : t <= docs[i].createdAt /\ docs[i].createdAt < t + Duration[Minute]
  BY <1>4, HourType, WindowContains
<1>6. PICK a \in Earliest(docs, G), b \in Latest(docs, G) : TRUE
  BY <1>3, <1>4, EndsExist
<1>7. /\ a \in G /\ \A j \in G : docs[a].createdAt <= docs[j].createdAt
      /\ b \in G /\ \A j \in G : docs[j].createdAt <= docs[b].createdAt
  BY DEF Earliest, Latest
<1>8. k.first = docs[a].createdAt /\ k.last = docs[b].createdAt
  <2>1. TimesOf(docs, G) \in SUBSET Nat
    BY <1>4 DEF TimesOf
  <2>2. docs[a].createdAt \in TimesOf(docs, G) /\ docs[b].createdAt \in TimesOf(docs, G)
    BY <1>7 DEF TimesOf
  <2>3. \A x \in TimesOf(docs, G) : docs[a].createdAt <= x /\ x <= docs[b].createdAt
    BY <1>7 DEF TimesOf
  <2>4. Min(TimesOf(docs, G)) = docs[a].createdAt
    BY <2>1, <2>2, <2>3, LeastIs
  <2>5. Max(TimesOf(docs, G)) = docs[b].createdAt
    BY <2>1, <2>2, <2>3, GreatestIs
  <2> QED
    BY <1>2, <2>4, <2>5 DEF KlineTells
<1>9. k.openTime = t /\ k.closeTime = t + Duration[Minute]
  BY <1>2, PairAssumption DEF KlineTells
<1>10. k.openTime <= k.first /\ k.first <= k.last /\ k.last < k.closeTime
  BY <1>5, <1>7, <1>8, <1>9
<1>11. /\ k.high = Highest(PricesOf(docs, G)) /\ k.low = Lowest(PricesOf(docs, G))
       /\ k.takerAssets = Volume(docs, T) /\ k.takerQuotes = Total(docs, T, Quotes)
  BY <1>2 DEF KlineTells, T
<1>12. \A i \in G : docs[i].price \in Prices
  BY <1>3, <1>4, Places
<1>13. /\ \E i \in G : k.high = docs[i].price
       /\ \A i \in G : docs[i].price.coef <= k.high.coef
       /\ \E i \in G : k.low = docs[i].price
       /\ \A i \in G : k.low.coef <= docs[i].price.coef
  <2>1. /\ \E i \in G : Highest(PricesOf(docs, G)) = docs[i].price
        /\ \A i \in G : docs[i].price.coef <= Highest(PricesOf(docs, G)).coef
        /\ \E i \in G : Lowest(PricesOf(docs, G)) = docs[i].price
        /\ \A i \in G : Lowest(PricesOf(docs, G)).coef <= docs[i].price.coef
    BY <1>3, <1>4, ExtremesOf
  <2> QED
    BY <1>11, <2>1
<1>14. k.low.coef \in Int /\ k.high.coef \in Int
  BY <1>12, <1>13, PriceType
<1>15. \A i \in T : k.low.coef <= docs[i].price.coef /\ docs[i].price.coef <= k.high.coef
  BY <1>4, <1>13
<1>16. /\ k.low.coef * Volume(docs, T) <= Total(docs, T, Quotes)
       /\ Total(docs, T, Quotes) <= k.high.coef * Volume(docs, T)
  BY <1>3, <1>4, <1>14, <1>15, QuotesBetween
<1> QED
  BY <1>10, <1>11, <1>16

\* The statistics of the deals S of a market, whose first and last are e.
StatisticsTell(s, m, S, e) ==
    /\ s.symbol = m /\ s.volume = Volume(docs, S) /\ s.quoteVolume = Total(docs, S, Quotes)
    /\ s.count = Cardinality(S)
    /\ s.highPrice = Highest(PricesOf(docs, S)) /\ s.lowPrice = Lowest(PricesOf(docs, S))
    /\ s.openPrice = docs[e[1]].price /\ s.lastPrice = docs[e[2]].price
    /\ s.openTime = docs[e[1]].createdAt /\ s.closeTime = docs[e[2]].createdAt
    /\ s.weightedAvgPrice =
           Rounded(Total(docs, S, Quotes), Volume(docs, S), docs[e[1]].price.exp, 4)

\* Every answer is about the deals of a market, of which there are some.
LEMMA StatisticsAre ==
    ASSUME NEW from, NEW s \in Statistics(docs, Markets, from)
    PROVE  \E m \in Markets : /\ Since(m, from) # {}
                              /\ \E e \in Ends(docs, Since(m, from)) :
                                    StatisticsTell(s, m, Since(m, from), e)
<1>1. Statistics(docs, Markets, from) =
          UNION {{ParseStatistics(docs, m, Since(m, from), e, p) :
                      e \in Ends(docs, Since(m, from)), p \in PrevClosePrice(docs, m, from)} :
                      m \in {k \in Markets : Since(k, from) # {}}}
  BY DEF Statistics, Since
<1>2. PICK m \in Markets : /\ Since(m, from) # {}
                           /\ \E e \in Ends(docs, Since(m, from)), p \in PrevClosePrice(docs, m, from) :
                                 s = ParseStatistics(docs, m, Since(m, from), e, p)
  BY <1>1
<1>3. PICK e \in Ends(docs, Since(m, from)), p \in PrevClosePrice(docs, m, from) :
          s = ParseStatistics(docs, m, Since(m, from), e, p)
  BY <1>2
<1>4. StatisticsTell(s, m, Since(m, from), e)
  BY <1>3 DEF ParseStatistics, StatisticsTell
<1> QED
  BY <1>2, <1>4

\* The property for the statistics s of one market, its klines and those of ks.
SumsUp(s, all, ks, first, last) ==
    /\ s.volume = Summed(ks, LAMBDA k : k.volume)
    /\ s.quoteVolume = Summed(ks, LAMBDA k : k.quotes)
    /\ s.count = Summed(ks, LAMBDA k : k.trades)
    /\ s.highPrice = Highest({k.high : k \in ks})
    /\ s.lowPrice = Lowest({k.low : k \in ks})
    /\ s.openTime = first.first /\ s.closeTime = last.last
    /\ \E k \in all : k.openTime = first.openTime /\ k.open = s.openPrice
    /\ \E k \in all : k.openTime = last.openTime /\ k.close = s.lastPrice
    /\ NearPrice(s.weightedAvgPrice, s.lowPrice.coef, s.highPrice.coef, s.openPrice.exp)
    /\ \A k \in all :
          /\ k.openTime <= k.first /\ k.first <= k.last /\ k.last < k.closeTime
          /\ k.low.coef * k.takerAssets <= k.takerQuotes
          /\ k.takerQuotes <= k.high.coef * k.takerAssets

\* They are what the klines of the market add up to.
LEMMA StatisticsOfMarket ==
    ASSUME Inv, NEW from \in Times, NEW m \in Markets, Since(m, from) # {},
           NEW e \in Ends(docs, Since(m, from)), NEW s, StatisticsTell(s, m, Since(m, from), e),
           NEW all, all = KlinesSince(m, from)
    PROVE  SumsUp(s, all, EachOf(all), FirstOf(EachOf(all)), LastOf(EachOf(all)))
<1> DEFINE S == Since(m, from)
           ks == EachOf(all)
           first == FirstOf(ks)
           last == LastOf(ks)
           V == Volume(docs, S)
           Q == Total(docs, S, Quotes)
           hi == Highest(PricesOf(docs, S))
           lo == Lowest(PricesOf(docs, S))
<1>1. /\ docs \in Seq(StoredDeal) /\ S \in SUBSET (DOMAIN docs) /\ End \in Nat
      /\ \A i \in S : docs[i].createdAt \in Nat
  BY SinceType
<1>2. KlinesEach(ks, S, m)
  BY KlinesAreEach
<1>3. e[1] \in Earliest(docs, S) /\ e[2] \in Latest(docs, S)
  BY DEF Ends
<1>4. S # {} /\ StatisticsTell(s, m, S, e)
  OBVIOUS
<1>5. \A t \in MinutesOf(S) :
          /\ \A i \in Earliest(docs, InMinute(S, t)) :
                \E k \in all : k.openTime = t /\ k.open = docs[i].price
          /\ \A i \in Latest(docs, InMinute(S, t)) :
                \E k \in all : k.openTime = t /\ k.close = docs[i].price
  BY MinuteHasKline
<1>6. \A k \in all : /\ k.openTime <= k.first /\ k.first <= k.last /\ k.last < k.closeTime
                     /\ k.low.coef * k.takerAssets <= k.takerQuotes
                     /\ k.takerQuotes <= k.high.coef * k.takerAssets
  BY KlineInMinute
<1> HIDE DEF S, ks
<1>7. Dated(S)
  BY <1>1 DEF Dated
<1>8. /\ first \in ks /\ first.first = docs[e[1]].createdAt
      /\ e[1] \in Earliest(docs, InMinute(S, first.openTime))
  BY <1>2, <1>3, <1>7, FirstKline
<1>9. /\ last \in ks /\ last.last = docs[e[2]].createdAt
      /\ e[2] \in Latest(docs, InMinute(S, last.openTime))
  BY <1>2, <1>3, <1>7, LastKline
<1> HIDE DEF first, last
<1>10. first.openTime \in MinutesOf(S) /\ last.openTime \in MinutesOf(S)
  BY <1>2, <1>8, <1>9 DEF KlinesEach
<1>11. \E k \in all : k.openTime = first.openTime /\ k.open = docs[e[1]].price
  BY <1>5, <1>8, <1>10
<1>12. \E k \in all : k.openTime = last.openTime /\ k.close = docs[e[2]].price
  BY <1>5, <1>9, <1>10
<1>13. /\ Summed(ks, LAMBDA k : k.volume) = V
       /\ Summed(ks, LAMBDA k : k.quotes) = Q
       /\ Summed(ks, LAMBDA k : k.trades) = Cardinality(S)
  BY <1>1, <1>2, KlinesAddUp
<1>14. Highest({k.high : k \in ks}) = hi /\ Lowest({k.low : k \in ks}) = lo
  BY <1>1, <1>2, <1>4, KlinesExtremes
<1>15. V \in Nat \ {0} /\ Q \in Int
  <2>1. V \in Nat /\ (V = 0 <=> S = {})
    BY <1>1, VolumeType
  <2>2. S \in SUBSET S
    OBVIOUS
  <2>3. Q \in Int
    BY <1>1, <2>2, PartSums
  <2> QED
    BY <1>4, <2>1, <2>3
<1>16. \A i \in S : docs[i].price \in Prices
  BY <1>1, Places
<1>17. /\ \E i \in S : hi = docs[i].price
       /\ \A i \in S : docs[i].price.coef <= hi.coef
       /\ \E i \in S : lo = docs[i].price
       /\ \A i \in S : lo.coef <= docs[i].price.coef
  BY <1>1, <1>4, ExtremesOf
<1> HIDE DEF hi, lo
<1>18. hi.coef \in Int /\ lo.coef \in Int
  BY <1>16, <1>17, PriceType
<1>19. lo.coef * V <= Q /\ Q <= hi.coef * V
  BY <1>1, <1>17, <1>18, QuotesBetween
<1>20. e[1] \in S
  BY <1>3 DEF Earliest
<1> DEFINE x == docs[e[1]].price.exp
<1>21. x \in Int /\ PriceUnit(x) > 0 /\ AverageUnit(x) > 0
  BY <1>16, <1>20, PriceType, UnitAssumption
<1> HIDE DEF V, Q, x
<1>22. NearPrice(Rounded(Q, V, x, 4), lo.coef, hi.coef, x)
  BY <1>15, <1>18, <1>19, <1>21, RoundedNear
<1>23. /\ s.volume = V /\ s.quoteVolume = Q /\ s.count = Cardinality(S)
       /\ s.highPrice = hi /\ s.lowPrice = lo
       /\ s.openPrice = docs[e[1]].price /\ s.lastPrice = docs[e[2]].price
       /\ s.openTime = docs[e[1]].createdAt /\ s.closeTime = docs[e[2]].createdAt
       /\ s.weightedAvgPrice = Rounded(Q, V, x, 4) /\ s.openPrice.exp = x
  BY <1>4 DEF StatisticsTell, V, Q, hi, lo, x
<1>24. NearPrice(s.weightedAvgPrice, s.lowPrice.coef, s.highPrice.coef, s.openPrice.exp)
  BY <1>22, <1>23
<1> QED
  BY <1>6, <1>8, <1>9, <1>11, <1>12, <1>13, <1>14, <1>23, <1>24 DEF SumsUp, first, last, ks

\* The same, in the words of the property.
LEMMA InvSumsUp ==
    ASSUME Inv
    PROVE  StatisticsSumUpKlines
<1> DEFINE All(s, from) == {k \in Klines(docs, from, End) : k.symbol = s.symbol}
<1>1. ASSUME NEW from \in Times, NEW s \in Statistics(docs, Markets, from)
      PROVE  LET all == All(s, from)
                 ks == EachOf(all)
             IN  SumsUp(s, all, ks, FirstOf(ks), LastOf(ks))
  <2>1. PICK m \in Markets : /\ Since(m, from) # {}
                             /\ \E e \in Ends(docs, Since(m, from)) :
                                   StatisticsTell(s, m, Since(m, from), e)
    BY StatisticsAre
  <2>2. PICK e \in Ends(docs, Since(m, from)) : StatisticsTell(s, m, Since(m, from), e)
    BY <2>1
  <2>3. s.symbol = m
    BY <2>2 DEF StatisticsTell
  <2>4. All(s, from) = KlinesSince(m, from)
    BY <2>3 DEF KlinesSince
  <2> QED
    BY <2>1, <2>2, <2>4, StatisticsOfMarket
<1> QED
  BY <1>1, Zenon DEF StatisticsSumUpKlines, SumsUp, EachOf, FirstOf, LastOf

\* StatisticsSumUpKlines: the 24 hour statistics of a market are what its klines add up to,
\* and its average price lies between the lowest and the highest.
THEOREM StatisticsSumUpKlinesHolds == Spec => []StatisticsSumUpKlines
BY InvHolds, InvSumsUp, PTL

===============================================================================
