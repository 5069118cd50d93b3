--------------------------- MODULE Metrics_proofs ---------------------------
(***************************************************************************)
(* What the operators of Metrics return, for any names, gauge values and   *)
(* width of a counter, and what a batch of updates comes to, which is a    *)
(* fold of the community modules.  How the fold proceeds has to be proved  *)
(* by induction: the theorems of the library that take an operator cannot  *)
(* be cited, so it goes by the least element of a set of numbers (WFMin).  *)
(***************************************************************************)
EXTENDS Metrics, SequencesExt, WellFoundedInduction, TLAPS

\* A sum of counters is wrapped to a counter, whatever it is: int64 addition
\* (CounterMap[name] += delta) cannot leave the 64 bits.
LEMMA WrapType ==
    ASSUME NEW x \in Int
    PROVE  Wrap(x) \in Counter
<1>1. HalfRange \in Nat \ {0}
  BY MetricsAssumption
<1>2. 2 * HalfRange \in Nat \ {0}
  BY <1>1
<1>3. (x + HalfRange) % (2 * HalfRange) \in 0 .. 2 * HalfRange - 1
  BY <1>1, <1>2
<1> QED
  BY <1>1, <1>3 DEF Wrap, Counter

\* Assigning an element of a Go map keeps it a map of the same type.
LEMMA PutType ==
    ASSUME NEW V, NEW map \in MapTo(V), NEW n \in Names, NEW v \in V
    PROVE  /\ Put(map, n, v) \in MapTo(V)
           /\ n \in DOMAIN Put(map, n, v)
           /\ Put(map, n, v)[n] = v
<1>1. PICK D \in SUBSET Names : map \in [D -> V]
  BY DEF MapTo
<1>2. Put(map, n, v) \in [D \cup {n} -> V]
  BY <1>1 DEF Put
<1>3. D \cup {n} \in SUBSET Names
  OBVIOUS
<1> QED
  BY <1>1, <1>2, <1>3 DEF MapTo, Put

LEMMA MapElement ==
    ASSUME NEW V, NEW map \in MapTo(V), NEW n \in DOMAIN map
    PROVE  map[n] \in V
  BY DEF MapTo

LEMMA EmptyMapType ==
    ASSUME NEW V
    PROVE  EmptyMap \in MapTo(V)
<1>1. EmptyMap \in [{} -> V]
  BY DEF EmptyMap
<1> QED
  BY <1>1 DEF MapTo

LEMMA EmptySnapshotType == EmptySnapshot \in Snapshot
  BY EmptyMapType DEF EmptySnapshot, Snapshot

\* Reading a counter that is missing gives zero, so that an update needs no
\* case of its own for the first value.
LEMMA LookupType ==
    ASSUME NEW map \in MapTo(Counter), NEW n
    PROVE  Lookup(map, n) \in Counter
<1>1. 0 \in Counter
  BY MetricsAssumption DEF Counter
<1> QED
  BY <1>1, MapElement DEF Lookup

\* One update leaves well-formed maps, and its answer is a metric of the same
\* type and name.
LEMMA ApplyType ==
    ASSUME NEW s \in Snapshot, NEW m \in Metric
    PROVE  /\ Apply(s, m) \in Snapshot
           /\ Current(Apply(s, m), m) \in Metric
<1>1. CASE m.Type = "gauge"
  <2>1. m \in [Type: {"gauge"}, Name: Names, Value: GaugeValues]
    BY <1>1 DEF Metric
  <2>2. s.gauge \in MapTo(GaugeValues) /\ s.counter \in MapTo(Counter)
    BY DEF Snapshot
  <2>3. Apply(s, m) = [s EXCEPT !.gauge = Put(s.gauge, m.Name, m.Value)]
    BY <1>1 DEF Apply
  <2>4. /\ Put(s.gauge, m.Name, m.Value) \in MapTo(GaugeValues)
        /\ Put(s.gauge, m.Name, m.Value)[m.Name] = m.Value
    BY <2>1, <2>2, PutType
  <2>5. Apply(s, m) \in Snapshot /\ Apply(s, m).gauge[m.Name] = m.Value
    BY <2>2, <2>3, <2>4 DEF Snapshot
  <2> QED
    BY <1>1, <2>1, <2>5 DEF Current, Metric
<1>2. CASE m.Type # "gauge"
  <2>1. m \in [Type: {"counter"}, Name: Names, Delta: Counter]
    BY <1>2 DEF Metric
  <2>2. s.gauge \in MapTo(GaugeValues) /\ s.counter \in MapTo(Counter)
    BY DEF Snapshot
  <2> DEFINE sum == Wrap(Lookup(s.counter, m.Name) + m.Delta)
  <2>3. sum \in Counter
    <3>1. Lookup(s.counter, m.Name) \in Counter /\ m.Delta \in Counter
      BY <2>1, <2>2, LookupType
    <3>2. Lookup(s.counter, m.Name) + m.Delta \in Int
      BY <3>1, MetricsAssumption DEF Counter
    <3> QED
      BY <3>2, WrapType
  <2>4. Apply(s, m) = [s EXCEPT !.counter = Put(s.counter, m.Name, sum)]
    BY <1>2 DEF Apply
  <2>5. /\ Put(s.counter, m.Name, sum) \in MapTo(Counter)
        /\ Put(s.counter, m.Name, sum)[m.Name] = sum
    BY <2>1, <2>2, <2>3, PutType
  <2>6. Apply(s, m) \in Snapshot /\ Apply(s, m).counter[m.Name] = sum
    BY <2>2, <2>4, <2>5 DEF Snapshot
  <2>7. Current(Apply(s, m), m) = [m EXCEPT !.Delta = sum]
    BY <1>2, <2>6 DEF Current
  <2> HIDE DEF sum
  <2> QED
    BY <2>1, <2>3, <2>6, <2>7 DEF Metric
<1> QED
  BY <1>1, <1>2

\* The current value of a metric the storage has is a metric.
LEMMA CurrentType ==
    ASSUME NEW s \in Snapshot, NEW m \in Metric, Has(s, m)
    PROVE  Current(s, m) \in Metric
<1>1. CASE m.Type = "gauge"
  <2>1. m \in [Type: {"gauge"}, Name: Names, Value: GaugeValues]
    BY <1>1 DEF Metric
  <2>2. s.gauge[m.Name] \in GaugeValues
    BY <1>1, MapElement DEF Has, Snapshot
  <2> QED
    BY <1>1, <2>1, <2>2 DEF Current, Metric
<1>2. CASE m.Type # "gauge"
  <2>1. m \in [Type: {"counter"}, Name: Names, Delta: Counter]
    BY <1>2 DEF Metric
  <2>2. s.counter[m.Name] \in Counter
    BY <1>2, MapElement DEF Has, Snapshot
  <2> QED
    BY <1>2, <2>1, <2>2 DEF Current, Metric
<1> QED
  BY <1>1, <1>2

----------------------------------------------------------------------------
(* A batch of updates.                                                     *)

\* Induction over the naturals, for a set: it can be cited with the set of
\* the numbers a fact holds of.
LEMMA SetInduction ==
    ASSUME NEW S \in SUBSET Nat, 0 \in S, \A n \in S : n + 1 \in S
    PROVE  S = Nat
<1> DEFINE T == Nat \ S
           R == OpToRel(<, Nat)
<1>1. SUFFICES ASSUME T # {} PROVE FALSE
  OBVIOUS
<1>2. PICK x \in T : \A y \in T : <<y, x>> \notin R
  <2>1. T \subseteq Nat /\ IsWellFoundedOn(R, Nat)
    BY NatLessThanWellFounded
  <2> HIDE DEF R, T
  <2> QED
    BY <1>1, <2>1, WFMin
<1>3. x - 1 \in T /\ x \in Nat
  <2>1. x \in Nat \ {0} /\ x - 1 \in Nat /\ (x - 1) + 1 = x
    OBVIOUS
  <2> QED
    BY <2>1
<1>4. <<x - 1, x>> \in R
  BY <1>3 DEF OpToRel
<1> QED
  BY <1>2, <1>3, <1>4

\* g is the function by which FoldLeft folds the updates m[1], ..., m[n] into
\* the maps s: of each set of indices, the largest is applied last.
FoldsBy(g, s, m, n) ==
    g = [I \in SUBSET (1 .. n) |->
            IF I = {} THEN s ELSE Apply(g[I \ {Max(I)}], m[Max(I)])]

LEMMA MaxIsLast ==
    ASSUME NEW n \in Nat, NEW I \in SUBSET (1 .. n), n \in I
    PROVE  Max(I) = n
<1>1. \A i \in I : n >= i
  OBVIOUS
<1>2. \A i \in I : i >= n => i = n
  OBVIOUS
<1> QED
  BY <1>1, <1>2 DEF Max

\* On the intervals that begin with 1, one more index is one more update.
Accumulates(g, s, m, n) ==
    g[{}] = s /\ \A i \in 1 .. n : g[1 .. i] = Apply(g[1 .. i - 1], m[i])

LEMMA FoldsAccumulate ==
    ASSUME NEW s, NEW m, NEW n \in Nat, NEW g, FoldsBy(g, s, m, n)
    PROVE  Accumulates(g, s, m, n)
<1>1. g[{}] = s
  BY DEF FoldsBy
<1>2. ASSUME NEW i \in 1 .. n PROVE g[1 .. i] = Apply(g[1 .. i - 1], m[i])
  <2>1. Max(1 .. i) = i
    BY MaxIsLast
  <2>2. i \in 1 .. i /\ 1 .. i \in SUBSET (1 .. n)
    OBVIOUS
  <2>3. (1 .. i) \ {i} = 1 .. i - 1
    OBVIOUS
  <2>4. g[1 .. i] = IF 1 .. i = {} THEN s ELSE Apply(g[(1 .. i) \ {Max(1 .. i)}], m[Max(1 .. i)])
    BY <2>2 DEF FoldsBy
  <2>5. 1 .. i # {}
    BY <2>2
  <2> QED
    BY ONLY <2>1, <2>3, <2>4, <2>5
<1> QED
  BY <1>1, <1>2 DEF Accumulates

LEMMA FoldsByExists ==
    ASSUME NEW s, NEW m, NEW n \in Nat
    PROVE  \E g : FoldsBy(g, s, m, n)
<1> DEFINE N == {k \in Nat : \E g : FoldsBy(g, s, m, k)}
<1>1. 0 \in N
  <2> DEFINE g == [I \in SUBSET (1 .. 0) |-> s]
  <2>1. SUBSET (1 .. 0) = {{}}
    OBVIOUS
  <2>2. FoldsBy(g, s, m, 0)
    BY <2>1 DEF FoldsBy
  <2> QED
    BY <2>2
<1>2. ASSUME NEW k \in N PROVE k + 1 \in N
  <2>1. PICK g : FoldsBy(g, s, m, k)
    OBVIOUS
  <2> DEFINE f == [I \in SUBSET (1 .. k + 1) |->
                      IF k + 1 \in I THEN Apply(g[I \ {k + 1}], m[k + 1]) ELSE g[I]]
  <2>2. ASSUME NEW I \in SUBSET (1 .. k + 1)
        PROVE  f[I] = IF I = {} THEN s ELSE Apply(f[I \ {Max(I)}], m[Max(I)])
    <3>1. CASE k + 1 \in I
      <4>1. Max(I) = k + 1 /\ I # {}
        BY <3>1, MaxIsLast
      <4>2. I \ {k + 1} \in SUBSET (1 .. k + 1) /\ k + 1 \notin I \ {k + 1}
        OBVIOUS
      <4>3. f[I \ {k + 1}] = g[I \ {k + 1}] /\ f[I] = Apply(g[I \ {k + 1}], m[k + 1])
        BY <3>1, <4>2
      <4> HIDE DEF f
      <4> QED
        BY <4>1, <4>3
    <3>2. CASE k + 1 \notin I
      <4>1. I \in SUBSET (1 .. k)
        BY <3>2
      <4>2. I \ {Max(I)} \in SUBSET (1 .. k + 1) /\ k + 1 \notin I \ {Max(I)}
        BY <3>2
      <4>3. f[I] = g[I] /\ f[I \ {Max(I)}] = g[I \ {Max(I)}]
        BY <3>2, <4>2
      <4>4. g[I] = IF I = {} THEN s ELSE Apply(g[I \ {Max(I)}], m[Max(I)])
        BY <2>1, <4>1 DEF FoldsBy
      <4> HIDE DEF f
      <4> QED
        BY <4>3, <4>4
    <3> QED
      BY <3>1, <3>2
  <2>3. FoldsBy(f, s, m, k + 1)
    <3>1. f = [I \in SUBSET (1 .. k + 1) |-> f[I]]
      OBVIOUS
    <3> HIDE DEF f
    <3> QED
      BY <2>2, <3>1 DEF FoldsBy
  <2> QED
    BY <2>3
<1>3. N = Nat
  <2> HIDE DEF N
  <2>1. N \in SUBSET Nat
    BY DEF N
  <2> QED
    BY <1>1, <1>2, <2>1, SetInduction
<1> QED
  BY <1>3

LEMMA AccumulateAlike ==
    ASSUME NEW s, NEW m, NEW n \in Nat, NEW g, Accumulates(g, s, m, n),
           NEW l, NEW k \in Nat, k >= n, NEW h, Accumulates(h, s, l, k),
           \A i \in 1 .. n : m[i] = l[i]
    PROVE  \A i \in 0 .. n : g[1 .. i] = h[1 .. i]
<1> DEFINE N == {i \in Nat : i <= n => g[1 .. i] = h[1 .. i]}
<1>a. g[{}] = s /\ \A i \in 1 .. n : g[1 .. i] = Apply(g[1 .. i - 1], m[i])
  BY DEF Accumulates
<1>b. h[{}] = s /\ \A i \in 1 .. k : h[1 .. i] = Apply(h[1 .. i - 1], l[i])
  BY DEF Accumulates
<1>1. 0 \in N
  <2>1. 1 .. 0 = {}
    OBVIOUS
  <2>2. g[1 .. 0] = s /\ h[1 .. 0] = s
    BY <2>1, <1>a, <1>b
  <2> QED
    BY <2>2
<1>2. ASSUME NEW i \in N PROVE i + 1 \in N
  <2>1. SUFFICES ASSUME i + 1 <= n PROVE g[1 .. i + 1] = h[1 .. i + 1]
    OBVIOUS
  <2>2. i \in Nat /\ i + 1 \in 1 .. n /\ i + 1 \in 1 .. k /\ (i + 1) - 1 = i
    BY <2>1
  <2>3. g[1 .. i] = h[1 .. i]
    BY <2>1, <2>2
  <2>4. g[1 .. i + 1] = Apply(g[1 .. (i + 1) - 1], m[i + 1])
    BY <1>a, <2>2
  <2>5. h[1 .. i + 1] = Apply(h[1 .. (i + 1) - 1], l[i + 1])
    BY <1>b, <2>2
  <2>6. m[i + 1] = l[i + 1]
    BY <2>2
  <2> QED
    BY ONLY <2>2, <2>3, <2>4, <2>5, <2>6
<1>3. N = Nat
  <2> HIDE DEF N
  <2>1. N \in SUBSET Nat
    BY DEF N
  <2> QED
    BY <1>1, <1>2, <2>1, SetInduction
<1> QED
  BY <1>3

\* FoldLeft ends with such a function.
LEMMA FoldAccumulates ==
    ASSUME NEW s, NEW m, NEW n \in Nat, DOMAIN m = 1 .. n
    PROVE  \E g : Accumulates(g, s, m, n) /\ FoldLeft(Apply, s, m) = g[1 .. n]
<1> DEFINE g == CHOOSE h : FoldsBy(h, s, m, n)
<1>1. FoldsBy(g, s, m, n)
  BY FoldsByExists
<1>2. FoldLeft(Apply, s, m) = g[1 .. n]
  BY DEF FoldLeft, MapThenFoldSet, FoldsBy
<1>3. Accumulates(g, s, m, n)
  <2> HIDE DEF g
  <2> QED
    BY <1>1, FoldsAccumulate
<1> QED
  BY <1>2, <1>3

\* The maps s after the first i updates of a batch.
FirstApplied(s, metrics, i) == FoldLeft(Apply, s, SubSeq(metrics, 1, i))

AppliedInOrder(s, metrics) ==
    /\ FirstApplied(s, metrics, 0) = s
    /\ \A i \in 1 .. Len(metrics) :
          FirstApplied(s, metrics, i) = Apply(FirstApplied(s, metrics, i - 1), metrics[i])

\* A batch is applied metric by metric, from the first: UpdateMetrics loops
\* over it.
LEMMA FoldApply ==
    ASSUME NEW s, NEW T, NEW metrics \in Seq(T)
    PROVE  AppliedInOrder(s, metrics)
<1> DEFINE first(i) == SubSeq(metrics, 1, i)
<1>1. ASSUME NEW i \in 0 .. Len(metrics)
      PROVE  DOMAIN first(i) = 1 .. i /\ \A j \in 1 .. i : first(i)[j] = metrics[j]
  OBVIOUS
<1> HIDE DEF first
<1>2. FoldLeft(Apply, s, first(0)) = s
  <2>1. DOMAIN first(0) = 1 .. 0
    BY <1>1
  <2>2. PICK g : Accumulates(g, s, first(0), 0) /\ FoldLeft(Apply, s, first(0)) = g[1 .. 0]
    BY <2>1, FoldAccumulates
  <2>3. 1 .. 0 = {}
    OBVIOUS
  <2> QED
    BY <2>2, <2>3 DEF Accumulates
<1>3. ASSUME NEW i \in 1 .. Len(metrics)
      PROVE  FoldLeft(Apply, s, first(i)) = Apply(FoldLeft(Apply, s, first(i - 1)), metrics[i])
  <2>1. i \in Nat /\ i - 1 \in Nat /\ i >= i - 1 /\ i \in 1 .. i
        /\ i \in 0 .. Len(metrics) /\ i - 1 \in 0 .. Len(metrics) /\ i - 1 \in 0 .. i - 1
    OBVIOUS
  <2>2. DOMAIN first(i) = 1 .. i /\ DOMAIN first(i - 1) = 1 .. i - 1
    BY <1>1, <2>1
  <2>3. PICK g : Accumulates(g, s, first(i), i) /\ FoldLeft(Apply, s, first(i)) = g[1 .. i]
    BY <2>1, <2>2, FoldAccumulates
  <2>4. PICK h : /\ Accumulates(h, s, first(i - 1), i - 1)
                 /\ FoldLeft(Apply, s, first(i - 1)) = h[1 .. i - 1]
    BY <2>1, <2>2, FoldAccumulates
  <2>5. \A j \in 1 .. i - 1 : first(i - 1)[j] = first(i)[j]
    <3>1. ASSUME NEW j \in 1 .. i - 1 PROVE first(i - 1)[j] = metrics[j]
      BY <1>1, <2>1
    <3>2. ASSUME NEW j \in 1 .. i - 1 PROVE first(i)[j] = metrics[j]
      BY <1>1, <2>1
    <3> QED
      BY <3>1, <3>2
  <2>6. h[1 .. i - 1] = g[1 .. i - 1]
    <3>1. \A j \in 0 .. i - 1 : h[1 .. j] = g[1 .. j]
      BY ONLY <2>1, <2>3, <2>4, <2>5, AccumulateAlike
    <3> QED
      BY ONLY <2>1, <3>1
  <2>7. g[1 .. i] = Apply(g[1 .. i - 1], first(i)[i])
    <3>1. \A j \in 1 .. i : g[1 .. j] = Apply(g[1 .. j - 1], first(i)[j])
      BY ONLY <2>3 DEF Accumulates
    <3> QED
      BY ONLY <2>1, <3>1
  <2>8. first(i)[i] = metrics[i]
    BY <1>1, <2>1
  <2> QED
    BY <2>3, <2>4, <2>6, <2>7, <2>8
<1> QED
  BY <1>2, <1>3 DEF first, FirstApplied, AppliedInOrder

\* A batch of well-formed metrics leaves well-formed maps.
LEMMA FoldType ==
    ASSUME NEW s \in Snapshot, NEW metrics \in Seq(Metric), NEW i \in 0 .. Len(metrics)
    PROVE  FirstApplied(s, metrics, i) \in Snapshot
<1> DEFINE N == {k \in Nat : k <= Len(metrics) => FirstApplied(s, metrics, k) \in Snapshot}
<1>a. AppliedInOrder(s, metrics)
  BY FoldApply
<1>b. FirstApplied(s, metrics, 0) = s
  BY <1>a DEF AppliedInOrder
<1>c. ASSUME NEW k \in 1 .. Len(metrics)
      PROVE  FirstApplied(s, metrics, k) = Apply(FirstApplied(s, metrics, k - 1), metrics[k])
  BY <1>a DEF AppliedInOrder
<1>1. 0 \in N
  BY <1>b
<1>2. ASSUME NEW k \in N PROVE k + 1 \in N
  <2>1. SUFFICES ASSUME k + 1 <= Len(metrics) PROVE FirstApplied(s, metrics, k + 1) \in Snapshot
    OBVIOUS
  <2>2. k \in Nat /\ k + 1 \in 1 .. Len(metrics) /\ (k + 1) - 1 = k /\ k <= Len(metrics)
    BY <2>1
  <2>3. FirstApplied(s, metrics, k) \in Snapshot
    BY <2>2
  <2>4. /\ FirstApplied(s, metrics, k + 1) = Apply(FirstApplied(s, metrics, k), metrics[k + 1])
        /\ metrics[k + 1] \in Metric
    BY <1>c, <2>2
  <2> HIDE DEF N
  <2> QED
    BY <2>3, <2>4, ApplyType
<1>3. N = Nat
  <2>1. N \in SUBSET Nat
    OBVIOUS
  <2> HIDE DEF N
  <2> QED
    BY <1>1, <1>2, <2>1, SetInduction
<1>4. i \in Nat /\ i <= Len(metrics)
  OBVIOUS
<1> QED
  BY <1>3, <1>4
============================================================================
