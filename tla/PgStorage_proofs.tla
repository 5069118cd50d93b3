-------------------------- MODULE PgStorage_proofs --------------------------
(***************************************************************************)
(* PgStorage, for any handlers, requests, pool, number of retries and of   *)
(* faults, names, values and width of a counter.  PgInv is the inductive   *)
(* invariant: the type invariant; what a handler runs, how its last        *)
(* attempt ended and how often it was committed, by its program counter;   *)
(* who has changed which rows; and what a transaction has come to, on the  *)
(* rows committed by now.                                                  *)
(***************************************************************************)
EXTENDS PgStorage, Metrics_proofs, FiniteSetTheorems

\* A handler runs the queries of the call it was given.
CallInv ==
    \A h \in Handlers :
        /\ pc[h] # "idle" => call[h] \in Requests
        /\ pc[h] = "idle" => call[h] = NoCall
        /\ pc[h] = "dump" => call[h].op = "GetMetricsByTypes"

\* There is an error only between the end of an attempt and the next one.
ErrInv ==
    \A h \in Handlers :
        /\ pc[h] \notin {"rollback", "ended"} => err[h] = "none"
        /\ err[h] = "noRows" => call[h].op = "GetMetric"

\* An attempt is committed at most once, and a call that replies was.
AttemptInv ==
    \A h \in Handlers :
        /\ pc[h] = "idle" => took[h] = 0
        /\ pc[h] \in {"begin", "query", "dump", "commit"} => took[h] <= retries[h]
        /\ took[h] <= retries[h] + 1
        /\ pc[h] = "reply" => took[h] >= 1

Apart(v, w) ==
    /\ \A n \in DOMAIN v.gauge : n \notin DOMAIN w.gauge
    /\ \A n \in DOMAIN v.counter : n \notin DOMAIN w.counter

\* Only the transaction of an update has changed rows, and no two of them the
\* same one.
RowInv ==
    /\ \A g, h \in Handlers : g # h => Apart(written[g], written[h])
    /\ \A h \in Handlers :
          pc[h] \notin {"query", "commit", "rollback"} \/ ~IsUpdate(call[h])
             => written[h] = EmptySnapshot

\* The metrics of h's batch that have been upserted: their rows are h's, the
\* statements of h see the committed rows with these metrics applied, and each
\* was answered with its value right after it was applied to them.
BatchInv(h) ==
    /\ Len(result[h]) <= Len(call[h].metrics)
    /\ pc[h] = "query" => Len(result[h]) < Len(call[h].metrics)
    /\ pc[h] = "commit" => Len(result[h]) = Len(call[h].metrics)
    /\ Seen(h) = FirstApplied(tables, call[h].metrics, Len(result[h]))
    /\ \A i \in 1 .. Len(result[h]) :
          /\ Has(written[h], call[h].metrics[i])
          /\ result[h][i] = Current(FirstApplied(tables, call[h].metrics, i),
                                    call[h].metrics[i])

TxInv ==
    \A h \in Handlers : pc[h] \in {"query", "commit"} /\ IsUpdate(call[h]) => BatchInv(h)

\* A read has no answer before its last statement; the maps of a dump have
\* only rows that were committed.
ReadInv ==
    \A h \in Handlers :
        /\ pc[h] = "idle" => result[h] = <<>> /\ work[h] = EmptySnapshot
        /\ pc[h] \in {"query", "dump"} /\ ~IsUpdate(call[h]) => result[h] = <<>>
        /\ call[h].op = "GetMetricsByTypes" \/ err[h] = "noRows" => result[h] = <<>>
        /\ DOMAIN work[h].gauge \subseteq DOMAIN tables.gauge
        /\ DOMAIN work[h].counter \subseteq DOMAIN tables.counter

PgInv ==
    /\ PgTypeOK /\ IsFiniteSet(Connected)
    /\ CallInv /\ ErrInv /\ AttemptInv /\ RowInv /\ TxInv /\ ReadInv

----------------------------------------------------------------------------
(* The rows of a transaction over the committed ones.                      *)

\* What the rows are laid over stays well-formed, and no row is lost.
LEMMA OverType ==
    ASSUME NEW V, NEW f \in MapTo(V), NEW g \in MapTo(V)
    PROVE  Over(f, g) \in MapTo(V) /\ DOMAIN g \subseteq DOMAIN Over(f, g)
<1>1. PICK D \in SUBSET Names : f \in [D -> V]
  BY DEF MapTo
<1>2. PICK E \in SUBSET Names : g \in [E -> V]
  BY DEF MapTo
<1>3. Over(f, g) \in [D \cup E -> V]
  BY <1>1, <1>2 DEF Over
<1>4. D \cup E \in SUBSET Names
  OBVIOUS
<1> QED
  BY <1>2, <1>3, <1>4 DEF MapTo

LEMMA OverlayType ==
    ASSUME NEW s \in Snapshot, NEW rows \in Snapshot
    PROVE  /\ Overlay(s, rows) \in Snapshot
           /\ DOMAIN s.gauge \subseteq DOMAIN Overlay(s, rows).gauge
           /\ DOMAIN s.counter \subseteq DOMAIN Overlay(s, rows).counter
  BY OverType DEF Overlay, Snapshot

\* A map is the function of its entries.
LEMMA MapIsFunction ==
    ASSUME NEW V, NEW f \in MapTo(V)
    PROVE  f = [n \in DOMAIN f |-> f[n]]
  BY DEF MapTo

LEMMA OverEmpty ==
    ASSUME NEW V, NEW g \in MapTo(V)
    PROVE  Over(EmptyMap, g) = g
<1>1. g = [n \in DOMAIN g |-> g[n]] /\ DOMAIN EmptyMap = {}
  BY MapIsFunction DEF EmptyMap
<1> QED
  BY <1>1 DEF Over

LEMMA OverlayEmpty ==
    ASSUME NEW s \in Snapshot
    PROVE  Overlay(s, EmptySnapshot) = s
<1>1. Over(EmptyMap, s.gauge) = s.gauge /\ Over(EmptyMap, s.counter) = s.counter
  BY OverEmpty DEF Snapshot
<1>2. s = [gauge |-> s.gauge, counter |-> s.counter]
  BY DEF Snapshot
<1> QED
  BY ONLY <1>1, <1>2 DEF Overlay, EmptySnapshot

\* Rows over all that were there before are what is read.
LEMMA OverAll ==
    ASSUME NEW V, NEW f \in MapTo(V), NEW g, DOMAIN g \subseteq DOMAIN f
    PROVE  Over(f, g) = f
<1>1. f = [n \in DOMAIN f |-> f[n]]
  BY MapIsFunction
<1>2. DOMAIN f \cup DOMAIN g = DOMAIN f
  OBVIOUS
<1> QED
  BY <1>1, <1>2 DEF Over

\* Rows of two transactions that have none in common, in either order.
LEMMA OverSwap ==
    ASSUME NEW f, NEW g, NEW e, \A n \in DOMAIN f : n \notin DOMAIN g
    PROVE  Over(f, Over(g, e)) = Over(g, Over(f, e))
  BY DEF Over

LEMMA OverlaySwap ==
    ASSUME NEW s, NEW v, NEW w, Apart(v, w)
    PROVE  Overlay(Overlay(s, v), w) = Overlay(Overlay(s, w), v)
<1>1. Over(w.gauge, Over(v.gauge, s.gauge)) = Over(v.gauge, Over(w.gauge, s.gauge))
  BY OverSwap DEF Apart
<1>2. Over(w.counter, Over(v.counter, s.counter)) = Over(v.counter, Over(w.counter, s.counter))
  BY OverSwap DEF Apart
<1> QED
  BY ONLY <1>1, <1>2 DEF Overlay

\* An assignment to a row that is not laid over.
LEMMA OverPut ==
    ASSUME NEW f, NEW g, NEW n, NEW x, n \notin DOMAIN f
    PROVE  Over(f, Put(g, n, x)) = Put(Over(f, g), n, x)
  BY DEF Over, Put

\* An assignment to a row of the transaction.
LEMMA PutOver ==
    ASSUME NEW f, NEW g, NEW n, NEW x
    PROVE  Over(Put(f, n, x), g) = Put(Over(f, g), n, x)
  BY DEF Over, Put

\* The row that an upsert writes is the update, applied to what it sees.
LEMMA UpsertIsApply ==
    ASSUME NEW s \in Snapshot, NEW w \in Snapshot, NEW m \in Metric
    PROVE  LET row == Current(Apply(Overlay(s, w), m), m)
           IN  /\ SetRow(w, row) \in Snapshot
               /\ Overlay(s, SetRow(w, row)) = Apply(Overlay(s, w), m)
               /\ Has(SetRow(w, row), m)
               /\ \A k : Has(w, k) => Has(SetRow(w, row), k)
               /\ \A v \in Snapshot : Apart(v, w) /\ ~Has(v, m) => Apart(v, SetRow(w, row))
<1> DEFINE o   == Overlay(s, w)
           row == Current(Apply(o, m), m)
<1>0. /\ s.gauge \in MapTo(GaugeValues) /\ s.counter \in MapTo(Counter)
      /\ w.gauge \in MapTo(GaugeValues) /\ w.counter \in MapTo(Counter)
      /\ o \in Snapshot /\ s = [gauge |-> s.gauge, counter |-> s.counter]
      /\ w = [gauge |-> w.gauge, counter |-> w.counter]
  BY OverlayType DEF Snapshot
<1>1. row \in Metric
  BY <1>0, ApplyType
<1>a. CASE m.Type = "gauge"
  <2>1. m \in [Type: {"gauge"}, Name: Names, Value: GaugeValues]
    BY <1>a DEF Metric
  <2>2. Apply(o, m) = [gauge |-> Put(Over(w.gauge, s.gauge), m.Name, m.Value),
                       counter |-> Over(w.counter, s.counter)]
    BY <1>a DEF Apply, Overlay
  <2>3. row = m
    <3>1. Apply(o, m).gauge[m.Name] = m.Value
      BY <2>2 DEF Put
    <3>2. row = [m EXCEPT !.Value = m.Value]
      BY <1>a, <3>1 DEF Current
    <3> QED
      BY <2>1, <3>2
  <2>4. SetRow(w, row) = [gauge |-> Put(w.gauge, m.Name, m.Value), counter |-> w.counter]
    BY <1>0, <1>a, <2>3 DEF SetRow
  <2>5. Put(w.gauge, m.Name, m.Value) \in MapTo(GaugeValues)
    BY <1>0, <2>1, PutType
  <2>6. Overlay(s, SetRow(w, row)) = Apply(o, m)
    BY <2>2, <2>4, PutOver DEF Overlay
  <2>7. DOMAIN Put(w.gauge, m.Name, m.Value) = DOMAIN w.gauge \cup {m.Name}
    BY DEF Put
  <2> HIDE DEF row, o
  <2> QED
    BY <1>0, <1>a, <2>4, <2>5, <2>6, <2>7 DEF Snapshot, Has, Apart, row, o
<1>b. CASE m.Type # "gauge"
  <2>1. m \in [Type: {"counter"}, Name: Names, Delta: Counter]
    BY <1>b DEF Metric
  <2> DEFINE sum == Wrap(Lookup(Over(w.counter, s.counter), m.Name) + m.Delta)
  <2>2. Apply(o, m) = [gauge |-> Over(w.gauge, s.gauge),
                       counter |-> Put(Over(w.counter, s.counter), m.Name, sum)]
    BY <1>b DEF Apply, Overlay
  <2> HIDE DEF sum
  <2>3. row.Type = "counter" /\ row.Name = m.Name /\ row.Delta = sum
    <3>1. Apply(o, m).counter[m.Name] = sum
      BY <2>2 DEF Put
    <3>2. row = [m EXCEPT !.Delta = sum]
      BY <1>b, <3>1 DEF Current
    <3> QED
      BY <2>1, <3>2
  <2>4. SetRow(w, row) = [gauge |-> w.gauge, counter |-> Put(w.counter, m.Name, sum)]
    <3> HIDE DEF row
    <3> QED
      BY <1>0, <2>3 DEF SetRow
  <2>5. Put(w.counter, m.Name, sum) \in MapTo(Counter)
    <3>1. row.Delta \in Counter
      <4> HIDE DEF row
      <4> QED
        BY <1>1, <2>3 DEF Metric
    <3> QED
      BY <1>0, <2>1, <2>3, <3>1, PutType
  <2>6. Overlay(s, SetRow(w, row)) = Apply(o, m)
    BY <2>2, <2>4, PutOver DEF Overlay
  <2>7. DOMAIN Put(w.counter, m.Name, sum) = DOMAIN w.counter \cup {m.Name}
    BY DEF Put
  <2> HIDE DEF row, o
  <2> QED
    BY <1>0, <1>b, <2>4, <2>5, <2>6, <2>7 DEF Snapshot, Has, Apart, row, o
<1> QED
  BY <1>a, <1>b

\* An update of a row that another transaction has not changed comes to the
\* same before and after that transaction is committed.
LEMMA ApplyBeside ==
    ASSUME NEW s \in Snapshot, NEW w \in Snapshot, NEW m \in Metric, ~Has(w, m)
    PROVE  /\ Apply(Overlay(s, w), m) = Overlay(Apply(s, m), w)
           /\ Has(s, m) => Current(Overlay(s, w), m) = Current(s, m)
<1>0. /\ s.gauge \in MapTo(GaugeValues) /\ s.counter \in MapTo(Counter)
      /\ s = [gauge |-> s.gauge, counter |-> s.counter]
  BY DEF Snapshot
<1>a. CASE m.Type = "gauge"
  <2>1. m.Name \notin DOMAIN w.gauge
    BY <1>a DEF Has
  <2>2. Over(w.gauge, Put(s.gauge, m.Name, m.Value)) = Put(Over(w.gauge, s.gauge), m.Name, m.Value)
    BY <2>1, OverPut
  <2>3. Apply(s, m) = [gauge |-> Put(s.gauge, m.Name, m.Value), counter |-> s.counter]
    BY <1>0, <1>a DEF Apply
  <2>4. Apply(Overlay(s, w), m) = [gauge |-> Put(Over(w.gauge, s.gauge), m.Name, m.Value),
                                   counter |-> Over(w.counter, s.counter)]
    BY <1>a DEF Apply, Overlay
  <2>5. Apply(Overlay(s, w), m) = Overlay(Apply(s, m), w)
    BY <2>2, <2>3, <2>4 DEF Overlay
  <2>6. Has(s, m) => Current(Overlay(s, w), m) = Current(s, m)
    BY <1>0, <1>a, <2>1 DEF Has, Current, Overlay, Over
  <2> QED
    BY <2>5, <2>6
<1>b. CASE m.Type # "gauge"
  <2>1. m.Name \notin DOMAIN w.counter
    BY <1>b DEF Has
  <2> DEFINE sum == Wrap(Lookup(s.counter, m.Name) + m.Delta)
  <2>2. Over(w.counter, Put(s.counter, m.Name, sum)) = Put(Over(w.counter, s.counter), m.Name, sum)
    BY <2>1, OverPut
  <2>3. Apply(s, m) = [gauge |-> s.gauge, counter |-> Put(s.counter, m.Name, sum)]
    BY <1>0, <1>b DEF Apply
  <2>4. Apply(Overlay(s, w), m) = [gauge |-> Over(w.gauge, s.gauge),
                                   counter |-> Put(Over(w.counter, s.counter), m.Name, sum)]
    <3>1. Lookup(Over(w.counter, s.counter), m.Name) = Lookup(s.counter, m.Name)
      BY <2>1 DEF Lookup, Over
    <3> QED
      BY <1>b, <3>1 DEF Apply, Overlay
  <2>5. Apply(Overlay(s, w), m) = Overlay(Apply(s, m), w)
    BY <2>2, <2>3, <2>4 DEF Overlay
  <2>6. Has(s, m) => Current(Overlay(s, w), m) = Current(s, m)
    <3>1. Has(s, m) => Overlay(s, w).counter[m.Name] = s.counter[m.Name]
      BY <1>b, <2>1 DEF Has, Overlay, Over
    <3> QED
      BY <1>b, <3>1 DEF Current
  <2> QED
    BY <2>5, <2>6
<1> QED
  BY <1>a, <1>b

LEMMA ApplyHas ==
    ASSUME NEW s \in Snapshot, NEW m
    PROVE  Has(Apply(s, m), m)
  BY DEF Has, Apply, Put, Snapshot

\* The same of a batch, and of its answers.
LEMMA BatchBeside ==
    ASSUME NEW s \in Snapshot, NEW w \in Snapshot, NEW metrics \in Seq(Metric),
           NEW n \in 0 .. Len(metrics), \A i \in 1 .. n : ~Has(w, metrics[i])
    PROVE  /\ FirstApplied(Overlay(s, w), metrics, n) = Overlay(FirstApplied(s, metrics, n), w)
           /\ \A i \in 1 .. n : Current(FirstApplied(Overlay(s, w), metrics, i), metrics[i])
                                  = Current(FirstApplied(s, metrics, i), metrics[i])
<1> DEFINE old(i) == FirstApplied(s, metrics, i)
           new(i) == FirstApplied(Overlay(s, w), metrics, i)
           N == {i \in Nat : i <= n => new(i) = Overlay(old(i), w)}
<1>1. /\ old(0) = s /\ new(0) = Overlay(s, w)
      /\ \A i \in 1 .. Len(metrics) : /\ old(i) = Apply(old(i - 1), metrics[i])
                                      /\ new(i) = Apply(new(i - 1), metrics[i])
  <2>1. AppliedInOrder(s, metrics) /\ AppliedInOrder(Overlay(s, w), metrics)
    BY FoldApply
  <2> QED
    BY <2>1 DEF AppliedInOrder
<1>2. \A i \in 0 .. Len(metrics) : old(i) \in Snapshot
  BY FoldType
<1>a. n \in Nat /\ Len(metrics) \in Nat /\ n <= Len(metrics)
      /\ \A i \in 1 .. Len(metrics) : metrics[i] \in Metric
  OBVIOUS
<1> HIDE DEF old, new
<1>3. 0 \in N
  BY <1>1
<1>4. ASSUME NEW i \in N PROVE i + 1 \in N
  <2>1. SUFFICES ASSUME i + 1 <= n PROVE new(i + 1) = Overlay(old(i + 1), w)
    OBVIOUS
  <2>2. /\ i \in 0 .. Len(metrics) /\ i + 1 \in 1 .. Len(metrics) /\ i + 1 \in 1 .. n
        /\ (i + 1) - 1 = i /\ i <= n
    BY <1>a, <2>1
  <2>3. old(i) \in Snapshot /\ metrics[i + 1] \in Metric /\ ~Has(w, metrics[i + 1])
    BY <1>2, <1>a, <2>2
  <2>4. Apply(Overlay(old(i), w), metrics[i + 1]) = Overlay(Apply(old(i), metrics[i + 1]), w)
    BY <2>3, ApplyBeside
  <2>5. new(i) = Overlay(old(i), w)
    BY <2>2
  <2>6. old(i + 1) = Apply(old(i), metrics[i + 1]) /\ new(i + 1) = Apply(new(i), metrics[i + 1])
    BY <1>1, <2>2
  <2> QED
    BY ONLY <2>4, <2>5, <2>6
<1>5. N = Nat
  <2>1. N \in SUBSET Nat
    OBVIOUS
  <2> HIDE DEF N
  <2> QED
    BY <1>3, <1>4, <2>1, SetInduction
<1>6. \A i \in 0 .. n : new(i) = Overlay(old(i), w)
  BY <1>5
<1>7. ASSUME NEW i \in 1 .. n PROVE Current(new(i), metrics[i]) = Current(old(i), metrics[i])
  <2>1. i \in 0 .. n /\ i \in 1 .. Len(metrics) /\ i \in 0 .. Len(metrics)
    BY <1>a
  <2>2. /\ old(i) \in Snapshot /\ metrics[i] \in Metric /\ ~Has(w, metrics[i])
        /\ old(i) = Apply(old(i - 1), metrics[i]) /\ new(i) = Overlay(old(i), w)
        /\ old(i - 1) \in Snapshot
    BY <1>a, <1>1, <1>2, <1>6, <2>1
  <2>3. Has(old(i), metrics[i])
    BY <2>2, ApplyHas
  <2> QED
    BY <2>2, <2>3, ApplyBeside
<1> QED
  BY <1>6, <1>7, <1>a DEF old, new

----------------------------------------------------------------------------
(* The initial state, and every action, establishes the invariant.         *)

LEMMA RequestType ==
    ASSUME NEW r \in Requests
    PROVE  /\ r.op \in {"GetMetric", "UpdateMetric", "UpdateMetrics", "GetMetricsByTypes"}
           /\ r.metrics \in Seq(Metric)
           /\ r.op \in {"GetMetric", "UpdateMetric"} => Len(r.metrics) = 1
  BY PgAssumption DEF AnyCall

LEMMA PgInitInv == PgInit => PgInv
<1> SUFFICES ASSUME PgInit PROVE PgInv
  OBVIOUS
<1>1. Connected = {}
  BY DEF PgInit, Connected
<1>2. IsFiniteSet(Connected) /\ Cardinality(Connected) = 0
  BY <1>1, FS_EmptySet
<1>3. PgTypeOK
  BY <1>2, PgAssumption, EmptySnapshotType DEF PgInit, PgTypeOK
<1> QED
  BY <1>2, <1>3, PgAssumption
  DEF PgInit, PgInv, CallInv, ErrInv, AttemptInv, RowInv, Apart, TxInv, ReadInv,
      EmptySnapshot, EmptyMap, IsUpdate, NoCall

\* The steps that give or take no connection.
LEMMA ConnectedStays ==
    ASSUME PgInv, Connected' = Connected, pool' = pool
    PROVE  IsFiniteSet(Connected') /\ Cardinality(Connected') <= pool'
  BY DEF PgInv, PgTypeOK

LEMMA CallKeeps ==
    ASSUME NEW h \in Handlers, PgInv, Call(h)
    PROVE  PgInv'
<1> USE DEF Call, Goto, PgInv, PgTypeOK
<1>1. Connected' = Connected
  BY DEF Connected
<1>2. PgTypeOK' /\ IsFiniteSet(Connected')
  BY <1>1, ConnectedStays
<1>3. CallInv' /\ ErrInv' /\ AttemptInv'
  BY DEF CallInv, ErrInv, AttemptInv
<1>4. RowInv'
  BY DEF RowInv
<1>5. TxInv'
  BY DEF TxInv, BatchInv, Seen
<1>6. ReadInv'
  BY DEF ReadInv, ErrInv
<1> QED
  BY <1>2, <1>3, <1>4, <1>5, <1>6

LEMMA ExpireKeeps ==
    ASSUME NEW h \in Handlers, PgInv, Expire(h)
    PROVE  PgInv'
<1> USE DEF Expire, PgInv, PgTypeOK
<1>1. Connected' = Connected
  BY DEF Connected
<1>2. PgTypeOK' /\ IsFiniteSet(Connected')
  BY <1>1, ConnectedStays, PgAssumption
<1> QED
  BY <1>2 DEF CallInv, ErrInv, AttemptInv, RowInv, TxInv, BatchInv, Seen, ReadInv

LEMMA BeginTxKeeps ==
    ASSUME NEW h \in Handlers, PgInv, BeginTx(h)
    PROVE  PgInv'
<1> USE DEF BeginTx, Goto, PgInv, PgTypeOK
<1>1. PgTypeOK' /\ IsFiniteSet(Connected')
  <2>1. Connected' = Connected \cup {h} /\ h \notin Connected
    BY DEF Connected
  <2>2. IsFiniteSet(Connected') /\ Cardinality(Connected') = Cardinality(Connected) + 1
    BY <2>1, FS_AddElement
  <2>3. Cardinality(Connected) \in Nat /\ pool \in Nat
    BY FS_CardinalityType, PgAssumption
  <2> QED
    BY <2>2, <2>3
<1>2. CallInv' /\ ErrInv' /\ AttemptInv'
  BY DEF CallInv, ErrInv, AttemptInv
<1>3. RowInv'
  BY DEF RowInv
<1>4. TxInv'
  <2>1. ASSUME NEW k \in Handlers, k # h, pc'[k] \in {"query", "commit"}, IsUpdate(call'[k])
        PROVE  BatchInv(k)'
    BY <2>1 DEF TxInv, BatchInv, Seen
  <2>2. ASSUME IsUpdate(call'[h]) PROVE BatchInv(h)'
    <3>1. call[h].metrics \in Seq(Metric) /\ result'[h] = <<>> /\ call' = call /\ tables' = tables
          /\ tables \in Snapshot
      BY RequestType DEF CallInv
    <3>2. written'[h] = EmptySnapshot
      BY DEF RowInv
    <3>3. Seen(h)' = tables
      BY <3>1, <3>2, OverlayEmpty DEF Seen
    <3>4. AppliedInOrder(tables, call[h].metrics)
      BY <3>1, FoldApply
    <3>5. FirstApplied(tables, call[h].metrics, 0) = tables
      BY <3>4 DEF AppliedInOrder
    <3>6. pc'[h] = IF call[h].metrics = <<>> THEN "commit" ELSE "query"
      BY <2>2
    <3>7. Len(result'[h]) = 0 /\ Len(call[h].metrics) \in Nat
          /\ (Len(call[h].metrics) = 0 <=> call[h].metrics = <<>>)
      BY <3>1
    <3> QED
      BY ONLY <3>1, <3>3, <3>5, <3>6, <3>7 DEF BatchInv
  <2> QED
    BY <2>1, <2>2 DEF TxInv
<1>5. ReadInv'
  BY DEF ReadInv, ErrInv
<1> QED
  BY <1>1, <1>2, <1>3, <1>4, <1>5

\* What the next upsert of a batch finds.
LEMMA UpsertFinds ==
    ASSUME NEW h \in Handlers, PgInv, Upserting(h)
    PROVE  /\ call[h].metrics \in Seq(Metric) /\ NextMetric(h) \in Metric
           /\ BatchInv(h) /\ Seen(h) \in Snapshot
           /\ Len(result[h]) + 1 \in 1 .. Len(call[h].metrics)
<1>1. /\ call[h].metrics \in Seq(Metric) /\ BatchInv(h)
      /\ result[h] \in Seq(Metric) /\ tables \in Snapshot /\ written[h] \in Snapshot
  BY RequestType DEF Upserting, PgInv, PgTypeOK, CallInv, TxInv
<1>2. Len(result[h]) < Len(call[h].metrics)
  BY <1>1 DEF Upserting, BatchInv
<1>3. Seen(h) \in Snapshot
  BY <1>1, OverlayType DEF Seen
<1>4. Len(result[h]) + 1 \in 1 .. Len(call[h].metrics)
  BY <1>1, <1>2
<1> QED
  BY <1>1, <1>3, <1>4 DEF NextMetric

LEMMA UpsertKeeps ==
    ASSUME NEW h \in Handlers, PgInv, Upsert(h)
    PROVE  PgInv'
<1> DEFINE m       == NextMetric(h)
           row     == Current(Apply(Seen(h), m), m)
           metrics == call[h].metrics
           n       == Len(result[h])
<1>1. /\ metrics \in Seq(Metric) /\ m \in Metric /\ BatchInv(h) /\ Seen(h) \in Snapshot
      /\ n + 1 \in 1 .. Len(metrics)
  BY UpsertFinds DEF Upsert
<1>2. /\ tables \in Snapshot /\ written \in [Handlers -> Snapshot]
      /\ result \in [Handlers -> Seq(Metric)] /\ n \in Nat
  BY DEF PgInv, PgTypeOK
<1>3. row \in Metric
  BY <1>1, ApplyType
<1>4. /\ SetRow(written[h], row) \in Snapshot
      /\ Overlay(tables, SetRow(written[h], row)) = Apply(Seen(h), m)
      /\ Has(SetRow(written[h], row), m)
      /\ \A k : Has(written[h], k) => Has(SetRow(written[h], row), k)
      /\ \A v \in Snapshot : Apart(v, written[h]) /\ ~Has(v, m) => Apart(v, SetRow(written[h], row))
  BY <1>1, <1>2, UpsertIsApply DEF Seen
<1>5. /\ written' = [written EXCEPT ![h] = SetRow(written[h], row)]
      /\ result' = [result EXCEPT ![h] = Append(result[h], row)]
      /\ pc' = [pc EXCEPT ![h] = IF Len(result'[h]) = Len(metrics) THEN "commit" ELSE "query"]
      /\ UNCHANGED <<tables, pool, call, work, err, retries, expired, faults, took>>
      /\ pc[h] = "query" /\ IsUpdate(call[h]) /\ \A g \in Handlers : ~WaitsFor(h, g)
  BY DEF Upsert, Goto, Upserting, RowIsFree
<1>6. /\ result'[h] \in Seq(Metric) /\ Len(result'[h]) = n + 1 /\ result'[h][n + 1] = row
      /\ \A i \in 1 .. n : result'[h][i] = result[h][i]
  <2>1. result[h] \in Seq(Metric) /\ result'[h] = Append(result[h], row)
    BY <1>2, <1>5
  <2> HIDE DEF row
  <2> QED
    BY ONLY <1>3, <2>1 DEF n
<1>7. m = metrics[n + 1]
  BY DEF NextMetric
<1> HIDE DEF row, m, metrics, n
<1>8. PgTypeOK' /\ IsFiniteSet(Connected')
  <2>1. Connected' = Connected
    BY <1>5 DEF Connected, PgInv, PgTypeOK
  <2>2. IsFiniteSet(Connected') /\ Cardinality(Connected') <= pool'
    BY <1>5, <2>1, ConnectedStays
  <2>3. /\ written' \in [Handlers -> Snapshot] /\ result' \in [Handlers -> Seq(Metric)]
    BY <1>2, <1>4, <1>5, <1>6
  <2> QED
    BY <1>5, <2>2, <2>3 DEF PgInv, PgTypeOK
<1>9. CallInv' /\ ErrInv' /\ AttemptInv'
  BY <1>5 DEF PgInv, PgTypeOK, CallInv, ErrInv, AttemptInv
<1>10. RowInv'
  <2>1. ASSUME NEW g \in Handlers, g # h
        PROVE  Apart(written'[g], written'[h]) /\ Apart(written'[h], written'[g])
    <3>1. Apart(written[g], written[h])
      BY <2>1 DEF PgInv, RowInv
    <3>2. ~Has(written[g], m)
      BY <1>5, <2>1 DEF WaitsFor, Upserting, m
    <3>3. Apart(written[g], SetRow(written[h], row))
      BY <1>2, <1>4, <3>1, <3>2
    <3>4. written'[g] = written[g] /\ written'[h] = SetRow(written[h], row)
      BY <1>2, <1>5, <2>1
    <3> QED
      BY <3>3, <3>4 DEF Apart
  <2>2. ASSUME NEW f \in Handlers, NEW g \in Handlers, f # g, f # h, g # h
        PROVE  Apart(written'[f], written'[g])
    BY <1>2, <1>5, <2>2 DEF PgInv, RowInv
  <2>3. ASSUME NEW g \in Handlers,
               pc'[g] \notin {"query", "commit", "rollback"} \/ ~IsUpdate(call'[g])
        PROVE  written'[g] = EmptySnapshot
    BY <1>2, <1>5, <2>3 DEF PgInv, PgTypeOK, RowInv
  <2> QED
    BY <2>1, <2>2, <2>3 DEF RowInv
<1>11. TxInv'
  <2>1. ASSUME NEW k \in Handlers, k # h, pc'[k] \in {"query", "commit"}, IsUpdate(call'[k])
        PROVE  BatchInv(k)'
    <3>1. /\ pc'[k] = pc[k] /\ written'[k] = written[k] /\ result'[k] = result[k]
          /\ call' = call /\ tables' = tables
      BY <1>5, <2>1 DEF PgInv, PgTypeOK
    <3>2. BatchInv(k)
      BY <2>1, <3>1 DEF PgInv, TxInv
    <3> QED
      BY ONLY <3>1, <3>2 DEF BatchInv, Seen
  <2>2. BatchInv(h)'
    <3>1. /\ pc'[h] = IF n + 1 = Len(metrics) THEN "commit" ELSE "query"
          /\ written'[h] = SetRow(written[h], row) /\ call' = call /\ tables' = tables
      BY <1>2, <1>5, <1>6 DEF PgInv, PgTypeOK
    <3>2. FirstApplied(tables, metrics, n + 1) = Apply(Seen(h), m)
      <4>1. AppliedInOrder(tables, metrics)
        BY <1>1, FoldApply
      <4>2. (n + 1) - 1 = n
        BY <1>2
      <4>3. FirstApplied(tables, metrics, n + 1) = Apply(FirstApplied(tables, metrics, n), m)
        BY <1>1, <1>7, <4>1, <4>2 DEF AppliedInOrder
      <4> QED
        BY <1>1, <4>3 DEF BatchInv, metrics, n
    <3>3. Seen(h)' = FirstApplied(tables, metrics, n + 1)
      BY <1>4, <3>1, <3>2 DEF Seen
    <3>4. ASSUME NEW i \in 1 .. n + 1
          PROVE  /\ Has(written'[h], metrics[i])
                 /\ result'[h][i] = Current(FirstApplied(tables, metrics, i), metrics[i])
      <4>1. CASE i = n + 1
        BY <1>4, <1>6, <1>7, <3>1, <3>2, <4>1 DEF row
      <4>2. CASE i # n + 1
        <5>1. i \in 1 .. n
          BY <1>2, <4>2
        <5>2. /\ Has(written[h], metrics[i])
              /\ result[h][i] = Current(FirstApplied(tables, metrics, i), metrics[i])
          BY <1>1, <5>1 DEF BatchInv, metrics, n
        <5> QED
          BY <1>4, <1>6, <3>1, <5>1, <5>2
      <4> QED
        BY <4>1, <4>2
    <3>5. Len(metrics) \in Nat /\ n + 1 <= Len(metrics)
      BY <1>1
    <3> QED
      BY ONLY <1>2, <1>6, <3>1, <3>3, <3>4, <3>5 DEF BatchInv, metrics
  <2> QED
    BY <2>1, <2>2 DEF TxInv
<1>12. ReadInv'
  BY <1>5, <1>2 DEF PgInv, PgTypeOK, ReadInv, ErrInv, IsUpdate
<1> QED
  BY <1>8, <1>9, <1>10, <1>11, <1>12 DEF PgInv

\* An attempt ends with an error: in a transaction, or before it began.
LEMMA AttemptFailsKeeps ==
    ASSUME NEW h \in Handlers, PgInv, NEW e \in Failures,
           \/ pc[h] \in {"query", "dump", "commit"} /\ Ends(h, "rollback", e)
           \/ pc[h] = "begin" /\ Ends(h, "ended", e),
           UNCHANGED <<tables, written, pool, call, result, retries, took>>,
           work' \in [Handlers -> Snapshot], expired' \in [Handlers -> BOOLEAN],
           faults' \in 0 .. MaxFaults,
           \A k \in Handlers : /\ DOMAIN work'[k].gauge \subseteq DOMAIN tables.gauge
                               /\ DOMAIN work'[k].counter \subseteq DOMAIN tables.counter
                               /\ k # h => work'[k] = work[k]
    PROVE  PgInv'
<1>0. /\ err'[h] \in Failures /\ pc'[h] \in {"rollback", "ended"}
      /\ pc[h] \notin {"query", "dump", "commit"} => pc'[h] = "ended" /\ pc[h] = "begin"
      /\ pc[h] \in {"query", "dump", "commit"} => pc'[h] = "rollback"
      /\ \A k \in Handlers : k # h => pc'[k] = pc[k] /\ err'[k] = err[k]
      /\ pc' \in [Handlers -> {"idle", "begin", "query", "dump", "commit", "rollback",
                               "ended", "reply"}]
      /\ err' \in [Handlers -> Failures \cup {"none", "noRows"}]
  <2>1. CASE pc[h] \in {"query", "dump", "commit"} /\ Ends(h, "rollback", e)
    BY <2>1 DEF Ends, Goto, PgInv, PgTypeOK
  <2>2. CASE pc[h] = "begin" /\ Ends(h, "ended", e)
    BY <2>2 DEF Ends, Goto, PgInv, PgTypeOK
  <2> QED
    BY <2>1, <2>2
<1> USE DEF PgInv, PgTypeOK
<1>1. PgTypeOK' /\ IsFiniteSet(Connected')
  <2>1. Connected' = Connected
    BY <1>0 DEF Connected
  <2> QED
    BY <1>0, <2>1, ConnectedStays
<1>2. CallInv' /\ ErrInv' /\ AttemptInv'
  <2>1. CallInv'
    BY <1>0 DEF CallInv
  <2>2. ErrInv'
    <3>1. ASSUME NEW k \in Handlers
          PROVE  /\ pc'[k] \notin {"rollback", "ended"} => err'[k] = "none"
                 /\ err'[k] = "noRows" => call'[k].op = "GetMetric"
      <4>1. CASE k = h
        BY <1>0, <4>1 DEF Failures
      <4>2. CASE k # h
        BY <1>0, <4>2 DEF ErrInv
      <4> QED
        BY <4>1, <4>2
    <3> QED
      BY <3>1 DEF ErrInv
  <2>3. AttemptInv'
    BY <1>0 DEF AttemptInv
  <2> QED
    BY <2>1, <2>2, <2>3
<1>3. RowInv'
  BY <1>0 DEF RowInv
<1>4. TxInv'
  <2>1. ASSUME NEW k \in Handlers, pc'[k] \in {"query", "commit"}, IsUpdate(call'[k])
        PROVE  BatchInv(k)'
    <3>1. k # h /\ pc'[k] = pc[k] /\ call' = call
      BY <1>0, <2>1
    <3>2. BatchInv(k)
      BY <2>1, <3>1 DEF TxInv
    <3> QED
      BY <3>1, <3>2 DEF BatchInv, Seen
  <2> QED
    BY <2>1 DEF TxInv
<1>5. ReadInv'
  BY <1>0 DEF ReadInv, Failures
<1> QED
  BY <1>1, <1>2, <1>3, <1>4, <1>5

\* The maps of a dump that fails have only rows that were committed.
LEMMA PartlyReadType ==
    ASSUME NEW h \in Handlers, PgInv, NEW rows \in SUBSET Names
    PROVE  /\ PartlyRead(h, rows) \in Snapshot
           /\ DOMAIN PartlyRead(h, rows).gauge \subseteq DOMAIN tables.gauge
           /\ DOMAIN PartlyRead(h, rows).counter \subseteq DOMAIN tables.counter
<1> DEFINE read(map) == Restrict(map, rows \cap DOMAIN map)
<1>1. /\ tables \in Snapshot /\ work[h] \in Snapshot
      /\ DOMAIN work[h].gauge \subseteq DOMAIN tables.gauge
      /\ DOMAIN work[h].counter \subseteq DOMAIN tables.counter
  BY DEF PgInv, PgTypeOK, ReadInv
<1>2. ASSUME NEW V, NEW map \in MapTo(V), NEW old \in MapTo(V), DOMAIN old \subseteq DOMAIN map
      PROVE  Over(read(map), old) \in MapTo(V) /\ DOMAIN Over(read(map), old) \subseteq DOMAIN map
  <2>1. read(map) \in [rows \cap DOMAIN map -> V]
    BY MapElement DEF Restrict
  <2>2. read(map) \in MapTo(V)
    BY <2>1 DEF MapTo
  <2>3. DOMAIN Over(read(map), old) = DOMAIN read(map) \cup DOMAIN old
    BY DEF Over
  <2> HIDE DEF read
  <2> QED
    BY <1>2, <2>1, <2>2, <2>3, OverType
<1>3. /\ Over(read(tables.gauge), work[h].gauge) \in MapTo(GaugeValues)
      /\ DOMAIN Over(read(tables.gauge), work[h].gauge) \subseteq DOMAIN tables.gauge
      /\ Over(read(tables.counter), work[h].counter) \in MapTo(Counter)
      /\ DOMAIN Over(read(tables.counter), work[h].counter) \subseteq DOMAIN tables.counter
  <2>1. /\ tables.gauge \in MapTo(GaugeValues) /\ work[h].gauge \in MapTo(GaugeValues)
        /\ tables.counter \in MapTo(Counter) /\ work[h].counter \in MapTo(Counter)
    BY <1>1 DEF Snapshot
  <2> HIDE DEF read
  <2> QED
    BY <1>1, <1>2, <2>1
<1>4. \/ PartlyRead(h, rows) = work[h]
      \/ PartlyRead(h, rows) = [work[h] EXCEPT !.gauge = Over(read(tables.gauge), work[h].gauge)]
      \/ PartlyRead(h, rows) = [work[h] EXCEPT !.counter = Over(read(tables.counter), work[h].counter)]
  <2>1. CASE pc[h] = "query" /\ call[h].op = "GetMetricsByTypes"
    BY <2>1 DEF PartlyRead
  <2>2. CASE pc[h] = "dump"
    BY <2>2 DEF PartlyRead
  <2>3. CASE pc[h] # "dump" /\ ~(pc[h] = "query" /\ call[h].op = "GetMetricsByTypes")
    BY <2>3 DEF PartlyRead
  <2> QED
    BY <2>1, <2>2, <2>3
<1> HIDE DEF read
<1> QED
  BY <1>1, <1>3, <1>4 DEF Snapshot

LEMMA UpsertOverflowsKeeps ==
    ASSUME NEW h \in Handlers, PgInv, UpsertOverflows(h) \/ DeadlockDetected(h)
    PROVE  PgInv'
<1>1. pc[h] = "query"
  BY DEF UpsertOverflows, DeadlockDetected, InCycle, WaitsFor, Upserting
<1>2. /\ Ends(h, "rollback", "other")
      /\ UNCHANGED <<tables, written, pool, call, result, work, retries, expired, faults, took>>
  BY DEF UpsertOverflows, DeadlockDetected
<1> QED
  BY <1>1, <1>2, AttemptFailsKeeps DEF PgInv, PgTypeOK, ReadInv, Failures

LEMMA BeginFailsKeeps ==
    ASSUME NEW h \in Handlers, PgInv, BeginFails(h)
    PROVE  PgInv'
<1>1. PICK e \in Failures : Ends(h, "ended", e)
  BY DEF BeginFails
<1>2. /\ pc[h] = "begin" /\ faults < MaxFaults /\ faults' = faults + 1
      /\ UNCHANGED <<tables, written, pool, call, result, work, retries, expired, took>>
  BY DEF BeginFails
<1>3. faults' \in 0 .. MaxFaults
  BY <1>2, PgAssumption DEF PgInv, PgTypeOK
<1> QED
  BY <1>1, <1>2, <1>3, AttemptFailsKeeps DEF PgInv, PgTypeOK, ReadInv

LEMMA TxFailsKeeps ==
    ASSUME NEW h \in Handlers, PgInv, TxFails(h)
    PROVE  PgInv'
<1>1. PICK e \in Failures : Ends(h, "rollback", e)
  BY DEF TxFails
<1>2. PICK rows \in SUBSET Names : work' = [work EXCEPT ![h] = PartlyRead(h, rows)]
  BY DEF TxFails
<1>3. /\ pc[h] \in {"query", "dump", "commit"} /\ faults < MaxFaults /\ faults' = faults + 1
      /\ UNCHANGED <<tables, written, pool, call, result, retries, expired, took>>
  BY DEF TxFails
<1>4. faults' \in 0 .. MaxFaults /\ expired' \in [Handlers -> BOOLEAN]
  BY <1>3, PgAssumption DEF PgInv, PgTypeOK
<1>5. /\ work' \in [Handlers -> Snapshot]
      /\ \A k \in Handlers : /\ DOMAIN work'[k].gauge \subseteq DOMAIN tables.gauge
                             /\ DOMAIN work'[k].counter \subseteq DOMAIN tables.counter
                             /\ k # h => work'[k] = work[k]
  BY <1>2, PartlyReadType DEF PgInv, PgTypeOK, ReadInv
<1> QED
  BY <1>1, <1>3, <1>4, <1>5, AttemptFailsKeeps

LEMMA ContextDoneKeeps ==
    ASSUME NEW h \in Handlers, PgInv, ContextDone(h)
    PROVE  PgInv'
<1>1. /\ \/ pc[h] \in {"query", "dump", "commit"} /\ Ends(h, "rollback", "other")
         \/ pc[h] = "begin" /\ Ends(h, "ended", "other")
      /\ UNCHANGED <<tables, written, pool, call, result, work, retries, expired, faults, took>>
  BY DEF ContextDone
<1> QED
  BY <1>1, AttemptFailsKeeps DEF PgInv, PgTypeOK, ReadInv, Failures

\* A statement of a read leaves the rows alone.
LEMMA ReadStepKeeps ==
    ASSUME NEW h \in Handlers, PgInv, ~IsUpdate(call[h]), pc[h] \in {"query", "dump"},
           NEW label \in {"dump", "commit", "rollback"}, NEW e \in {"none", "noRows"},
           NEW r \in Seq(Metric), NEW w \in Snapshot,
           pc' = [pc EXCEPT ![h] = label], err' = [err EXCEPT ![h] = e],
           result' = [result EXCEPT ![h] = r], work' = [work EXCEPT ![h] = w],
           UNCHANGED <<tables, written, pool, call, retries, expired, faults, took>>,
           label = "dump" => call[h].op = "GetMetricsByTypes",
           e = "noRows" => call[h].op = "GetMetric" /\ label = "rollback",
           call[h].op = "GetMetricsByTypes" \/ e = "noRows" => r = <<>>,
           DOMAIN w.gauge \subseteq DOMAIN tables.gauge,
           DOMAIN w.counter \subseteq DOMAIN tables.counter
    PROVE  PgInv'
<1> USE DEF PgInv, PgTypeOK
<1>1. PgTypeOK' /\ IsFiniteSet(Connected')
  <2>1. Connected' = Connected
    BY DEF Connected
  <2> QED
    BY <2>1, ConnectedStays
<1>2. CallInv' /\ ErrInv' /\ AttemptInv'
  BY DEF CallInv, ErrInv, AttemptInv
<1>3. RowInv'
  BY DEF RowInv
<1>4. TxInv'
  BY DEF TxInv, BatchInv, Seen
<1>5. ReadInv'
  BY DEF ReadInv
<1> QED
  BY <1>1, <1>2, <1>3, <1>4, <1>5

LEMMA SelectKeeps ==
    ASSUME NEW h \in Handlers, PgInv, Select(h)
    PROVE  PgInv'
<1> DEFINE m == call[h].metrics[1]
<1>1. m \in Metric /\ ~IsUpdate(call[h])
  <2>1. call[h].metrics \in Seq(Metric) /\ Len(call[h].metrics) = 1
    BY RequestType DEF Select, PgInv, CallInv
  <2> QED
    BY <2>1 DEF Select, IsUpdate
<1>2. /\ pc[h] = "query" /\ call[h].op = "GetMetric"
      /\ UNCHANGED <<tables, written, pool, call, work, retries, expired, faults, took>>
  BY DEF Select
<1>3. /\ result[h] = <<>> /\ work[h] \in Snapshot /\ err[h] = "none" /\ result[h] \in Seq(Metric)
      /\ DOMAIN work[h].gauge \subseteq DOMAIN tables.gauge
      /\ DOMAIN work[h].counter \subseteq DOMAIN tables.counter
      /\ work' = [work EXCEPT ![h] = work[h]]
  BY <1>1, <1>2 DEF PgInv, PgTypeOK, ErrInv, ReadInv
<1>4. CASE Has(tables, m)
  <2>1. /\ result' = [result EXCEPT ![h] = <<Current(tables, m)>>]
        /\ pc' = [pc EXCEPT ![h] = "commit"] /\ err' = [err EXCEPT ![h] = "none"]
    BY <1>3, <1>4 DEF Select, Goto, PgInv, PgTypeOK
  <2>2. <<Current(tables, m)>> \in Seq(Metric)
    <3>1. Current(tables, m) \in Metric
      BY <1>1, <1>4, CurrentType DEF PgInv, PgTypeOK
    <3> QED
      BY <3>1
  <2> HIDE DEF m
  <2> QED
    BY <1>1, <1>2, <1>3, <2>1, <2>2, ReadStepKeeps
<1>5. CASE ~Has(tables, m)
  <2>1. /\ pc' = [pc EXCEPT ![h] = "rollback"] /\ err' = [err EXCEPT ![h] = "noRows"]
        /\ result' = [result EXCEPT ![h] = result[h]]
    BY <1>5 DEF Select, Ends, Goto, PgInv, PgTypeOK
  <2> QED
    BY <1>1, <1>2, <1>3, <2>1, ReadStepKeeps
<1> QED
  BY <1>4, <1>5

\* A select of a dump fills its map with the rows of the table, and leaves
\* nothing in it of an attempt before.
LEMMA SelectsAll ==
    ASSUME NEW h \in Handlers, PgInv
    PROVE  /\ Over(tables.gauge, work[h].gauge) = tables.gauge
           /\ Over(tables.counter, work[h].counter) = tables.counter
           /\ tables.gauge \in MapTo(GaugeValues) /\ tables.counter \in MapTo(Counter)
<1>1. /\ DOMAIN work[h].gauge \subseteq DOMAIN tables.gauge
      /\ DOMAIN work[h].counter \subseteq DOMAIN tables.counter
      /\ tables.gauge \in MapTo(GaugeValues) /\ tables.counter \in MapTo(Counter)
  BY DEF PgInv, PgTypeOK, ReadInv, Snapshot
<1> QED
  BY <1>1, OverAll

LEMMA DumpKeeps ==
    ASSUME NEW h \in Handlers, PgInv, SelectGauges(h) \/ SelectCounters(h)
    PROVE  PgInv'
<1>1. /\ call[h].op = "GetMetricsByTypes" /\ ~IsUpdate(call[h]) /\ pc[h] \in {"query", "dump"}
      /\ UNCHANGED <<tables, written, pool, call, result, err, retries, expired, faults, took>>
  BY DEF SelectGauges, SelectCounters, PgInv, CallInv, IsUpdate
<1>2. /\ result[h] = <<>> /\ work[h] \in Snapshot /\ err[h] = "none" /\ result[h] \in Seq(Metric)
      /\ DOMAIN work[h].gauge \subseteq DOMAIN tables.gauge
      /\ DOMAIN work[h].counter \subseteq DOMAIN tables.counter
      /\ result' = [result EXCEPT ![h] = result[h]] /\ err' = [err EXCEPT ![h] = "none"]
  BY <1>1 DEF PgInv, PgTypeOK, ErrInv, ReadInv
<1>3. CASE SelectGauges(h)
  <2> DEFINE w == [work[h] EXCEPT !.gauge = tables.gauge]
  <2>1. w \in Snapshot /\ w.gauge = tables.gauge /\ w.counter = work[h].counter
    BY <1>2, SelectsAll DEF Snapshot
  <2>2. pc' = [pc EXCEPT ![h] = "dump"] /\ work' = [work EXCEPT ![h] = w]
    BY <1>3, SelectsAll DEF SelectGauges, Goto
  <2> HIDE DEF w
  <2> QED
    BY <1>1, <1>2, <2>1, <2>2, ReadStepKeeps
<1>4. CASE SelectCounters(h)
  <2> DEFINE w == [work[h] EXCEPT !.counter = tables.counter]
  <2>1. w \in Snapshot /\ w.counter = tables.counter /\ w.gauge = work[h].gauge
    BY <1>2, SelectsAll DEF Snapshot
  <2>2. pc' = [pc EXCEPT ![h] = "commit"] /\ work' = [work EXCEPT ![h] = w]
    BY <1>4, SelectsAll DEF SelectCounters, Goto
  <2> HIDE DEF w
  <2> QED
    BY <1>1, <1>2, <2>1, <2>2, ReadStepKeeps
<1> QED
  BY <1>3, <1>4

\* A transaction that is committed lays its rows beside those of the others,
\* which come to the same on what is committed now.
LEMMA CommitBeside ==
    ASSUME NEW h \in Handlers, NEW k \in Handlers, k # h, PgInv,
           tables' = Overlay(tables, written[h]), call' = call,
           pc'[k] = pc[k], written'[k] = written[k], result'[k] = result[k],
           pc[k] \in {"query", "commit"}, IsUpdate(call[k])
    PROVE  BatchInv(k)'
<1> DEFINE metrics == call[k].metrics
           n       == Len(result[k])
           w       == written[h]
<1>1. /\ metrics \in Seq(Metric) /\ n \in 0 .. Len(metrics) /\ BatchInv(k)
      /\ tables \in Snapshot /\ w \in Snapshot
  <2>1. metrics \in Seq(Metric)
    BY RequestType DEF PgInv, CallInv
  <2>2. BatchInv(k) /\ result[k] \in Seq(Metric) /\ tables \in Snapshot /\ w \in Snapshot
    BY DEF PgInv, PgTypeOK, TxInv
  <2>3. n <= Len(metrics)
    BY <2>2 DEF BatchInv
  <2> QED
    BY <2>1, <2>2, <2>3
<1>2. Apart(w, written[k])
  BY DEF PgInv, RowInv
<1>3. \A i \in 1 .. n : ~Has(w, metrics[i])
  BY <1>1, <1>2 DEF BatchInv, Has, Apart
<1> HIDE DEF metrics, n, w
<1>4. /\ FirstApplied(Overlay(tables, w), metrics, n) = Overlay(FirstApplied(tables, metrics, n), w)
      /\ \A i \in 1 .. n : Current(FirstApplied(Overlay(tables, w), metrics, i), metrics[i])
                             = Current(FirstApplied(tables, metrics, i), metrics[i])
  BY <1>1, <1>3, BatchBeside
<1>5. Overlay(Overlay(tables, w), written[k]) = Overlay(Overlay(tables, written[k]), w)
  BY <1>2, OverlaySwap
<1>6. tables' = Overlay(tables, w)
  BY DEF w
<1> QED
  BY ONLY <1>1, <1>4, <1>5, <1>6, call' = call, pc'[k] = pc[k], written'[k] = written[k],
     result'[k] = result[k] DEF BatchInv, Seen, metrics, n

LEMMA CommitStepKeeps ==
    ASSUME NEW h \in Handlers, PgInv, pc[h] = "commit",
           NEW label \in {"reply", "rollback"}, NEW e \in Failures \cup {"none"},
           label = "reply" => e = "none",
           tables' = Overlay(tables, written[h]),
           written' = [written EXCEPT ![h] = EmptySnapshot],
           took' = [took EXCEPT ![h] = @ + 1],
           Ends(h, label, e), faults' \in 0 .. MaxFaults,
           UNCHANGED <<pool, call, result, work, retries, expired>>
    PROVE  PgInv'
<1>0. /\ tables' \in Snapshot
      /\ DOMAIN tables.gauge \subseteq DOMAIN tables'.gauge
      /\ DOMAIN tables.counter \subseteq DOMAIN tables'.counter
  BY OverlayType DEF PgInv, PgTypeOK
<1>1. PgTypeOK' /\ IsFiniteSet(Connected')
  <2>1. IsFiniteSet(Connected') /\ Cardinality(Connected') <= pool'
    <3>1. CASE label = "rollback"
      <4>1. Connected' = Connected
        BY <3>1 DEF Connected, Ends, Goto, PgInv, PgTypeOK
      <4> QED
        BY <4>1, ConnectedStays
    <3>2. CASE label = "reply"
      <4>1. Connected' = Connected \ {h} /\ h \in Connected
        BY <3>2 DEF Connected, Ends, Goto, PgInv, PgTypeOK
      <4>2. IsFiniteSet(Connected) /\ Cardinality(Connected) <= pool
        BY DEF PgInv, PgTypeOK
      <4>3. IsFiniteSet(Connected') /\ Cardinality(Connected') = Cardinality(Connected) - 1
        BY <4>1, <4>2, FS_RemoveElement
      <4>4. Cardinality(Connected) \in Nat /\ pool \in Nat
        BY <4>2, FS_CardinalityType, PgAssumption DEF PgInv, PgTypeOK
      <4> QED
        BY <4>2, <4>3, <4>4
    <3> QED
      BY <3>1, <3>2
  <2>2. written' \in [Handlers -> Snapshot]
    BY EmptySnapshotType DEF PgInv, PgTypeOK
  <2>3. took' \in [Handlers -> 0 .. retryCount + 1]
    <3>1. took[h] <= retries[h] /\ retries[h] \in 0 .. retryCount /\ took[h] \in Nat
      BY PgAssumption DEF PgInv, PgTypeOK, AttemptInv
    <3>2. took[h] + 1 \in 0 .. retryCount + 1
      BY <3>1, PgAssumption
    <3> QED
      BY <3>2 DEF PgInv, PgTypeOK
  <2>4. /\ pc' \in [Handlers -> {"idle", "begin", "query", "dump", "commit", "rollback",
                                 "ended", "reply"}]
        /\ err' \in [Handlers -> Failures \cup {"none", "noRows"}]
    BY DEF PgInv, PgTypeOK, Ends, Goto
  <2> QED
    BY <1>0, <2>1, <2>2, <2>3, <2>4 DEF PgInv, PgTypeOK
<1> USE DEF Ends, Goto, PgInv, PgTypeOK, Failures
<1>2. CallInv'
  BY DEF CallInv
<1>3. ErrInv'
  BY DEF ErrInv
<1>4. AttemptInv'
  BY DEF AttemptInv
<1>5. RowInv'
  <2>1. \A w : Apart(w, EmptySnapshot) /\ Apart(EmptySnapshot, w)
    BY DEF Apart, EmptySnapshot, EmptyMap
  <2> QED
    BY <2>1 DEF RowInv
<1>6. TxInv'
  <2>1. ASSUME NEW k \in Handlers, pc'[k] \in {"query", "commit"}, IsUpdate(call'[k])
        PROVE  BatchInv(k)'
    <3>1. k # h /\ pc'[k] = pc[k] /\ written'[k] = written[k] /\ result'[k] = result[k]
      BY <2>1
    <3> QED
      BY <2>1, <3>1, CommitBeside
  <2> QED
    BY <2>1 DEF TxInv
<1>7. ReadInv'
  BY <1>0 DEF ReadInv
<1> QED
  BY <1>1, <1>2, <1>3, <1>4, <1>5, <1>6, <1>7

LEMMA CommitKeeps ==
    ASSUME NEW h \in Handlers, PgInv, Commit(h) \/ CommitUnheard(h)
    PROVE  PgInv'
<1>1. CASE Commit(h)
  <2>1. faults' \in 0 .. MaxFaults
    BY <1>1 DEF Commit, PgInv, PgTypeOK
  <2> QED
    BY <1>1, <2>1, CommitStepKeeps DEF Commit
<1>2. CASE CommitUnheard(h)
  <2>1. faults' \in 0 .. MaxFaults
    BY <1>2, PgAssumption DEF CommitUnheard, PgInv, PgTypeOK
  <2>2. PICK e \in Failures : Ends(h, "rollback", e)
    BY <1>2 DEF CommitUnheard
  <2> QED
    BY <1>2, <2>1, <2>2, CommitStepKeeps DEF CommitUnheard
<1> QED
  BY <1>1, <1>2

LEMMA RollbackKeeps ==
    ASSUME NEW h \in Handlers, PgInv, Rollback(h)
    PROVE  PgInv'
<1> USE DEF Rollback, Goto, PgInv, PgTypeOK
<1>1. PgTypeOK' /\ IsFiniteSet(Connected')
  <2>1. Connected' = Connected \ {h} /\ h \in Connected
    BY DEF Connected
  <2>2. IsFiniteSet(Connected') /\ Cardinality(Connected') = Cardinality(Connected) - 1
    BY <2>1, FS_RemoveElement
  <2>3. Cardinality(Connected) \in Nat /\ pool \in Nat
    BY FS_CardinalityType, PgAssumption
  <2> QED
    BY <2>2, <2>3, EmptySnapshotType
<1>2. CallInv' /\ ErrInv' /\ AttemptInv'
  BY DEF CallInv, ErrInv, AttemptInv
<1>3. RowInv'
  <2>1. \A w : Apart(w, EmptySnapshot) /\ Apart(EmptySnapshot, w)
    BY DEF Apart, EmptySnapshot, EmptyMap
  <2> QED
    BY <2>1 DEF RowInv
<1>4. TxInv'
  BY DEF TxInv, BatchInv, Seen
<1>5. ReadInv'
  BY DEF ReadInv
<1> QED
  BY <1>1, <1>2, <1>3, <1>4, <1>5

LEMMA RetryKeeps ==
    ASSUME NEW h \in Handlers, PgInv, Retry(h)
    PROVE  PgInv'
<1> USE DEF Retry, ShouldRetry, Ends, Goto, PgInv, PgTypeOK
<1>1. PgTypeOK' /\ IsFiniteSet(Connected')
  <2>1. Connected' = Connected
    BY DEF Connected
  <2> QED
    BY <2>1, ConnectedStays, PgAssumption
<1>2. CallInv' /\ ErrInv'
  BY DEF CallInv, ErrInv
<1>3. AttemptInv'
  BY PgAssumption DEF AttemptInv
<1>4. RowInv'
  BY DEF RowInv
<1>5. TxInv'
  BY DEF TxInv, BatchInv, Seen
<1>6. ReadInv'
  BY DEF ReadInv
<1> QED
  BY <1>1, <1>2, <1>3, <1>4, <1>5, <1>6

LEMMA ReturnKeeps ==
    ASSUME NEW h \in Handlers, PgInv, Return(h)
    PROVE  PgInv'
<1> USE DEF Return, Failed, Ends, Goto, PgInv, PgTypeOK
<1>1. PgTypeOK' /\ IsFiniteSet(Connected')
  <2>1. Connected' = Connected
    BY DEF Connected
  <2> QED
    BY <2>1, ConnectedStays, PgAssumption, EmptySnapshotType
<1>2. CallInv' /\ ErrInv' /\ AttemptInv'
  BY PgAssumption DEF CallInv, ErrInv, AttemptInv
<1>3. RowInv'
  BY DEF RowInv
<1>4. TxInv'
  BY DEF TxInv, BatchInv, Seen
<1>5. ReadInv'
  BY DEF ReadInv, NoCall, EmptySnapshot, EmptyMap
<1> QED
  BY <1>1, <1>2, <1>3, <1>4, <1>5

LEMMA PgStutterKeeps == PgInv /\ UNCHANGED pgVars => PgInv'
<1> SUFFICES ASSUME PgInv, UNCHANGED pgVars PROVE PgInv'
  OBVIOUS
<1>1. Connected' = Connected
  BY DEF Connected, pgVars
<1> QED
  BY <1>1 DEF pgVars, PgInv, PgTypeOK, CallInv, ErrInv, AttemptInv, RowInv, TxInv, BatchInv,
     Seen, ReadInv

\* In every reachable state of PgStorage, PgInv holds.
THEOREM PgInvariant == PgSpec => []PgInv
<1>1. PgInv /\ [PgNext]_pgVars => PgInv'
  <2> SUFFICES ASSUME PgInv, PgNext PROVE PgInv'
    BY PgStutterKeeps
  <2>1. PICK h \in Handlers :
           Call(h) \/ Expire(h) \/ PgStep(h) \/ BeginFails(h) \/ TxFails(h) \/ CommitUnheard(h)
    BY DEF PgNext
  <2>2. CASE PgStep(h)
    BY <2>2, BeginTxKeeps, UpsertKeeps, UpsertOverflowsKeeps, SelectKeeps, DumpKeeps,
       CommitKeeps, RollbackKeeps, ContextDoneKeeps, RetryKeeps, ReturnKeeps DEF PgStep
  <2> QED
    BY <2>1, <2>2, CallKeeps, ExpireKeeps, BeginFailsKeeps, TxFailsKeeps, CommitKeeps
<1> QED
  BY <1>1, PgInitInv, PTL DEF PgSpec

\* The type invariant of PgStorage: in particular, no more transactions are
\* open than the pool has connections, and a call is not committed more often
\* than it is attempted.
THEOREM PgTypes == PgSpec => []PgTypeOK
<1>1. PgInv => PgTypeOK
  BY DEF PgInv
<1> QED
  BY <1>1, PgInvariant, PTL

\* However many transactions are committed meanwhile, an update goes on from
\* what the committed rows and its own statements come to.
THEOREM WrittenStaysCurrent == PgSpec => []WrittenIsCurrent
<1>1. PgInv => WrittenIsCurrent
  BY DEF PgInv, TxInv, BatchInv, WrittenIsCurrent, AfterFirst, FirstApplied
<1> QED
  BY <1>1, PgInvariant, PTL

\* A call that replies was committed, and no call more often than it has been
\* attempted (doTransactionWithRetries).
THEOREM TookAtMostTriedAlways == PgSpec => []TookAtMostTried
<1>1. PgInv => TookAtMostTried
  BY PgAssumption DEF PgInv, PgTypeOK, AttemptInv, TookAtMostTried
<1> QED
  BY <1>1, PgInvariant, PTL

----------------------------------------------------------------------------
(* PgStorage implements RetriedStore.                                      *)

\* What the abstract handler h is doing, and its reply.
PhaseOf(h) ==
    IF pc[h] = "idle" THEN "idle"
    ELSE IF Answered(h) THEN "done"
    ELSE IF pc[h] = "dump" THEN "half"
    ELSE IF Failed(h) THEN "failed" ELSE "pending"

ReplyOf(h) ==
    IF Answered(h)
    THEN [metrics |-> result[h],
          dump |-> IF call[h].op = "GetMetricsByTypes" THEN work[h] ELSE EmptySnapshot]
    ELSE IF pc[h] = "dump" THEN [NoReply EXCEPT !.dump.gauge = work[h].gauge] ELSE NoReply

Phases == [h \in Handlers |->
              CASE pc[h] = "idle" -> "idle"
                [] Answered(h) -> "done"
                [] pc[h] = "dump" -> "half"
                [] Failed(h) /\ ~Answered(h) -> "failed"
                [] OTHER -> "pending"]

Replies == [h \in Handlers |->
               CASE Answered(h) ->
                      [metrics |-> result[h],
                       dump |-> IF call[h].op = "GetMetricsByTypes"
                                THEN work[h] ELSE EmptySnapshot]
                 [] pc[h] = "dump" -> [NoReply EXCEPT !.dump.gauge = work[h].gauge]
                 [] OTHER -> NoReply]

LEMMA PhasesAre ==
    /\ Phases = [h \in Handlers |-> PhaseOf(h)]
    /\ Phases' = [h \in Handlers |-> PhaseOf(h)']
<1>1. ASSUME NEW h \in Handlers PROVE Phases[h] = PhaseOf(h) /\ Phases'[h] = PhaseOf(h)'
  BY DEF Phases, PhaseOf, Answered, Failed
<1>2. /\ Phases = [h \in Handlers |-> Phases[h]]
      /\ Phases' = [h \in Handlers |-> Phases'[h]]
  BY DEF Phases
<1> QED
  BY ONLY <1>1, <1>2

LEMMA RepliesAre ==
    /\ Replies = [h \in Handlers |-> ReplyOf(h)]
    /\ Replies' = [h \in Handlers |-> ReplyOf(h)']
<1>1. ASSUME NEW h \in Handlers PROVE Replies[h] = ReplyOf(h) /\ Replies'[h] = ReplyOf(h)'
  BY DEF Replies, ReplyOf, Answered, Failed
<1>2. /\ Replies = [h \in Handlers |-> Replies[h]]
      /\ Replies' = [h \in Handlers |-> Replies'[h]]
  BY DEF Replies
<1> QED
  BY ONLY <1>1, <1>2

\* The operators of the abstract store are those of this one.
LEMMA SameOperators ==
    /\ Abstract!NoCall = NoCall /\ Abstract!NoReply = NoReply
    /\ \A r : Abstract!IsUpdate(r) <=> IsUpdate(r)
    /\ \A s, m : Abstract!Current(s, m) = Current(s, m) /\ (Abstract!Has(s, m) <=> Has(s, m))
    /\ \A s, metrics, i : Abstract!AfterFirst(s, metrics, i) = FirstApplied(s, metrics, i)
<1>1. /\ Abstract!NoCall = NoCall /\ Abstract!NoReply = NoReply
      /\ \A r : Abstract!IsUpdate(r) <=> IsUpdate(r)
  BY DEF Abstract!NoCall, NoCall, Abstract!NoReply, NoReply, Abstract!EmptySnapshot,
     Abstract!EmptyMap, EmptySnapshot, EmptyMap, Abstract!IsUpdate, IsUpdate
<1>2. \A s, m : Abstract!Current(s, m) = Current(s, m) /\ (Abstract!Has(s, m) <=> Has(s, m))
  BY DEF Abstract!Current, Current, Abstract!Has, Has
<1>3. \A s, metrics, i : Abstract!AfterFirst(s, metrics, i) = FirstApplied(s, metrics, i)
  BY DEF Apply, Abstract!Apply, Put, Abstract!Put, Lookup, Abstract!Lookup, Wrap,
     Abstract!Wrap, Abstract!AfterFirst, FirstApplied, FoldLeft, Abstract!FoldLeft,
     MapThenFoldSet, Abstract!MapThenFoldSet, Max, Abstract!Max
<1> QED
  BY <1>1, <1>2, <1>3

\* A step of handler h.
StepOf(h) ==
    Call(h) \/ Expire(h) \/ PgStep(h) \/ BeginFails(h) \/ TxFails(h) \/ CommitUnheard(h)

\* What is seen of h, and of no other handler, may change with it.
SeenOf(h) ==
    /\ Phases[h] = PhaseOf(h) /\ Replies[h] = ReplyOf(h)
    /\ Phases' = [Phases EXCEPT ![h] = PhaseOf(h)'] /\ Replies' = [Replies EXCEPT ![h] = ReplyOf(h)']
    /\ PhaseOf(h)' = PhaseOf(h) => Phases' = Phases
    /\ ReplyOf(h)' = ReplyOf(h) => Replies' = Replies

LEMMA OthersUnseen ==
    ASSUME PgInv, NEW h \in Handlers, StepOf(h)
    PROVE  SeenOf(h)
<1>1. ASSUME NEW k \in Handlers, k # h
      PROVE  PhaseOf(k)' = PhaseOf(k) /\ ReplyOf(k)' = ReplyOf(k)
  <2>1. /\ pc'[k] = pc[k] /\ call'[k] = call[k] /\ result'[k] = result[k] /\ work'[k] = work[k]
        /\ err'[k] = err[k] /\ retries'[k] = retries[k]
    BY <1>1 DEF StepOf, PgStep, Call, Expire, BeginFails, TxFails, CommitUnheard, BeginTx,
       Upsert, UpsertOverflows, DeadlockDetected, Select, SelectGauges, SelectCounters, Commit,
       Rollback, ContextDone, Retry, Return, Ends, Goto, PgInv, PgTypeOK
  <2> QED
    BY ONLY <2>1 DEF PhaseOf, ReplyOf, Answered, Failed, ShouldRetry
<1>2. /\ Phases = [k \in Handlers |-> PhaseOf(k)] /\ Phases' = [k \in Handlers |-> PhaseOf(k)']
      /\ Replies = [k \in Handlers |-> ReplyOf(k)] /\ Replies' = [k \in Handlers |-> ReplyOf(k)']
  BY PhasesAre, RepliesAre
<1> QED
  BY ONLY <1>1, <1>2 DEF SeenOf

\* The instant at which an update is committed is the one it takes effect at:
\* whatever has been committed since its transaction began, its metrics are
\* applied to that, whole and in their order, and its answers are the values
\* they have then.
LEMMA CommitApplies ==
    ASSUME PgInv, NEW h \in Handlers, pc[h] = "commit", IsUpdate(call[h])
    PROVE  /\ Overlay(tables, written[h]) = Abstract!After(tables, call[h])
           /\ [metrics |-> result[h], dump |-> EmptySnapshot] = Abstract!Answer(tables, call[h])
<1> DEFINE metrics == call[h].metrics
           n       == Len(metrics)
<1>1. /\ BatchInv(h) /\ result[h] \in Seq(Metric) /\ Len(result[h]) = n
  BY DEF PgInv, PgTypeOK, TxInv, BatchInv
<1>2. Overlay(tables, written[h]) = FirstApplied(tables, metrics, n)
  BY <1>1 DEF BatchInv, Seen
<1>3. \A i \in 1 .. n : result[h][i] = Current(FirstApplied(tables, metrics, i), metrics[i])
  BY <1>1 DEF BatchInv
<1>4. Overlay(tables, written[h]) = Abstract!After(tables, call[h])
  BY <1>2, SameOperators DEF Abstract!After
<1>5. result[h] = [i \in 1 .. n |-> Current(FirstApplied(tables, metrics, i), metrics[i])]
  <2>1. result[h] = [i \in 1 .. Len(result[h]) |-> result[h][i]]
    BY <1>1
  <2> HIDE DEF n, metrics
  <2> QED
    BY ONLY <1>1, <1>3, <2>1
<1>6. Abstract!Answer(tables, call[h]) =
         [NoReply EXCEPT !.metrics =
             [i \in 1 .. n |-> Current(FirstApplied(tables, metrics, i), metrics[i])]]
  <2>1. /\ Abstract!IsUpdate(call[h])
        /\ call[h].op # "GetMetric" /\ call[h].op # "GetMetricsByTypes"
    BY SameOperators DEF IsUpdate
  <2>2. Abstract!Answer(tables, call[h]) =
           [Abstract!NoReply EXCEPT !.metrics =
               [i \in 1 .. n |->
                   Abstract!Current(Abstract!AfterFirst(tables, metrics, i), metrics[i])]]
    BY <2>1 DEF Abstract!Answer
  <2>3. \A i \in 1 .. n : Abstract!Current(Abstract!AfterFirst(tables, metrics, i), metrics[i])
                            = Current(FirstApplied(tables, metrics, i), metrics[i])
    BY SameOperators
  <2>4. Abstract!NoReply = NoReply
    BY SameOperators
  <2> HIDE DEF n, metrics
  <2> QED
    BY ONLY <2>2, <2>3, <2>4
<1> QED
  BY <1>4, <1>5, <1>6 DEF NoReply

\* A read has changed no row.
LEMMA CommitOfRead ==
    ASSUME PgInv, NEW h \in Handlers, ~IsUpdate(call[h])
    PROVE  Overlay(tables, written[h]) = tables
<1>1. written[h] = EmptySnapshot /\ tables \in Snapshot
  BY DEF PgInv, PgTypeOK, RowInv
<1> QED
  BY <1>1, OverlayEmpty

\* What a storage call does before it takes effect is not seen.
LEMMA QuietSteps ==
    ASSUME PgInv, NEW h \in Handlers,
           \/ Expire(h) \/ BeginTx(h) \/ Upsert(h) \/ UpsertOverflows(h)
           \/ DeadlockDetected(h) \/ Retry(h)
    PROVE  UNCHANGED <<tables, Phases, call, Replies>>
<1>1. SeenOf(h)
  BY OthersUnseen DEF StepOf, PgStep
<1>2. tables' = tables /\ call' = call
  BY DEF Expire, BeginTx, Upsert, UpsertOverflows, DeadlockDetected, Retry
<1>3. PhaseOf(h)' = PhaseOf(h) /\ ReplyOf(h)' = ReplyOf(h)
  <2>1. CASE Expire(h)
    BY <2>1 DEF Expire, PhaseOf, ReplyOf, Answered, Failed, ShouldRetry
  <2>2. CASE BeginTx(h) \/ Upsert(h)
    <3>1. /\ pc[h] \in {"begin", "query"} /\ err' = err /\ call' = call
          /\ pc'[h] = "query" \/ (pc'[h] = "commit" /\ IsUpdate(call[h]))
      BY <2>2 DEF BeginTx, Upsert, Upserting, Goto, PgInv, PgTypeOK
    <3> QED
      BY <3>1 DEF PhaseOf, ReplyOf, Answered, Failed
  <2>3. CASE UpsertOverflows(h) \/ DeadlockDetected(h)
    <3>1. pc[h] = "query" /\ pc'[h] = "rollback" /\ err'[h] = "other"
      BY <2>3 DEF UpsertOverflows, DeadlockDetected, InCycle, WaitsFor, Upserting, Ends, Goto,
         PgInv, PgTypeOK
    <3> QED
      BY <3>1 DEF PhaseOf, ReplyOf, Answered, Failed
  <2>4. CASE Retry(h)
    BY <2>4 DEF Retry, Ends, Goto, PhaseOf, ReplyOf, Answered, Failed, ShouldRetry,
       PgInv, PgTypeOK
  <2> QED
    BY <2>1, <2>2, <2>3, <2>4
<1> QED
  BY <1>1, <1>2, <1>3 DEF SeenOf

\* A step of the abstract store, or none.
Implements(h) ==
    \/ Abstract!Begin(h) \/ Abstract!End(h)
    \/ call[h].op # "GetMetricsByTypes" /\ Abstract!TakeEffect(h)
    \/ Abstract!Unheard(h) \/ Abstract!DumpGauges(h) \/ Abstract!DumpCounters(h)
    \/ Abstract!Forget(h) \/ Abstract!Fail(h) \/ Abstract!EndFailed(h)
    \/ UNCHANGED <<tables, Phases, call, Replies>>

LEMMA CallBegins ==
    ASSUME PgInv, NEW h \in Handlers, Call(h)
    PROVE  Implements(h)
<1>1. SeenOf(h)
  BY OthersUnseen DEF StepOf
<1>2. PhaseOf(h) = "idle" /\ PhaseOf(h)' = "pending" /\ ReplyOf(h) = NoReply /\ ReplyOf(h)' = NoReply
  BY DEF Call, Goto, PhaseOf, ReplyOf, Answered, Failed, PgInv, PgTypeOK
<1>3. Phases[h] = "idle" /\ Phases' = [Phases EXCEPT ![h] = "pending"] /\ Replies' = Replies
  BY ONLY <1>1, <1>2 DEF SeenOf
<1>4. tables' = tables /\ \E r \in Requests : call' = [call EXCEPT ![h] = r]
  BY DEF Call
<1> QED
  BY <1>3, <1>4 DEF Implements, Abstract!Begin, Phases, Replies

\* A get takes effect when its row is selected, or is found missing.
LEMMA SelectTakesEffect ==
    ASSUME PgInv, NEW h \in Handlers, Select(h)
    PROVE  Implements(h)
<1>1. SeenOf(h)
  BY OthersUnseen DEF StepOf, PgStep
<1>2. /\ pc[h] = "query" /\ call[h].op = "GetMetric" /\ ~IsUpdate(call[h]) /\ result[h] = <<>>
      /\ call' = call /\ tables' = tables /\ err[h] = "none"
  BY DEF Select, IsUpdate, PgInv, ErrInv, ReadInv
<1>3. \/ pc'[h] = "commit" /\ result'[h] = <<Current(tables, call[h].metrics[1])>>
         /\ Has(tables, call[h].metrics[1])
      \/ pc'[h] = "rollback" /\ err'[h] = "noRows" /\ result'[h] = <<>>
         /\ ~Has(tables, call[h].metrics[1])
  BY <1>2 DEF Select, Goto, Ends, PgInv, PgTypeOK
<1>4. PhaseOf(h) = "pending" /\ PhaseOf(h)' = "done"
  BY <1>2, <1>3 DEF PhaseOf, Answered, Failed
<1>5. ReplyOf(h)' = [metrics |-> IF Has(tables, call[h].metrics[1])
                                 THEN <<Current(tables, call[h].metrics[1])>> ELSE <<>>,
                     dump |-> EmptySnapshot]
  BY <1>2, <1>3 DEF ReplyOf, Answered
<1>6. Abstract!Answer(tables, call[h]) =
         [NoReply EXCEPT !.metrics = IF Has(tables, call[h].metrics[1])
                                     THEN <<Current(tables, call[h].metrics[1])>> ELSE <<>>]
  BY <1>2, SameOperators DEF Abstract!Answer
<1>7. Abstract!After(tables, call[h]) = tables
  BY <1>2, SameOperators DEF Abstract!After
<1>8. ReplyOf(h)' = Abstract!Answer(tables, call[h])
  BY <1>5, <1>6 DEF NoReply
<1>9. /\ Phases[h] = "pending" /\ Phases' = [Phases EXCEPT ![h] = "done"]
      /\ Replies' = [Replies EXCEPT ![h] = Abstract!Answer(tables, call[h])]
  BY ONLY <1>1, <1>4, <1>8 DEF SeenOf
<1> QED
  BY <1>2, <1>7, <1>9 DEF Implements, Abstract!TakeEffect, Phases, Replies

LEMMA DumpImplements ==
    ASSUME PgInv, NEW h \in Handlers, SelectGauges(h) \/ SelectCounters(h)
    PROVE  Implements(h)
<1>1. SeenOf(h)
  BY OthersUnseen DEF StepOf, PgStep
<1>2. /\ call[h].op = "GetMetricsByTypes" /\ ~IsUpdate(call[h]) /\ result[h] = <<>>
      /\ UNCHANGED <<tables, call, result, err>> /\ err[h] = "none"
      /\ work[h] \in Snapshot
  BY DEF SelectGauges, SelectCounters, IsUpdate, PgInv, PgTypeOK, CallInv, ErrInv, ReadInv
<1>3. CASE SelectGauges(h)
  <2>1. pc[h] = "query" /\ pc'[h] = "dump" /\ work'[h].gauge = tables.gauge
    BY <1>2, <1>3, SelectsAll DEF SelectGauges, Goto, PgInv, PgTypeOK, Snapshot
  <2>2. /\ PhaseOf(h) = "pending" /\ PhaseOf(h)' = "half" /\ ReplyOf(h) = NoReply
        /\ ReplyOf(h)' = [NoReply EXCEPT !.dump.gauge = tables.gauge]
    BY <1>2, <2>1 DEF PhaseOf, ReplyOf, Answered, Failed
  <2>3. /\ Phases[h] = "pending" /\ Phases' = [Phases EXCEPT ![h] = "half"]
        /\ Replies[h] = NoReply
        /\ Replies' = [Replies EXCEPT ![h] = [NoReply EXCEPT !.dump.gauge = tables.gauge]]
    BY ONLY <1>1, <2>2 DEF SeenOf
  <2>4. Replies' = [Replies EXCEPT ![h].dump.gauge = tables.gauge]
    BY ONLY <2>3
  <2> QED
    BY <1>2, <2>3, <2>4 DEF Implements, Abstract!DumpGauges, Phases, Replies
<1>4. CASE SelectCounters(h)
  <2>1. /\ pc[h] = "dump" /\ pc'[h] = "commit"
        /\ work'[h] = [work[h] EXCEPT !.counter = tables.counter]
    BY <1>4, SelectsAll DEF SelectCounters, Goto, PgInv, PgTypeOK
  <2>2. /\ PhaseOf(h) = "half" /\ PhaseOf(h)' = "done"
        /\ ReplyOf(h) = [NoReply EXCEPT !.dump.gauge = work[h].gauge]
        /\ ReplyOf(h)' = [metrics |-> <<>>, dump |-> work'[h]]
    BY <1>2, <2>1 DEF PhaseOf, ReplyOf, Answered, Failed
  <2>3. /\ Phases[h] = "half" /\ Phases' = [Phases EXCEPT ![h] = "done"]
        /\ Replies[h] = [NoReply EXCEPT !.dump.gauge = work[h].gauge]
        /\ Replies' = [Replies EXCEPT ![h] = [metrics |-> <<>>, dump |-> work'[h]]]
    BY ONLY <1>1, <2>2 DEF SeenOf
  <2>4. [metrics |-> <<>>, dump |-> work'[h]]
           = [[NoReply EXCEPT !.dump.gauge = work[h].gauge] EXCEPT !.dump.counter = tables.counter]
    <3>1. work[h] = [gauge |-> work[h].gauge, counter |-> work[h].counter]
      BY <1>2 DEF Snapshot
    <3>2. work'[h] = [gauge |-> work[h].gauge, counter |-> tables.counter]
      BY ONLY <2>1, <3>1
    <3>3. [[NoReply EXCEPT !.dump.gauge = work[h].gauge] EXCEPT !.dump.counter = tables.counter]
            = [metrics |-> <<>>, dump |-> [gauge |-> work[h].gauge, counter |-> tables.counter]]
      <4>1. [NoReply EXCEPT !.dump.gauge = work[h].gauge]
              = [metrics |-> <<>>, dump |-> [gauge |-> work[h].gauge, counter |-> EmptyMap]]
        BY ONLY TRUE DEF NoReply, EmptySnapshot
      <4>2. [[metrics |-> <<>>, dump |-> [gauge |-> work[h].gauge, counter |-> EmptyMap]]
               EXCEPT !.dump.counter = tables.counter]
              = [metrics |-> <<>>, dump |-> [gauge |-> work[h].gauge, counter |-> tables.counter]]
        BY ONLY TRUE
      <4> QED
        BY ONLY <4>1, <4>2, Zenon
    <3> QED
      BY ONLY <3>2, <3>3
  <2>5. Replies' = [Replies EXCEPT ![h].dump.counter = tables.counter]
    BY ONLY <2>3, <2>4
  <2> QED
    BY <1>2, <2>3, <2>5 DEF Implements, Abstract!DumpCounters, Phases, Replies
<1> QED
  BY <1>3, <1>4

LEMMA CommitImplements ==
    ASSUME PgInv, NEW h \in Handlers, Commit(h)
    PROVE  Implements(h)
<1>1. SeenOf(h)
  BY OthersUnseen DEF StepOf, PgStep
<1>2. /\ pc[h] = "commit" /\ pc'[h] = "reply" /\ tables' = Overlay(tables, written[h])
      /\ UNCHANGED <<call, result, work>> /\ err[h] = "none"
  BY DEF Commit, Ends, Goto, PgInv, PgTypeOK, ErrInv
<1>3. PhaseOf(h)' = "done"
      /\ ReplyOf(h)' = [metrics |-> result[h],
                        dump |-> IF call[h].op = "GetMetricsByTypes" THEN work[h] ELSE EmptySnapshot]
  BY <1>2 DEF PhaseOf, ReplyOf, Answered
<1>4. CASE IsUpdate(call[h])
  <2>1. call[h].op # "GetMetricsByTypes" /\ PhaseOf(h) = "pending"
    BY <1>2, <1>4 DEF IsUpdate, PhaseOf, Answered, Failed
  <2>2. /\ tables' = Abstract!After(tables, call[h])
        /\ ReplyOf(h)' = Abstract!Answer(tables, call[h])
    BY <1>2, <1>3, <1>4, <2>1, CommitApplies
  <2>3. /\ Phases[h] = "pending" /\ Phases' = [Phases EXCEPT ![h] = "done"]
        /\ Replies' = [Replies EXCEPT ![h] = Abstract!Answer(tables, call[h])]
    BY ONLY <1>1, <1>3, <2>1, <2>2 DEF SeenOf
  <2> QED
    BY <1>2, <2>1, <2>2, <2>3 DEF Implements, Abstract!TakeEffect, Phases, Replies
<1>5. CASE ~IsUpdate(call[h])
  <2>1. PhaseOf(h) = "done" /\ ReplyOf(h) = ReplyOf(h)'
    BY <1>2, <1>3, <1>5 DEF PhaseOf, ReplyOf, Answered
  <2>2. tables' = tables
    BY <1>2, <1>5, CommitOfRead
  <2> QED
    BY <1>1, <1>2, <1>3, <2>1, <2>2 DEF Implements, SeenOf
<1> QED
  BY <1>4, <1>5

\* The commit of which nobody heard: an update has taken effect, and a read
\* has no answer.
LEMMA UnheardImplements ==
    ASSUME PgInv, NEW h \in Handlers, CommitUnheard(h)
    PROVE  Implements(h)
<1>1. SeenOf(h)
  BY OthersUnseen DEF StepOf
<1>2. /\ pc[h] = "commit" /\ pc'[h] = "rollback" /\ err'[h] \in Failures
      /\ tables' = Overlay(tables, written[h]) /\ UNCHANGED call /\ err[h] = "none"
  BY DEF CommitUnheard, Ends, Goto, PgInv, PgTypeOK, ErrInv
<1>3. PhaseOf(h)' = "pending" /\ ReplyOf(h)' = NoReply
  BY <1>2 DEF PhaseOf, ReplyOf, Answered, Failed, Failures
<1>4. CASE IsUpdate(call[h])
  <2>1. PhaseOf(h) = "pending" /\ ReplyOf(h) = NoReply
    BY <1>2, <1>4 DEF PhaseOf, ReplyOf, Answered, Failed
  <2>2. tables' = Abstract!After(tables, call[h]) /\ Abstract!IsUpdate(call[h])
    BY <1>2, <1>4, CommitApplies, SameOperators
  <2>3. Phases[h] = "pending" /\ Phases' = Phases /\ Replies' = Replies
    BY ONLY <1>1, <1>3, <2>1 DEF SeenOf
  <2> QED
    BY <1>2, <2>2, <2>3 DEF Implements, Abstract!Unheard, Phases, Replies
<1>5. CASE ~IsUpdate(call[h])
  <2>1. PhaseOf(h) = "done" /\ ~Abstract!IsUpdate(call[h])
    BY <1>2, <1>5, SameOperators DEF PhaseOf, Answered
  <2>2. tables' = tables
    BY <1>2, <1>5, CommitOfRead
  <2>3. /\ Phases[h] = "done" /\ Phases' = [Phases EXCEPT ![h] = "pending"]
        /\ Replies' = [Replies EXCEPT ![h] = Abstract!NoReply]
    BY ONLY <1>1, <1>3, <2>1, SameOperators DEF SeenOf
  <2> QED
    BY <1>2, <2>1, <2>2, <2>3 DEF Implements, Abstract!Forget, Phases, Replies
<1> QED
  BY <1>4, <1>5

\* An attempt that fails: what a read has read is not returned, and nothing
\* of an update has taken effect.
LEMMA FailureImplements ==
    ASSUME PgInv, NEW h \in Handlers,
           TxFails(h) \/ BeginFails(h) \/ ContextDone(h) \/ Rollback(h)
    PROVE  Implements(h)
<1>1. SeenOf(h)
  BY OthersUnseen DEF StepOf, PgStep
<1>2. UNCHANGED <<tables, call>>
  BY DEF TxFails, BeginFails, ContextDone, Rollback
<1>3. \/ /\ pc[h] \in {"query", "dump", "commit"} /\ pc'[h] = "rollback"
         /\ err[h] = "none" /\ err'[h] \in Failures
      \/ pc[h] = "begin" /\ pc'[h] = "ended" /\ err[h] = "none" /\ err'[h] \in Failures
      \/ /\ pc[h] = "rollback" /\ pc'[h] = "ended"
         /\ UNCHANGED <<err, result, work>>
  BY DEF TxFails, BeginFails, ContextDone, Rollback, Ends, Goto, PgInv, PgTypeOK, ErrInv, Failures
<1>4. CASE /\ pc[h] \in {"query", "dump", "commit"} /\ pc'[h] = "rollback"
           /\ err[h] = "none" /\ err'[h] \in Failures
  <2>1. PhaseOf(h)' = "pending" /\ ReplyOf(h)' = NoReply
    BY <1>4 DEF PhaseOf, ReplyOf, Answered, Failed, Failures
  <2>2. CASE pc[h] = "query" \/ (pc[h] = "commit" /\ IsUpdate(call[h]))
    <3>1. PhaseOf(h) = "pending" /\ ReplyOf(h) = NoReply
      BY <1>4, <2>2 DEF PhaseOf, ReplyOf, Answered, Failed
    <3> QED
      BY <1>1, <1>2, <2>1, <3>1 DEF Implements, SeenOf
  <2>3. CASE pc[h] = "dump" \/ (pc[h] = "commit" /\ ~IsUpdate(call[h]))
    <3>1. PhaseOf(h) \in {"half", "done"} /\ ~Abstract!IsUpdate(call[h])
      BY <1>4, <2>3, SameOperators DEF PhaseOf, Answered, Failed, PgInv, CallInv, IsUpdate
    <3>2. /\ Phases[h] \in {"half", "done"} /\ Phases' = [Phases EXCEPT ![h] = "pending"]
          /\ Replies' = [Replies EXCEPT ![h] = Abstract!NoReply]
      BY ONLY <1>1, <2>1, <3>1, SameOperators DEF SeenOf
    <3> QED
      BY <1>2, <3>1, <3>2 DEF Implements, Abstract!Forget, Phases, Replies
  <2> QED
    BY <1>4, <2>2, <2>3
<1>5. CASE \/ pc[h] = "begin" /\ pc'[h] = "ended" /\ err[h] = "none" /\ err'[h] \in Failures
           \/ pc[h] = "rollback" /\ pc'[h] = "ended" /\ err' = err /\ err[h] # "noRows"
  <2>1. /\ PhaseOf(h) = "pending" /\ ReplyOf(h) = NoReply
        /\ PhaseOf(h)' \in {"pending", "failed"} /\ ReplyOf(h)' = NoReply
    BY <1>5 DEF PhaseOf, ReplyOf, Answered, Failed, Failures
  <2>2. /\ Phases[h] = "pending" /\ Replies' = Replies
        /\ Phases' = Phases \/ Phases' = [Phases EXCEPT ![h] = "failed"]
    BY ONLY <1>1, <2>1 DEF SeenOf
  <2> QED
    BY <1>2, <2>2 DEF Implements, Abstract!Fail, Phases, Replies
<1>6. CASE pc[h] = "rollback" /\ pc'[h] = "ended" /\ UNCHANGED <<err, result, work>>
           /\ err[h] = "noRows"
  <2>1. PhaseOf(h)' = PhaseOf(h) /\ ReplyOf(h)' = ReplyOf(h)
    BY <1>2, <1>6 DEF PhaseOf, ReplyOf, Answered
  <2> QED
    BY <1>1, <1>2, <2>1 DEF Implements, SeenOf
<1> QED
  BY <1>3, <1>4, <1>5, <1>6

LEMMA ReturnEnds ==
    ASSUME PgInv, NEW h \in Handlers, Return(h)
    PROVE  Implements(h)
<1>1. SeenOf(h)
  BY OthersUnseen DEF StepOf, PgStep
<1>2. /\ pc[h] = "reply" \/ Failed(h)
      /\ pc'[h] = "idle" /\ tables' = tables /\ call' = [call EXCEPT ![h] = Abstract!NoCall]
  BY SameOperators DEF Return, Ends, Goto, PgInv, PgTypeOK
<1>3. PhaseOf(h)' = "idle" /\ ReplyOf(h)' = NoReply
  BY <1>2 DEF PhaseOf, ReplyOf, Answered
<1>4. PhaseOf(h) = "done" \/ (PhaseOf(h) = "failed" /\ ReplyOf(h) = NoReply)
  BY <1>2 DEF PhaseOf, ReplyOf, Answered, Failed
<1>5. CASE PhaseOf(h) = "done"
  <2>1. /\ Phases[h] = "done" /\ Phases' = [Phases EXCEPT ![h] = "idle"]
        /\ Replies' = [Replies EXCEPT ![h] = Abstract!NoReply]
    BY ONLY <1>1, <1>3, <1>5, SameOperators DEF SeenOf
  <2> QED
    BY <1>2, <2>1 DEF Implements, Abstract!End, Phases, Replies
<1>6. CASE PhaseOf(h) = "failed" /\ ReplyOf(h) = NoReply
  <2>1. Phases[h] = "failed" /\ Phases' = [Phases EXCEPT ![h] = "idle"] /\ Replies' = Replies
    BY ONLY <1>1, <1>3, <1>6 DEF SeenOf
  <2> QED
    BY <1>2, <2>1 DEF Implements, Abstract!EndFailed, Phases, Replies
<1> QED
  BY <1>4, <1>5, <1>6

\* PgStorage is a store whose calls are retried: with any number of handlers
\* and of retries, whatever is lost and whenever, an update takes effect as a
\* whole on top of all that were committed before, and the answer to a call
\* is the one of an instant at which it took effect.
THEOREM PgImplementsRetriedStore == PgSpec => RetriedLinearizable
<1>1. PgInit => Abstract!StoreInit
  <2> SUFFICES ASSUME PgInit PROVE Abstract!StoreInit
    OBVIOUS
  <2>1. tables = Abstract!EmptySnapshot
    BY DEF PgInit, Abstract!EmptySnapshot, Abstract!EmptyMap, EmptySnapshot, EmptyMap
  <2>2. /\ Phases = [h \in Handlers |-> "idle"] /\ call = [h \in Handlers |-> Abstract!NoCall]
        /\ Replies = [h \in Handlers |-> Abstract!NoReply]
    BY PhasesAre, RepliesAre, SameOperators DEF PgInit, PhaseOf, ReplyOf, Answered
  <2> QED
    BY <2>1, <2>2 DEF Abstract!StoreInit, Phases, Replies
<1>2. PgInv /\ [PgNext]_pgVars => [Abstract!RetriedNext]_(Abstract!storeVars)
  <2> SUFFICES ASSUME PgInv, [PgNext]_pgVars
               PROVE  Abstract!RetriedNext \/ UNCHANGED <<tables, Phases, call, Replies>>
    BY DEF Abstract!storeVars, Phases, Replies
  <2>1. CASE PgNext
    <3>1. PICK h \in Handlers : StepOf(h)
      BY <2>1 DEF PgNext, StepOf
    <3>2. Implements(h)
      <4>1. ASSUME UNCHANGED <<tables, Phases, call, Replies>> PROVE Implements(h)
        BY <4>1 DEF Implements
      <4> QED
        BY <3>1, <4>1, QuietSteps, CallBegins, SelectTakesEffect, DumpImplements,
           CommitImplements, UnheardImplements, FailureImplements, ReturnEnds
        DEF StepOf, PgStep
    <3> QED
      BY <3>2 DEF Implements, Abstract!RetriedNext
  <2>2. CASE UNCHANGED pgVars
    BY <2>2 DEF pgVars, Phases, Replies, Answered, Failed, ShouldRetry
  <2> QED
    BY <2>1, <2>2
<1> QED
  BY <1>1, <1>2, PgInvariant, PTL DEF PgSpec, RetriedLinearizable, Abstract!RetriedSpec
============================================================================
