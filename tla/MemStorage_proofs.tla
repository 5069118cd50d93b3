------------------------ MODULE MemStorage_proofs ------------------------
(***************************************************************************)
(* MemStorage, for any handlers, requests, names, values and width of a    *)
(* counter.  MemInv is the inductive invariant: the type invariant, what   *)
(* the mutex has to do with the program counters, what a handler is doing  *)
(* at each of them, and how the maps, the local copies and the history     *)
(* hang together.                                                          *)
(***************************************************************************)
EXTENDS MemStorage, Metrics_proofs

WriterLabels   == {"waiting", "locked", "loop", "swap", "unlock"}
CriticalLabels == {"locked", "loop", "swap", "unlock"}
ReaderLabels   == {"rlocked", "dump", "runlock"}

\* Handlers hold the mutex where their program counters say so; there is one
\* writer, and no reader while it is in its critical section.
LockInv ==
    /\ \A h \in Handlers : h \in mutex.writer <=> pc[h] \in WriterLabels
    /\ \A h \in Handlers : h \in mutex.readers <=> pc[h] \in ReaderLabels
    /\ \A s, t \in mutex.writer : s = t
    /\ \A h \in Handlers : pc[h] \in CriticalLabels => mutex.readers = {}

\* A handler runs the code of the request it was given.
CallInv ==
    \A h \in Handlers :
        /\ pc[h] # "idle" => call[h] \in Requests
        /\ pc[h] \in WriterLabels => call[h].op \in Updates
        /\ pc[h] \in {"loop", "swap"} => call[h].op = "UpdateMetrics"
        /\ pc[h] \in ReaderLabels => call[h].op \in Reads
        /\ pc[h] = "dump" => call[h].op = "GetMetricsByTypes"

\* The maps are the latest version, except between the two swaps of a batch.
MapsInv ==
    /\ CounterMap = Last(hist).counter
    /\ (\A h \in Handlers : pc[h] # "swap") => GaugeMap = Last(hist).gauge
    /\ \A h \in Handlers : pc[h] = "swap" => GaugeMap = work[h].gauge

\* The copies of a batch are of the latest version, and those of a dump of
\* the version it was taken of.
VersionInv ==
    \A h \in Handlers :
        /\ pc[h] \in {"loop", "swap"} => at[h] = Len(hist)
        /\ pc[h] = "dump" => at[h] = Len(hist) /\ work[h].gauge = Last(hist).gauge
        /\ pc[h] \in {"runlock", "reply"} /\ call[h].op = "GetMetricsByTypes"
              => at[h] \in 1 .. Len(hist) /\ work[h] = hist[at[h]]

MemInv == MemTypeOK /\ LockInv /\ CallInv /\ MapsInv /\ VersionInv

----------------------------------------------------------------------------
(* Facts the steps share.                                                  *)

LEMMA RequestType ==
    ASSUME NEW r \in Requests
    PROVE  /\ r.op \in Updates \cup Reads
           /\ r.metrics \in Seq(Metric)
           /\ r.op \in {"GetMetric", "UpdateMetric"} => r.metrics[1] \in Metric
<1>1. /\ r \in [op: {"GetMetric", "UpdateMetric", "UpdateMetrics", "GetMetricsByTypes"},
                metrics: Seq(Metric)]
      /\ r.op \in {"GetMetric", "UpdateMetric"} => Len(r.metrics) = 1
  BY MemAssumption
<1> QED
  BY <1>1 DEF Updates, Reads

\* The latest version is a snapshot, and a version added to the history is
\* the latest and leaves the others as they are.
LEMMA HistoryFacts ==
    ASSUME NEW s \in Seq(Snapshot), s # <<>>, NEW v \in Snapshot
    PROVE  /\ Len(s) \in Nat \ {0}
           /\ Last(s) = s[Len(s)] /\ Last(s) \in Snapshot
           /\ Append(s, v) \in Seq(Snapshot) /\ Append(s, v) # <<>>
           /\ Len(Append(s, v)) = Len(s) + 1
           /\ Last(Append(s, v)) = v
           /\ \A i \in 1 .. Len(s) : Append(s, v)[i] = s[i]
  BY DEF Last

----------------------------------------------------------------------------
(* The initial state, and every action, establishes the invariant.         *)

LEMMA MemInitInv == MemInit => MemInv
  BY EmptySnapshotType, EmptyMapType
  DEF MemInit, MemInv, MemTypeOK, LockInv, CallInv, MapsInv, VersionInv, Maps, Labels,
      EmptySnapshot, Last, WriterLabels, CriticalLabels, ReaderLabels

LEMMA CallKeeps ==
    ASSUME NEW h \in Handlers, MemInv, Call(h)
    PROVE  MemInv'
<1> USE DEF Call, MemInv, Goto, Labels, Updates, Reads, WriterLabels, CriticalLabels, ReaderLabels
<1>1. MemTypeOK'
  BY DEF MemTypeOK
<1>2. LockInv'
  BY DEF LockInv, MemTypeOK
<1>3. CallInv'
  BY DEF CallInv, MemTypeOK
<1>4. MapsInv'
  BY HistoryFacts DEF MapsInv, MemTypeOK, LockInv
<1>5. VersionInv'
  BY HistoryFacts DEF VersionInv, MemTypeOK, LockInv, MapsInv, CallInv
<1> QED
  BY <1>1, <1>2, <1>3, <1>4, <1>5

LEMMA ClaimKeeps ==
    ASSUME NEW h \in Handlers, MemInv, Claim(h)
    PROVE  MemInv'
<1> USE DEF Claim, ClaimWrite, MemInv, Goto, Labels, Updates, Reads, WriterLabels, CriticalLabels, ReaderLabels
<1>1. MemTypeOK'
  <2>1. mutex' \in [writer: SUBSET Threads, readers: SUBSET Threads]
    BY MemAssumption DEF MemTypeOK
  <2> QED
    BY <2>1 DEF MemTypeOK
<1>2. LockInv'
  BY DEF LockInv, MemTypeOK
<1>3. CallInv'
  BY DEF CallInv, MemTypeOK
<1>4. MapsInv'
  BY HistoryFacts DEF MapsInv, MemTypeOK, LockInv
<1>5. VersionInv'
  BY HistoryFacts DEF VersionInv, MemTypeOK, LockInv, MapsInv, CallInv
<1> QED
  BY <1>1, <1>2, <1>3, <1>4, <1>5

LEMMA LockKeeps ==
    ASSUME NEW h \in Handlers, MemInv, Lock(h)
    PROVE  MemInv'
<1> USE DEF Lock, MemInv, Goto, Labels, Updates, Reads, WriterLabels, CriticalLabels, ReaderLabels
<1>1. MemTypeOK'
  BY DEF MemTypeOK
<1>2. LockInv'
  BY DEF LockInv, MemTypeOK
<1>3. CallInv'
  BY DEF CallInv, MemTypeOK
<1>4. MapsInv'
  BY HistoryFacts DEF MapsInv, MemTypeOK, LockInv
<1>5. VersionInv'
  BY HistoryFacts DEF VersionInv, MemTypeOK, LockInv, MapsInv, CallInv
<1> QED
  BY <1>1, <1>2, <1>3, <1>4, <1>5

LEMMA RLockKeeps ==
    ASSUME NEW h \in Handlers, MemInv, RLock(h)
    PROVE  MemInv'
<1> USE DEF RLock, AcquireRead, MemInv, Goto, Labels, Updates, Reads, WriterLabels, CriticalLabels, ReaderLabels
<1>1. MemTypeOK'
  <2>1. mutex.readers \cup {h} \in SUBSET Threads
    BY MemAssumption DEF MemTypeOK
  <2>2. mutex' \in [writer: SUBSET Threads, readers: SUBSET Threads]
    BY <2>1 DEF MemTypeOK
  <2> QED
    BY <2>2 DEF MemTypeOK
<1>2. LockInv'
  BY DEF LockInv, MemTypeOK
<1>3. CallInv'
  BY DEF CallInv, MemTypeOK
<1>4. MapsInv'
  BY HistoryFacts DEF MapsInv, MemTypeOK, LockInv
<1>5. VersionInv'
  BY HistoryFacts DEF VersionInv, MemTypeOK, LockInv, MapsInv, CallInv
<1> QED
  BY <1>1, <1>2, <1>3, <1>4, <1>5

LEMMA UnlockKeeps ==
    ASSUME NEW h \in Handlers, MemInv, Unlock(h)
    PROVE  MemInv'
<1> USE DEF Unlock, ReleaseWrite, MemInv, Goto, Labels, Updates, Reads, WriterLabels, CriticalLabels, ReaderLabels
<1>1. MemTypeOK'
  BY DEF MemTypeOK
<1>2. LockInv'
  BY DEF LockInv, MemTypeOK
<1>3. CallInv'
  BY DEF CallInv, MemTypeOK
<1>4. MapsInv'
  BY HistoryFacts DEF MapsInv, MemTypeOK, LockInv
<1>5. VersionInv'
  <2>1. /\ pc' = [pc EXCEPT ![h] = "reply"] /\ pc \in [Handlers -> Labels]
        /\ UNCHANGED <<call, work, hist, at>>
    BY DEF MemTypeOK
  <2>2. call[h].op # "GetMetricsByTypes"
    BY DEF CallInv
  <2> QED
    BY ONLY <2>1, <2>2, VersionInv, h \in Handlers DEF VersionInv
<1> QED
  BY <1>1, <1>2, <1>3, <1>4, <1>5

LEMMA RUnlockKeeps ==
    ASSUME NEW h \in Handlers, MemInv, RUnlock(h)
    PROVE  MemInv'
<1> USE DEF RUnlock, ReleaseRead, MemInv, Goto, Labels, Updates, Reads, WriterLabels, CriticalLabels, ReaderLabels
<1>1. MemTypeOK'
  BY DEF MemTypeOK
<1>2. LockInv'
  BY DEF LockInv, MemTypeOK
<1>3. CallInv'
  BY DEF CallInv, MemTypeOK
<1>4. MapsInv'
  BY HistoryFacts DEF MapsInv, MemTypeOK, LockInv
<1>5. VersionInv'
  BY HistoryFacts DEF VersionInv, MemTypeOK, LockInv, MapsInv, CallInv
<1> QED
  BY <1>1, <1>2, <1>3, <1>4, <1>5

LEMMA UpdateMetricKeeps ==
    ASSUME NEW h \in Handlers, MemInv, UpdateMetric(h)
    PROVE  MemInv'
<1> USE DEF UpdateMetric, Commit, MemInv, Goto, Labels, Updates, Reads, WriterLabels, CriticalLabels, ReaderLabels
<1>1. MemTypeOK'
  <2> DEFINE m == call[h].metrics[1]
             new == Apply(Maps, m)
  <2>1. Maps \in Snapshot /\ m \in Metric
    BY RequestType DEF MemTypeOK, CallInv, Maps, Snapshot
  <2>2. new \in Snapshot /\ Current(new, m) \in Metric
    BY <2>1, ApplyType
  <2>3. new.gauge \in MapTo(GaugeValues) /\ new.counter \in MapTo(Counter)
    BY <2>2 DEF Snapshot
  <2>4. <<Current(new, m)>> \in Seq(Metric)
    BY <2>2
  <2>5. hist' \in Seq(Snapshot) /\ hist' # <<>> /\ at' \in [Handlers -> 0 .. Len(hist')]
    <3>1. hist' = Append(hist, new) /\ at' = [at EXCEPT ![h] = Len(hist) + 1]
      OBVIOUS
    <3>2. hist \in Seq(Snapshot) /\ hist # <<>> /\ at \in [Handlers -> 0 .. Len(hist)]
      BY DEF MemTypeOK
    <3> HIDE DEF new, m
    <3>3. /\ Len(hist) \in Nat /\ Len(hist') = Len(hist) + 1
          /\ hist' \in Seq(Snapshot) /\ hist' # <<>>
      BY ONLY <2>2, <3>1, <3>2, HistoryFacts
    <3> QED
      BY ONLY <3>1, <3>2, <3>3
  <2>6. result' \in [Handlers -> Seq(Metric)] /\ pc' \in [Handlers -> Labels]
    <3>1. /\ result' = [result EXCEPT ![h] = <<Current(new, m)>>]
          /\ pc' = [pc EXCEPT ![h] = "unlock"]
      OBVIOUS
    <3>2. result \in [Handlers -> Seq(Metric)] /\ pc \in [Handlers -> Labels]
      BY DEF MemTypeOK
    <3> HIDE DEF new, m
    <3> QED
      BY ONLY <2>4, <3>1, <3>2 DEF Labels
  <2>7. GaugeMap' \in MapTo(GaugeValues) /\ CounterMap' \in MapTo(Counter)
    BY <2>3
  <2>8. UNCHANGED <<mutex, call, work>>
    OBVIOUS
  <2> QED
    BY ONLY <2>5, <2>6, <2>7, <2>8, MemTypeOK DEF MemTypeOK, Labels
<1>2. LockInv'
  BY DEF LockInv, MemTypeOK
<1>3. CallInv'
  BY DEF CallInv, MemTypeOK
<1>4. MapsInv'
  <2> DEFINE m == call[h].metrics[1]
             new == Apply(Maps, m)
  <2>1. Maps \in Snapshot /\ m \in Metric
    BY RequestType DEF MemTypeOK, CallInv, Maps, Snapshot
  <2>2. new \in Snapshot
    BY <2>1, ApplyType
  <2>3. Last(hist') = new
    BY <2>2, HistoryFacts DEF MemTypeOK
  <2>4. \A k \in Handlers : pc'[k] # "swap"
    BY DEF MemTypeOK, LockInv
  <2>5. GaugeMap' = new.gauge /\ CounterMap' = new.counter
    OBVIOUS
  <2> HIDE DEF new
  <2> QED
    BY <2>3, <2>4, <2>5 DEF MapsInv
<1>5. VersionInv'
  BY HistoryFacts DEF VersionInv, MemTypeOK, LockInv, MapsInv, CallInv
<1> QED
  BY <1>1, <1>2, <1>3, <1>4, <1>5

LEMMA CopyMapsKeeps ==
    ASSUME NEW h \in Handlers, MemInv, CopyMaps(h)
    PROVE  MemInv'
<1> USE DEF CopyMaps, Observe, MemInv, Goto, Labels, Updates, Reads, WriterLabels, CriticalLabels, ReaderLabels
<1>1. MemTypeOK'
  <2>1. Maps \in Snapshot
    BY DEF MemTypeOK, Maps, Snapshot
  <2>2. at' \in [Handlers -> 0 .. Len(hist)]
    BY HistoryFacts DEF MemTypeOK
  <2> QED
    BY <2>1, <2>2 DEF MemTypeOK
<1>2. LockInv'
  BY DEF LockInv, MemTypeOK
<1>3. CallInv'
  BY DEF CallInv, MemTypeOK
<1>4. MapsInv'
  BY HistoryFacts DEF MapsInv, MemTypeOK, LockInv
<1>5. VersionInv'
  BY HistoryFacts DEF VersionInv, MemTypeOK, LockInv, MapsInv, CallInv
<1> QED
  BY <1>1, <1>2, <1>3, <1>4, <1>5

LEMMA ApplyNextKeeps ==
    ASSUME NEW h \in Handlers, MemInv, ApplyNext(h)
    PROVE  MemInv'
<1> USE DEF ApplyNext, MemInv, Goto, Labels, Updates, Reads, WriterLabels, CriticalLabels, ReaderLabels
<1>1. MemTypeOK'
  <2> DEFINE m == call[h].metrics[Len(result[h]) + 1]
             new == Apply(work[h], m)
  <2>1. call[h].metrics \in Seq(Metric)
    BY RequestType DEF CallInv
  <2>2. Len(result[h]) \in Nat
    BY DEF MemTypeOK
  <2>3. m \in Metric
    BY <2>1, <2>2
  <2>4. new \in Snapshot /\ Current(new, m) \in Metric
    BY <2>3, ApplyType DEF MemTypeOK
  <2>5. Append(result[h], Current(new, m)) \in Seq(Metric)
    BY <2>4 DEF MemTypeOK
  <2> HIDE DEF new
  <2> QED
    BY <2>4, <2>5 DEF MemTypeOK, new
<1>2. LockInv'
  BY DEF LockInv, MemTypeOK
<1>3. CallInv'
  BY DEF CallInv, MemTypeOK
<1>4. MapsInv'
  BY HistoryFacts DEF MapsInv, MemTypeOK, LockInv
<1>5. VersionInv'
  BY HistoryFacts DEF VersionInv, MemTypeOK, LockInv, MapsInv, CallInv
<1> QED
  BY <1>1, <1>2, <1>3, <1>4, <1>5

LEMMA SwapGaugeKeeps ==
    ASSUME NEW h \in Handlers, MemInv, SwapGauge(h)
    PROVE  MemInv'
<1> USE DEF SwapGauge, MemInv, Goto, Labels, Updates, Reads, WriterLabels, CriticalLabels, ReaderLabels
<1>1. MemTypeOK'
  <2>1. work[h].gauge \in MapTo(GaugeValues)
    BY DEF MemTypeOK, Snapshot
  <2> QED
    BY <2>1 DEF MemTypeOK
<1>2. LockInv'
  BY DEF LockInv, MemTypeOK
<1>3. CallInv'
  BY DEF CallInv, MemTypeOK
<1>4. MapsInv'
  BY HistoryFacts DEF MapsInv, MemTypeOK, LockInv
<1>5. VersionInv'
  BY HistoryFacts DEF VersionInv, MemTypeOK, LockInv, MapsInv, CallInv
<1> QED
  BY <1>1, <1>2, <1>3, <1>4, <1>5

LEMMA SwapCounterKeeps ==
    ASSUME NEW h \in Handlers, MemInv, SwapCounter(h)
    PROVE  MemInv'
<1> USE DEF SwapCounter, Commit, MemInv, Goto, Labels, Updates, Reads, WriterLabels, CriticalLabels, ReaderLabels
<1>1. MemTypeOK'
  <2>1. work[h] \in Snapshot /\ work[h].counter \in MapTo(Counter)
    BY DEF MemTypeOK, Snapshot
  <2>2. /\ hist' \in Seq(Snapshot) /\ hist' # <<>> /\ Len(hist) \in Nat
        /\ Len(hist') = Len(hist) + 1
    BY <2>1, HistoryFacts DEF MemTypeOK
  <2>3. at' \in [Handlers -> 0 .. Len(hist')]
    BY <2>2 DEF MemTypeOK
  <2> QED
    BY <2>1, <2>2, <2>3 DEF MemTypeOK
<1>2. LockInv'
  BY DEF LockInv, MemTypeOK
<1>3. CallInv'
  BY DEF CallInv, MemTypeOK
<1>4. MapsInv'
  BY HistoryFacts DEF MapsInv, MemTypeOK, LockInv
<1>5. VersionInv'
  BY HistoryFacts DEF VersionInv, MemTypeOK, LockInv, MapsInv, CallInv
<1> QED
  BY <1>1, <1>2, <1>3, <1>4, <1>5

LEMMA GetMetricKeeps ==
    ASSUME NEW h \in Handlers, MemInv, GetMetric(h)
    PROVE  MemInv'
<1> USE DEF GetMetric, Observe, MemInv, Goto, Labels, Updates, Reads, WriterLabels, CriticalLabels, ReaderLabels
<1>1. MemTypeOK'
  <2> DEFINE m == call[h].metrics[1]
             answer == IF Has(Maps, m) THEN <<Current(Maps, m)>> ELSE <<>>
  <2>1. Maps \in Snapshot /\ m \in Metric
    BY RequestType DEF MemTypeOK, CallInv, Maps, Snapshot
  <2>2. answer \in Seq(Metric)
    BY <2>1, CurrentType
  <2>3. at' \in [Handlers -> 0 .. Len(hist)]
    BY HistoryFacts DEF MemTypeOK
  <2> HIDE DEF answer
  <2> QED
    BY <2>2, <2>3 DEF MemTypeOK, answer
<1>2. LockInv'
  BY DEF LockInv, MemTypeOK
<1>3. CallInv'
  BY DEF CallInv, MemTypeOK
<1>4. MapsInv'
  BY HistoryFacts DEF MapsInv, MemTypeOK, LockInv
<1>5. VersionInv'
  BY HistoryFacts DEF VersionInv, MemTypeOK, LockInv, MapsInv, CallInv
<1> QED
  BY <1>1, <1>2, <1>3, <1>4, <1>5

LEMMA DumpGaugeKeeps ==
    ASSUME NEW h \in Handlers, MemInv, DumpGauge(h)
    PROVE  MemInv'
<1> USE DEF DumpGauge, Observe, MemInv, Goto, Labels, Updates, Reads, WriterLabels, CriticalLabels, ReaderLabels
<1>1. MemTypeOK'
  <2>1. [work[h] EXCEPT !.gauge = GaugeMap] \in Snapshot
    BY DEF MemTypeOK, Snapshot
  <2>2. at' \in [Handlers -> 0 .. Len(hist)]
    BY HistoryFacts DEF MemTypeOK
  <2> QED
    BY <2>1, <2>2 DEF MemTypeOK
<1>2. LockInv'
  BY DEF LockInv, MemTypeOK
<1>3. CallInv'
  BY DEF CallInv, MemTypeOK
<1>4. MapsInv'
  BY HistoryFacts DEF MapsInv, MemTypeOK, LockInv
<1>5. VersionInv'
  BY HistoryFacts DEF VersionInv, MemTypeOK, LockInv, MapsInv, CallInv
<1> QED
  BY <1>1, <1>2, <1>3, <1>4, <1>5

LEMMA DumpCounterKeeps ==
    ASSUME NEW h \in Handlers, MemInv, DumpCounter(h)
    PROVE  MemInv'
<1> USE DEF DumpCounter, MemInv, Goto, Labels, Updates, Reads, WriterLabels, CriticalLabels, ReaderLabels
<1>1. MemTypeOK'
  <2>1. [work[h] EXCEPT !.counter = CounterMap] \in Snapshot
    BY DEF MemTypeOK, Snapshot
  <2> QED
    BY <2>1 DEF MemTypeOK
<1>2. LockInv'
  BY DEF LockInv, MemTypeOK
<1>3. CallInv'
  BY DEF CallInv, MemTypeOK
<1>4. MapsInv'
  BY HistoryFacts DEF MapsInv, MemTypeOK, LockInv
<1>5. VersionInv'
  <2>1. /\ Last(hist) = hist[Len(hist)] /\ Last(hist) \in Snapshot
        /\ Len(hist) \in Nat \ {0}
    BY DEF MemTypeOK, Last
  <2>2. at[h] = Len(hist) /\ work[h].gauge = Last(hist).gauge /\ work[h] \in Snapshot
    BY DEF VersionInv, MemTypeOK
  <2>3. CounterMap = Last(hist).counter
    BY DEF MapsInv
  <2>4. [work[h] EXCEPT !.counter = CounterMap] = Last(hist)
    BY <2>1, <2>2, <2>3 DEF Snapshot
  <2>5. work'[h] = hist[at[h]] /\ at[h] \in 1 .. Len(hist)
    BY <2>1, <2>2, <2>4 DEF MemTypeOK
  <2> QED
    BY <2>5 DEF VersionInv, MemTypeOK
<1> QED
  BY <1>1, <1>2, <1>3, <1>4, <1>5

LEMMA ReturnKeeps ==
    ASSUME NEW h \in Handlers, MemInv, Return(h)
    PROVE  MemInv'
<1> USE DEF Return, MemInv, Goto, Labels, Updates, Reads, WriterLabels, CriticalLabels, ReaderLabels
<1>1. MemTypeOK'
  BY EmptySnapshotType DEF MemTypeOK
<1>2. LockInv'
  BY DEF LockInv, MemTypeOK
<1>3. CallInv'
  BY DEF CallInv, MemTypeOK
<1>4. MapsInv'
  BY HistoryFacts DEF MapsInv, MemTypeOK, LockInv
<1>5. VersionInv'
  BY HistoryFacts DEF VersionInv, MemTypeOK, LockInv, MapsInv, CallInv
<1> QED
  BY <1>1, <1>2, <1>3, <1>4, <1>5
----------------------------------------------------------------------------
(* The specification                                                       *)

LEMMA HandlerStepKeeps ==
    ASSUME NEW h \in Handlers, MemInv, Call(h) \/ HandlerStep(h)
    PROVE  MemInv'
<1>1. CASE Call(h)
  BY <1>1, CallKeeps
<1>2. CASE Claim(h)
  BY <1>2, ClaimKeeps
<1>3. CASE Lock(h)
  BY <1>3, LockKeeps
<1>4. CASE RLock(h)
  BY <1>4, RLockKeeps
<1>5. CASE Unlock(h)
  BY <1>5, UnlockKeeps
<1>6. CASE RUnlock(h)
  BY <1>6, RUnlockKeeps
<1>7. CASE UpdateMetric(h)
  BY <1>7, UpdateMetricKeeps
<1>8. CASE CopyMaps(h)
  BY <1>8, CopyMapsKeeps
<1>9. CASE ApplyNext(h)
  BY <1>9, ApplyNextKeeps
<1>10. CASE SwapGauge(h)
  BY <1>10, SwapGaugeKeeps
<1>11. CASE SwapCounter(h)
  BY <1>11, SwapCounterKeeps
<1>12. CASE GetMetric(h)
  BY <1>12, GetMetricKeeps
<1>13. CASE DumpGauge(h)
  BY <1>13, DumpGaugeKeeps
<1>14. CASE DumpCounter(h)
  BY <1>14, DumpCounterKeeps
<1>15. CASE Return(h)
  BY <1>15, ReturnKeeps
<1> QED
  BY <1>1, <1>2, <1>3, <1>4, <1>5, <1>6, <1>7, <1>8,
     <1>9, <1>10, <1>11, <1>12, <1>13, <1>14, <1>15 DEF HandlerStep

LEMMA MemStutterKeeps == MemInv /\ UNCHANGED memVars => MemInv'
  BY DEF memVars, MemInv, MemTypeOK, LockInv, CallInv, MapsInv, VersionInv

\* The invariant holds in every reachable state.
THEOREM MemInvariant == MemSpec => []MemInv
<1>1. MemInit => MemInv
  BY MemInitInv
<1>2. MemInv /\ [MemNext]_memVars => MemInv'
  BY HandlerStepKeeps, MemStutterKeeps DEF MemNext
<1> QED
  BY <1>1, <1>2, PTL DEF MemSpec

\* Type correctness: in particular no counter leaves its 64 bits.
THEOREM MemTypeCorrect == MemSpec => []MemTypeOK
<1>1. MemInv => MemTypeOK
  BY DEF MemInv
<1> QED
  BY <1>1, MemInvariant, PTL

\* A dump (GetMetricsByTypes) is one version of the storage, whatever batches
\* are applied at the same time.
THEOREM DumpsAreAtomic == MemSpec => []DumpIsAtomic
<1>1. MemInv => DumpIsAtomic
  BY DEF MemInv, VersionInv, DumpIsAtomic
<1> QED
  BY <1>1, MemInvariant, PTL

\* The copies UpdateMetrics works on never become stale: no update comes
\* between taking them and swapping them in.
THEOREM CopiesStayCurrent == MemSpec => []CopiesAreCurrent
<1>1. MemInv => CopiesAreCurrent
  BY DEF MemInv, VersionInv, CopiesAreCurrent
<1> QED
  BY <1>1, MemInvariant, PTL

----------------------------------------------------------------------------
(* Batches: what the local copies and the answers come to.  AnswerInv is   *)
(* inductive relative to MemInv, which keeps every other handler from      *)
(* adding a version in the meantime.                                       *)

\* The metrics answered so far by h are those of its batch, in its order,
\* each with its value right after it was applied.
BatchInv(h) ==
    /\ Len(result[h]) <= Len(call[h].metrics)
    /\ pc[h] = "swap" => Len(result[h]) = Len(call[h].metrics)
    /\ work[h] = FirstApplied(Last(hist), call[h].metrics, Len(result[h]))
    /\ \A i \in 1 .. Len(result[h]) :
          result[h][i] = Current(FirstApplied(Last(hist), call[h].metrics, i),
                                 call[h].metrics[i])

AnswerInv ==
    \A h \in Handlers :
        /\ pc[h] \in {"loop", "swap"} => BatchInv(h)
        /\ pc[h] \notin {"loop", "swap", "unlock", "runlock", "reply"} => result[h] = <<>>

\* A handler in its critical section is alone: no version is added, and no
\* other handler has copies.
LEMMA AloneInside ==
    ASSUME MemInv, NEW h \in Handlers, NEW k \in Handlers,
           pc[h] \in CriticalLabels, pc[k] \in CriticalLabels
    PROVE  h = k
  BY DEF MemInv, LockInv, CriticalLabels, WriterLabels

\* With nobody between the two swaps, the maps are the latest version.
LEMMA MapsAreLatest ==
    ASSUME MemInv, \A h \in Handlers : pc[h] # "swap"
    PROVE  Maps = Last(hist) /\ Last(hist) \in Snapshot
<1>1. Last(hist) \in Snapshot
  BY HistoryFacts, EmptySnapshotType DEF MemInv, MemTypeOK
<1>2. GaugeMap = Last(hist).gauge /\ CounterMap = Last(hist).counter
  BY DEF MemInv, MapsInv
<1> QED
  BY <1>1, <1>2 DEF Maps, Snapshot

\* What another handler does leaves the batch of k alone.
LEMMA BatchStays ==
    ASSUME MemInv, AnswerInv, NEW h \in Handlers, NEW k \in Handlers, k # h,
           Call(h) \/ HandlerStep(h)
    PROVE  /\ pc'[k] = pc[k] /\ call'[k] = call[k] /\ work'[k] = work[k] /\ result'[k] = result[k]
           /\ pc[k] \in {"loop", "swap"} => Last(hist') = Last(hist)
<1>1. /\ pc \in [Handlers -> Labels] /\ call \in [Handlers -> Requests \cup {NoCall}]
      /\ work \in [Handlers -> Snapshot] /\ result \in [Handlers -> Seq(Metric)]
  BY DEF MemInv, MemTypeOK
<1>2. pc'[k] = pc[k] /\ call'[k] = call[k] /\ work'[k] = work[k] /\ result'[k] = result[k]
  BY <1>1 DEF Call, HandlerStep, Claim, Lock, RLock, Unlock, RUnlock, UpdateMetric, CopyMaps,
     ApplyNext, SwapGauge, SwapCounter, GetMetric, DumpGauge, DumpCounter, Return, Goto
<1>3. hist' = hist \/ pc[h] \in CriticalLabels
  BY DEF Call, HandlerStep, Claim, Lock, RLock, Unlock, RUnlock, UpdateMetric, CopyMaps,
     ApplyNext, SwapGauge, SwapCounter, GetMetric, DumpGauge, DumpCounter, Return, Observe,
     CriticalLabels
<1>4. pc[k] \in {"loop", "swap"} => hist' = hist
  BY <1>3, AloneInside DEF CriticalLabels
<1> QED
  BY <1>2, <1>4

LEMMA AnswerKeeps ==
    ASSUME MemInv, AnswerInv, NEW h \in Handlers, Call(h) \/ HandlerStep(h)
    PROVE  AnswerInv'
<1>1. /\ pc \in [Handlers -> Labels] /\ call \in [Handlers -> Requests \cup {NoCall}]
      /\ work \in [Handlers -> Snapshot] /\ result \in [Handlers -> Seq(Metric)]
  BY DEF MemInv, MemTypeOK
<1>2. ASSUME NEW k \in Handlers, k # h
      PROVE  /\ pc'[k] \in {"loop", "swap"} => BatchInv(k)'
             /\ pc'[k] \notin {"loop", "swap", "unlock", "runlock", "reply"} => result'[k] = <<>>
  <2>1. /\ pc[k] \in {"loop", "swap"} => BatchInv(k)
        /\ pc[k] \notin {"loop", "swap", "unlock", "runlock", "reply"} => result[k] = <<>>
    BY DEF AnswerInv
  <2>2. /\ pc'[k] = pc[k] /\ call'[k] = call[k] /\ work'[k] = work[k] /\ result'[k] = result[k]
        /\ pc[k] \in {"loop", "swap"} => Last(hist') = Last(hist)
    BY <1>2, BatchStays
  <2> QED
    BY ONLY <2>1, <2>2 DEF BatchInv
<1>3. /\ pc'[h] \in {"loop", "swap"} => BatchInv(h)'
      /\ pc'[h] \notin {"loop", "swap", "unlock", "runlock", "reply"} => result'[h] = <<>>
  <2>1. CASE Call(h) \/ Claim(h) \/ Lock(h) \/ RLock(h) \/ Unlock(h) \/ RUnlock(h)
             \/ UpdateMetric(h) \/ SwapCounter(h) \/ GetMetric(h) \/ DumpGauge(h)
             \/ DumpCounter(h) \/ Return(h)
    BY <1>1, <2>1 DEF AnswerInv, Call, Claim, Lock, RLock, Unlock, RUnlock, UpdateMetric,
       SwapCounter, GetMetric, DumpGauge, DumpCounter, Return, Goto
  <2>2. CASE CopyMaps(h)
    <3>1. pc'[h] = "loop" /\ result[h] = <<>> /\ result' = result /\ hist' = hist /\ call' = call
      BY <1>1, <2>2 DEF CopyMaps, Goto, Observe, AnswerInv
    <3>2. work'[h] = Last(hist)
      <4>1. \A k \in Handlers : pc[k] # "swap"
        BY <2>2, AloneInside DEF CopyMaps, CriticalLabels
      <4>2. work'[h] = Maps
        BY <1>1, <2>2 DEF CopyMaps
      <4> QED
        BY <4>1, <4>2, MapsAreLatest
    <3>3. call[h].metrics \in Seq(Metric)
      BY <2>2, RequestType DEF CopyMaps, MemInv, CallInv
    <3>4. FirstApplied(Last(hist), call[h].metrics, 0) = Last(hist)
      BY <3>3, FoldApply DEF AppliedInOrder
    <3> QED
      BY ONLY <3>1, <3>2, <3>3, <3>4 DEF BatchInv
  <2>3. CASE ApplyNext(h)
    <3> DEFINE n       == Len(result[h])
               metrics == call[h].metrics
               s       == Last(hist)
               m       == metrics[n + 1]
               new     == Apply(work[h], m)
    <3>1. /\ pc[h] = "loop" /\ n < Len(metrics) /\ pc' = pc /\ call' = call /\ hist' = hist
          /\ work'[h] = new /\ result'[h] = Append(result[h], Current(new, m))
      BY <1>1, <2>3 DEF ApplyNext
    <3>2. metrics \in Seq(Metric)
      BY <2>3, RequestType DEF ApplyNext, MemInv, CallInv
    <3>3. n \in Nat /\ Len(metrics) \in Nat
      BY <1>1, <3>2
    <3>4. BatchInv(h)
      BY <3>1 DEF AnswerInv
    <3>5. new = FirstApplied(s, metrics, n + 1)
      <4>1. AppliedInOrder(s, metrics)
        BY <3>2, FoldApply
      <4>2. n + 1 \in 1 .. Len(metrics) /\ (n + 1) - 1 = n
        BY <3>1, <3>3
      <4>3. FirstApplied(s, metrics, n + 1) = Apply(FirstApplied(s, metrics, n), metrics[n + 1])
        BY <4>1, <4>2 DEF AppliedInOrder
      <4> QED
        BY <3>4, <4>3 DEF BatchInv
    <3>6. /\ Len(result'[h]) = n + 1 /\ result'[h][n + 1] = Current(new, m)
          /\ \A i \in 1 .. n : result'[h][i] = result[h][i]
      <4> DEFINE r == result[h]
                 a == Current(new, m)
      <4>1. r \in Seq(Metric) /\ result'[h] = Append(r, a)
        BY <1>1, <3>1
      <4> HIDE DEF a, r
      <4>2. /\ Len(Append(r, a)) = Len(r) + 1 /\ Append(r, a)[Len(r) + 1] = a
            /\ \A i \in 1 .. Len(r) : Append(r, a)[i] = r[i]
        BY ONLY <4>1
      <4> QED
        BY ONLY <4>1, <4>2 DEF r, a
    <3>7. \A i \in 1 .. n : result[h][i] = Current(FirstApplied(s, metrics, i), metrics[i])
      BY <3>4 DEF BatchInv
    <3>8. \A i \in 1 .. n + 1 :
             result'[h][i] = Current(FirstApplied(s, metrics, i), metrics[i])
      <4> HIDE DEF new, s, metrics, n
      <4>1. \A i \in 1 .. n + 1 : i = n + 1 \/ i \in 1 .. n
        BY ONLY <3>3
      <4> QED
        BY ONLY <3>5, <3>6, <3>7, <4>1
    <3> HIDE DEF new, m
    <3>9. n + 1 <= Len(metrics)
      BY <3>1, <3>3
    <3> QED
      BY ONLY <3>1, <3>5, <3>6, <3>8, <3>9 DEF BatchInv
  <2>4. CASE SwapGauge(h)
    <3>1. /\ pc[h] = "loop" /\ Len(result[h]) = Len(call[h].metrics)
          /\ pc'[h] = "swap" /\ UNCHANGED <<call, work, result, hist>>
      BY <1>1, <2>4 DEF SwapGauge, Goto
    <3>2. BatchInv(h)
      BY <3>1 DEF AnswerInv
    <3> QED
      BY ONLY <3>1, <3>2 DEF BatchInv
  <2> QED
    BY <2>1, <2>2, <2>3, <2>4 DEF HandlerStep
<1> QED
  BY <1>2, <1>3 DEF AnswerInv

\* In every reachable state.
THEOREM MemAnswers == MemSpec => [](MemInv /\ AnswerInv)
<1>1. MemInit => AnswerInv
  BY DEF MemInit, AnswerInv
<1>2. MemInv /\ AnswerInv /\ [MemNext]_memVars => AnswerInv'
  <2>1. ASSUME MemInv, AnswerInv, UNCHANGED memVars PROVE AnswerInv'
    BY <2>1 DEF memVars, AnswerInv, BatchInv
  <2> QED
    BY <2>1, AnswerKeeps DEF MemNext
<1> QED
  BY <1>1, <1>2, MemInvariant, PTL DEF MemSpec

\* A batch (UpdateMetrics) is applied to the latest version, in its order:
\* what it is going to put in place is that version with its metrics applied.
THEOREM BatchStaysCurrent == MemSpec => []BatchIsCurrent
<1>1. MemInv /\ AnswerInv => BatchIsCurrent
  BY DEF MemInv, VersionInv, AnswerInv, BatchInv, FirstApplied, BatchIsCurrent, CopiesAreCurrent
<1> QED
  BY <1>1, MemAnswers, PTL

----------------------------------------------------------------------------
(* MemStorage implements MetricStore: a call takes effect when its updates *)
(* are all in place, or when its answer has been read.                     *)

Phase(label) ==
    IF label = "idle" THEN "idle"
    ELSE IF label \in {"unlock", "runlock", "reply"} THEN "done" ELSE "pending"

\* What the abstract handler h is doing, and its reply.
Phases == [h \in Handlers |->
              IF pc[h] = "idle" THEN "idle" ELSE IF Finished(h) THEN "done" ELSE "pending"]

Replies == [h \in Handlers |->
               IF ~Finished(h) THEN [metrics |-> <<>>, dump |-> EmptySnapshot]
               ELSE [metrics |-> result[h],
                     dump |-> IF call[h].op = "GetMetricsByTypes"
                              THEN work[h] ELSE EmptySnapshot]]

\* The operators of the abstract store are those of this one.
LEMMA SameOperators ==
    /\ Abstract!NoCall = NoCall
    /\ Abstract!NoReply = [metrics |-> <<>>, dump |-> EmptySnapshot]
    /\ \A r : Abstract!IsUpdate(r) <=> r.op \in Updates
    /\ \A s, m : Abstract!Current(s, m) = Current(s, m) /\ (Abstract!Has(s, m) <=> Has(s, m))
    /\ \A s, metrics, i : Abstract!AfterFirst(s, metrics, i) = FirstApplied(s, metrics, i)
<1>1. /\ Abstract!NoCall = NoCall
      /\ Abstract!NoReply = [metrics |-> <<>>, dump |-> EmptySnapshot]
      /\ \A r : Abstract!IsUpdate(r) <=> r.op \in Updates
  BY DEF Abstract!NoCall, NoCall, Abstract!NoReply, Abstract!EmptySnapshot, Abstract!EmptyMap,
     EmptySnapshot, EmptyMap, Abstract!IsUpdate, Updates
<1>2. \A s, m : Abstract!Current(s, m) = Current(s, m) /\ (Abstract!Has(s, m) <=> Has(s, m))
  BY DEF Abstract!Current, Current, Abstract!Has, Has
<1>3. \A s, metrics, i : Abstract!AfterFirst(s, metrics, i) = FirstApplied(s, metrics, i)
  BY DEF Apply, Abstract!Apply, Put, Abstract!Put, Lookup, Abstract!Lookup, Wrap,
     Abstract!Wrap, Abstract!AfterFirst, FirstApplied, FoldLeft, Abstract!FoldLeft,
     MapThenFoldSet, Abstract!MapThenFoldSet, Max, Abstract!Max
<1> QED
  BY <1>1, <1>2, <1>3

\* A step of h changes what is seen of h, and of no other handler.
LEMMA OthersUnseen ==
    ASSUME MemInv, AnswerInv, NEW h \in Handlers, Call(h) \/ HandlerStep(h)
    PROVE  /\ Phases' = [Phases EXCEPT ![h] = Phase(pc'[h])]
           /\ Replies' = [Replies EXCEPT ![h] = Replies'[h]]
<1>1. ASSUME NEW k \in Handlers, k # h
      PROVE  Phases'[k] = Phases[k] /\ Replies'[k] = Replies[k]
  <2>1. pc'[k] = pc[k] /\ call'[k] = call[k] /\ work'[k] = work[k] /\ result'[k] = result[k]
    BY <1>1, BatchStays
  <2> QED
    BY <2>1 DEF Phases, Replies, Finished
<1>2. Phases'[h] = Phase(pc'[h])
  BY DEF Phases, Phase, Finished
<1>3. DOMAIN Phases = Handlers /\ DOMAIN Phases' = Handlers
      /\ Phases = [k \in Handlers |-> Phases[k]] /\ Phases' = [k \in Handlers |-> Phases'[k]]
  BY DEF Phases
<1>4. DOMAIN Replies = Handlers /\ DOMAIN Replies' = Handlers
      /\ Replies = [k \in Handlers |-> Replies[k]] /\ Replies' = [k \in Handlers |-> Replies'[k]]
  BY DEF Replies
<1>5. Phases' = [Phases EXCEPT ![h] = Phase(pc'[h])]
  BY ONLY <1>1, <1>2, <1>3
<1>6. Replies' = [Replies EXCEPT ![h] = Replies'[h]]
  BY ONLY <1>1, <1>4
<1> QED
  BY <1>5, <1>6

\* The step at which the call of h takes effect.
EffectStep(h) == UpdateMetric(h) \/ SwapCounter(h) \/ GetMetric(h) \/ DumpCounter(h)

\* What is in place then is the latest version with the whole call applied,
\* and the answer is the one of that instant.
LEMMA UpdateTakesEffect ==
    ASSUME MemInv, AnswerInv, NEW h \in Handlers, UpdateMetric(h) \/ SwapCounter(h)
    PROVE  /\ Last(hist') = Abstract!After(Last(hist), call[h])
           /\ [metrics |-> result'[h], dump |-> EmptySnapshot]
                 = Abstract!Answer(Last(hist), call[h])
<1> DEFINE metrics == call[h].metrics
           s       == Last(hist)
           n       == Len(metrics)
<1>1. /\ call[h] \in Requests /\ call[h].op \in Updates /\ metrics \in Seq(Metric)
      /\ pc[h] \in CriticalLabels
  BY RequestType DEF UpdateMetric, SwapCounter, MemInv, CallInv, CriticalLabels, WriterLabels
<1>2. n \in Nat /\ AppliedInOrder(s, metrics)
  BY <1>1, FoldApply
<1>3. /\ Last(hist') = FirstApplied(s, metrics, n)
      /\ result'[h] \in Seq(Metric) /\ Len(result'[h]) = n
      /\ \A i \in 1 .. n : result'[h][i] = Current(FirstApplied(s, metrics, i), metrics[i])
  <2>1. CASE UpdateMetric(h)
    <3>1. n = 1
      BY <1>1, <2>1, MemAssumption DEF UpdateMetric
    <3>2. \A k \in Handlers : pc[k] # "swap"
      BY <2>1, AloneInside DEF UpdateMetric, CriticalLabels
    <3>3. Maps = s /\ s \in Snapshot
      BY <3>2, MapsAreLatest
    <3> DEFINE m   == metrics[1]
               new == Apply(s, m)
    <3>4. m \in Metric
      BY <1>1, <3>1
    <3>5. new \in Snapshot /\ Current(new, m) \in Metric
      BY <3>3, <3>4, ApplyType
    <3>6. hist' = Append(hist, new) /\ result'[h] = <<Current(new, m)>>
      BY <2>1, <3>3 DEF UpdateMetric, Commit, MemInv, MemTypeOK
    <3>7. Last(hist') = new
      <4> HIDE DEF new
      <4> QED
        BY <3>5, <3>6, HistoryFacts DEF MemInv, MemTypeOK
    <3>8. new = FirstApplied(s, metrics, 1)
      BY <1>2, <3>1 DEF AppliedInOrder
    <3> HIDE DEF new, m, s, metrics
    <3>9. result'[h] \in Seq(Metric) /\ Len(result'[h]) = 1 /\ result'[h][1] = Current(new, m)
      BY ONLY <3>5, <3>6
    <3> QED
      BY <3>1, <3>7, <3>8, <3>9 DEF m
  <2>2. CASE SwapCounter(h)
    <3>1. /\ BatchInv(h) /\ Len(result[h]) = n /\ work[h] \in Snapshot
          /\ result'[h] = result[h] /\ result[h] \in Seq(Metric)
      BY <2>2 DEF SwapCounter, AnswerInv, BatchInv, MemInv, MemTypeOK
    <3>2. hist' = Append(hist, work[h])
      BY <2>2 DEF SwapCounter, Commit
    <3>3. Last(hist') = work[h]
      BY <3>1, <3>2, HistoryFacts DEF MemInv, MemTypeOK
    <3> QED
      BY <3>1, <3>3 DEF BatchInv
  <2> QED
    BY <2>1, <2>2
<1>4. Last(hist') = Abstract!After(s, call[h])
  BY <1>1, <1>3, SameOperators DEF Abstract!After
<1>5. result'[h] = [i \in 1 .. n |-> Current(FirstApplied(s, metrics, i), metrics[i])]
  <2>1. result'[h] = [i \in 1 .. Len(result'[h]) |-> result'[h][i]]
    BY <1>3
  <2> HIDE DEF n, s, metrics
  <2> QED
    BY ONLY <1>3, <2>1
<1>6. Abstract!Answer(s, call[h]) =
         [Abstract!NoReply EXCEPT !.metrics =
             [i \in 1 .. n |-> Current(FirstApplied(s, metrics, i), metrics[i])]]
  <2>1. /\ Abstract!IsUpdate(call[h])
        /\ call[h].op # "GetMetric" /\ call[h].op # "GetMetricsByTypes"
    BY <1>1, SameOperators DEF Updates
  <2>2. Abstract!Answer(s, call[h]) =
           [Abstract!NoReply EXCEPT !.metrics =
               [i \in 1 .. n |->
                   Abstract!Current(Abstract!AfterFirst(s, metrics, i), metrics[i])]]
    BY <2>1 DEF Abstract!Answer
  <2>3. \A i \in 1 .. n : Abstract!Current(Abstract!AfterFirst(s, metrics, i), metrics[i])
                            = Current(FirstApplied(s, metrics, i), metrics[i])
    BY SameOperators
  <2> HIDE DEF n, s, metrics
  <2> QED
    BY ONLY <2>2, <2>3
<1> QED
  BY <1>4, <1>5, <1>6, SameOperators

LEMMA ReadTakesEffect ==
    ASSUME MemInv, AnswerInv, NEW h \in Handlers, GetMetric(h) \/ DumpCounter(h)
    PROVE  /\ Last(hist') = Abstract!After(Last(hist), call[h])
           /\ [metrics |-> result'[h],
               dump |-> IF call[h].op = "GetMetricsByTypes" THEN work'[h] ELSE EmptySnapshot]
                 = Abstract!Answer(Last(hist), call[h])
<1>1. call[h].op \in Reads /\ hist' = hist /\ pc[h] \in ReaderLabels
  BY DEF GetMetric, DumpCounter, Observe, MemInv, CallInv, ReaderLabels, Reads
<1>2. Last(hist') = Abstract!After(Last(hist), call[h])
  BY <1>1, SameOperators DEF Abstract!After, Reads, Updates
<1>3. \A k \in Handlers : pc[k] # "swap"
  BY <1>1 DEF MemInv, LockInv, ReaderLabels, CriticalLabels
<1>4. Maps = Last(hist) /\ Last(hist) \in Snapshot
  BY <1>3, MapsAreLatest
<1>5. CASE GetMetric(h)
  <2>1. /\ call[h].op = "GetMetric"
        /\ result'[h] = IF Has(Last(hist), call[h].metrics[1])
                        THEN <<Current(Last(hist), call[h].metrics[1])>> ELSE <<>>
    BY <1>4, <1>5 DEF GetMetric, MemInv, MemTypeOK
  <2>2. Abstract!Answer(Last(hist), call[h]) =
           [Abstract!NoReply EXCEPT !.metrics =
               IF Has(Last(hist), call[h].metrics[1])
               THEN <<Current(Last(hist), call[h].metrics[1])>> ELSE <<>>]
    BY <2>1, SameOperators DEF Abstract!Answer, Updates
  <2> QED
    BY <1>2, <2>1, <2>2, SameOperators
<1>6. CASE DumpCounter(h)
  <2>1. call[h].op = "GetMetricsByTypes" /\ result'[h] = <<>>
    BY <1>6 DEF DumpCounter, MemInv, CallInv, AnswerInv
  <2>2. work'[h] = Last(hist)
    <3>1. /\ work'[h] = [work[h] EXCEPT !.counter = CounterMap] /\ work[h] \in Snapshot
          /\ work[h].gauge = Last(hist).gauge /\ CounterMap = Last(hist).counter
      BY <1>6 DEF DumpCounter, MemInv, MemTypeOK, VersionInv, MapsInv
    <3> QED
      BY <1>4, <3>1 DEF Snapshot
  <2>3. Abstract!Answer(Last(hist), call[h]) = [Abstract!NoReply EXCEPT !.dump = Last(hist)]
    BY <2>1, SameOperators DEF Abstract!Answer, Updates
  <2> QED
    BY <1>2, <2>1, <2>2, <2>3, SameOperators
<1> QED
  BY <1>5, <1>6

\* Every step of a handler is a step of the abstract one, or none.
LEMMA StepImplements ==
    ASSUME MemInv, AnswerInv, NEW h \in Handlers, Call(h) \/ HandlerStep(h)
    PROVE  \/ Abstract!Begin(h) \/ Abstract!TakeEffect(h) \/ Abstract!End(h)
           \/ UNCHANGED <<Last(hist), Phases, call, Replies>>
<1>1. /\ pc \in [Handlers -> Labels] /\ call \in [Handlers -> Requests \cup {NoCall}]
      /\ work \in [Handlers -> Snapshot] /\ result \in [Handlers -> Seq(Metric)]
  BY DEF MemInv, MemTypeOK
<1>2. /\ Phases' = [Phases EXCEPT ![h] = Phase(pc'[h])]
      /\ Replies' = [Replies EXCEPT ![h] = Replies'[h]]
  BY OthersUnseen
<1>3. Phases[h] = Phase(pc[h]) /\ DOMAIN Phases = Handlers /\ DOMAIN Replies = Handlers
      /\ Phases = [k \in Handlers |-> Phases[k]] /\ Replies = [k \in Handlers |-> Replies[k]]
  BY DEF Phases, Replies, Phase, Finished
<1>4. /\ Phase(pc[h]) # "done" => Replies[h] = Abstract!NoReply
      /\ Phase(pc'[h]) # "done" => Replies'[h] = Abstract!NoReply
      /\ Phase(pc'[h]) = "done" => Replies'[h] =
            [metrics |-> result'[h],
             dump |-> IF call'[h].op = "GetMetricsByTypes" THEN work'[h] ELSE EmptySnapshot]
  BY SameOperators DEF Replies, Phase, Finished
<1>5. CASE Call(h)
  <2>1. /\ pc[h] = "idle" /\ pc'[h] = "called" /\ hist' = hist
        /\ \E r \in Requests : call' = [call EXCEPT ![h] = r]
    BY <1>1, <1>5 DEF Call, Goto
  <2>2. Phase(pc[h]) = "idle" /\ Phase(pc'[h]) = "pending"
    BY <2>1 DEF Phase
  <2>3. Replies' = Replies
    BY <1>2, <1>3, <1>4, <2>2
  <2> QED
    BY <1>2, <1>3, <2>1, <2>2, <2>3 DEF Abstract!Begin, Phases, Replies
<1>6. CASE Claim(h) \/ Lock(h) \/ RLock(h) \/ CopyMaps(h) \/ ApplyNext(h) \/ SwapGauge(h)
           \/ DumpGauge(h)
  <2>1. hist' = hist /\ call' = call /\ Phase(pc[h]) = "pending" /\ Phase(pc'[h]) = "pending"
    BY <1>1, <1>6 DEF Claim, Lock, RLock, CopyMaps, ApplyNext, SwapGauge, DumpGauge, Goto,
       Observe, Phase
  <2> QED
    BY <1>2, <1>3, <1>4, <2>1
<1>7. CASE Unlock(h) \/ RUnlock(h)
  <2>1. /\ UNCHANGED <<hist, call, work, result>>
        /\ Phase(pc[h]) = "done" /\ Phase(pc'[h]) = "done"
    BY <1>1, <1>7 DEF Unlock, RUnlock, Goto, Phase
  <2>2. Replies'[h] = Replies[h]
    BY <2>1 DEF Replies, Phase, Finished
  <2> QED
    BY <1>2, <1>3, <2>1, <2>2
<1>8. CASE EffectStep(h)
  <2>1. call' = call /\ Phase(pc[h]) = "pending" /\ Phase(pc'[h]) = "done"
    BY <1>1, <1>8 DEF EffectStep, UpdateMetric, SwapCounter, GetMetric, DumpCounter, Goto, Phase
  <2>2. /\ Last(hist') = Abstract!After(Last(hist), call[h])
        /\ Replies'[h] = Abstract!Answer(Last(hist), call[h])
    <3>1. CASE UpdateMetric(h) \/ SwapCounter(h)
      <4>1. call[h].op # "GetMetricsByTypes"
        BY <3>1 DEF UpdateMetric, SwapCounter, MemInv, CallInv, WriterLabels, Updates
      <4> QED
        BY <1>4, <2>1, <3>1, <4>1, UpdateTakesEffect
    <3>2. CASE GetMetric(h) \/ DumpCounter(h)
      BY <1>4, <2>1, <3>2, ReadTakesEffect
    <3> QED
      BY <1>8, <3>1, <3>2 DEF EffectStep
  <2>3. /\ Phases[h] = "pending" /\ Phases' = [Phases EXCEPT ![h] = "done"]
        /\ Replies' = [Replies EXCEPT ![h] = Abstract!Answer(Last(hist), call[h])]
    BY <1>2, <1>3, <2>1, <2>2
  <2>4. Abstract!TakeEffect(h)
    BY <2>1, <2>2, <2>3 DEF Abstract!TakeEffect, Phases, Replies
  <2> QED
    BY <2>4
<1>9. CASE Return(h)
  <2>1. /\ hist' = hist /\ call' = [call EXCEPT ![h] = Abstract!NoCall]
        /\ Phase(pc[h]) = "done" /\ Phase(pc'[h]) = "idle"
    BY <1>1, <1>9, SameOperators DEF Return, Goto, Phase
  <2>2. /\ Phases[h] = "done" /\ Phases' = [Phases EXCEPT ![h] = "idle"]
        /\ Replies' = [Replies EXCEPT ![h] = Abstract!NoReply]
    BY <1>2, <1>3, <1>4, <2>1
  <2>3. Abstract!End(h)
    BY <2>1, <2>2 DEF Abstract!End, Phases, Replies
  <2> QED
    BY <2>3
<1> QED
  BY <1>5, <1>6, <1>7, <1>8, <1>9 DEF HandlerStep, EffectStep

\* MemStorage is linearizable: with any number of handlers, every call takes
\* effect at one instant between its beginning and its return, a batch as a
\* whole, and its answer is the one of that instant.
THEOREM MemImplementsStore == MemSpec => Linearizable
<1>1. MemInit => Abstract!StoreInit
  <2> SUFFICES ASSUME MemInit PROVE Abstract!StoreInit
    OBVIOUS
  <2>1. Last(hist) = Abstract!EmptySnapshot
    BY DEF MemInit, Last, Abstract!EmptySnapshot, Abstract!EmptyMap, EmptySnapshot, EmptyMap
  <2>2. /\ Phases = [h \in Handlers |-> "idle"] /\ call = [h \in Handlers |-> Abstract!NoCall]
        /\ Replies = [h \in Handlers |-> Abstract!NoReply]
    BY SameOperators DEF MemInit, Phases, Replies, Finished
  <2> QED
    BY <2>1, <2>2 DEF Abstract!StoreInit, Phases, Replies
<1>2. MemInv /\ AnswerInv /\ [MemNext]_memVars
         => [Abstract!StoreNext]_(Abstract!storeVars)
  <2> SUFFICES ASSUME MemInv, AnswerInv, [MemNext]_memVars
               PROVE  Abstract!StoreNext \/ UNCHANGED <<Last(hist), Phases, call, Replies>>
    BY DEF Abstract!storeVars, Phases, Replies
  <2>1. CASE MemNext
    BY <2>1, StepImplements DEF MemNext, Abstract!StoreNext
  <2>2. CASE UNCHANGED memVars
    BY <2>2 DEF memVars, Phases, Replies, Finished
  <2> QED
    BY <2>1, <2>2
<1> QED
  BY <1>1, <1>2, MemAnswers, PTL DEF MemSpec, Linearizable, Abstract!StoreSpec
============================================================================
