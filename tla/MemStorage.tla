---------------------------- MODULE MemStorage -----------------------------
(***************************************************************************)
(* MemStorage (internal/storage/memstorage): the metrics in two Go maps    *)
(* behind one sync.RWMutex, called by the goroutines of net/http.          *)
(*                                                                         *)
(* Every handler runs its own copy of the code: pc[h] is where it is,      *)
(* call[h] its arguments, work[h] the local maps it fills (NewGaugeMap and *)
(* NewCounterMap in UpdateMetrics, the caller's maps in GetMetricsByTypes) *)
(* and result[h] the metrics it is going to return.                        *)
(*                                                                         *)
(* hist and at are history variables.  hist is the sequence of the         *)
(* contents the storage has had, the last one being what a caller that     *)
(* takes the lock now should find; at[h] is the version a call read, or    *)
(* made.  No action reads them, except for the bound MaxVersions.          *)
(***************************************************************************)
EXTENDS Metrics, SequencesExt

CONSTANTS
    Handlers,       \* the goroutines that serve requests
    Threads,        \* every goroutine that takes the mutex
    Requests,       \* the calls the handlers make
    MaxVersions     \* bound: no update begins once hist is this long

ASSUME MemAssumption ==
    /\ Handlers \subseteq Threads
    /\ Requests \subseteq
          [op: {"GetMetric", "UpdateMetric", "UpdateMetrics", "GetMetricsByTypes"},
           metrics: Seq(Metric)]
    /\ \A r \in Requests :
          r.op \in {"GetMetric", "UpdateMetric"} => Len(r.metrics) = 1
    /\ MaxVersions \in Nat

VARIABLES
    GaugeMap, CounterMap,   \* the fields of the storage
    mutex,                  \* its RWMutex: who holds it, and how
    pc, call, work, result, \* the handlers
    hist, at                \* history

memVars == <<GaugeMap, CounterMap, mutex, pc, call, work, result, hist, at>>

----------------------------------------------------------------------------
Updates == {"UpdateMetric", "UpdateMetrics"}
Reads   == {"GetMetric", "GetMetricsByTypes"}

NoCall == [op |-> "none", metrics |-> <<>>]

Maps == [gauge |-> GaugeMap, counter |-> CounterMap]

Goto(h, label) == pc' = [pc EXCEPT ![h] = label]

\* The storage gets its next version, by h.
Commit(h, s) ==
    /\ hist' = Append(hist, s)
    /\ at' = [at EXCEPT ![h] = Len(hist) + 1]

\* h has looked at the storage as it is now.
Observe(h) ==
    /\ at' = [at EXCEPT ![h] = Len(hist)]
    /\ UNCHANGED hist

----------------------------------------------------------------------------
MemInit ==
    /\ GaugeMap = EmptyMap
    /\ CounterMap = EmptyMap
    /\ mutex = [writer |-> {}, readers |-> {}]
    /\ pc = [h \in Handlers |-> "idle"]
    /\ call = [h \in Handlers |-> NoCall]
    /\ work = [h \in Handlers |-> EmptySnapshot]
    /\ result = [h \in Handlers |-> <<>>]
    /\ hist = <<EmptySnapshot>>
    /\ at = [h \in Handlers |-> 0]

\* A request reaches the storage.
Call(h) ==
    /\ pc[h] = "idle"
    /\ \E r \in Requests :
          /\ r.op \in Updates => Len(hist) < MaxVersions
          /\ call' = [call EXCEPT ![h] = r]
    /\ Goto(h, "called")
    /\ UNCHANGED <<GaugeMap, CounterMap, mutex, work, result, hist, at>>

----------------------------------------------------------------------------
(* sync.RWMutex: one writer and no reader, or any number of readers.  A     *)
(* writer first claims the mutex, which keeps other writers and new readers *)
(* out, and then waits for the readers that are in.  It is not reentrant: a *)
(* holder that locks again waits like anyone else.                          *)

\* Mutant: an update takes the mutex while another has it.
ClaimWriteAnyway(t) == mutex' = [mutex EXCEPT !.writer = @ \cup {t}]

ClaimWrite(t) ==
    /\ mutex.writer = {}
    /\ mutex' = [mutex EXCEPT !.writer = {t}]

\* Mutant: the readers take no lock.
AcquireReadAnyway(t) == mutex' = [mutex EXCEPT !.readers = @ \cup {t}]

AcquireRead(t) ==
    /\ mutex.writer = {}
    /\ mutex' = [mutex EXCEPT !.readers = @ \cup {t}]

ReleaseWrite(t) == mutex' = [mutex EXCEPT !.writer = @ \ {t}]
ReleaseRead(t)  == mutex' = [mutex EXCEPT !.readers = @ \ {t}]

Claim(h) ==
    /\ pc[h] = "called" /\ call[h].op \in Updates
    /\ ClaimWrite(h)
    /\ Goto(h, "waiting")
    /\ UNCHANGED <<GaugeMap, CounterMap, call, work, result, hist, at>>

Lock(h) ==
    /\ pc[h] = "waiting"
    /\ mutex.readers = {}
    /\ Goto(h, "locked")
    /\ UNCHANGED <<GaugeMap, CounterMap, mutex, call, work, result, hist, at>>

RLock(h) ==
    /\ pc[h] = "called" /\ call[h].op \in Reads
    /\ AcquireRead(h)
    /\ Goto(h, "rlocked")
    /\ UNCHANGED <<GaugeMap, CounterMap, call, work, result, hist, at>>

Unlock(h) ==
    /\ pc[h] = "unlock"
    /\ ReleaseWrite(h)
    /\ Goto(h, "reply")
    /\ UNCHANGED <<GaugeMap, CounterMap, call, work, result, hist, at>>

\* Mutant: a reader returns with the lock.
RUnlockForgotten(h) ==
    /\ pc[h] = "runlock"
    /\ Goto(h, "reply")
    /\ UNCHANGED <<GaugeMap, CounterMap, mutex, call, work, result, hist, at>>

RUnlock(h) ==
    /\ pc[h] = "runlock"
    /\ ReleaseRead(h)
    /\ Goto(h, "reply")
    /\ UNCHANGED <<GaugeMap, CounterMap, call, work, result, hist, at>>

----------------------------------------------------------------------------
\* UpdateMetric changes the map of the metric in place.
UpdateMetric(h) ==
    /\ pc[h] = "locked" /\ call[h].op = "UpdateMetric"
    /\ LET m   == call[h].metrics[1]
           new == Apply(Maps, m)
       IN  /\ GaugeMap' = new.gauge
           /\ CounterMap' = new.counter
           /\ result' = [result EXCEPT ![h] = <<Current(new, m)>>]
           /\ Commit(h, new)
    /\ Goto(h, "unlock")
    /\ UNCHANGED <<mutex, call, work>>

(* UpdateMetrics works on copies of the two maps and swaps them in at the  *)
(* end, one field after the other.                                         *)

CopyMaps(h) ==
    /\ pc[h] = "locked" /\ call[h].op = "UpdateMetrics"
    /\ work' = [work EXCEPT ![h] = Maps]
    /\ Observe(h)
    /\ Goto(h, "loop")
    /\ UNCHANGED <<GaugeMap, CounterMap, mutex, call, result>>

\* Mutant: the answer has the Delta that was sent, not the accumulated one.
ApplyNextEchoed(h) ==
    /\ pc[h] = "loop" /\ Len(result[h]) < Len(call[h].metrics)
    /\ LET m == call[h].metrics[Len(result[h]) + 1]
       IN  /\ work' = [work EXCEPT ![h] = Apply(@, m)]
           /\ result' = [result EXCEPT ![h] = Append(@, m)]
    /\ UNCHANGED <<GaugeMap, CounterMap, mutex, pc, call, hist, at>>

ApplyNext(h) ==
    /\ pc[h] = "loop" /\ Len(result[h]) < Len(call[h].metrics)
    /\ LET m   == call[h].metrics[Len(result[h]) + 1]
           new == Apply(work[h], m)
       IN  /\ work' = [work EXCEPT ![h] = new]
           /\ result' = [result EXCEPT ![h] = Append(@, Current(new, m))]
    /\ UNCHANGED <<GaugeMap, CounterMap, mutex, pc, call, hist, at>>

SwapGauge(h) ==
    /\ pc[h] = "loop" /\ Len(result[h]) = Len(call[h].metrics)
    /\ GaugeMap' = work[h].gauge
    /\ Goto(h, "swap")
    /\ UNCHANGED <<CounterMap, mutex, call, work, result, hist, at>>

SwapCounter(h) ==
    /\ pc[h] = "swap"
    /\ CounterMap' = work[h].counter
    /\ Commit(h, work[h])
    /\ Goto(h, "unlock")
    /\ UNCHANGED <<GaugeMap, mutex, call, work, result>>

----------------------------------------------------------------------------
\* No value under that name is the error MetricNameNotFound.
GetMetric(h) ==
    /\ pc[h] = "rlocked" /\ call[h].op = "GetMetric"
    /\ LET m == call[h].metrics[1]
       IN  result' = [result EXCEPT ![h] = IF Has(Maps, m) THEN <<Current(Maps, m)>>
                                                           ELSE <<>>]
    /\ Observe(h)
    /\ Goto(h, "runlock")
    /\ UNCHANGED <<GaugeMap, CounterMap, mutex, call, work>>

(* GetMetricsByTypes copies the gauges, then the counters, into the maps   *)
(* its caller made.                                                        *)

DumpGauge(h) ==
    /\ pc[h] = "rlocked" /\ call[h].op = "GetMetricsByTypes"
    /\ work' = [work EXCEPT ![h].gauge = GaugeMap]
    /\ Observe(h)
    /\ Goto(h, "dump")
    /\ UNCHANGED <<GaugeMap, CounterMap, mutex, call, result>>

DumpCounter(h) ==
    /\ pc[h] = "dump"
    /\ work' = [work EXCEPT ![h].counter = CounterMap]
    /\ Goto(h, "runlock")
    /\ UNCHANGED <<GaugeMap, CounterMap, mutex, call, result, hist, at>>

----------------------------------------------------------------------------
\* The handler has its answer; its locals are gone.
Return(h) ==
    /\ pc[h] = "reply"
    /\ Goto(h, "idle")
    /\ call' = [call EXCEPT ![h] = NoCall]
    /\ work' = [work EXCEPT ![h] = EmptySnapshot]
    /\ result' = [result EXCEPT ![h] = <<>>]
    /\ at' = [at EXCEPT ![h] = 0]
    /\ UNCHANGED <<GaugeMap, CounterMap, mutex, hist>>

HandlerStep(h) ==
    \/ Claim(h) \/ Lock(h) \/ RLock(h) \/ Unlock(h) \/ RUnlock(h)
    \/ UpdateMetric(h)
    \/ CopyMaps(h) \/ ApplyNext(h) \/ SwapGauge(h) \/ SwapCounter(h)
    \/ GetMetric(h) \/ DumpGauge(h) \/ DumpCounter(h)
    \/ Return(h)

MemNext == \E h \in Handlers : Call(h) \/ HandlerStep(h)

(* The Go scheduler runs every goroutine that can run (WF), and a          *)
(* sync.RWMutex lets every waiter in: writers queue on a sync.Mutex, which *)
(* is fair, and the readers a writer held back go before the next one (SF).*)
HandlerFairness(h) ==
    /\ WF_memVars(HandlerStep(h))
    /\ SF_memVars(Claim(h)) /\ SF_memVars(RLock(h))

MemSpec ==
    /\ MemInit /\ [][MemNext]_memVars
    /\ \A h \in Handlers : HandlerFairness(h)

----------------------------------------------------------------------------
Labels == {"idle", "called", "waiting", "locked", "loop", "swap", "unlock",
           "rlocked", "dump", "runlock", "reply"}

\* The type invariant.  Among the rest it says that no sum of counters
\* leaves the 64 bits and that no more metrics are answered than were sent.
MemTypeOK ==
    /\ GaugeMap \in MapTo(GaugeValues) /\ CounterMap \in MapTo(Counter)
    /\ mutex \in [writer: SUBSET Threads, readers: SUBSET Threads]
    /\ pc \in [Handlers -> Labels]
    /\ call \in [Handlers -> Requests \cup {NoCall}]
    /\ work \in [Handlers -> Snapshot]
    /\ result \in [Handlers -> Seq(Metric)]
    /\ hist \in Seq(Snapshot) /\ hist # <<>>
    /\ at \in [Handlers -> 0 .. Len(hist)]

\* A dump of all the metrics (GetMetricsByTypes) is one version of the
\* storage: never the gauges of one batch with the counters of another,
\* though the two maps are read one after the other.
DumpIsAtomic ==
    \A h \in Handlers :
        pc[h] \in {"runlock", "reply"} /\ call[h].op = "GetMetricsByTypes"
            => work[h] = hist[at[h]]

\* No update is lost to a batch: the copies UpdateMetrics works on are of the
\* version it is going to replace, however long it has been at work.
CopiesAreCurrent ==
    \A h \in Handlers : pc[h] \in {"loop", "swap"} => at[h] = Len(hist)

\* And they hold that version with the metrics answered so far applied to it,
\* so that a batch is applied whole, in its order, or not at all.
BatchIsCurrent ==
    /\ CopiesAreCurrent
    /\ \A h \in Handlers :
          pc[h] \in {"loop", "swap"} =>
              work[h] = FoldLeft(Apply, Last(hist),
                                 SubSeq(call[h].metrics, 1, Len(result[h])))

\* What the code as written promises to its callers is the abstract store:
\* every call takes effect at one instant, with the answer of that instant.
Finished(h) ==
    \/ pc[h] \in {"unlock", "runlock", "reply"}

Abstract == INSTANCE MetricStore WITH
    store   <- Last(hist),
    phase   <- [h \in Handlers |->
                  IF pc[h] = "idle" THEN "idle"
                  ELSE IF Finished(h) THEN "done" ELSE "pending"],
    request <- call,
    reply   <- [h \in Handlers |->
                  IF ~Finished(h) THEN [metrics |-> <<>>, dump |-> EmptySnapshot]
                  ELSE [metrics |-> result[h],
                        dump |-> IF call[h].op = "GetMetricsByTypes"
                                 THEN work[h] ELSE EmptySnapshot]]

Linearizable == Abstract!StoreSpec

\* Every call returns: no path through the storage keeps the lock.
EveryCallReturns ==
    \A h \in Handlers : pc[h] = "called" ~> pc[h] = "idle"
============================================================================
