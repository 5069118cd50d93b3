------------------------ MODULE FileStorage_proofs ------------------------
(***************************************************************************)
(* FileStorage, for any constants: what is in the file is a version of the *)
(* storage, and the storage implements DurableStore.                       *)
(*                                                                         *)
(* FileInv adds to MemInv what a thread in storeMetrics may rely on.  The  *)
(* preserver holds the read lock from the truncation of the file to its    *)
(* writing, so that what its encoder reads, map after map, is one version, *)
(* and the latest.  A handler that stores on change never gets that far:   *)
(* it waits for a lock that it has itself.                                 *)
(***************************************************************************)
EXTENDS FileStorage, MemStorage_proofs

FileTypes ==
    /\ file \in File
    /\ saving \in [Threads -> {"none", "rlock", "create", "gauge", "counter",
                               "write", "runlock"}]
    /\ buf \in [Threads -> Snapshot]
    /\ preserver \in {"off", "first", "loop", "exiting", "done"}
    /\ ctxDone \in BOOLEAN
    /\ faults \in 0 .. MaxFaults
    /\ restarts \in 0 .. MaxRestarts

\* Nobody but the preserver gets into storeMetrics.
SaverInv ==
    /\ \A h \in Handlers :
          saving[h] \in {"none", "rlock"} /\ (saving[h] = "rlock" => pc[h] = "unlock")
    /\ \A t \in Threads \ (Handlers \cup {Preserver}) : saving[t] = "none"

\* Past the lock the preserver has it; the file is torn until it writes; and
\* what it has encoded is the latest version.
EncoderInv ==
    /\ saving[Preserver] \notin {"none", "rlock"} => Preserver \in mutex.readers
    /\ saving[Preserver] \in {"gauge", "counter", "write"} => file = TornFile
    /\ saving[Preserver] \in {"counter", "write"} =>
          Encodable(Last(hist)) /\ buf[Preserver].gauge = Last(hist).gauge
    /\ saving[Preserver] = "write" => buf[Preserver] = Last(hist)

FileInv == MemInv /\ FileTypes /\ SaverInv /\ EncoderInv /\ FileIsCommitted

USE FileAssumption, MemAssumption

----------------------------------------------------------------------------
(* What a step of a handler leaves alone.                                  *)

\* A handler gives up no lock but its own, and changes the storage only when
\* there is no reader.
LEMMA HandlerFrame ==
    ASSUME NEW h \in Handlers, MemInv, Call(h) \/ HandlerStep(h)
    PROVE  /\ \A t \in mutex.readers : t # h => t \in mutex'.readers
           /\ hist' # hist => mutex.readers = {}
           /\ \A k \in Handlers : k # h => pc'[k] = pc[k]
<1> USE DEF MemInv, MemTypeOK, LockInv, Goto, CriticalLabels
<1>1. CASE Call(h) \/ Claim(h) \/ Lock(h) \/ RLock(h) \/ Unlock(h) \/ RUnlock(h)
  <2>1. CASE Call(h) \/ Lock(h)
    BY <2>1 DEF Call, Lock
  <2>2. CASE Claim(h)
    BY <2>2 DEF Claim, ClaimWrite
  <2>3. CASE RLock(h)
    BY <2>3 DEF RLock, AcquireRead
  <2>4. CASE Unlock(h)
    BY <2>4 DEF Unlock, ReleaseWrite
  <2>5. CASE RUnlock(h)
    BY <2>5 DEF RUnlock, ReleaseRead
  <2> QED
    BY <1>1, <2>1, <2>2, <2>3, <2>4, <2>5
<1>2. CASE UpdateMetric(h) \/ CopyMaps(h) \/ ApplyNext(h) \/ SwapGauge(h) \/ SwapCounter(h)
  BY <1>2 DEF UpdateMetric, CopyMaps, ApplyNext, SwapGauge, SwapCounter, Observe
<1>3. CASE GetMetric(h) \/ DumpGauge(h) \/ DumpCounter(h) \/ Return(h)
  BY <1>3 DEF GetMetric, DumpGauge, DumpCounter, Return, Observe
<1> QED
  BY <1>1, <1>2, <1>3 DEF HandlerStep

\* The history only grows, and the versions in it do not change.
LEMMA HandlerHistory ==
    ASSUME NEW h \in Handlers, MemInv, Call(h) \/ HandlerStep(h)
    PROVE  /\ hist' = hist \/ \E v : hist' = Append(hist, v)
           /\ Len(hist) <= Len(hist')
           /\ \A i \in 1 .. Len(hist) : hist'[i] = hist[i]
<1>1. hist' = hist \/ \E v : hist' = Append(hist, v)
  <2>1. CASE UpdateMetric(h) \/ SwapCounter(h)
    BY <2>1 DEF UpdateMetric, SwapCounter, Commit
  <2>2. CASE ~(UpdateMetric(h) \/ SwapCounter(h))
    BY <2>2 DEF HandlerStep, Call, Claim, Lock, RLock, Unlock, RUnlock, CopyMaps, ApplyNext,
       SwapGauge, GetMetric, DumpGauge, DumpCounter, Return, Observe
  <2> QED
    BY <2>1, <2>2
<1>2. hist \in Seq(Snapshot) /\ hist' \in Seq(Snapshot)
  BY HandlerStepKeeps DEF MemInv, MemTypeOK
<1> QED
  BY <1>1, <1>2

\* So a file that was committed still is.
LEMMA CommittedStays ==
    ASSUME NEW h \in Handlers, MemInv, Call(h) \/ HandlerStep(h), FileIsCommitted,
           file' = file
    PROVE  FileIsCommitted'
<1> SUFFICES ASSUME file.state = "whole"
             PROVE  \E i \in 1 .. Len(hist') : file.data = hist'[i]
  BY DEF FileIsCommitted
<1>1. PICK i \in 1 .. Len(hist) : file.data = hist[i]
  BY DEF FileIsCommitted
<1>2. hist \in Seq(Snapshot) /\ hist' \in Seq(Snapshot)
  BY HandlerStepKeeps DEF MemInv, MemTypeOK
<1>3. i \in 1 .. Len(hist') /\ hist'[i] = hist[i]
  BY <1>2, HandlerHistory
<1> QED
  BY <1>1, <1>3

----------------------------------------------------------------------------
(* The initial state.                                                      *)

LEMMA FileInitInv == FileInit => FileInv
<1> SUFFICES ASSUME FileInit PROVE FileInv
  OBVIOUS
<1>1. MemInv
  BY MemInitInv DEF FileInit
<1>2. FileTypes
  <2>1. file \in File /\ preserver \in {"off", "first", "loop", "exiting", "done"}
    BY EmptySnapshotType DEF FileInit, File, NoFile, Started
  <2>2. /\ saving \in [Threads -> {"none", "rlock", "create", "gauge", "counter",
                                    "write", "runlock"}]
        /\ buf \in [Threads -> Snapshot]
    BY EmptySnapshotType DEF FileInit
  <2>3. faults \in 0 .. MaxFaults /\ restarts \in 0 .. MaxRestarts
    BY DEF FileInit
  <2>4. ctxDone \in BOOLEAN
    BY DEF FileInit
  <2> QED
    BY <2>1, <2>2, <2>3, <2>4 DEF FileTypes
<1>3. SaverInv /\ EncoderInv /\ FileIsCommitted
  BY DEF FileInit, SaverInv, EncoderInv, FileIsCommitted, NoFile
<1> QED
  BY <1>1, <1>2, <1>3 DEF FileInv

----------------------------------------------------------------------------
(* The handlers.                                                           *)

\* The steps of a handler that are those of MemStorage and nothing else.
LEMMA PlainStepKeeps ==
    ASSUME NEW h \in Handlers, FileInv,
           Call(h) \/ HandlerStep(h), UNCHANGED fileVars,
           saving[h] = "rlock" => pc'[h] = pc[h]
    PROVE  FileInv'
<1>1. MemInv'
  BY HandlerStepKeeps DEF FileInv
<1>2. FileTypes'
  BY DEF FileInv, FileTypes, fileVars
<1>3. SaverInv'
  BY HandlerFrame DEF FileInv, SaverInv, fileVars
<1>4. EncoderInv'
  <2>1. saving[Preserver] \notin {"none", "rlock"} =>
           Preserver \in mutex'.readers /\ hist' = hist
    BY HandlerFrame DEF FileInv, EncoderInv
  <2> QED
    BY <2>1 DEF FileInv, EncoderInv, fileVars
<1>5. FileIsCommitted'
  BY CommittedStays DEF FileInv, fileVars
<1> QED
  BY <1>1, <1>2, <1>3, <1>4, <1>5 DEF FileInv

\* A step that makes a new version, and stores it when there is no preserver.
LEMMA CommitKeeps ==
    ASSUME NEW h \in Handlers, FileInv,
           UpdateMetric(h) \/ SwapCounter(h), StoreOnChangeIfRequired(h)
    PROVE  FileInv'
<1>1. HandlerStep(h)
  BY DEF HandlerStep
<1>2. MemInv'
  BY <1>1, HandlerStepKeeps DEF FileInv
<1>3. pc' = [pc EXCEPT ![h] = "unlock"] /\ pc[h] \in CriticalLabels
  BY DEF UpdateMetric, SwapCounter, Goto, CriticalLabels
<1>4. FileTypes'
  BY DEF FileInv, FileTypes, StoreOnChangeIfRequired
<1>5. SaverInv'
  BY <1>3 DEF FileInv, SaverInv, StoreOnChangeIfRequired, FileTypes, MemInv, MemTypeOK
<1>6. EncoderInv'
  <2>1. mutex.readers = {}
    BY <1>3 DEF FileInv, MemInv, LockInv
  <2>2. saving'[Preserver] = saving[Preserver]
    BY DEF FileInv, FileTypes, StoreOnChangeIfRequired
  <2> QED
    BY <2>1, <2>2 DEF FileInv, EncoderInv
<1>7. FileIsCommitted'
  BY <1>1, CommittedStays DEF FileInv, StoreOnChangeIfRequired
<1> QED
  BY <1>2, <1>4, <1>5, <1>6, <1>7 DEF FileInv

LEMMA FileHandlerKeeps ==
    ASSUME NEW h \in Handlers, FileInv, FileCall(h) \/ FileHandlerStep(h)
    PROVE  FileInv'
<1> USE DEF FileInv, SaverInv
<1>1. CASE FileCall(h)
  BY <1>1, PlainStepKeeps DEF FileCall, Call
<1>2. CASE FileClaim(h)
  BY <1>2, PlainStepKeeps DEF FileClaim, Claim, HandlerStep
<1>3. CASE FileRLock(h)
  BY <1>3, PlainStepKeeps DEF FileRLock, RLock, HandlerStep
<1>4. CASE FileUnlock(h)
  BY <1>4, PlainStepKeeps DEF FileUnlock, HandlerStep
<1>5. CASE FileUpdateMetric(h)
  BY <1>5, CommitKeeps DEF FileUpdateMetric
<1>6. CASE FileUpdateMetrics(h)
  <2>1. CASE (CopyMaps(h) \/ ApplyNext(h) \/ SwapGauge(h)) /\ UNCHANGED fileVars
    BY <2>1, PlainStepKeeps DEF CopyMaps, ApplyNext, SwapGauge, HandlerStep
  <2>2. CASE SwapCounter(h) /\ StoreOnChangeIfRequired(h)
    BY <2>2, CommitKeeps
  <2> QED
    BY <1>6, <2>1, <2>2 DEF FileUpdateMetrics
<1>7. CASE FileGetMetric(h)
  BY <1>7, PlainStepKeeps DEF FileGetMetric, GetMetric, HandlerStep
<1>8. CASE FileGetMetricsByTypes(h)
  BY <1>8, PlainStepKeeps DEF FileGetMetricsByTypes, DumpGauge, DumpCounter, HandlerStep
<1>9. CASE (Lock(h) \/ RUnlock(h) \/ Return(h)) /\ UNCHANGED fileVars
  BY <1>9, PlainStepKeeps DEF Lock, RUnlock, Return, HandlerStep
<1> QED
  BY <1>1, <1>2, <1>3, <1>4, <1>5, <1>6, <1>7, <1>8, <1>9 DEF FileHandlerStep

----------------------------------------------------------------------------
(* storeMetrics.                                                           *)

\* Whoever makes a step in storeMetrics is the preserver.
LEMMA StoreStepIsPreserver ==
    ASSUME NEW t \in Threads, FileInv, StoreStep(t)
    PROVE  t = Preserver
<1>1. saving[t] # "none"
  BY DEF StoreStep, StoreRLock, StoreCreate, StoreCreateFails, EncodeGauge, EncodeCounter,
         StoreWrite, StoreWriteFails, StoreRUnlock
<1>2. t \in Handlers \cup {Preserver}
  BY <1>1 DEF FileInv, SaverInv
<1>3. ASSUME t \in Handlers PROVE FALSE
  <2>1. saving[t] = "rlock" /\ pc[t] = "unlock"
    BY <1>1, <1>3 DEF FileInv, SaverInv
  <2>2. t \in mutex.writer
    BY <1>3, <2>1 DEF FileInv, MemInv, LockInv, WriterLabels
  <2>3. StoreRLock(t)
    BY <2>1 DEF StoreStep, StoreCreate, StoreCreateFails, EncodeGauge, EncodeCounter,
                StoreWrite, StoreWriteFails, StoreRUnlock
  <2> QED
    BY <2>2, <2>3 DEF StoreRLock, AcquireRead
<1> QED
  BY <1>2, <1>3

\* Taking or giving back the read lock does not concern the handlers.
LEMMA PreserverLockKeeps ==
    ASSUME MemInv,
           AcquireRead(Preserver) \/ ReleaseRead(Preserver),
           UNCHANGED <<GaugeMap, CounterMap, pc, call, work, result, hist, at>>
    PROVE  MemInv'
<1> USE DEF MemInv, AcquireRead, ReleaseRead
<1>1. mutex' \in [writer: SUBSET Threads, readers: SUBSET Threads]
  <2>1. /\ mutex.readers \cup {Preserver} \in SUBSET Threads
        /\ mutex.readers \ {Preserver} \in SUBSET Threads
    BY DEF MemTypeOK
  <2> QED
    BY <2>1 DEF MemTypeOK
<1>2. MemTypeOK'
  BY <1>1 DEF MemTypeOK
<1>3. LockInv'
  <2>1. /\ mutex'.writer = mutex.writer
        /\ \A h \in Handlers : h \in mutex'.readers <=> h \in mutex.readers
    BY DEF MemTypeOK
  <2>2. ASSUME NEW h \in Handlers, pc[h] \in CriticalLabels
        PROVE  mutex'.readers = {}
    <3>1. h \in mutex.writer /\ mutex.readers = {}
      BY <2>2 DEF LockInv, WriterLabels, CriticalLabels
    <3> QED
      BY <3>1 DEF MemTypeOK
  <2> QED
    BY <2>1, <2>2 DEF LockInv
<1>4. CallInv' /\ MapsInv' /\ VersionInv'
  BY DEF CallInv, MapsInv, VersionInv
<1> QED
  BY <1>2, <1>3, <1>4

\* While the preserver has the read lock, the maps are the latest version.
LEMMA PreserverReadsLatest ==
    ASSUME FileInv, Preserver \in mutex.readers
    PROVE  /\ GaugeMap = Last(hist).gauge /\ CounterMap = Last(hist).counter
           /\ Last(hist) \in Snapshot
           /\ Last(hist) = hist[Len(hist)] /\ Len(hist) \in 1 .. Len(hist)
<1>1. \A h \in Handlers : pc[h] # "swap"
  BY DEF FileInv, MemInv, LockInv, CriticalLabels
<1>2. GaugeMap = Last(hist).gauge /\ CounterMap = Last(hist).counter
  BY <1>1 DEF FileInv, MemInv, MapsInv
<1> QED
  BY <1>2 DEF FileInv, MemInv, MemTypeOK, Last

LEMMA StoreStepKeeps ==
    ASSUME NEW t \in Threads, FileInv, StoreStep(t)
    PROVE  FileInv'
<1>1. t = Preserver
  BY StoreStepIsPreserver
<1> USE DEF Proceed
<1>2. CASE StoreRLock(t)
  <2>1. MemInv'
    BY <1>1, <1>2, PreserverLockKeeps DEF StoreRLock, FileInv
  <2>2. FileTypes'
    BY <1>2 DEF StoreRLock, FileInv, FileTypes
  <2>3. SaverInv' /\ EncoderInv' /\ FileIsCommitted'
    BY <1>1, <1>2 DEF StoreRLock, AcquireRead, FileInv, FileTypes, SaverInv, EncoderInv,
                      FileIsCommitted, MemInv, MemTypeOK
  <2> QED
    BY <2>1, <2>2, <2>3 DEF FileInv
<1>3. CASE StoreRUnlock(t)
  <2>1. MemInv'
    BY <1>1, <1>3, PreserverLockKeeps DEF StoreRUnlock, FileInv
  <2>2. FileTypes'
    BY <1>3, EmptySnapshotType DEF StoreRUnlock, FileInv, FileTypes
  <2>3. SaverInv' /\ EncoderInv' /\ FileIsCommitted'
    BY <1>1, <1>3 DEF StoreRUnlock, FileInv, FileTypes, SaverInv, EncoderInv, FileIsCommitted
  <2> QED
    BY <2>1, <2>2, <2>3 DEF FileInv
<1>4. CASE StoreCreate(t) \/ StoreCreateFails(t)
  <2>1. MemInv'
    BY <1>4, MemStutterKeeps DEF StoreCreate, StoreCreateFails, FileInv
  <2>2. FileTypes'
    BY <1>4, EmptySnapshotType
    DEF StoreCreate, StoreCreateFails, FileInv, FileTypes, File, TornFile
  <2>3. SaverInv' /\ EncoderInv' /\ FileIsCommitted'
    BY <1>1, <1>4 DEF StoreCreate, StoreCreateFails, FileInv, FileTypes, SaverInv,
                      EncoderInv, FileIsCommitted, TornFile, memVars
  <2> QED
    BY <2>1, <2>2, <2>3 DEF FileInv
<1>5. CASE EncodeGauge(t)
  <2>1. MemInv'
    BY <1>5, MemStutterKeeps DEF EncodeGauge, FileInv
  <2>2. FileTypes'
    BY <1>5 DEF EncodeGauge, FileInv, FileTypes, MemInv, MemTypeOK, Snapshot
  <2>3. GaugeMap = Last(hist).gauge /\ saving[Preserver] = "gauge"
    BY <1>1, <1>5, PreserverReadsLatest DEF EncodeGauge, FileInv, EncoderInv
  <2>4. Encodable(Maps) <=> Encodable(Last(hist))
    BY <2>3 DEF Encodable, Maps
  <2>5. buf'[Preserver].gauge = GaugeMap
    BY <1>1, <1>5 DEF EncodeGauge, FileInv, FileTypes, Snapshot
  <2>6. SaverInv' /\ EncoderInv' /\ FileIsCommitted'
    BY <1>1, <1>5, <2>3, <2>4, <2>5 DEF EncodeGauge, FileInv, FileTypes, SaverInv, EncoderInv,
                      FileIsCommitted, memVars, Encodable
  <2> QED
    BY <2>1, <2>2, <2>6 DEF FileInv
<1>6. CASE EncodeCounter(t)
  <2>1. MemInv'
    BY <1>6, MemStutterKeeps DEF EncodeCounter, FileInv
  <2>2. FileTypes'
    BY <1>6 DEF EncodeCounter, FileInv, FileTypes, MemInv, MemTypeOK, Snapshot
  <2>3. /\ CounterMap = Last(hist).counter /\ Last(hist) \in Snapshot
        /\ saving[Preserver] = "counter"
    BY <1>1, <1>6, PreserverReadsLatest DEF EncodeCounter, FileInv, EncoderInv
  <2>4. buf[Preserver].gauge = Last(hist).gauge /\ buf[Preserver] \in Snapshot
    BY <2>3 DEF FileInv, EncoderInv, FileTypes
  <2>5. buf'[Preserver] = Last(hist)
    BY <1>1, <1>6, <2>3, <2>4 DEF EncodeCounter, FileInv, FileTypes, Snapshot
  <2>6. SaverInv' /\ EncoderInv' /\ FileIsCommitted'
    BY <1>1, <1>6, <2>3, <2>5 DEF EncodeCounter, FileInv, FileTypes, SaverInv, EncoderInv,
                      FileIsCommitted, memVars, Encodable
  <2> QED
    BY <2>1, <2>2, <2>6 DEF FileInv
<1>7. CASE StoreWrite(t) \/ StoreWriteFails(t)
  <2>1. MemInv'
    BY <1>7, MemStutterKeeps DEF StoreWrite, StoreWriteFails, FileInv
  <2>2. FileTypes'
    BY <1>7, EmptySnapshotType
    DEF StoreWrite, StoreWriteFails, FileInv, FileTypes, File, TornFile, WholeFile
  <2>3. SaverInv' /\ EncoderInv'
    BY <1>1, <1>7 DEF StoreWrite, StoreWriteFails, FileInv, FileTypes, SaverInv, EncoderInv,
                      memVars
  <2>4. FileIsCommitted'
    <3>1. /\ buf[t] = Last(hist) /\ Preserver \in mutex.readers
      BY <1>1, <1>7 DEF StoreWrite, StoreWriteFails, FileInv, EncoderInv
    <3> QED
      BY <1>7, <3>1, PreserverReadsLatest
      DEF StoreWrite, StoreWriteFails, TornFile, WholeFile, FileIsCommitted, memVars
  <2> QED
    BY <2>1, <2>2, <2>3, <2>4 DEF FileInv
<1> QED
  BY <1>2, <1>3, <1>4, <1>5, <1>6, <1>7 DEF StoreStep

----------------------------------------------------------------------------
(* The preserver, the context and a restart.                               *)

LEMMA PreserverKeeps ==
    ASSUME FileInv, PreserverStep \/ Cancel
    PROVE  FileInv'
<1>1. UNCHANGED memVars
  BY DEF PreserverStep, FirstStore, Tick, StopPreserver, PreserverDone, Cancel
<1>2. MemInv'
  BY <1>1, MemStutterKeeps DEF FileInv
<1>3. FileTypes'
  BY DEF FileInv, FileTypes, PreserverStep, FirstStore, Tick, StopPreserver, PreserverDone,
         Cancel, Proceed
<1>4. \/ saving' = saving
      \/ saving' = [saving EXCEPT ![Preserver] = "rlock"]
  BY DEF PreserverStep, FirstStore, Tick, StopPreserver, PreserverDone, Cancel, Proceed
<1>5. file' = file /\ buf' = buf
  BY DEF PreserverStep, FirstStore, Tick, StopPreserver, PreserverDone, Cancel
<1>6. SaverInv' /\ EncoderInv' /\ FileIsCommitted'
  BY <1>1, <1>4, <1>5
  DEF FileInv, FileTypes, SaverInv, EncoderInv, FileIsCommitted, memVars, Encodable
<1> QED
  BY <1>2, <1>3, <1>6 DEF FileInv

LEMMA LoadedType ==
    ASSUME FileTypes
    PROVE  Loaded \in Snapshot
  BY EmptySnapshotType DEF FileTypes, File, Loaded

LEMMA RestartKeeps ==
    ASSUME FileInv, Restart
    PROVE  FileInv'
<1>1. /\ Loaded \in Snapshot
      /\ Loaded.gauge \in MapTo(GaugeValues) /\ Loaded.counter \in MapTo(Counter)
  BY LoadedType DEF FileInv, Snapshot
<1>2. /\ hist \in Seq(Snapshot) /\ hist # <<>>
      /\ hist' = Append(hist, Loaded)
  BY DEF Restart, FileInv, MemInv, MemTypeOK
<1>3. /\ hist' \in Seq(Snapshot) /\ hist' # <<>> /\ Len(hist') = Len(hist) + 1
      /\ Last(hist') = Loaded
      /\ Len(hist) \in Nat
      /\ \A i \in 1 .. Len(hist) : hist'[i] = hist[i]
  BY <1>1, <1>2, HistoryFacts
<1>4. MemTypeOK'
  BY <1>1, <1>3, EmptySnapshotType DEF Restart, MemTypeOK, Labels
<1>5. LockInv' /\ CallInv' /\ MapsInv' /\ VersionInv'
  BY <1>3 DEF Restart, LockInv, CallInv, MapsInv, VersionInv, WriterLabels, CriticalLabels,
              ReaderLabels
<1>6. FileTypes'
  <2>1. /\ saving' \in [Threads -> {"none", "rlock", "create", "gauge", "counter",
                                     "write", "runlock"}]
        /\ buf' \in [Threads -> Snapshot]
    BY EmptySnapshotType DEF Restart
  <2>2. /\ file' \in File /\ ctxDone' \in BOOLEAN
        /\ preserver' \in {"off", "first", "loop", "exiting", "done"}
    BY DEF Restart, FileInv, FileTypes, Started
  <2>3. faults' \in 0 .. MaxFaults /\ restarts' \in 0 .. MaxRestarts
    BY DEF Restart, FileInv, FileTypes
  <2> QED
    BY <2>1, <2>2, <2>3 DEF FileTypes
<1>7. SaverInv' /\ EncoderInv'
  BY DEF Restart, SaverInv, EncoderInv
<1>8. FileIsCommitted'
  BY <1>3 DEF Restart, FileInv, FileIsCommitted
<1> QED
  BY <1>4, <1>5, <1>6, <1>7, <1>8 DEF FileInv, MemInv

----------------------------------------------------------------------------
(* The specification.                                                      *)

LEMMA FileNextKeeps == FileInv /\ [FileNext]_allVars => FileInv'
<1> SUFFICES ASSUME FileInv, [FileNext]_allVars PROVE FileInv'
  OBVIOUS
<1>1. CASE \E h \in Handlers : FileCall(h) \/ FileHandlerStep(h)
  BY <1>1, FileHandlerKeeps
<1>2. CASE \E t \in Threads : StoreStep(t)
  BY <1>2, StoreStepKeeps
<1>3. CASE PreserverStep \/ Cancel
  BY <1>3, PreserverKeeps
<1>4. CASE Restart
  BY <1>4, RestartKeeps
<1>5. CASE UNCHANGED allVars
  <2>1. MemInv'
    BY <1>5, MemStutterKeeps DEF FileInv, allVars
  <2> QED
    BY <1>5, <2>1 DEF FileInv, FileTypes, SaverInv, EncoderInv, FileIsCommitted, allVars,
                      memVars, fileVars, Encodable
<1> QED
  BY <1>1, <1>2, <1>3, <1>4, <1>5 DEF FileNext

\* The invariant holds in every reachable state.
THEOREM FileInvariant == FileSpec => []FileInv
<1> QED
  BY FileInitInv, FileNextKeeps, PTL DEF FileSpec

\* Type correctness, for any store interval.
THEOREM FileTypeCorrect == FileSpec => []FileTypeOK
<1>1. FileInv => FileTypeOK
  BY DEF FileInv, MemInv, FileTypes, FileTypeOK
<1> QED
  BY <1>1, FileInvariant, PTL

\* Whatever the preserver is doing, and wherever the process is killed, a file
\* that can be read holds both maps as they were together at some moment.
THEOREM FileStaysCommitted == FileSpec => []FileIsCommitted
<1>1. FileInv => FileIsCommitted
  BY DEF FileInv
<1> QED
  BY <1>1, FileInvariant, PTL

----------------------------------------------------------------------------
(* FileStorage implements DurableStore: mem is the latest version, disk is *)
(* the file.                                                               *)

LEMMA DurableInitHolds == FileInit => Durable!DurableInit
  BY DEF FileInit, MemInit, Durable!DurableInit, Durable!NoFile, NoFile, Durable!EmptySnapshot,
         EmptySnapshot, Durable!EmptyMap, EmptyMap, Last

LEMMA HandlerRefines ==
    ASSUME NEW h \in Handlers, FileInv, FileCall(h) \/ FileHandlerStep(h)
    PROVE  Durable!Update \/ UNCHANGED <<Last(hist), file>>
<1>1. file' = file
  BY DEF FileCall, FileHandlerStep, FileClaim, FileRLock, FileUnlock, FileUpdateMetric,
         FileUpdateMetrics, FileGetMetric, FileGetMetricsByTypes, StoreOnChangeIfRequired, fileVars
<1>2. FileInv'
  BY FileHandlerKeeps
<1>3. Last(hist)' \in Snapshot
  BY <1>2 DEF FileInv, MemInv, MemTypeOK, Last
<1>4. Last(hist)' \in Durable!Snapshot
  BY <1>3 DEF Snapshot, Durable!Snapshot, MapTo, Durable!MapTo, Counter, Durable!Counter
<1> QED
  BY <1>1, <1>4 DEF Durable!Update

LEMMA StoreRefines ==
    ASSUME NEW t \in Threads, FileInv, StoreStep(t)
    PROVE  Durable!Truncate \/ Durable!Save \/ UNCHANGED <<Last(hist), file>>
<1>1. t = Preserver
  BY StoreStepIsPreserver
<1>2. hist' = hist
  BY DEF StoreStep, StoreRLock, StoreCreate, StoreCreateFails, EncodeGauge, EncodeCounter,
         StoreWrite, StoreWriteFails, StoreRUnlock, memVars
<1>3. CASE StoreCreate(t) \/ StoreWriteFails(t)
  BY <1>2, <1>3 DEF StoreCreate, StoreWriteFails, Durable!Truncate, TornFile, Durable!TornFile,
     EmptySnapshot, Durable!EmptySnapshot, EmptyMap, Durable!EmptyMap
<1>4. CASE StoreWrite(t)
  <2>1. file = TornFile /\ Encodable(Last(hist)) /\ buf[t] = Last(hist)
    BY <1>1, <1>4 DEF StoreWrite, FileInv, EncoderInv
  <2>2. file' = WholeFile(Last(hist))
    BY <1>4, <2>1 DEF StoreWrite
  <2> QED
    BY <1>2, <2>1, <2>2 DEF Durable!Save, TornFile, Durable!TornFile, WholeFile, Durable!WholeFile,
       EmptySnapshot, Durable!EmptySnapshot, EmptyMap, Durable!EmptyMap, Encodable, Durable!Encodable
<1>5. CASE ~(StoreCreate(t) \/ StoreWriteFails(t) \/ StoreWrite(t))
  BY <1>2, <1>5 DEF StoreStep, StoreRLock, StoreCreateFails, EncodeGauge, EncodeCounter,
     StoreRUnlock
<1> QED
  BY <1>3, <1>4, <1>5

LEMMA RestartRefines ==
    ASSUME FileInv, Restart
    PROVE  Durable!StartAgain
<1>1. Loaded \in Snapshot /\ hist \in Seq(Snapshot) /\ hist # <<>>
  BY LoadedType DEF FileInv, MemInv, MemTypeOK
<1>2. Last(hist)' = Loaded
  BY <1>1, HistoryFacts DEF Restart
<1> QED
  BY <1>2 DEF Restart, Durable!StartAgain, Durable!Recovered, Loaded, EmptySnapshot,
     Durable!EmptySnapshot, EmptyMap, Durable!EmptyMap

\* Every step of the storage is a step of the durable store, or none: what is
\* saved is the latest version, and what a restart finds is what was saved, or
\* nothing.
THEOREM FileImplementsDurable == FileSpec => SavesCurrent
<1>1. FileInit => Durable!DurableInit
  BY DurableInitHolds
<1>2. FileInv /\ [FileNext]_allVars => [Durable!DurableNext]_(Durable!durableVars)
  <2> SUFFICES ASSUME FileInv, [FileNext]_allVars
               PROVE  Durable!DurableNext \/ UNCHANGED <<Last(hist), file>>
    BY DEF Durable!durableVars
  <2>1. CASE \E h \in Handlers : FileCall(h) \/ FileHandlerStep(h)
    BY <2>1, HandlerRefines DEF Durable!DurableNext
  <2>2. CASE \E t \in Threads : StoreStep(t)
    BY <2>2, StoreRefines DEF Durable!DurableNext
  <2>3. CASE PreserverStep \/ Cancel
    BY <2>3 DEF PreserverStep, FirstStore, Tick, StopPreserver, PreserverDone, Cancel, memVars
  <2>4. CASE Restart
    BY <2>4, RestartRefines DEF Durable!DurableNext
  <2>5. CASE UNCHANGED allVars
    BY <2>5 DEF allVars, memVars, fileVars
  <2> QED
    BY <2>1, <2>2, <2>3, <2>4, <2>5 DEF FileNext
<1> QED
  BY <1>1, <1>2, FileInvariant, PTL DEF FileSpec, SavesCurrent, Durable!DurableSpec
============================================================================
