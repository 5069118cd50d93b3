--------------------------- MODULE Server_proofs ---------------------------
(***************************************************************************)
(* The shutdown of Server, for any handlers, requests and store interval.  *)
(*                                                                         *)
(* FileInv says what the file may hold at any moment.  ServerInv adds what *)
(* the shutdown relies on: the store on exit begins after the context is   *)
(* cancelled, so that once it has written, and nothing went wrong, the     *)
(* file has every update acknowledged by then; and nobody is accepted once *)
(* the watchdog has begun to drain.                                        *)
(***************************************************************************)
EXTENDS Server, FileStorage_proofs

ProcTypes ==
    /\ created \in BOOLEAN
    /\ listener \in {"starting", "serving", "stopped"}
    /\ watchdog \in {"waiting", "draining", "done"}
    /\ conn \in [Handlers -> {"none", "active", "called"}]
    /\ success \in BOOLEAN
    /\ main \in {"running", "returned", "panicked"}
    /\ timedOut \in BOOLEAN

AckInv ==
    /\ acked \in 1 .. Len(hist) /\ ackedAtCancel \in 0 .. acked
    /\ ctxDone => ackedAtCancel # 0

\* No store has failed, and none can on account of a gauge.
Untroubled == faults = 0 /\ \A i \in 1 .. Len(hist) : Encodable(hist[i])

\* The store on exit is over.
ExitStored ==
    \/ preserver = "done"
    \/ preserver = "exiting" /\ saving[Preserver] \in {"none", "runlock"}

ExitInv ==
    /\ preserver \in {"exiting", "done"} => ctxDone
    /\ preserver \in {"first", "done"} => saving[Preserver] = "none"
    /\ ExitStored /\ Untroubled => StoredSince(ackedAtCancel)

DrainInv ==
    /\ watchdog = "done" /\ ~timedOut => \A h \in Handlers : conn[h] = "none"
    /\ main = "returned" => watchdog = "done" /\ preserver \in {"off", "done"}

ServerInv == FileInv /\ ProcTypes /\ AckInv /\ ExitInv /\ DrainInv

----------------------------------------------------------------------------
(* Facts the steps share.                                                  *)

\* The history goes on from hist to next.
Grows ==
    /\ Len(hist) \in Nat /\ Len(hist') \in Nat /\ Len(hist) <= Len(hist')
    /\ \A i \in 1 .. Len(hist) : hist'[i] = hist[i]

LEMMA HistType == FileInv => hist \in Seq(Snapshot) /\ hist # <<>> /\ Len(hist) \in Nat \ {0}
BY DEF FileInv, MemInv, MemTypeOK

LEMMA SameGrows == FileInv /\ hist' = hist => Grows
BY HistType DEF Grows

\* A file that was good enough is so still, when nothing writes to it.
LEMMA StoredStays ==
    ASSUME Grows, file' = file, NEW n \in Nat \ {0}, StoredSince(n)
    PROVE  file'.state = "whole" /\ \E i \in n .. Len(hist') : file'.data = hist'[i]
<1>1. PICK i \in n .. Len(hist) : file.data = hist[i]
  BY DEF StoredSince
<1>2. i \in n .. Len(hist') /\ hist'[i] = hist[i]
  BY <1>1 DEF Grows
<1> QED
  BY <1>1, <1>2 DEF StoredSince

\* What has gone wrong stays wrong.
LEMMA UntroubledBefore ==
    ASSUME Grows, faults \in Nat, faults' \in Nat, faults <= faults', Untroubled'
    PROVE  Untroubled
<1>1. faults = 0
  BY DEF Untroubled
<1>2. ASSUME NEW i \in 1 .. Len(hist) PROVE Encodable(hist[i])
  <2>1. i \in 1 .. Len(hist') /\ hist'[i] = hist[i]
    BY DEF Grows
  <2>2. \A j \in 1 .. Len(hist') : Encodable(hist'[j])
    BY DEF Untroubled, Encodable
  <2> QED
    BY <2>1, <2>2
<1> QED
  BY <1>1, <1>2 DEF Untroubled

\* A step that does not touch the file or the preserver leaves the exit as it
\* is, also when it cancels the context: the store on exit has not begun then.
LEMMA ExitStays ==
    ASSUME ServerInv, Grows, file' = file, preserver' = preserver, faults' = faults,
           saving'[Preserver] = saving[Preserver],
           ctxDone => ctxDone' /\ ackedAtCancel' = ackedAtCancel
    PROVE  ExitInv'
<1>1. ExitInv /\ faults \in Nat /\ AckInv
  BY FileAssumption DEF ServerInv, FileInv, FileTypes
<1>2. ASSUME ExitStored', Untroubled'
      PROVE  StoredSince(ackedAtCancel)'
  <2>1. ExitStored /\ ctxDone
    BY <1>1, <1>2 DEF ExitStored, ExitInv
  <2>2. Untroubled
    BY <1>1, <1>2, UntroubledBefore
  <2>3. StoredSince(ackedAtCancel) /\ ackedAtCancel' = ackedAtCancel
    BY <1>1, <2>1, <2>2 DEF ExitInv
  <2>4. ackedAtCancel \in Nat \ {0}
    BY <1>1, <2>1 DEF AckInv
  <2>5. /\ file'.state = "whole"
        /\ \E i \in ackedAtCancel .. Len(hist') : file'.data = hist'[i]
    BY <2>3, <2>4, StoredStays
  <2> QED
    BY <2>3, <2>5 DEF StoredSince
<1> QED
  BY <1>1, <1>2 DEF ExitInv

----------------------------------------------------------------------------
LEMMA ServerInitInv == ServerInit => ServerInv
<1> SUFFICES ASSUME ServerInit PROVE ServerInv
  OBVIOUS
<1>1. FileInv
  BY FileInitInv DEF ServerInit
<1>2. /\ ~ctxDone /\ preserver \in {"off", "first"}
      /\ saving = [t \in Threads |-> "none"] /\ Preserver \in Threads
  BY FileAssumption DEF ServerInit, FileInit, Started
<1>3. ProcTypes
  BY DEF ServerInit, ProcTypes
<1>4. AckInv
  BY <1>1, <1>2, HistType DEF ServerInit, AckInv
<1>5. ExitInv
  BY <1>2 DEF ExitInv, ExitStored
<1>6. DrainInv
  BY DEF ServerInit, DrainInv
<1> QED
  BY <1>1, <1>3, <1>4, <1>5, <1>6 DEF ServerInv

----------------------------------------------------------------------------
(* The listener, the watchdog, the signal and Run: of the storage they     *)
(* change the context at most.                                             *)

LEMMA ContextKeeps ==
    ASSUME FileInv, ctxDone' = ctxDone \/ ctxDone' = TRUE,
           UNCHANGED <<memVars, file, saving, buf, preserver, faults, restarts>>
    PROVE  FileInv' /\ Grows
<1>1. UNCHANGED allVars \/ Cancel
  BY DEF allVars, fileVars, Cancel, FileInv, FileTypes
<1>2. FileInv'
  BY <1>1, FileNextKeeps, PreserverKeeps
<1>3. hist' = hist
  BY DEF memVars
<1> QED
  BY <1>2, <1>3, SameGrows

ProcessStep ==
    \/ Listen \/ ListenFails \/ ListenerClosed \/ Panic
    \/ Signal \/ Shutdown \/ Drained \/ DrainTimeout \/ Exit
    \/ \E h \in Handlers : Accept(h)

LEMMA ProcessKeeps ==
    ASSUME ServerInv, ProcessStep
    PROVE  ServerInv'
<1>a. FileInv /\ ProcTypes /\ AckInv /\ ExitInv /\ DrainInv
  BY DEF ServerInv
<1>b. /\ UNCHANGED <<memVars, file, saving, buf, preserver, faults, restarts>>
      /\ acked' = acked
      /\ \/ ctxDone' = ctxDone /\ ackedAtCancel' = ackedAtCancel
         \/ ctxDone' = TRUE /\ ackedAtCancel' = IF ctxDone THEN ackedAtCancel ELSE acked
  <2>1. CASE ListenFails
    BY <2>1 DEF ListenFails, CancelContext
  <2>2. CASE Signal
    BY <2>2 DEF Signal, CancelContext
  <2>3. CASE Listen \/ ListenerClosed \/ Panic \/ Shutdown \/ Drained \/ DrainTimeout \/ Exit
    BY <2>3 DEF Listen, ListenerClosed, Panic, Shutdown, Drained, DrainTimeout, Exit,
                allVars, fileVars
  <2>4. CASE \E h \in Handlers : Accept(h)
    BY <2>4 DEF Accept, allVars, fileVars
  <2> QED
    BY <2>1, <2>2, <2>3, <2>4 DEF ProcessStep
<1>1. FileInv' /\ Grows
  BY <1>a, <1>b, ContextKeeps
<1>2. ProcTypes'
  <2>1. CASE Listen \/ ListenFails \/ ListenerClosed \/ Panic \/ Signal
    BY <1>a, <2>1 DEF ProcTypes, Listen, ListenFails, ListenerClosed, Panic, Signal
  <2>2. CASE Shutdown \/ Drained \/ DrainTimeout \/ Exit
    BY <1>a, <2>2 DEF ProcTypes, Shutdown, Drained, DrainTimeout, Exit
  <2>3. CASE \E h \in Handlers : Accept(h)
    BY <1>a, <2>3 DEF ProcTypes, Accept
  <2> QED
    BY <2>1, <2>2, <2>3 DEF ProcessStep
<1>3. AckInv'
  <2>1. hist' = hist
    BY <1>b DEF memVars
  <2> QED
    BY <1>a, <1>b, <2>1 DEF AckInv
<1>4. ExitInv'
  BY <1>b, <1>1, ExitStays
<1>5. DrainInv'
  <2>1. preserver' = preserver
    BY <1>b
  <2>2. CASE Listen \/ ListenFails \/ ListenerClosed \/ Panic \/ Signal
    BY <1>a, <2>1, <2>2 DEF DrainInv, Listen, ListenFails, ListenerClosed, Panic, Signal
  <2>3. CASE Shutdown \/ Drained \/ DrainTimeout \/ Exit
    BY <1>a, <2>1, <2>3 DEF DrainInv, Shutdown, Drained, DrainTimeout, Exit, Running
  <2>4. CASE \E h \in Handlers : Accept(h)
    BY <1>a, <2>1, <2>4 DEF DrainInv, Accept, Running
  <2> QED
    BY <2>2, <2>3, <2>4 DEF ProcessStep
<1> QED
  BY <1>1, <1>2, <1>3, <1>4, <1>5 DEF ServerInv

----------------------------------------------------------------------------
(* The handlers.                                                           *)

\* A handler leaves the file, the preserver and its saving alone.
LEMMA HandlerLeaves ==
    ASSUME NEW h \in Handlers, FileInv, FileCall(h) \/ FileHandlerStep(h)
    PROVE  /\ FileInv' /\ Grows
           /\ UNCHANGED <<file, preserver, ctxDone, faults>>
           /\ saving'[Preserver] = saving[Preserver]
<1>1. FileInv'
  BY FileHandlerKeeps
<1>2. Call(h) \/ HandlerStep(h)
  BY DEF FileCall, FileHandlerStep, FileClaim, FileRLock, FileUnlock, FileUpdateMetric,
         FileUpdateMetrics, FileGetMetric, FileGetMetricsByTypes, HandlerStep
<1>3. Grows
  <2>1. hist' \in Seq(Snapshot)
    BY <1>1 DEF FileInv, MemInv, MemTypeOK
  <2>2. Len(hist) \in Nat /\ Len(hist') \in Nat
    BY <2>1, HistType
  <2>3. Len(hist) <= Len(hist') /\ \A i \in 1 .. Len(hist) : hist'[i] = hist[i]
    BY <1>2, HandlerHistory DEF FileInv
  <2> QED
    BY <2>2, <2>3 DEF Grows
<1>4. UNCHANGED fileVars \/ StoreOnChangeIfRequired(h)
  BY DEF FileCall, FileHandlerStep, FileClaim, FileRLock, FileUnlock, FileUpdateMetric,
         FileUpdateMetrics, FileGetMetric, FileGetMetricsByTypes
<1>5. h # Preserver /\ Preserver \in Threads /\ saving \in [Threads -> {"none", "rlock",
         "create", "gauge", "counter", "write", "runlock"}]
  BY FileAssumption DEF FileInv, FileTypes
<1> QED
  BY <1>1, <1>3, <1>4, <1>5 DEF fileVars, StoreOnChangeIfRequired

LEMMA RequestKeeps ==
    ASSUME ServerInv, NEW h \in Handlers, CallStorage(h) \/ StorageStep(h) \/ Respond(h)
    PROVE  ServerInv'
<1>a. FileInv /\ ProcTypes /\ AckInv /\ ExitInv /\ DrainInv
  BY DEF ServerInv
<1>b. FileCall(h) \/ FileHandlerStep(h)
  BY DEF CallStorage, StorageStep, Respond
<1>c. /\ FileInv' /\ Grows /\ UNCHANGED <<file, preserver, ctxDone, faults>>
      /\ saving'[Preserver] = saving[Preserver]
  BY <1>a, <1>b, HandlerLeaves
<1>d. /\ main = "running"
      /\ UNCHANGED <<created, listener, watchdog, success, main, ackedAtCancel, timedOut>>
  BY DEF CallStorage, StorageStep, Respond, Running, serverVars
<1>e. \/ conn[h] = "active" /\ conn' = [conn EXCEPT ![h] = "called"]
      \/ conn' = conn
      \/ conn' = [conn EXCEPT ![h] = "none"]
  BY DEF CallStorage, StorageStep, Respond, serverVars
<1>f. acked' = acked \/ (acked' = at[h] /\ at[h] > acked)
  <2>1. CASE CallStorage(h) \/ StorageStep(h)
    BY <2>1 DEF CallStorage, StorageStep, serverVars
  <2>2. CASE Respond(h)
    <3>1. acked' = IF call[h].op \in Updates /\ at[h] > acked THEN at[h] ELSE acked
      BY <2>2 DEF Respond
    <3> QED
      BY ONLY <3>1
  <2> QED
    BY <2>1, <2>2
<1>1. ProcTypes'
  BY <1>a, <1>d, <1>e DEF ProcTypes
<1>2. AckInv'
  <2>1. at[h] \in 0 .. Len(hist)
    BY <1>a DEF FileInv, MemInv, MemTypeOK
  <2> QED
    <3>1. /\ acked \in 1 .. Len(hist) /\ ackedAtCancel \in 0 .. acked
          /\ Len(hist) \in Nat /\ Len(hist') \in Nat /\ Len(hist) <= Len(hist')
      BY <1>a, <1>c DEF AckInv, Grows
    <3>2. acked' \in 1 .. Len(hist') /\ ackedAtCancel \in 0 .. acked'
      <4> DEFINE m == Len(hist)
                 n == Len(hist')
                 v == at[h]
      <4>1. /\ m \in Nat /\ n \in Nat /\ m <= n /\ v \in 0 .. m
            /\ acked \in 1 .. m /\ ackedAtCancel \in 0 .. acked
            /\ acked' = acked \/ (acked' = v /\ v > acked)
        BY <1>f, <2>1, <3>1
      <4> HIDE DEF m, n, v
      <4>2. acked' \in 1 .. n /\ ackedAtCancel \in 0 .. acked'
        BY ONLY <4>1
      <4> QED
        BY <4>2 DEF n
    <3> QED
      BY <1>a, <1>c, <1>d, <3>2 DEF AckInv
<1>3. ExitInv'
  BY <1>c, <1>d, ExitStays
<1>4. DrainInv'
  BY <1>a, <1>d, <1>e DEF DrainInv, ProcTypes
<1> QED
  BY <1>c, <1>1, <1>2, <1>3, <1>4 DEF ServerInv

----------------------------------------------------------------------------
(* The preserver.                                                          *)

\* What it does leaves the process alone.
LEMMA SaverLeaves ==
    ASSUME ServerInv, FileInv', hist' = hist, main = "running", ctxDone' = ctxDone,
           UNCHANGED serverVars, ExitInv'
    PROVE  ServerInv'
<1>a. ProcTypes /\ AckInv /\ DrainInv
  BY DEF ServerInv
<1>b. UNCHANGED <<created, listener, watchdog, conn, success, main, acked, ackedAtCancel,
                  timedOut>>
  BY DEF serverVars
<1>1. ProcTypes' /\ AckInv' /\ DrainInv'
  BY <1>a, <1>b DEF ProcTypes, AckInv, DrainInv
<1> QED
  BY <1>1 DEF ServerInv

\* Its store: what it writes last is the latest version, and so newer than
\* anything acknowledged; and it writes unless something is wrong.
LEMMA StoreWorkKeeps ==
    ASSUME ServerInv, NEW t \in Threads, StoreWork(t)
    PROVE  ServerInv'
<1>a. FileInv /\ AckInv /\ ExitInv /\ main = "running" /\ StoreStep(t) /\ UNCHANGED serverVars
  BY DEF ServerInv, StoreWork, Running
<1>b. t = Preserver /\ FileInv'
  BY <1>a, StoreStepIsPreserver, StoreStepKeeps
<1>c. /\ UNCHANGED <<hist, preserver, ctxDone>> /\ ackedAtCancel' = ackedAtCancel
      /\ saving[Preserver] # "none"
  BY <1>a, <1>b DEF StoreStep, StoreRLock, StoreCreate, StoreCreateFails, EncodeGauge,
     EncodeCounter, StoreWrite, StoreWriteFails, StoreRUnlock, memVars, serverVars
<1>d. /\ Grows /\ faults \in Nat /\ faults' \in Nat
      /\ saving \in [Threads -> {"none", "rlock", "create", "gauge", "counter",
                                 "write", "runlock"}]
  BY <1>a, <1>b, <1>c, SameGrows, FileAssumption DEF FileInv, FileTypes
<1>1. preserver' \in {"exiting", "done"} => ctxDone'
  BY <1>a, <1>c DEF ExitInv
<1>2. preserver' \notin {"first", "done"}
  BY <1>a, <1>c DEF ExitInv
<1>3. ASSUME ExitStored', Untroubled'
      PROVE  StoredSince(ackedAtCancel)'
  <2>1. preserver = "exiting" /\ saving'[Preserver] \in {"none", "runlock"}
    BY <1>2, <1>3, <1>c DEF ExitStored
  <2>2. faults' = 0 /\ \A i \in 1 .. Len(hist) : Encodable(hist[i])
    BY <1>3, <1>c DEF Untroubled, Encodable
  <2>3. CASE StoreRUnlock(t)
    <3>1. faults' = faults /\ saving[Preserver] = "runlock" /\ file' = file
      BY <1>b, <2>3 DEF StoreRUnlock
    <3>2. StoredSince(ackedAtCancel)
      BY <1>a, <2>1, <2>2, <3>1 DEF ExitInv, ExitStored, Untroubled
    <3> QED
      BY <1>c, <3>1, <3>2 DEF StoredSince
  <2>4. CASE StoreWrite(t)
    <3>1. file' = WholeFile(Last(hist)) /\ Preserver \in mutex.readers
      BY <1>a, <1>b, <2>4 DEF StoreWrite, FileInv, EncoderInv
    <3>2. Last(hist) = hist[Len(hist)] /\ Len(hist) \in ackedAtCancel .. Len(hist)
      BY <1>a, HistType, HistoryFacts DEF AckInv, Last
    <3> QED
      BY <1>c, <3>1, <3>2 DEF StoredSince, WholeFile
  <2>5. CASE EncodeGauge(t)
    <3>1. saving[Preserver] = "gauge" /\ Preserver \in mutex.readers
      BY <1>a, <1>b, <2>5 DEF EncodeGauge, FileInv, EncoderInv
    <3>2. /\ GaugeMap = Last(hist).gauge /\ CounterMap = Last(hist).counter
          /\ Last(hist) = hist[Len(hist)] /\ Len(hist) \in 1 .. Len(hist)
      BY <1>a, <3>1, PreserverReadsLatest
    <3>3. Encodable(Maps)
      BY <2>2, <3>2 DEF Encodable, Maps
    <3>4. saving'[Preserver] = "counter"
      BY <1>b, <1>d, <2>5, <3>3 DEF EncodeGauge, Proceed
    <3> QED
      BY <2>1, <3>4
  <2>6. CASE StoreCreateFails(t) \/ StoreWriteFails(t)
    BY <1>d, <2>2, <2>6 DEF StoreCreateFails, StoreWriteFails
  <2>7. CASE StoreRLock(t) \/ StoreCreate(t) \/ EncodeCounter(t)
    <3>1. saving'[Preserver] \in {"create", "gauge", "write"}
      BY <1>b, <1>d, <2>7 DEF StoreRLock, StoreCreate, EncodeCounter, Proceed
    <3> QED
      BY <2>1, <3>1
  <2> QED
    BY <1>a, <2>3, <2>4, <2>5, <2>6, <2>7 DEF StoreStep
<1>4. ExitInv'
  BY <1>1, <1>2, <1>3 DEF ExitInv
<1> QED
  BY <1>a, <1>b, <1>c, <1>4, SaverLeaves

LEMMA PreserverWorkKeeps ==
    ASSUME ServerInv, PreserverWork
    PROVE  ServerInv'
<1>a. /\ FileInv /\ AckInv /\ ExitInv /\ main = "running" /\ PreserverStep
      /\ UNCHANGED serverVars
  BY DEF ServerInv, PreserverWork, Running
<1>b. FileInv'
  BY <1>a, PreserverKeeps
<1>c. /\ UNCHANGED <<hist, file, ctxDone, faults>> /\ ackedAtCancel' = ackedAtCancel
  BY <1>a DEF PreserverStep, FirstStore, Tick, StopPreserver, PreserverDone, memVars, serverVars
<1>d. /\ Preserver \in Threads
      /\ saving \in [Threads -> {"none", "rlock", "create", "gauge", "counter",
                                 "write", "runlock"}]
  BY <1>a, FileAssumption DEF FileInv, FileTypes
<1>1. ExitInv'
  <2>1. CASE FirstStore \/ Tick
    <3>1. preserver' = "loop"
      BY <2>1 DEF FirstStore, Tick
    <3> QED
      BY <3>1 DEF ExitInv, ExitStored
  <2>2. CASE StopPreserver
    <3>1. preserver' = "exiting" /\ saving'[Preserver] = "rlock" /\ ctxDone
      BY <1>d, <2>2 DEF StopPreserver, Proceed
    <3> QED
      BY <1>c, <3>1 DEF ExitInv, ExitStored
  <2>3. CASE PreserverDone
    <3>1. preserver = "exiting" /\ preserver' = "done" /\ saving[Preserver] = "none"
          /\ saving' = saving
      BY <2>3 DEF PreserverDone
    <3>2. Untroubled' => Untroubled
      BY <1>c DEF Untroubled, Encodable
    <3>3. Untroubled' => StoredSince(ackedAtCancel)'
      BY <1>a, <1>c, <3>1, <3>2 DEF ExitInv, ExitStored, StoredSince
    <3> QED
      BY <1>a, <1>c, <3>1, <3>3 DEF ExitInv
  <2> QED
    BY <1>a, <2>1, <2>2, <2>3 DEF PreserverStep
<1> QED
  BY <1>a, <1>b, <1>c, <1>1, SaverLeaves

----------------------------------------------------------------------------
(* What the specification promises.                                        *)

LEMMA ServerNextKeeps == ServerInv /\ [ServerNext]_procVars => ServerInv'
<1> SUFFICES ASSUME ServerInv, [ServerNext]_procVars PROVE ServerInv'
  OBVIOUS
<1>1. CASE ProcessStep
  BY <1>1, ProcessKeeps
<1>2. ASSUME NEW h \in Handlers, CallStorage(h) \/ StorageStep(h) \/ Respond(h)
      PROVE  ServerInv'
  BY <1>2, RequestKeeps
<1>3. ASSUME NEW t \in Threads, StoreWork(t) PROVE ServerInv'
  BY <1>3, StoreWorkKeeps
<1>4. CASE PreserverWork
  BY <1>4, PreserverWorkKeeps
<1>5. CASE Stopped \/ UNCHANGED procVars
  <2>1. UNCHANGED <<allVars, serverVars>>
    BY <1>5 DEF Stopped, procVars
  <2>2. FileInv' /\ Grows
    BY <2>1, ContextKeeps DEF allVars, fileVars, ServerInv
  <2>3. ExitInv'
    BY <2>1, <2>2, ExitStays DEF allVars, fileVars, serverVars
  <2>4. ProcTypes' /\ AckInv' /\ DrainInv'
    BY <2>1 DEF ServerInv, ProcTypes, AckInv, DrainInv, allVars, memVars, fileVars, serverVars
  <2> QED
    BY <2>2, <2>3, <2>4 DEF ServerInv
<1> QED
  BY <1>1, <1>2, <1>3, <1>4, <1>5 DEF ServerNext, ProcessStep

\* In every reachable state of Server, with any handlers and any store interval,
\* ServerInv holds: what was acknowledged and stored, and who is still served
\* (Run, startWorkers, Start).
THEOREM ServerInvariant == ServerSpec => []ServerInv
BY ServerInitInv, ServerNextKeeps, PTL DEF ServerSpec

\* The variables of the process have their types, and what was acknowledged is
\* a version that the storage has had (startWorkers, Run).
THEOREM ServerTypes == ServerSpec => []ServerTypeOK
<1>1. ServerInv => ServerTypeOK
  BY DEF ServerInv, FileInv, MemInv, FileTypes, FileTypeOK, ProcTypes, AckInv, ServerTypeOK
<1> QED
  BY <1>1, ServerInvariant, PTL

\* When Run returns, the file has every update acknowledged before the context
\* was cancelled, wherever the preserver was then (Start, storeMetrics).
THEOREM AckedBeforeCancelStays == ServerSpec => []AckedBeforeCancelStored
<1>1. ServerInv => AckedBeforeCancelStored
  BY DEF ServerInv, DrainInv, ExitInv, ExitStored, Untroubled, Saved, AckedBeforeCancelStored
<1> QED
  BY <1>1, ServerInvariant, PTL

\* Run does not return while a request is served, unless Shutdown gave up.
THEOREM RequestsStayDrained == ServerSpec => []RequestsAreDrained
<1>1. ServerInv => RequestsAreDrained
  BY DEF ServerInv, DrainInv, RequestsAreDrained
<1> QED
  BY <1>1, ServerInvariant, PTL
=============================================================================
