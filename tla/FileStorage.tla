---------------------------- MODULE FileStorage ----------------------------
(***************************************************************************)
(* FileStorage (internal/storage/filestorage): a MemStorage, line by line, *)
(* that also keeps its two maps in a JSON file.  With a positive store     *)
(* interval a goroutine, the preserver, stores the file at once, at every  *)
(* tick and once more on exit; otherwise every update stores it before it  *)
(* releases the lock.  The process can be killed between any two steps and *)
(* started again.                                                          *)
(*                                                                         *)
(* storeMetrics is a procedure that several goroutines call, so each has a *)
(* program counter in it: saving[t], "none" when t is not in the call, and *)
(* buf[t], what its JSON encoder has read so far (encoding/json encodes    *)
(* into memory and writes the file in the end).                            *)
(***************************************************************************)
EXTENDS MemStorage

CONSTANTS
    StoreInterval,  \* config.StoreInterval, in seconds
    Restore,        \* config.Restore: load the file on startup
    Preserver,      \* the goroutine of Start
    MaxFaults,      \* bound: errors of the file system
    MaxRestarts     \* bound: times the process is killed and started again

ASSUME FileAssumption ==
    /\ Preserver \in Threads \ Handlers
    /\ StoreInterval \in Int
    /\ Restore \in BOOLEAN
    /\ MaxFaults \in Nat /\ MaxRestarts \in Nat

VARIABLES
    file,           \* the file at fileStoragePath
    saving, buf,    \* the calls of storeMetrics
    preserver,      \* where the preserver is
    ctxDone,        \* the context of Start is cancelled
    faults, restarts

fileVars == <<file, saving, buf, preserver, ctxDone, faults, restarts>>
allVars  == <<memVars, fileVars>>

----------------------------------------------------------------------------
NoFile   == [state |-> "absent", data |-> EmptySnapshot]
TornFile == [state |-> "torn",   data |-> EmptySnapshot]
WholeFile(s) == [state |-> "whole", data |-> s]

\* loadMetrics: when the file cannot be opened or decoded the error is
\* logged and the maps stay as New made them.
Loaded == IF Restore /\ file.state = "whole" THEN file.data ELSE EmptySnapshot

\* Start: there is a preserver only when the store interval is positive.
Started == IF StoreInterval > 0 THEN "first" ELSE "off"

FileInit ==
    /\ MemInit
    /\ file = NoFile
    /\ saving = [t \in Threads |-> "none"]
    /\ buf = [t \in Threads |-> EmptySnapshot]
    /\ preserver = Started
    /\ ctxDone = FALSE
    /\ faults = 0
    /\ restarts = 0

----------------------------------------------------------------------------
(* storeMetrics                                                            *)

Proceed(t, label) == saving' = [saving EXCEPT ![t] = label]

\* Mutant: the maps are encoded without the lock.
StoreUnlocked(t) ==
    /\ saving[t] = "rlock"
    /\ Proceed(t, "create")
    /\ UNCHANGED <<memVars, file, buf, preserver, ctxDone, faults, restarts>>

StoreRLock(t) ==
    /\ saving[t] = "rlock"
    /\ AcquireRead(t)
    /\ Proceed(t, "create")
    /\ UNCHANGED <<GaugeMap, CounterMap, pc, call, work, result, hist, at,
                   file, buf, preserver, ctxDone, faults, restarts>>

\* os.Create empties the file.
StoreCreate(t) ==
    /\ saving[t] = "create"
    /\ file' = TornFile
    /\ Proceed(t, "gauge")
    /\ UNCHANGED <<memVars, buf, preserver, ctxDone, faults, restarts>>

\* Mutant: this early return forgets the lock.
StoreCreateFailsLocked(t) ==
    /\ saving[t] = "create"
    /\ faults < MaxFaults /\ faults' = faults + 1
    /\ Proceed(t, "none")
    /\ UNCHANGED <<memVars, file, buf, preserver, ctxDone, restarts>>

StoreCreateFails(t) ==
    /\ saving[t] = "create"
    /\ faults < MaxFaults /\ faults' = faults + 1
    /\ Proceed(t, "runlock")
    /\ UNCHANGED <<memVars, file, buf, preserver, ctxDone, restarts>>

\* A gauge that JSON cannot express fails the whole encoding.
EncodeGauge(t) ==
    /\ saving[t] = "gauge"
    /\ buf' = [buf EXCEPT ![t].gauge = GaugeMap]
    /\ Proceed(t, IF Encodable(Maps) THEN "counter" ELSE "runlock")
    /\ UNCHANGED <<memVars, file, preserver, ctxDone, faults, restarts>>

\* Mutant: the lock is given back before the file is written.
EncodeCounterEarly(t) ==
    /\ saving[t] = "counter"
    /\ buf' = [buf EXCEPT ![t].counter = CounterMap]
    /\ ReleaseRead(t)
    /\ Proceed(t, "write")
    /\ UNCHANGED <<GaugeMap, CounterMap, pc, call, work, result, hist, at,
                   file, preserver, ctxDone, faults, restarts>>

EncodeCounter(t) ==
    /\ saving[t] = "counter"
    /\ buf' = [buf EXCEPT ![t].counter = CounterMap]
    /\ Proceed(t, "write")
    /\ UNCHANGED <<memVars, file, preserver, ctxDone, faults, restarts>>

StoreWrite(t) ==
    /\ saving[t] = "write"
    /\ file' = WholeFile(buf[t])
    /\ Proceed(t, "runlock")
    /\ UNCHANGED <<memVars, buf, preserver, ctxDone, faults, restarts>>

\* A write that fails leaves a part of the text, which does not decode.
StoreWriteFails(t) ==
    /\ saving[t] = "write"
    /\ faults < MaxFaults /\ faults' = faults + 1
    /\ file' = TornFile
    /\ Proceed(t, "runlock")
    /\ UNCHANGED <<memVars, buf, preserver, ctxDone, restarts>>

StoreRUnlock(t) ==
    /\ saving[t] = "runlock"
    /\ ReleaseRead(t)
    /\ Proceed(t, "none")
    /\ buf' = [buf EXCEPT ![t] = EmptySnapshot]
    /\ UNCHANGED <<GaugeMap, CounterMap, pc, call, work, result, hist, at,
                   file, preserver, ctxDone, faults, restarts>>

StoreStep(t) ==
    \/ StoreRLock(t)
    \/ StoreCreate(t) \/ StoreCreateFails(t)
    \/ EncodeGauge(t) \/ EncodeCounter(t)
    \/ StoreWrite(t) \/ StoreWriteFails(t)
    \/ StoreRUnlock(t)

----------------------------------------------------------------------------
(* The handlers: as in MemStorage, and an update stores the file, with the *)
(* lock in its hands, when there is no preserver to do it.                 *)

\* Mutant: the condition is the wrong way round.
StoreOnChangeInstead(h) ==
    /\ saving' = IF StoreInterval > 0 THEN [saving EXCEPT ![h] = "rlock"] ELSE saving
    /\ UNCHANGED <<file, buf, preserver, ctxDone, faults, restarts>>

StoreOnChangeIfRequired(h) ==
    /\ saving' = IF StoreInterval <= 0 THEN [saving EXCEPT ![h] = "rlock"] ELSE saving
    /\ UNCHANGED <<file, buf, preserver, ctxDone, faults, restarts>>

FileUpdateMetric(h) == UpdateMetric(h) /\ StoreOnChangeIfRequired(h)

FileUpdateMetrics(h) ==
    \/ (CopyMaps(h) \/ ApplyNext(h) \/ SwapGauge(h)) /\ UNCHANGED fileVars
    \/ SwapCounter(h) /\ StoreOnChangeIfRequired(h)

FileGetMetric(h) == GetMetric(h) /\ UNCHANGED fileVars

FileGetMetricsByTypes(h) ==
    (DumpGauge(h) \/ DumpCounter(h)) /\ UNCHANGED fileVars

FileClaim(h)  == Claim(h) /\ UNCHANGED fileVars
FileRLock(h)  == RLock(h) /\ UNCHANGED fileVars
FileUnlock(h) == saving[h] = "none" /\ Unlock(h) /\ UNCHANGED fileVars

FileHandlerStep(h) ==
    \/ FileClaim(h) \/ FileRLock(h) \/ FileUnlock(h)
    \/ FileUpdateMetric(h) \/ FileUpdateMetrics(h)
    \/ FileGetMetric(h) \/ FileGetMetricsByTypes(h)
    \/ (Lock(h) \/ RUnlock(h) \/ Return(h)) /\ UNCHANGED fileVars

FileCall(h) == Call(h) /\ UNCHANGED fileVars

----------------------------------------------------------------------------
(* The preserver                                                           *)

\* It stores at once, unless the context is already cancelled.
FirstStore ==
    /\ preserver = "first" /\ ~ctxDone
    /\ preserver' = "loop"
    /\ Proceed(Preserver, "rlock")
    /\ UNCHANGED <<memVars, file, buf, ctxDone, faults, restarts>>

\* The ticker fires.  A select whose context is cancelled as well takes
\* either case.
Tick ==
    /\ preserver = "loop" /\ saving[Preserver] = "none"
    /\ Proceed(Preserver, "rlock")
    /\ UNCHANGED <<memVars, file, buf, preserver, ctxDone, faults, restarts>>

\* Mutant: nothing is stored on exit.
StopPreserverUnsaved ==
    /\ preserver \in {"first", "loop"} /\ saving[Preserver] = "none" /\ ctxDone
    /\ preserver' = "exiting"
    /\ UNCHANGED <<memVars, file, saving, buf, ctxDone, faults, restarts>>

\* Mutant: cancelled before the first store, the goroutine is not done.
StopPreserverInLoop ==
    /\ preserver = "loop" /\ saving[Preserver] = "none" /\ ctxDone
    /\ preserver' = "exiting"
    /\ Proceed(Preserver, "rlock")
    /\ UNCHANGED <<memVars, file, buf, ctxDone, faults, restarts>>

\* The deferred function: store on exit.
StopPreserver ==
    /\ preserver \in {"first", "loop"} /\ saving[Preserver] = "none" /\ ctxDone
    /\ preserver' = "exiting"
    /\ Proceed(Preserver, "rlock")
    /\ UNCHANGED <<memVars, file, buf, ctxDone, faults, restarts>>

\* wg.Done()
PreserverDone ==
    /\ preserver = "exiting" /\ saving[Preserver] = "none"
    /\ preserver' = "done"
    /\ UNCHANGED <<memVars, file, saving, buf, ctxDone, faults, restarts>>

PreserverStep == FirstStore \/ Tick \/ StopPreserver \/ PreserverDone

----------------------------------------------------------------------------
\* The context is cancelled: a signal, or the listener failed.
Cancel ==
    /\ ~ctxDone
    /\ ctxDone' = TRUE
    /\ UNCHANGED <<memVars, file, saving, buf, preserver, faults, restarts>>

\* The process is killed, wherever it is, and started again: New, Init and
\* Start.  Of all its state the file alone is left.
Restart ==
    /\ restarts < MaxRestarts /\ restarts' = restarts + 1
    /\ GaugeMap' = Loaded.gauge
    /\ CounterMap' = Loaded.counter
    /\ hist' = Append(hist, Loaded)
    /\ mutex' = [writer |-> {}, readers |-> {}]
    /\ pc' = [h \in Handlers |-> "idle"]
    /\ call' = [h \in Handlers |-> NoCall]
    /\ work' = [h \in Handlers |-> EmptySnapshot]
    /\ result' = [h \in Handlers |-> <<>>]
    /\ at' = [h \in Handlers |-> 0]
    /\ saving' = [t \in Threads |-> "none"]
    /\ buf' = [t \in Threads |-> EmptySnapshot]
    /\ preserver' = Started
    /\ ctxDone' = FALSE
    /\ UNCHANGED <<file, faults>>

FileNext ==
    \/ \E h \in Handlers : FileCall(h) \/ FileHandlerStep(h)
    \/ \E t \in Threads : StoreStep(t)
    \/ PreserverStep
    \/ Cancel \/ Restart

(* As in MemStorage, for the goroutines that now are; the ticker keeps     *)
(* firing, and a select that finds the context cancelled again and again   *)
(* takes that case in the end.  Nothing forces a fault, a signal or a      *)
(* crash to happen, or a call to be made.                                  *)
FileFairness ==
    /\ \A h \in Handlers :
          /\ WF_allVars(FileHandlerStep(h))
          /\ SF_allVars(FileClaim(h)) /\ SF_allVars(FileRLock(h))
    /\ \A t \in Threads : WF_allVars(StoreStep(t)) /\ SF_allVars(StoreRLock(t))
    /\ WF_allVars(PreserverStep) /\ SF_allVars(StopPreserver)

FileSpec == FileInit /\ [][FileNext]_allVars /\ FileFairness

----------------------------------------------------------------------------
File == [state: {"absent", "torn", "whole"}, data: Snapshot]

\* The type invariant.
FileTypeOK ==
    /\ MemTypeOK
    /\ file \in File
    /\ saving \in [Threads -> {"none", "rlock", "create", "gauge", "counter",
                               "write", "runlock"}]
    /\ buf \in [Threads -> Snapshot]
    /\ preserver \in {"off", "first", "loop", "exiting", "done"}
    /\ ctxDone \in BOOLEAN
    /\ faults \in 0 .. MaxFaults
    /\ restarts \in 0 .. MaxRestarts

\* A file that can be read holds the two maps as they were together at some
\* moment, though they are encoded one after the other while calls come in.
FileIsCommitted ==
    file.state = "whole" => \E i \in 1 .. Len(hist) : file.data = hist[i]

\* The storage is a durable store: what is written is the current version,
\* not an earlier one, and a restart finds what the file holds or nothing.
Durable == INSTANCE DurableStore WITH mem <- Last(hist), disk <- file

SavesCurrent == Durable!DurableSpec

\* Some version from the nth on is in the file.
StoredSince(n) ==
    file.state = "whole" /\ \E i \in n .. Len(hist) : file.data = hist[i]

\* Every version is stored in the end, itself or a later one, also when the
\* file system fails for a time, as long as the preserver has not left and no
\* gauge that JSON cannot express is there to fail every store.
EveryVersionIsStored ==
    \A n \in 1 .. MaxVersions :
        Len(hist) >= n ~>
            StoredSince(n) \/ preserver = "done" \/ ~Encodable(Last(hist))

\* Every call returns, with the preserver taking the lock in between.
EveryFileCallReturns ==
    \A h \in Handlers : pc[h] = "called" ~> pc[h] = "idle"

\* The store on exit leaves a file to restore from, unless the file system
\* failed.
ExitStoreRestorable ==
    preserver = "done" /\ faults = 0 => file.state = "whole"
============================================================================
