------------------------------- MODULE Server -------------------------------
(***************************************************************************)
(* One life of the server process (internal/app/server): the listener and  *)
(* the watchdog of an http.Server, the signal handler, the request         *)
(* handlers and a FileStorage with its preserver, from startWorkers to the *)
(* return of Run.  Everything that stops is told to by one context.        *)
(***************************************************************************)
EXTENDS FileStorage

VARIABLES
    created,        \* createServer made a server: the private key, if any, was read
    listener,       \* the goroutine in ListenAndServe
    watchdog,       \* the goroutine that calls Shutdown
    conn,           \* conn[h]: the request that handler h serves
    success,        \* what Run is going to return
    main,           \* Run itself
    acked,          \* history: the latest version a client was told of
    ackedAtCancel,  \* history: acked when the context was cancelled
    timedOut        \* history: Shutdown gave up waiting

serverVars == <<created, listener, watchdog, conn, success, main, acked, ackedAtCancel, timedOut>>
procVars   == <<allVars, serverVars>>

----------------------------------------------------------------------------
ServerInit ==
    /\ FileInit
    /\ created \in BOOLEAN
    /\ listener = "starting"
    /\ watchdog = "waiting"
    /\ conn = [h \in Handlers |-> "none"]
    /\ success = TRUE
    /\ main = "running"
    /\ acked = 1
    /\ ackedAtCancel = 0
    /\ timedOut = FALSE

Running == main = "running"

\* cancel(): a context is cancelled once.
CancelContext ==
    /\ ctxDone' = TRUE
    /\ ackedAtCancel' = IF ctxDone THEN ackedAtCancel ELSE acked

----------------------------------------------------------------------------
(* The listener                                                            *)

Listen ==
    /\ Running /\ created
    /\ listener = "starting" /\ watchdog = "waiting"
    /\ listener' = "serving"
    /\ UNCHANGED <<allVars, created, watchdog, conn, success, main, acked, ackedAtCancel, timedOut>>

\* ListenAndServe fails: the address is taken, also when Shutdown is called at
\* that moment, or accepting fails later on.
ListenFails ==
    /\ Running /\ created
    /\ listener = "starting" \/ (listener = "serving" /\ watchdog = "waiting")
    /\ listener' = "stopped"
    /\ success' = FALSE
    /\ CancelContext
    /\ UNCHANGED <<memVars, file, saving, buf, preserver, faults, restarts,
                   created, watchdog, conn, main, acked, timedOut>>

\* ErrServerClosed, at once, when Shutdown has been called, also before.
ListenerClosed ==
    /\ Running /\ created
    /\ listener \in {"starting", "serving"} /\ watchdog # "waiting"
    /\ listener' = "stopped"
    /\ UNCHANGED <<allVars, created, watchdog, conn, success, main, acked, ackedAtCancel, timedOut>>

\* Without a server both goroutines call a method of a nil pointer.
Panic ==
    /\ Running /\ ~created
    /\ listener = "starting"
    /\ main' = "panicked"
    /\ UNCHANGED <<allVars, created, listener, watchdog, conn, success, acked, ackedAtCancel, timedOut>>

----------------------------------------------------------------------------
(* The signal handler and the watchdog                                     *)

\* The handler reads one signal; later ones are not read any more.
Signal ==
    /\ Running /\ ~ctxDone
    /\ CancelContext
    /\ UNCHANGED <<memVars, file, saving, buf, preserver, faults, restarts,
                   created, listener, watchdog, conn, success, main, acked, timedOut>>

Shutdown ==
    /\ Running /\ created
    /\ watchdog = "waiting" /\ ctxDone
    /\ watchdog' = "draining"
    /\ UNCHANGED <<allVars, created, listener, conn, success, main, acked, ackedAtCancel, timedOut>>

\* Shutdown returns when no connection is active any more.
Drained ==
    /\ Running
    /\ watchdog = "draining" /\ \A h \in Handlers : conn[h] = "none"
    /\ watchdog' = "done"
    /\ UNCHANGED <<allVars, created, listener, conn, success, main, acked, ackedAtCancel, timedOut>>

\* The 5 s of shutdownCtx are over.
DrainTimeout ==
    /\ Running
    /\ watchdog = "draining" /\ \E h \in Handlers : conn[h] # "none"
    /\ watchdog' = "done"
    /\ timedOut' = TRUE
    /\ UNCHANGED <<allVars, created, listener, conn, success, main, acked, ackedAtCancel>>

\* Mutant: Run does not wait for the watchdog.
ExitEarly ==
    /\ Running
    /\ listener = "stopped" /\ preserver \in {"off", "done"}
    /\ main' = "returned"
    /\ UNCHANGED <<allVars, created, listener, watchdog, conn, success, acked, ackedAtCancel, timedOut>>

\* wg.Wait() returns, and Run with it; handlers still at work are killed.
Exit ==
    /\ Running
    /\ listener = "stopped" /\ watchdog = "done" /\ preserver \in {"off", "done"}
    /\ main' = "returned"
    /\ UNCHANGED <<allVars, created, listener, watchdog, conn, success, acked, ackedAtCancel, timedOut>>

----------------------------------------------------------------------------
(* The handlers                                                            *)

\* net/http starts a goroutine for a request that has come in.
Accept(h) ==
    /\ Running
    /\ listener = "serving" /\ watchdog = "waiting"
    /\ conn[h] = "none"
    /\ conn' = [conn EXCEPT ![h] = "active"]
    /\ UNCHANGED <<allVars, created, listener, watchdog, success, main, acked, ackedAtCancel, timedOut>>

CallStorage(h) ==
    /\ Running
    /\ conn[h] = "active" /\ FileCall(h)
    /\ conn' = [conn EXCEPT ![h] = "called"]
    /\ UNCHANGED <<created, listener, watchdog, success, main, acked, ackedAtCancel, timedOut>>

StorageStep(h) ==
    /\ Running
    /\ FileHandlerStep(h) /\ pc[h] # "reply"
    /\ UNCHANGED serverVars

\* The storage returns and the answer is written: the client knows that its
\* update has been received.
Respond(h) ==
    /\ Running
    /\ pc[h] = "reply" /\ FileHandlerStep(h)
    /\ conn' = [conn EXCEPT ![h] = "none"]
    /\ acked' = IF call[h].op \in Updates /\ at[h] > acked THEN at[h] ELSE acked
    /\ UNCHANGED <<created, listener, watchdog, success, main, ackedAtCancel, timedOut>>

----------------------------------------------------------------------------
StoreWork(t) == Running /\ StoreStep(t) /\ UNCHANGED serverVars

PreserverWork == Running /\ PreserverStep /\ UNCHANGED serverVars

Stopped == ~Running /\ UNCHANGED procVars

ServerNext ==
    \/ Listen \/ ListenFails \/ ListenerClosed \/ Panic
    \/ Signal \/ Shutdown \/ Drained \/ DrainTimeout
    \/ Exit
    \/ \E h \in Handlers : Accept(h) \/ CallStorage(h) \/ StorageStep(h) \/ Respond(h)
    \/ \E t \in Threads : StoreWork(t)
    \/ PreserverWork
    \/ Stopped

(* Every goroutine goes on when it can; the 5 s of Shutdown pass.  Nothing *)
(* is assumed of clients, signals and failures, nor of the handlers: one   *)
(* that never answers is left behind.                                      *)
ServerFairness ==
    /\ WF_procVars(ListenerClosed) /\ WF_procVars(Panic)
    /\ WF_procVars(Shutdown)
    /\ WF_procVars(Drained \/ DrainTimeout) /\ WF_procVars(Exit)
    /\ \A h \in Handlers : WF_procVars(StorageStep(h))
    /\ \A t \in Threads :
          WF_procVars(StoreWork(t)) /\ SF_procVars(Running /\ StoreRLock(t) /\ UNCHANGED serverVars)
    /\ WF_procVars(PreserverWork)
    /\ SF_procVars(Running /\ StopPreserver /\ UNCHANGED serverVars)

ServerSpec == ServerInit /\ [][ServerNext]_procVars /\ ServerFairness

----------------------------------------------------------------------------
\* The type invariant.
ServerTypeOK ==
    /\ FileTypeOK
    /\ created \in BOOLEAN
    /\ listener \in {"starting", "serving", "stopped"}
    /\ watchdog \in {"waiting", "draining", "done"}
    /\ conn \in [Handlers -> {"none", "active", "called"}]
    /\ success \in BOOLEAN
    /\ main \in {"running", "returned", "panicked"}
    /\ acked \in 1 .. Len(hist)
    /\ ackedAtCancel \in 0 .. acked
    /\ timedOut \in BOOLEAN

Saved == preserver # "off" /\ faults = 0 /\ \A i \in 1 .. Len(hist) : Encodable(hist[i])

\* When Run returns, the file has every update that a client had been told
\* of when the context was cancelled: whatever the preserver was doing then,
\* its last store begins after that.
AckedBeforeCancelStored ==
    main = "returned" /\ Saved => StoredSince(ackedAtCancel)

\* Every update a client was told of is in the file when Run returns with
\* success and Shutdown has waited for every request.
AckedStored ==
    main = "returned" /\ success /\ ~timedOut /\ Saved => StoredSince(acked)

\* Run does not return while a request it took is being served, unless the
\* 5 s have passed.
RequestsAreDrained ==
    main = "returned" /\ ~timedOut => \A h \in Handlers : conn[h] = "none"

\* Once the context is cancelled, by a signal or by a listener that failed,
\* Run returns: nobody waits for ever, the preserver on the lock included.
ShutdownTerminates == ctxDone ~> ~Running
============================================================================
