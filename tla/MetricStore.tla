---------------------------- MODULE MetricStore ----------------------------
(***************************************************************************)
(* What a storage promises to its callers: one store of metrics on which   *)
(* every call takes effect at one instant between its beginning and its    *)
(* return.  In particular a batch of updates is applied whole, on top of   *)
(* every earlier update, and a reader of all the metrics sees no batch by  *)
(* halves.  The interface is the one usecases.Storage names.               *)
(***************************************************************************)
EXTENDS Calls

CONSTANTS
    Handlers,   \* the goroutines that serve requests
    Requests    \* the calls they make: [op, metrics], one metric for a single update or get

VARIABLES
    store,      \* the metrics
    phase,      \* phase[h]: where handler h is in its call
    request,    \* request[h]: the call h is making
    reply       \* reply[h]: what the call has produced for h

storeVars == <<store, phase, request, reply>>

----------------------------------------------------------------------------
StoreInit ==
    /\ store = EmptySnapshot
    /\ phase = [h \in Handlers |-> "idle"]
    /\ request = [h \in Handlers |-> NoCall]
    /\ reply = [h \in Handlers |-> NoReply]

Begin(h) ==
    /\ phase[h] = "idle"
    /\ phase' = [phase EXCEPT ![h] = "pending"]
    /\ \E r \in Requests : request' = [request EXCEPT ![h] = r]
    /\ UNCHANGED <<store, reply>>

TakeEffect(h) ==
    /\ phase[h] = "pending"
    /\ phase' = [phase EXCEPT ![h] = "done"]
    /\ store' = After(store, request[h])
    /\ reply' = [reply EXCEPT ![h] = Answer(store, request[h])]
    /\ UNCHANGED request

End(h) ==
    /\ phase[h] = "done"
    /\ phase' = [phase EXCEPT ![h] = "idle"]
    /\ request' = [request EXCEPT ![h] = NoCall]
    /\ reply' = [reply EXCEPT ![h] = NoReply]
    /\ UNCHANGED store

StoreNext == \E h \in Handlers : Begin(h) \/ TakeEffect(h) \/ End(h)

StoreSpec == StoreInit /\ [][StoreNext]_storeVars
============================================================================
