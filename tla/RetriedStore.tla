---------------------------- MODULE RetriedStore ---------------------------
(***************************************************************************)
(* What a storage promises that runs every call as a transaction of a      *)
(* database and repeats it when the connection breaks: a MetricStore,      *)
(* except that                                                             *)
(*   - an attempt whose end nobody heard of may have taken effect, whole,  *)
(*     and the next attempt takes effect once more;                        *)
(*   - a call may fail, whether or not an attempt took effect;             *)
(*   - the gauges and the counters of a dump are those of two instants, in *)
(*     this order.                                                         *)
(* What stays is that updates are whole, that none is lost, and that the   *)
(* answer to a call is the one of an instant at which it took effect.      *)
(***************************************************************************)
EXTENDS MetricStore

Unheard(h) ==
    /\ phase[h] = "pending" /\ IsUpdate(request[h])
    /\ store' = After(store, request[h])
    /\ UNCHANGED <<phase, request, reply>>

DumpGauges(h) ==
    /\ phase[h] = "pending" /\ request[h].op = "GetMetricsByTypes"
    /\ phase' = [phase EXCEPT ![h] = "half"]
    /\ reply' = [reply EXCEPT ![h].dump.gauge = store.gauge]
    /\ UNCHANGED <<store, request>>

DumpCounters(h) ==
    /\ phase[h] = "half"
    /\ phase' = [phase EXCEPT ![h] = "done"]
    /\ reply' = [reply EXCEPT ![h].dump.counter = store.counter]
    /\ UNCHANGED <<store, request>>

\* What was read is not returned: there will be another attempt, or none.
Forget(h) ==
    /\ phase[h] \in {"half", "done"} /\ ~IsUpdate(request[h])
    /\ phase' = [phase EXCEPT ![h] = "pending"]
    /\ reply' = [reply EXCEPT ![h] = NoReply]
    /\ UNCHANGED <<store, request>>

Fail(h) ==
    /\ phase[h] = "pending"
    /\ phase' = [phase EXCEPT ![h] = "failed"]
    /\ UNCHANGED <<store, request, reply>>

EndFailed(h) ==
    /\ phase[h] = "failed"
    /\ phase' = [phase EXCEPT ![h] = "idle"]
    /\ request' = [request EXCEPT ![h] = NoCall]
    /\ UNCHANGED <<store, reply>>

RetriedNext ==
    \E h \in Handlers :
        \/ Begin(h) \/ End(h)
        \/ request[h].op # "GetMetricsByTypes" /\ TakeEffect(h)
        \/ Unheard(h) \/ DumpGauges(h) \/ DumpCounters(h)
        \/ Forget(h) \/ Fail(h) \/ EndFailed(h)

RetriedSpec == StoreInit /\ [][RetriedNext]_storeVars
============================================================================
