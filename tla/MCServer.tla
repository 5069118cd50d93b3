------------------------------ MODULE MCServer ------------------------------
(***************************************************************************)
(* A server with two request handlers.                                     *)
(***************************************************************************)
EXTENDS Server

CONSTANTS h1, h2, saver, cpu, low, high

GaugeOf(v) == [Type |-> "gauge", Name |-> cpu, Value |-> v]
Delta(d)   == [Type |-> "counter", Name |-> cpu, Delta |-> d]

ServerRequests ==
    { [op |-> "UpdateMetric", metrics |-> <<Delta(1)>>],
      [op |-> "GetMetric",    metrics |-> <<Delta(0)>>] }

IncrementOnly == { [op |-> "UpdateMetric", metrics |-> <<Delta(1)>>] }
============================================================================
