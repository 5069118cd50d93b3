---------------------------- MODULE MCPgStorage ----------------------------
(***************************************************************************)
(* Two handlers on a PgStorage with one name, that is, two rows.  The two  *)
(* batches change both of them in opposite orders, so that either may wait *)
(* for the other; the pool has a connection for both or for one only.  The *)
(* counter is -1 or 0 with its range: a second -1 is out of range.         *)
(***************************************************************************)
EXTENDS PgStorage

CONSTANTS h1, h2, cpu, v

GaugeMetric == [Type |-> "gauge", Name |-> cpu, Value |-> v]
Delta(d)   == [Type |-> "counter", Name |-> cpu, Delta |-> d]

MCRequests ==
    { [op |-> "UpdateMetrics",     metrics |-> <<GaugeMetric, Delta(-1)>>],
      [op |-> "UpdateMetrics",     metrics |-> <<Delta(0), GaugeMetric>>],
      [op |-> "GetMetric",         metrics |-> <<Delta(0)>>],
      [op |-> "GetMetricsByTypes", metrics |-> <<>>] }
============================================================================
