--------------------------- MODULE MCMemStorage ----------------------------
(***************************************************************************)
(* Two handlers on a MemStorage with one name.  The batch changes both     *)
(* maps, and the counter more than once, so that an observer of half a     *)
(* batch is told from one of a whole batch; int64 has two bits, so that    *)
(* the counter overflows after a few updates.                              *)
(***************************************************************************)
EXTENDS MemStorage

CONSTANTS h1, h2, cpu, low, high

GaugeOf(v) == [Type |-> "gauge", Name |-> cpu, Value |-> v]
Delta(d)   == [Type |-> "counter", Name |-> cpu, Delta |-> d]

MCRequests ==
    { [op |-> "UpdateMetric",      metrics |-> <<GaugeOf(low)>>],
      [op |-> "UpdateMetric",      metrics |-> <<Delta(1)>>],
      [op |-> "UpdateMetrics",     metrics |-> <<GaugeOf(high), Delta(1), Delta(1)>>],
      [op |-> "GetMetric",         metrics |-> <<Delta(0)>>],
      [op |-> "GetMetricsByTypes", metrics |-> <<>>] }
============================================================================
