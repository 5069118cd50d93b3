--------------------------- MODULE MCFileStorage ---------------------------
(***************************************************************************)
(* A FileStorage with one name, for one or two handlers.  The batch        *)
(* changes both maps, so that a file with the gauges of one version and    *)
(* the counters of another holds neither of them.                          *)
(***************************************************************************)
EXTENDS FileStorage

CONSTANTS h1, h2, saver, cpu, low, high, NaN

GaugeOf(v) == [Type |-> "gauge", Name |-> cpu, Value |-> v]
Delta(d)   == [Type |-> "counter", Name |-> cpu, Delta |-> d]

Increment == [op |-> "UpdateMetric",      metrics |-> <<Delta(1)>>]
SetNaN    == [op |-> "UpdateMetric",      metrics |-> <<GaugeOf(NaN)>>]
Batch     == [op |-> "UpdateMetrics",     metrics |-> <<GaugeOf(high), Delta(1)>>]
Get       == [op |-> "GetMetric",         metrics |-> <<GaugeOf(low)>>]
Dump      == [op |-> "GetMetricsByTypes", metrics |-> <<>>]

AllRequests    == {Increment, SetNaN, Batch, Get, Dump}
FiniteRequests == {Increment, Dump}
NaNRequests    == {Increment, SetNaN}
============================================================================
