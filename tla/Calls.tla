------------------------------- MODULE Calls -------------------------------
(***************************************************************************)
(* The calls of the interface usecases.Storage, and what each does to the  *)
(* metrics and answers when it takes effect at one instant.  No state: the *)
(* abstract stores are stated with these operators.                        *)
(***************************************************************************)
EXTENDS Metrics, SequencesExt

NoCall  == [op |-> "none", metrics |-> <<>>]
NoReply == [metrics |-> <<>>, dump |-> EmptySnapshot]

AnyCall ==
    [op: {"GetMetric", "UpdateMetric", "UpdateMetrics", "GetMetricsByTypes"},
     metrics: Seq(Metric)]

IsUpdate(r) == r.op \in {"UpdateMetric", "UpdateMetrics"}

\* The store after the first i metrics of a batch.
AfterFirst(s, metrics, i) == FoldLeft(Apply, s, SubSeq(metrics, 1, i))

After(s, r) == IF IsUpdate(r) THEN AfterFirst(s, r.metrics, Len(r.metrics)) ELSE s

\* An update answers each metric with its value right after it was applied,
\* a get with the current value, or nothing when there is none.
Answer(s, r) ==
    CASE IsUpdate(r) ->
           [NoReply EXCEPT !.metrics =
              [i \in 1 .. Len(r.metrics) |->
                 Current(AfterFirst(s, r.metrics, i), r.metrics[i])]]
      [] r.op = "GetMetric" ->
           [NoReply EXCEPT !.metrics =
              IF Has(s, r.metrics[1]) THEN <<Current(s, r.metrics[1])>> ELSE <<>>]
      [] r.op = "GetMetricsByTypes" ->
           [NoReply EXCEPT !.dump = s]
============================================================================
