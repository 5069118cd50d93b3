------------------------------ MODULE Metrics ------------------------------
(***************************************************************************)
(* The data every part of the program shares: the entities.Metric value    *)
(* and the pair of maps (gauge by name, counter by name) that each storage *)
(* keeps.  A gauge is replaced by an update, a counter is added to, in     *)
(* int64 arithmetic.  The two kinds of metric live in separate maps, so a  *)
(* gauge and a counter may have the same name.                             *)
(*                                                                         *)
(* The names and the gauge values are uninterpreted; what the properties   *)
(* tell apart about a float64 is only whether encoding/json can write it   *)
(* (NaN and the infinities it cannot).  Counters keep their width:         *)
(* HalfRange stands for 2^63.                                              *)
(***************************************************************************)
EXTENDS Integers, Sequences

CONSTANTS
    Names,          \* entities.MetricName
    GaugeValues,    \* entities.Gauge
    NonFinite,      \* the gauge values JSON has no notation for: NaN, +Inf, -Inf
    HalfRange       \* 2^63: a counter ranges over -HalfRange .. HalfRange - 1

ASSUME MetricsAssumption ==
    /\ NonFinite \subseteq GaugeValues
    /\ HalfRange \in Nat \ {0}

----------------------------------------------------------------------------
Counter == -HalfRange .. HalfRange - 1

\* Mutant: the sum is not cut to 64 bits.
WrapNever(x) == x

\* What adding two int64 values leaves in 64 bits.
Wrap(x) == ((x + HalfRange) % (2 * HalfRange)) - HalfRange

\* A metric of the type MetricTypeUndefined never reaches a storage: the
\* adapters refuse it.
Metric ==
    [Type: {"gauge"},   Name: Names, Value: GaugeValues] \cup
    [Type: {"counter"}, Name: Names, Delta: Counter]

----------------------------------------------------------------------------
\* A Go map from names to V holds any subset of the names.
MapTo(V) == UNION {[D -> V] : D \in SUBSET Names}

EmptyMap == [n \in {} |-> 0]

Put(map, name, value) ==
    [n \in DOMAIN map \cup {name} |-> IF n = name THEN value ELSE map[n]]

\* m[name] of a Go map of counters: zero when the name is missing.
Lookup(map, name) == IF name \in DOMAIN map THEN map[name] ELSE 0

----------------------------------------------------------------------------
\* The two maps of a storage, taken together.
Snapshot == [gauge: MapTo(GaugeValues), counter: MapTo(Counter)]

EmptySnapshot == [gauge |-> EmptyMap, counter |-> EmptyMap]

\* One update: a gauge replaces the value, a counter adds to it.
Apply(s, m) ==
    IF m.Type = "gauge"
    THEN [s EXCEPT !.gauge = Put(@, m.Name, m.Value)]
    ELSE [s EXCEPT !.counter = Put(@, m.Name, Wrap(Lookup(@, m.Name) + m.Delta))]

Has(s, m) ==
    m.Name \in DOMAIN (IF m.Type = "gauge" THEN s.gauge ELSE s.counter)

\* The metric m as a reply carries it: its current value in s, so that the
\* Delta of a counter is the accumulated one.
Current(s, m) ==
    IF m.Type = "gauge"
    THEN [m EXCEPT !.Value = s.gauge[m.Name]]
    ELSE [m EXCEPT !.Delta = s.counter[m.Name]]

\* encoding/json can write s: it has no notation for NaN and the infinities.
Encodable(s) == \A n \in DOMAIN s.gauge : s.gauge[n] \notin NonFinite
============================================================================
