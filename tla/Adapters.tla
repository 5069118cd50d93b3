------------------------------ MODULE Adapters ------------------------------
(***************************************************************************)
(* What goes between the two programs, and how the server reads it: the    *)
(* JSON form of a metric (models.Metric), the layers an HTTP body can have *)
(* around it, and the conversions of internal/handlers/adapters with the   *)
(* status their errors are answered with.  No state.                       *)
(*                                                                         *)
(* A body is a document in layers, the outermost first; a layer is         *)
(* compression or encryption with a key, and either can be taken off only  *)
(* as what it is.  A signature is the key and the body it was made from.   *)
(***************************************************************************)
EXTENDS Calls

CONSTANT None       \* a pointer that is nil, an empty name, a header that is not there

ASSUME AdaptersAssumption == None \notin Names \cup GaugeValues \cup Counter

\* ID, MType, and the two pointers Value and Delta.
JSONMetric ==
    [ID: Names \cup {None}, MType: {"gauge", "counter", "other"},
     Value: GaugeValues \cup {None}, Delta: Counter \cup {None}]

\* A JSON object is one metric, an array any number; an answer may be a text,
\* an HTML page or the message of an error.
Document(form, metrics) == [form |-> form, metrics |-> metrics, dump |-> EmptySnapshot]
Nothing  == Document("nothing", <<>>)
ErrorDoc == Document("error", <<>>)
Page(s)  == [form |-> "html", metrics |-> <<>>, dump |-> s]

----------------------------------------------------------------------------
Plain(doc)        == [layers |-> <<>>, doc |-> doc]
Gzip(body)        == [body EXCEPT !.layers = <<<<"gzip", "">>>> \o @]
Encrypt(key, body) == [body EXCEPT !.layers = <<<<"rsa", key>>>> \o @]

HasLayer(body, layer) == body.layers # <<>> /\ Head(body.layers) = layer
TakeOff(body)         == [body EXCEPT !.layers = Tail(@)]

Hmac(key, of) == [key |-> key, of |-> of]

----------------------------------------------------------------------------
(* The checks, in the order of the code.  "none" is no error.              *)

KindFault(m) ==
    CASE m.MType = "other" -> "InvalidMetricType"
      [] m.MType # "other" /\ m.ID = None -> "EmptyMetricName"
      [] OTHER -> "none"

MetricFault(m) ==
    CASE KindFault(m) # "none" -> KindFault(m)
      [] KindFault(m) = "none" /\ m.MType = "gauge" /\ m.Value = None -> "MissingValue"
      [] KindFault(m) = "none" /\ m.MType = "counter" /\ m.Delta = None -> "MissingDelta"
      [] OTHER -> "none"

\* The text of a value in a URL is given by what it can be parsed as.
URLFault(m) ==
    IF MetricFault(m) \in {"MissingValue", "MissingDelta"}
    THEN "MetricValueIsNotValid" ELSE MetricFault(m)

\* The first metric of a batch that is not valid is what is reported.
BatchFault(metrics) ==
    LET wrong == {i \in DOMAIN metrics : MetricFault(metrics[i]) # "none"}
    IN  IF wrong = {} THEN "none"
        ELSE MetricFault(metrics[CHOOSE i \in wrong : \A j \in wrong : i <= j])

\* What is wrong with the request before its metrics are looked at.
BodyFault(req, form) ==
    CASE req.type # "application/json" -> "JSONRequestExpected"
      [] req.type = "application/json" /\ (req.body.layers # <<>> \/ req.body.doc.form # form)
             -> "JSONRequestDecode"
      [] OTHER -> "none"

FirstFault(f, g) == IF f # "none" THEN f ELSE g

\* A metric to get has no value.
ToEntity(m) ==
    IF m.MType = "gauge" THEN [Type |-> "gauge",   Name |-> m.ID, Value |-> m.Value]
                         ELSE [Type |-> "counter", Name |-> m.ID, Delta |-> m.Delta]

ToEntities(metrics) == [i \in DOMAIN metrics |-> ToEntity(metrics[i])]

ConvertEntityMetric(e) ==
    [ID |-> e.Name, MType |-> e.Type,
     Value |-> IF e.Type = "gauge" THEN e.Value ELSE None,
     Delta |-> IF e.Type = "counter" THEN e.Delta ELSE None]

ConvertEntityMetrics(es) == [i \in DOMAIN es |-> ConvertEntityMetric(es[i])]

\* encoding/json has no notation for NaN and the infinities.
Writable(metrics) == \A i \in DOMAIN metrics : metrics[i].Value \notin NonFinite

----------------------------------------------------------------------------
UpdateStatus(fault) ==
    CASE fault = "EmptyMetricName" -> 404
      [] fault = "Internal" -> 500
      [] OTHER -> 400

GetterStatus(fault) ==
    CASE fault \in {"EmptyMetricName", "InvalidMetricType", "MetricNameNotFound"} -> 404
      [] fault = "Internal" -> 500
      [] OTHER -> 400
============================================================================
