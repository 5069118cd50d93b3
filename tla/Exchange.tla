------------------------------ MODULE Exchange ------------------------------
(***************************************************************************)
(* One agent and one server, from their configuration to the metrics in    *)
(* the store: Reporter.report and reportToURL, the middlewares that        *)
(* createServer puts around the handlers, the handlers of MetricsRouter    *)
(* and the use cases.  Requests of other clients come as well.             *)
(*                                                                         *)
(* A request is served by one goroutine, and what it shares with others is *)
(* the storage alone, whose concurrency MemStorage, FileStorage and        *)
(* PgStorage are about; so there is one request at a time here.  An update *)
(* of the storage is one step, and with a database one for each time that  *)
(* doTransactionWithRetries makes the transaction, which may have taken    *)
(* place although it is repeated.  A request and its answer get through:   *)
(* what the network does to them is the subject of Delivery.               *)
(***************************************************************************)
EXTENDS Answers, Config

CONSTANTS
    Reports,        \* what the agent has to report: snapshots
    BlockSize,      \* the number of metrics that fit into one RSA block
    ClientRequests, \* requests of other clients
    retryCount      \* how often a transaction is repeated, a constant of pgstorage

\* The routes with a metric in the path.
URLRoutes == {"POST:/update/:type/:name/:value", "GET:/value/:type/:name"}

\* A request that can be sent: an object is one metric, JSON has no notation
\* for NaN, and only the route tells whether there is a metric in the path.
\* The signature, the type and the layers may be any.
WellFormed(r) ==
    /\ r = [client |-> r.client, route |-> r.route, type |-> r.type, gzip |-> r.gzip,
            accept |-> r.accept, sum |-> r.sum, url |-> r.url,
            body |-> [layers |-> r.body.layers, doc |-> r.body.doc]]
    /\ r.gzip \in BOOLEAN /\ r.accept \in BOOLEAN
    /\ r.url \in JSONMetric \cup {None}
    /\ r.body.doc.metrics \in Seq(JSONMetric) /\ Writable(r.body.doc.metrics)
    /\ r.body.doc.form = "object" => Len(r.body.doc.metrics) = 1
    /\ r.url # None <=> r.route \in URLRoutes

ASSUME ExchangeAssumption ==
    /\ retryCount \in Nat
    /\ \A s \in Reports : /\ s \in Snapshot
                          /\ IsFiniteSet(DOMAIN s.gauge) /\ IsFiniteSet(DOMAIN s.counter)
    /\ \A r \in ClientRequests : r.client = "other" /\ WellFormed(r)

VARIABLES
    store,          \* the server's metrics
    sent,           \* the request as its client has sent it, with the client
    req,            \* the request as the middlewares have changed it
    depth,          \* how many middlewares the request is inside of
    way,            \* "in": towards the handler, "out": back; "idle"
    writers,        \* the ResponseWriters around net/http's
    out,            \* the answer
    before,         \* history: the store when the request came
    retries         \* retries of doTransactionWithRetries, while a transaction is repeated

exchangeVars == <<store, sent, req, depth, way, writers, out, before, retries>>
allVars      == <<configVars, exchangeVars>>

----------------------------------------------------------------------------
Server == config["server"]
Agent  == config["agent"]

\* Which storage createStorage makes; only a database makes calls fail.
StorageMayFail == Server.DatabaseDSN # ""

\* Mutant: the answer is signed inside of its compression.
ChainSwapped ==
    <<"summary">> \o (IF Server.CryptoKey = "" THEN <<>> ELSE <<"rsa">>)
        \o <<"encoding">> \o (IF Server.Key = "" THEN <<>> ELSE <<"integrity">>)

\* The middlewares of createServer, outermost first.
Chain ==
    <<"summary">> \o (IF Server.CryptoKey = "" THEN <<>> ELSE <<"rsa">>)
        \o (IF Server.Key = "" THEN <<>> ELSE <<"integrity">>) \o <<"encoding">>

At(layer)   == way = "in" /\ depth < Len(Chain) /\ Chain[depth + 1] = layer
Inside      == way = "in" /\ depth = Len(Chain)
Out(layer)  == way = "out" /\ depth > 0 /\ Chain[depth] = layer
Answered    == way = "out" /\ depth = 0

NoRequest == [client |-> "none", route |-> "none", type |-> "", gzip |-> FALSE,
              accept |-> FALSE, sum |-> <<>>, url |-> None, body |-> Plain(Nothing)]

ExchangeInit ==
    /\ ConfigInit
    /\ store = EmptySnapshot /\ before = EmptySnapshot
    /\ sent = NoRequest /\ req = NoRequest
    /\ depth = 0 /\ way = "idle" /\ writers = <<>>
    /\ out = NoAnswer
    /\ retries = 0

ReadConfig ==
    /\ ConfigNext
    /\ UNCHANGED exchangeVars

----------------------------------------------------------------------------
(* The agent                                                               *)

\* report lists the maps in any order, the gauges first.
Listings(s) ==
    { ConvertEntityMetrics(g \o c) :
        g \in SetToSeqs({[Type |-> "gauge", Name |-> n, Value |-> s.gauge[n]] :
                            n \in DOMAIN s.gauge}),
        c \in SetToSeqs({[Type |-> "counter", Name |-> n, Delta |-> s.counter[n]] :
                            n \in DOMAIN s.counter}) }

\* Mutant: the sum is of the body before it is compressed.
SumOf(metrics) ==
    IF Agent.Key = "" THEN <<>> ELSE <<Hmac(Agent.Key, Plain(Document("array", metrics)))>>

\* The sum is of the compressed body, before it is encrypted.
AgentSum(metrics) ==
    IF Agent.Key = "" THEN <<>>
    ELSE <<Hmac(Agent.Key, Gzip(Plain(Document("array", metrics))))>>

\* The request of reportToURL.
Post(metrics) ==
    LET body == Gzip(Plain(Document("array", metrics)))
        enc  == Agent.CryptoKey # ""
    IN  [client |-> "agent", route |-> "POST:/updates/",
         type |-> IF enc THEN "application/octet-stream" ELSE "application/json",
         gzip |-> TRUE, accept |-> TRUE, sum |-> AgentSum(metrics), url |-> None,
         body |-> IF enc THEN Encrypt(Agent.CryptoKey, body) ELSE body]

Ready(p) == started[p] = "ready"

Arrives(request) ==
    /\ Ready("server") /\ way = "idle"
    /\ sent' = request /\ req' = request
    /\ way' = "in"
    /\ before' = store
    /\ UNCHANGED <<configVars, store, depth, writers, out, retries>>

\* json.Marshal refuses NaN, and EncryptPKCS1v15 a body longer than a block:
\* such a report is given up.
Sendable(metrics) ==
    Writable(metrics) /\ (Agent.CryptoKey # "" => Len(metrics) <= BlockSize)

Report ==
    /\ Ready("agent")
    /\ \E s \in Reports : \E metrics \in Listings(s) :
          Sendable(metrics) /\ Arrives(Post(metrics))

ClientSends == \E r \in ClientRequests : Arrives(r)

----------------------------------------------------------------------------
(* The middlewares, on the way in                                          *)

GoOn == depth' = depth + 1 /\ UNCHANGED way

\* The middleware answers itself, with the writer it was given.
Refuse(code) ==
    /\ out' = HTTPError(out, writers, code)
    /\ way' = "out"
    /\ UNCHANGED <<configVars, store, sent, req, depth, writers, before, retries>>

Summary ==
    /\ At("summary")
    /\ GoOn
    /\ writers' = Append(writers, "log")
    /\ UNCHANGED <<configVars, store, sent, req, out, before, retries>>

Encrypted == req.type = "application/octet-stream"

DecryptBody ==
    /\ At("rsa")
    /\ Encrypted => HasLayer(req.body, <<"rsa", Server.CryptoKey>>)
    /\ GoOn
    /\ req' = IF Encrypted
              THEN [req EXCEPT !.body = TakeOff(@), !.type = "application/json"]
              ELSE req
    /\ UNCHANGED <<configVars, store, sent, writers, out, before, retries>>

DecryptionFails ==
    /\ At("rsa") /\ Encrypted
    /\ ~HasLayer(req.body, <<"rsa", Server.CryptoKey>>)
    /\ Refuse(400)

\* Mutant: the handler goes on after the error.
SignatureIgnored == TRUE

SignatureFits == req.sum # <<>> => Head(req.sum) = Hmac(Server.Key, req.body)

VerifyRequest ==
    /\ At("integrity") /\ SignatureFits
    /\ GoOn
    /\ writers' = Append(writers, "sign")
    /\ UNCHANGED <<configVars, store, sent, req, out, before, retries>>

VerificationFails ==
    /\ At("integrity") /\ ~SignatureFits
    /\ Refuse(400)

Decompress ==
    /\ At("encoding")
    /\ req.gzip => HasLayer(req.body, <<"gzip", "">>)
    /\ GoOn
    /\ writers' = IF req.accept THEN Append(writers, "zip") ELSE writers
    /\ req' = IF req.gzip THEN [req EXCEPT !.body = TakeOff(@)] ELSE req
    /\ UNCHANGED <<configVars, store, sent, out, before, retries>>

DecompressionFails ==
    /\ At("encoding") /\ req.gzip
    /\ ~HasLayer(req.body, <<"gzip", "">>)
    /\ Refuse(500)

----------------------------------------------------------------------------
(* The handlers.  Each converts the request, calls its use case, which     *)
(* calls the storage, and writes the answer.                               *)

Serving(route) == Inside /\ req.route = route

HandlerReturns(answer) ==
    /\ out' = answer
    /\ way' = "out"
    /\ retries' = 0
    /\ UNCHANGED <<configVars, sent, req, depth, writers, before>>

Failing(code) == HandlerReturns(HTTPError(out, writers, code))

\* A database adds in bigint, and fails where int64 would wrap around.
Overflows(metrics) ==
    \E i \in DOMAIN metrics :
        /\ metrics[i].Type = "counter"
        /\ Lookup(AfterFirst(store, metrics, i - 1).counter, metrics[i].Name)
             + metrics[i].Delta \notin Counter

UpdateCall(metrics) == [op |-> "UpdateMetrics", metrics |-> metrics]

Applied(metrics) == After(store, UpdateCall(metrics))

\* The storage applies all the metrics, and the answer is as given.
Updated(metrics, answer) ==
    /\ ~(StorageMayFail /\ Overflows(metrics))
    /\ store' = Applied(metrics)
    /\ HandlerReturns(answer)

\* Mutant: the statements of a batch are not made in one transaction.
LeftInPart(metrics) == {AfterFirst(store, metrics, i) : i \in 0 .. Len(metrics)}

\* What a transaction that ends with an error leaves: it has taken place all
\* the same when the end of its commit was lost.
LeftBy(metrics) == {store} \cup (IF Overflows(metrics) THEN {} ELSE {Applied(metrics)})

\* The error is one of the connection, and the transaction is made again.
Repeat(metrics) ==
    /\ StorageMayFail /\ retries < retryCount
    /\ retries' = retries + 1
    /\ store' \in LeftBy(metrics)
    /\ UNCHANGED <<configVars, sent, req, depth, way, writers, out, before>>

\* It is another one, or it was repeated often enough.
UpdateFails(metrics) ==
    /\ StorageMayFail
    /\ store' \in LeftBy(metrics)
    /\ Failing(UpdateStatus("Internal"))

Update(metrics, answer) ==
    Updated(metrics, answer) \/ Repeat(metrics) \/ UpdateFails(metrics)

UpdateAnswer(metrics) ==
    ConvertEntityMetrics(Answer(store, UpdateCall(metrics)).metrics)

\* Before the storage is called.
UpdateRefused(fault) ==
    /\ fault # "none" /\ retries = 0
    /\ Failing(UpdateStatus(fault))
    /\ UNCHANGED store

UpdateFromJSON ==
    /\ Serving("POST:/update/")
    /\ LET fault   == FirstFault(BodyFault(req, "object"), BatchFault(req.body.doc.metrics))
           metrics == ToEntities(req.body.doc.metrics)
       IN  \/ UpdateRefused(fault)
           \/ /\ fault = "none"
              /\ Update(metrics, WriteJSON(out, writers, "object", UpdateAnswer(metrics)))

UpdateBatchFromJSON ==
    /\ Serving("POST:/updates/")
    /\ LET fault   == FirstFault(BodyFault(req, "array"), BatchFault(req.body.doc.metrics))
           metrics == ToEntities(req.body.doc.metrics)
       IN  \/ UpdateRefused(fault)
           \/ /\ fault = "none"
              /\ Update(metrics, WriteJSON(out, writers, "array", UpdateAnswer(metrics)))

\* An empty body: nothing is written, only the type is set.
UpdateFromURL ==
    /\ Serving("POST:/update/:type/:name/:value")
    /\ LET fault   == URLFault(req.url)
           metrics == <<ToEntity(req.url)>>
       IN  \/ UpdateRefused(fault)
           \/ fault = "none" /\ Update(metrics, SetType(out, "text/plain"))

GetRefused(fault) == fault # "none" /\ Failing(GetterStatus(fault))

GetFails == StorageMayFail /\ Failing(GetterStatus("Internal"))

Stored(m) == Has(store, ToEntity(m))
Value(m)  == ConvertEntityMetric(Current(store, ToEntity(m)))

GetAsJSON ==
    /\ Serving("POST:/value/")
    /\ LET m     == Head(req.body.doc.metrics)
           fault == IF BodyFault(req, "object") # "none" THEN BodyFault(req, "object")
                    ELSE KindFault(m)
       IN  \/ GetRefused(fault)
           \/ fault = "none" /\ ~Stored(m) /\ GetRefused("MetricNameNotFound")
           \/ fault = "none" /\ Stored(m)
                /\ HandlerReturns(WriteJSON(out, writers, "object", <<Value(m)>>))
           \/ fault = "none" /\ GetFails
    /\ UNCHANGED store

\* The type is set after the body is written.
GetAsText ==
    /\ Serving("GET:/value/:type/:name")
    /\ LET m     == req.url
           fault == KindFault(m)
       IN  \/ GetRefused(fault)
           \/ fault = "none" /\ ~Stored(m) /\ GetRefused("MetricNameNotFound")
           \/ fault = "none" /\ Stored(m)
                /\ HandlerReturns(SetType(Write(out, writers, Document("text", <<Value(m)>>)),
                                          "text/plain"))
           \/ fault = "none" /\ GetFails
    /\ UNCHANGED store

MainPage ==
    /\ Serving("GET:/")
    /\ \/ HandlerReturns(Write(SetType(out, "text/html"), writers, Page(store)))
       \/ StorageMayFail /\ Failing(500)
    /\ UNCHANGED store

Ping ==
    /\ Serving("GET:/ping")
    /\ \/ HandlerReturns(WriteHeader(SetType(out, "text/plain"), writers, 200))
       \/ StorageMayFail /\ Failing(500)
    /\ UNCHANGED store

Handle ==
    \/ UpdateFromJSON \/ UpdateBatchFromJSON \/ UpdateFromURL
    \/ GetAsJSON \/ GetAsText \/ MainPage \/ Ping

----------------------------------------------------------------------------
(* The middlewares, on the way out                                         *)

Innermost(writer) == writers # <<>> /\ Last(writers) = writer

Unwrap(writer) == IF Innermost(writer) THEN Front(writers) ELSE writers

GoBack == depth' = depth - 1 /\ UNCHANGED <<configVars, store, sent, req, way, before, retries>>

CloseWriter ==
    /\ Out("encoding")
    /\ GoBack
    /\ out' = IF Innermost("zip") THEN Close(out, Unwrap("zip")) ELSE out
    /\ writers' = Unwrap("zip")

SignResponse ==
    /\ Out("integrity")
    /\ GoBack
    /\ out' = IF Innermost("sign") THEN Sign(out, Unwrap("sign"), Server.Key) ELSE out
    /\ writers' = Unwrap("sign")

LeaveDecoder ==
    /\ Out("rsa")
    /\ GoBack
    /\ UNCHANGED <<out, writers>>

\* The summary is logged, and net/http ends the answer.
LeaveSummary ==
    /\ Out("summary")
    /\ GoBack
    /\ out' = Finish(out)
    /\ writers' = Unwrap("log")

\* The client has the answer.
Receive ==
    /\ Answered
    /\ way' = "idle"
    /\ sent' = NoRequest /\ req' = NoRequest
    /\ out' = NoAnswer
    /\ before' = EmptySnapshot
    /\ UNCHANGED <<configVars, store, depth, writers, retries>>

----------------------------------------------------------------------------
ExchangeNext ==
    \/ ReadConfig
    \/ Report \/ ClientSends
    \/ Summary \/ DecryptBody \/ DecryptionFails
    \/ VerifyRequest \/ VerificationFails
    \/ Decompress \/ DecompressionFails
    \/ Handle
    \/ CloseWriter \/ SignResponse \/ LeaveDecoder \/ LeaveSummary
    \/ Receive

ExchangeSpec == ExchangeInit /\ [][ExchangeNext]_allVars

----------------------------------------------------------------------------
(* What the properties speak of: the request as its client meant it.       *)

Updates(r) == r.route \in {"POST:/update/", "POST:/updates/",
                           "POST:/update/:type/:name/:value"}

Asked(r) == IF r.url # None THEN <<r.url>> ELSE r.body.doc.metrics

Valid(r) == \A i \in DOMAIN Asked(r) : ToEntity(Asked(r)[i]) \in Metric

\* What s becomes when a batch is applied to it n times.
Repeated(s, metrics, n) ==
    LET after[i \in Nat] ==
            IF i = 0 THEN s ELSE FoldLeft(Apply, after[i - 1], metrics)
    IN  after[n]

\* How often a storage may apply one call.
Attempts == IF StorageMayFail THEN retryCount + 1 ELSE 1

\* The stores in which all that was asked for is applied: once, or with a
\* database as often as a transaction is made.
Outcomes == {Repeated(before, ToEntities(Asked(sent)), n) : n \in 1 .. Attempts}

\* The two programs were given keys that belong together: a server without a
\* key looks at no signature, and accepts a report that has none with a key.
KeysAgree ==
    /\ Server.Key = "" \/ Agent.Key \in {"", Server.Key}
    /\ Agent.CryptoKey \in {"", Server.CryptoKey}

----------------------------------------------------------------------------
\* The writers there can be, the outermost first: none without the summary's.
Stacks == {<<>>, <<"log">>, <<"log", "sign">>, <<"log", "zip">>, <<"log", "sign", "zip">>}

\* The type invariant.
ExchangeTypeOK ==
    /\ ConfigTypeOK
    /\ store \in Snapshot /\ before \in Snapshot /\ retries \in 0 .. retryCount
    /\ depth \in 0 .. Len(Chain) /\ way \in {"idle", "in", "out"}
    /\ WellFormed(sent) /\ WellFormed(req)
    /\ writers \in Stacks
    /\ out.status \in {0, 200, 400, 404, 500}
    /\ out.zip \in {"open", "yes", "no"}
    /\ way # "out" => out.body = <<>> /\ out.buffer = <<>>

\* The status of an answer tells what the request has done, through all the
\* checks of the middlewares, the adapters and the storage: 200 to an update
\* means that each of its metrics is valid and that the whole batch is applied,
\* in order - once by memory and file storage, and by a database at least once
\* and at most once for each transaction that doTransactionWithRetries makes;
\* 400 and 404 mean that nothing is applied; and only a database can leave a
\* client with a 500 in doubt, between nothing and those outcomes: it never
\* applies a part of a batch.
StatusTellsEffect ==
    Answered =>
        /\ out.status = 200 /\ Updates(sent) => Valid(sent) /\ store \in Outcomes
        /\ out.status \in {400, 404} \/ ~Updates(sent) => store = before
        /\ out.status = 500 /\ store # before =>
              StorageMayFail /\ Valid(sent) /\ store \in Outcomes

\* The header and the body of an answer, which are written at different times
\* by different writers, fit: a body said to be compressed is a whole gzip
\* stream, and any other is not compressed; a client gets what it accepts; the
\* status that is logged is the one the client has seen.
AnswerReadable ==
    Answered =>
        LET deflated == \E i \in DOMAIN out.body : out.body[i].what # "plain"
        IN  /\ deflated <=> out.sent.encoding = "gzip"
            /\ deflated => /\ sent.accept
                           /\ Last(out.body) = GzipEnd
                           /\ \A i \in 1 .. Len(out.body) - 1 : out.body[i].what = "deflated"
            /\ out.logged = out.status

\* A signature on an answer is the one of the body as the client receives it,
\* compressed or not, and with a key every 200 has one, except that of ping.
SignatureVerifies ==
    Answered =>
        /\ out.sent.sum # <<>> =>
              Server.Key # "" /\ out.sent.sum = <<Hmac(Server.Key, out.body)>>
        /\ Server.Key # "" /\ out.status = 200 /\ sent.route # "GET:/ping" =>
              out.sent.sum # <<>>

\* With a key every answer is signed, as the flag -k of the server says.
EveryAnswerIsSigned ==
    Answered /\ Server.Key # "" => out.sent.sum # <<>>

\* A report that the agent compresses, signs and encrypts is undone by the
\* server in the reverse order, whatever each of the two is configured to do,
\* so that it arrives as it was meant if their keys agree.
AgentIsUnderstood ==
    Answered /\ sent.client = "agent" /\ KeysAgree =>
        out.status = 200 \/ (out.status = 500 /\ StorageMayFail)

\* If they do not, nothing of the report gets into the store.
ForeignReportRefused ==
    Answered /\ sent.client = "agent" /\ ~KeysAgree =>
        out.status # 200 /\ store = before
============================================================================
