-------------------------- MODULE Exchange_proofs ---------------------------
(***************************************************************************)
(* What is proved of the configuration of the two programs and of the      *)
(* exchange between them: the priority of the sources of an option, for    *)
(* all the flags, variables and files a program may be started with; that, *)
(* once they are configured, nothing that either does changes what they    *)
(* were given; and, for all requests, reports and configurations, what a   *)
(* client can tell from an answer: its status, its encoding, its signature.*)
(*                                                                         *)
(* These last follow from ExchangeInv, which is about the request while it *)
(* is inside the middlewares: what each of those it has passed has taken   *)
(* off its body, which ResponseWriters there are, how much of the answer   *)
(* each of them holds back, how often a transaction that is repeated has   *)
(* taken place, and that the status already decided on tells what has      *)
(* happened to the store.                                                  *)
(***************************************************************************)
EXTENDS Exchange, Metrics_proofs, FiniteSetTheorems

\* What an option has when a source of the input i is laid over the value d.
Flag(i, o, d) == IF o \in DOMAIN i.flags THEN i.flags[o] ELSE d
File(i, o, d) == IF o \in DOMAIN i.file  THEN i.file[o]  ELSE d
Env(i, o, d)  == IF o \in DOMAIN i.env /\ i.env[o] # ""
                 THEN i.env[o] ELSE d

\* The option o of the program p after read[p] steps of Do.
Layered(p, o) ==
    LET i == input[p]
        d == Default[p][o]
    IN  /\ read[p] = 0 => config[p][o] = d
        /\ read[p] = 1 => config[p][o] = Flag(i, o, d)
        /\ read[p] = 2 => config[p][o] = Env(i, o, Flag(i, o, d))
        /\ read[p] = 3 => config[p][o] = File(i, o, Env(i, o, Flag(i, o, d)))
        /\ read[p] = 4 => config[p][o] = Flag(i, o, File(i, o, Env(i, o, Flag(i, o, d))))
        /\ read[p] = 5 => config[p][o] =
              Env(i, o, Flag(i, o, File(i, o, Env(i, o, Flag(i, o, d)))))

\* Do returns after the second or the fifth step.
Progress(p) ==
    /\ read[p] \in 0 .. Steps(p)
    /\ started[p] \in {"no", "ready", "failed"}
    /\ started[p] = "no" => read[p] < Steps(p)
    /\ started[p] = "ready" => read[p] = Steps(p)

Shape ==
    /\ DOMAIN config = Programs /\ DOMAIN read = Programs /\ DOMAIN started = Programs
    /\ \A p \in Programs : input[p] \in Inputs[p] /\ DOMAIN config[p] = DOMAIN Default[p]

ConfigInv ==
    /\ Shape
    /\ \A p \in Programs : Progress(p) /\ \A o \in DOMAIN Default[p] : Layered(p, o)

----------------------------------------------------------------------------
\* Do makes two steps or five, and the path decides.
LEMMA StepsAre ==
    \A p : Steps(p) = IF input[p].path THEN 5 ELSE 2
BY DEF Steps, Pipeline

\* Where in the pipeline each of the sources is read.
LEMMA Turns ==
    ASSUME NEW p, read[p] \in Nat, read[p] < Steps(p)
    PROVE  /\ Pipeline[read[p] + 1] = "flags" => read[p] \in {0, 3}
           /\ Pipeline[read[p] + 1] = "env"   => read[p] \in {1, 4}
           /\ Pipeline[read[p] + 1] = "file"  => read[p] = 2
<1>1. read[p] \in {0, 1, 2, 3, 4}
  BY StepsAre
<1> QED
  BY <1>1 DEF Pipeline

\* A program starts with its defaults.
LEMMA ConfigStarts == ConfigInit => ConfigInv
<1> SUFFICES ASSUME ConfigInit PROVE ConfigInv
  OBVIOUS
<1>1. DOMAIN Default = Programs
  BY DEF Default, Programs
<1>2. Shape
  BY <1>1 DEF ConfigInit, Shape
<1>3. \A p \in Programs : read[p] = 0 /\ started[p] = "no" /\ config[p] = Default[p]
  BY DEF ConfigInit
<1>4. ASSUME NEW p \in Programs PROVE Progress(p)
  BY <1>3, StepsAre DEF Progress
<1>5. ASSUME NEW p \in Programs, NEW o \in DOMAIN Default[p] PROVE Layered(p, o)
  BY <1>3 DEF Layered
<1> QED
  BY <1>2, <1>4, <1>5 DEF ConfigInv

\* What a step that reads one of the sources does, to each option.
LEMMA TakesEffect ==
    ASSUME ConfigInv, NEW p \in Programs, NEW source, NEW given,
           Takes(p, source, given)
    PROVE  /\ Shape' /\ \A q \in Programs : Progress(q)'
           /\ input' = input
           /\ read[p] < Steps(p) /\ Pipeline[read[p] + 1] = source
           /\ read'[p] = read[p] + 1
           /\ \A q \in Programs \ {p} : read'[q] = read[q] /\ config'[q] = config[q]
           /\ \A o \in DOMAIN Default[p] :
                 config'[p][o] = IF o \in DOMAIN given THEN given[o] ELSE config[p][o]
<1>1. Shape /\ \A q \in Programs : Progress(q)
  BY DEF ConfigInv
<1>2. /\ input' = input
      /\ started[p] = "no" /\ Pipeline[read[p] + 1] = source
      /\ read' = [read EXCEPT ![p] = read[p] + 1]
      /\ config' = [config EXCEPT ![p] =
            [o \in DOMAIN config[p] |-> IF o \in DOMAIN given THEN given[o] ELSE config[p][o]]]
      /\ started' = [started EXCEPT ![p] = IF read[p] + 1 = Steps(p) THEN "ready" ELSE "no"]
  BY DEF Takes, Reading
<1>3. /\ \A q \in Programs \ {p} : /\ read'[q] = read[q] /\ config'[q] = config[q]
                                   /\ started'[q] = started[q]
      /\ read'[p] = read[p] + 1
      /\ started'[p] = IF read[p] + 1 = Steps(p) THEN "ready" ELSE "no"
      /\ config'[p] = [o \in DOMAIN config[p] |->
                          IF o \in DOMAIN given THEN given[o] ELSE config[p][o]]
      /\ DOMAIN config' = Programs /\ DOMAIN read' = Programs /\ DOMAIN started' = Programs
  BY <1>1, <1>2 DEF Shape
<1>4. Shape'
  BY <1>1, <1>2, <1>3 DEF Shape
<1>5. read[p] < Steps(p)
  BY <1>1, <1>2 DEF Progress
<1>6. ASSUME NEW q \in Programs PROVE Progress(q)'
  <2>1. Steps(q)' = Steps(q) /\ Steps(q) \in Nat
    BY <1>2, StepsAre DEF Steps
  <2>2. CASE q = p
    BY <1>1, <1>3, <1>5, <2>1, <2>2 DEF Progress
  <2>3. CASE q # p
    BY <1>1, <1>3, <2>1, <2>3 DEF Progress
  <2> QED
    BY <2>2, <2>3
<1>7. \A o \in DOMAIN Default[p] :
         config'[p][o] = IF o \in DOMAIN given THEN given[o] ELSE config[p][o]
  BY <1>1, <1>3 DEF Shape
<1> QED
  BY <1>2, <1>3, <1>4, <1>5, <1>6, <1>7

\* A program that reads leaves the options of the other one alone.
LEMMA OthersStay ==
    ASSUME ConfigInv, NEW p \in Programs, NEW q \in Programs \ {p}, NEW o \in DOMAIN Default[q],
           input' = input, read'[q] = read[q], config'[q] = config[q]
    PROVE  Layered(q, o)'
<1>1. Layered(q, o)
  BY DEF ConfigInv
<1> QED
  BY <1>1 DEF Layered

----------------------------------------------------------------------------
\* Flags are read first, and once more after the file.
LEMMA FlagsKeep ==
    ASSUME ConfigInv, NEW p \in Programs, ParseFlags(p)
    PROVE  ConfigInv'
<1> DEFINE given == input[p].flags
<1>1. Takes(p, "flags", given)
  BY DEF ParseFlags
<1>2. /\ Shape' /\ \A q \in Programs : Progress(q)'
      /\ input' = input
      /\ read[p] < Steps(p) /\ Pipeline[read[p] + 1] = "flags"
      /\ read'[p] = read[p] + 1
      /\ \A q \in Programs \ {p} : read'[q] = read[q] /\ config'[q] = config[q]
      /\ \A o \in DOMAIN Default[p] :
            config'[p][o] = IF o \in DOMAIN given THEN given[o] ELSE config[p][o]
  BY ONLY <1>1, TakesEffect, ConfigInv, p \in Programs
<1>3. read[p] \in {0, 3}
  BY <1>2, Turns DEF ConfigInv, Progress
<1>4. ASSUME NEW o \in DOMAIN Default[p] PROVE Layered(p, o)'
  <2>1. Layered(p, o)
    BY DEF ConfigInv
  <2>2. config'[p][o] = Flag(input[p], o, config[p][o])
    BY <1>2 DEF Flag
  <2>3. input' = input /\ read'[p] = read[p] + 1
    BY <1>2
  <2> QED
    BY <1>3, <2>1, <2>2, <2>3 DEF Layered
<1>5. ASSUME NEW q \in Programs, NEW o \in DOMAIN Default[q] PROVE Layered(q, o)'
  <2>1. CASE q = p
    BY <1>4, <2>1
  <2>2. CASE q # p
    BY <1>2, <2>2, OthersStay
  <2> QED
    BY <2>1, <2>2
<1> QED
  BY <1>2, <1>5, Zenon DEF ConfigInv

\* The environment is laid over the flags, each time.
LEMMA EnvKeeps ==
    ASSUME ConfigInv, NEW p \in Programs, ReadEnv(p)
    PROVE  ConfigInv'
<1> DEFINE env   == input[p].env
           given == [o \in {o \in DOMAIN env : env[o] # ""} |-> env[o]]
<1>1. Takes(p, "env", given)
  BY DEF ReadEnv
<1>2. /\ Shape' /\ \A q \in Programs : Progress(q)'
      /\ input' = input
      /\ read[p] < Steps(p) /\ Pipeline[read[p] + 1] = "env"
      /\ read'[p] = read[p] + 1
      /\ \A q \in Programs \ {p} : read'[q] = read[q] /\ config'[q] = config[q]
      /\ \A o \in DOMAIN Default[p] :
            config'[p][o] = IF o \in DOMAIN given THEN given[o] ELSE config[p][o]
  <2> HIDE DEF given
  <2> QED
    BY ONLY <1>1, TakesEffect, ConfigInv, p \in Programs
<1>3. read[p] \in {1, 4}
  <2>1. read[p] \in Nat /\ read[p] < Steps(p) /\ Pipeline[read[p] + 1] = "env"
    <3>1. read[p] \in 0 .. Steps(p)
      BY DEF ConfigInv, Progress
    <3>2. Steps(p) \in Nat
      BY StepsAre
    <3>3. read[p] < Steps(p) /\ Pipeline[read[p] + 1] = "env"
      BY ONLY <1>2
    <3>4. read[p] \in Nat
      BY ONLY <3>1, <3>2
    <3> QED
      BY ONLY <3>3, <3>4
  <2> QED
    BY ONLY <2>1, Turns
<1>4. ASSUME NEW o \in DOMAIN Default[p] PROVE Layered(p, o)'
  <2>1. Layered(p, o)
    BY DEF ConfigInv
  <2>2. config'[p][o] = Env(input[p], o, config[p][o])
    BY <1>2 DEF Env
  <2>3. input' = input /\ read'[p] = read[p] + 1
    BY <1>2
  <2> QED
    BY <1>3, <2>1, <2>2, <2>3 DEF Layered
<1>5. ASSUME NEW q \in Programs, NEW o \in DOMAIN Default[q] PROVE Layered(q, o)'
  <2>1. CASE q = p
    BY <1>4, <2>1
  <2>2. CASE q # p
    BY <1>2, <2>2, OthersStay
  <2> QED
    BY <2>1, <2>2
<1> QED
  BY <1>2, <1>5, Zenon DEF ConfigInv

\* The file comes over both of them, before they are read again.
LEMMA FileKeeps ==
    ASSUME ConfigInv, NEW p \in Programs, ReadJSONFile(p)
    PROVE  ConfigInv'
<1> DEFINE given == input[p].file
<1>1. Takes(p, "file", given)
  BY DEF ReadJSONFile
<1>2. /\ Shape' /\ \A q \in Programs : Progress(q)'
      /\ input' = input
      /\ read[p] < Steps(p) /\ Pipeline[read[p] + 1] = "file"
      /\ read'[p] = read[p] + 1
      /\ \A q \in Programs \ {p} : read'[q] = read[q] /\ config'[q] = config[q]
      /\ \A o \in DOMAIN Default[p] :
            config'[p][o] = IF o \in DOMAIN given THEN given[o] ELSE config[p][o]
  BY ONLY <1>1, TakesEffect, ConfigInv, p \in Programs
<1>3. read[p] = 2
  BY <1>2, Turns DEF ConfigInv, Progress
<1>4. ASSUME NEW o \in DOMAIN Default[p] PROVE Layered(p, o)'
  <2>1. Layered(p, o)
    BY DEF ConfigInv
  <2>2. config'[p][o] = File(input[p], o, config[p][o])
    BY <1>2 DEF File
  <2>3. input' = input /\ read'[p] = read[p] + 1
    BY <1>2
  <2> QED
    BY <1>3, <2>1, <2>2, <2>3 DEF Layered
<1>5. ASSUME NEW q \in Programs, NEW o \in DOMAIN Default[q] PROVE Layered(q, o)'
  <2>1. CASE q = p
    BY <1>4, <2>1
  <2>2. CASE q # p
    BY <1>2, <2>2, OthersStay
  <2> QED
    BY <2>1, <2>2
<1> QED
  BY <1>2, <1>5, Zenon DEF ConfigInv

\* A source that cannot be read changes no option.
LEMMA FailureKeeps ==
    ASSUME ConfigInv, NEW p \in Programs, ReadFails(p)
    PROVE  ConfigInv'
<1>1. /\ UNCHANGED <<input, config, read>>
      /\ started' = [started EXCEPT ![p] = "failed"]
  BY DEF ReadFails
<1>2. Shape'
  BY <1>1 DEF ConfigInv, Shape
<1>3. ASSUME NEW q \in Programs PROVE Progress(q)'
  BY <1>1 DEF ConfigInv, Shape, Progress, Steps
<1>4. ASSUME NEW q \in Programs, NEW o \in DOMAIN Default[q] PROVE Layered(q, o)'
  BY <1>1 DEF ConfigInv, Layered
<1> QED
  BY <1>2, <1>3, <1>4 DEF ConfigInv

\* No step of Do breaks the invariant.
LEMMA ConfigKeeps == ConfigInv /\ [ConfigNext]_configVars => ConfigInv'
<1> SUFFICES ASSUME ConfigInv, [ConfigNext]_configVars PROVE ConfigInv'
  OBVIOUS
<1>1. ASSUME NEW p \in Programs, Do(p) PROVE ConfigInv'
  BY <1>1, FlagsKeep, EnvKeeps, FileKeeps, FailureKeeps DEF Do
<1>2. ASSUME UNCHANGED configVars PROVE ConfigInv'
  <2>1. UNCHANGED <<input, config, read, started>>
    BY <1>2 DEF configVars
  <2>2. Shape'
    BY <2>1 DEF ConfigInv, Shape
  <2>3. ASSUME NEW q \in Programs PROVE Progress(q)'
    BY <2>1 DEF ConfigInv, Progress, Steps
  <2>4. ASSUME NEW q \in Programs, NEW o \in DOMAIN Default[q] PROVE Layered(q, o)'
    BY <2>1 DEF ConfigInv, Layered
  <2> QED
    BY <2>2, <2>3, <2>4 DEF ConfigInv
<1> QED
  BY <1>1, <1>2 DEF ConfigNext

\* When Do is done, the layers are in the order of the priority.
LEMMA LayersArePriority == ConfigInv => PriorityHolds
<1> SUFFICES ASSUME ConfigInv, NEW p \in Programs, started[p] = "ready",
                    NEW o \in DOMAIN Default[p]
             PROVE  config[p][o] =
                       IF o \in DOMAIN input[p].env /\ input[p].env[o] # ""
                       THEN input[p].env[o]
                       ELSE IF o \in DOMAIN input[p].flags THEN input[p].flags[o]
                       ELSE IF input[p].path /\ o \in DOMAIN input[p].file
                       THEN input[p].file[o]
                       ELSE Default[p][o]
  BY DEF PriorityHolds
<1>1. Layered(p, o)
  BY DEF ConfigInv
<1>2. IF input[p].path THEN read[p] = 5 ELSE read[p] = 2
  BY StepsAre DEF ConfigInv, Progress
<1> QED
  BY <1>1, <1>2 DEF Layered, Flag, File, Env

\* Whatever flags, variables and file a program is started with, it starts with
\* each option from the source of the highest priority that gives it (Do of
\* configreader.go).
THEOREM PriorityIsKept == ConfigSpec => []PriorityHolds
<1>1. ConfigInit => ConfigInv
  BY ConfigStarts
<1>2. ConfigInv /\ [ConfigNext]_configVars => ConfigInv'
  BY ConfigKeeps
<1>3. ConfigInv => PriorityHolds
  BY LayersArePriority
<1> QED
  BY <1>1, <1>2, <1>3, PTL DEF ConfigSpec

----------------------------------------------------------------------------
(* The exchange.                                                           *)

\* Only Do writes to a Config: neither the agent, nor a middleware, nor a
\* handler does.
LEMMA OnlyDoConfigures == [ExchangeNext]_allVars => [ConfigNext]_configVars
<1> SUFFICES ASSUME [ExchangeNext]_allVars PROVE [ConfigNext]_configVars
  OBVIOUS
<1>1. CASE ReadConfig
  BY <1>1 DEF ReadConfig
<1>2. ASSUME NEW request, Arrives(request) PROVE UNCHANGED configVars
  BY <1>2 DEF Arrives
<1>3. CASE Report \/ ClientSends
  BY <1>2, <1>3 DEF Report, ClientSends
<1>4. ASSUME NEW code, Refuse(code) PROVE UNCHANGED configVars
  BY <1>4 DEF Refuse
<1>5. CASE Summary \/ DecryptBody \/ VerifyRequest \/ Decompress
  BY <1>5 DEF Summary, DecryptBody, VerifyRequest, Decompress
<1>6. CASE DecryptionFails \/ VerificationFails \/ DecompressionFails
  BY <1>4, <1>6 DEF DecryptionFails, VerificationFails, DecompressionFails
<1>7. CASE Handle
  <2>1. ASSUME NEW answer, HandlerReturns(answer) PROVE UNCHANGED configVars
    BY <2>1 DEF HandlerReturns
  <2>2. ASSUME NEW code, Failing(code) PROVE UNCHANGED configVars
    BY <2>1, <2>2 DEF Failing
  <2>3. ASSUME NEW metrics, NEW answer, Updated(metrics, answer) \/ Repeat(metrics)
        PROVE  UNCHANGED configVars
    BY <2>1, <2>3 DEF Updated, Repeat
  <2>4. ASSUME NEW metrics, UpdateFails(metrics) PROVE UNCHANGED configVars
    BY <2>2, <2>4 DEF UpdateFails
  <2>5. ASSUME NEW fault, UpdateRefused(fault) PROVE UNCHANGED configVars
    BY <2>2, <2>5 DEF UpdateRefused
  <2>6. ASSUME NEW fault, GetRefused(fault) PROVE UNCHANGED configVars
    BY <2>2, <2>6 DEF GetRefused
  <2>7. ASSUME GetFails PROVE UNCHANGED configVars
    BY <2>2, <2>7 DEF GetFails
  <2>8. CASE UpdateFromJSON
    BY <2>3, <2>4, <2>5, <2>8, Zenon DEF UpdateFromJSON, Update
  <2>9. CASE UpdateBatchFromJSON
    BY <2>3, <2>4, <2>5, <2>9, Zenon DEF UpdateBatchFromJSON, Update
  <2>10. CASE UpdateFromURL
    BY <2>3, <2>4, <2>5, <2>10, Zenon DEF UpdateFromURL, Update
  <2>11. CASE GetAsJSON
    BY <2>1, <2>6, <2>7, <2>11, Zenon DEF GetAsJSON
  <2>12. CASE GetAsText
    BY <2>1, <2>6, <2>7, <2>12, Zenon DEF GetAsText
  <2>13. CASE MainPage \/ Ping
    BY <2>1, <2>2, <2>13, Zenon DEF MainPage, Ping
  <2> QED
    BY <1>7, <2>8, <2>9, <2>10, <2>11, <2>12, <2>13 DEF Handle
<1>8. CASE CloseWriter \/ SignResponse \/ LeaveDecoder \/ LeaveSummary
  BY <1>8, Zenon DEF CloseWriter, SignResponse, LeaveDecoder, LeaveSummary, GoBack
<1>9. CASE Receive
  BY <1>9 DEF Receive
<1>10. CASE UNCHANGED allVars
  BY <1>10 DEF allVars
<1> QED
  BY <1>1, <1>3, <1>5, <1>6, <1>7, <1>8, <1>9, <1>10 DEF ExchangeNext

\* In the whole exchange, whatever is reported and asked, both programs go on
\* with each option from the source of the highest priority that gives it
\* (Do of configreader.go).
THEOREM ExchangeKeepsPriority == ExchangeSpec => []PriorityHolds
<1>1. ExchangeInit => ConfigInit
  BY DEF ExchangeInit
<1>2. [ExchangeNext]_allVars => [ConfigNext]_configVars
  BY OnlyDoConfigures
<1>3. ConfigSpec => []PriorityHolds
  BY PriorityIsKept
<1> QED
  BY <1>1, <1>2, <1>3, PTL DEF ExchangeSpec, ConfigSpec

----------------------------------------------------------------------------
(* The requests and their answers.  ExchangeInv says, by how many of the   *)
(* middlewares the request is inside of, what they have made of it, which  *)
(* ResponseWriters there are, and what each holds of the answer.           *)

Crypts       == Server.CryptoKey # ""
Signs        == Server.Key # ""
IntegrityAt  == IF Crypts THEN 2 ELSE 1
EncodingAt   == IF Signs THEN IntegrityAt + 1 ELSE IntegrityAt

\* The request is inside of the middleware.
PassedCrypto    == Crypts /\ depth >= 2
PassedIntegrity == Signs /\ depth > IntegrityAt
PassedEncoding  == depth > EncodingAt

\* The writers there are, and the stack of them.
Wrapped ==
    {w \in {"log", "sign", "zip"} : /\ w = "log"  => depth >= 1
                                    /\ w = "sign" => PassedIntegrity
                                    /\ w = "zip"  => PassedEncoding /\ sent.accept}

StackOf(W) ==
    (IF "log" \in W THEN <<"log">> ELSE <<>>) \o (IF "sign" \in W THEN <<"sign">> ELSE <<>>)
        \o (IF "zip" \in W THEN <<"zip">> ELSE <<>>)

StackInv ==
    /\ depth \in 0 .. Len(Chain)
    /\ writers = StackOf(Wrapped)

\* A report as report makes it: metrics that are valid and JSON can write.
Reported(metrics) ==
    /\ metrics \in Seq(JSONMetric) /\ Writable(metrics)
    /\ \A i \in DOMAIN metrics : MetricFault(metrics[i]) = "none"

\* The request r, with the type and the layers that are left of it.
Peeled(r, type, layers) ==
    [client |-> r.client, route |-> r.route, type |-> type, gzip |-> r.gzip,
     accept |-> r.accept, sum |-> r.sum, url |-> r.url,
     body |-> [layers |-> layers, doc |-> r.body.doc]]

AgentDoc  == sent.body.doc
SignAgree == Server.Key = "" \/ Agent.Key \in {"", Server.Key}

\* What the middlewares have made of a report, and what they have found out.
PeeledInv ==
    /\ ~PassedEncoding =>
          IF PassedCrypto
          THEN req.body = Gzip(Plain(AgentDoc)) /\ req.type = "application/json"
          ELSE req.body = sent.body /\ req.type = sent.type
    /\ PassedCrypto => Agent.CryptoKey \in {"", Server.CryptoKey}
    /\ PassedIntegrity => SignAgree
    /\ PassedEncoding =>
          /\ Agent.CryptoKey \in {"", Server.CryptoKey}
          /\ req.body = Plain(AgentDoc) /\ req.type = "application/json"

RequestInv ==
    /\ WellFormed(sent) /\ WellFormed(req)
    /\ way = "idle" => sent = NoRequest /\ depth = 0
    /\ way # "idle" => Ready("server")
    /\ req = Peeled(sent, req.type, req.body.layers)
    /\ sent.client = "agent" =>
          /\ Ready("agent")
          /\ Reported(AgentDoc.metrics) /\ sent = Post(AgentDoc.metrics)
          /\ way = "in" => PeeledInv

\* An answer has the fields of one.
MadeOf(header, status, sentWith, body, buffer, zip, logged) ==
    [header |-> header, status |-> status, sent |-> sentWith, body |-> body,
     buffer |-> buffer, zip |-> zip, logged |-> logged]

Header(type, encoding, sum) == [type |-> type, encoding |-> encoding, sum |-> sum]

IsAnswer(a) ==
    a = MadeOf(Header(a.header.type, a.header.encoding, a.header.sum),
               a.status, a.sent, a.body, a.buffer, a.zip, a.logged)

\* The status that the client will see, or 0 as long as none is written.
Code(a) == IF a.status = 0 THEN 200 ELSE a.status

\* What has been written of the body, b, and how: nothing, one chunk as it is,
\* or one deflated, after which the compressor has written the rest or not.
Written(a, b, W) ==
    \/ b = <<>> /\ a.header.encoding = "" /\ a.zip = "open"
    \/ b # <<>> /\ b = <<Chunk("plain", b[1].doc)>> /\ a.header.encoding = "" /\ a.zip # "yes"
    \/ /\ b # <<>> /\ a.header.encoding = "gzip" /\ a.zip = "yes"
       /\ b = <<Chunk("deflated", b[1].doc)>> \o (IF "zip" \in W THEN <<>> ELSE <<GzipEnd>>)

\* An answer on its way out through the writers W, held back by a signedWriter
\* or not.
Shaped(a, W) ==
    /\ IsAnswer(a)
    /\ a.status \in {0, 200, 400, 404, 500} /\ a.logged = Code(a)
    /\ a.zip \in {"open", "yes", "no"}
    /\ IF "sign" \in W
       THEN /\ a.body = <<>> /\ a.sent.sum = <<>>
            /\ Written(a, a.buffer, W)
       ELSE /\ a.buffer = <<>>
            /\ Written(a, a.body, W)
    /\ a.status = 0 => a.body = <<>>
    /\ a.status # 0 => a.sent.encoding = a.header.encoding

\* What of it is signed.
SumInv ==
    /\ ~Signs \/ PassedIntegrity => out.header.sum = <<>> /\ out.sent.sum = <<>>
    /\ PassedIntegrity /\ out.status = 200 => sent.route = "GET:/ping"
    /\ Signs /\ ~PassedIntegrity =>
          /\ out.status # 0
          /\ out.sent.sum # <<>> => out.sent.sum = <<Hmac(Server.Key, out.body)>>
          /\ out.status = 200 /\ sent.route # "GET:/ping" => out.sent.sum # <<>>

OutInv ==
    /\ way # "out" => out = NoAnswer
    /\ way = "out" =>
          /\ Shaped(out, Wrapped)
          /\ out.zip = "yes" => sent.accept
          /\ depth = 0 => out.status # 0
          /\ SumInv

\* What a status says of the request, when the store is s.
Tells(code, s) ==
    /\ code = 200 /\ Updates(sent) => Valid(sent) /\ s \in Outcomes
    /\ code \in {400, 404} \/ ~Updates(sent) => s = before
    /\ code = 500 /\ s # before => StorageMayFail /\ Valid(sent) /\ s \in Outcomes

\* What it says of a report of the agent.
TellsAgent(code, s) ==
    sent.client = "agent" =>
        /\ KeysAgree => code = 200 \/ (code = 500 /\ StorageMayFail)
        /\ ~KeysAgree => code # 200 /\ s = before

\* The store when what is asked for has been applied n times.
Taken(n) == Repeated(before, ToEntities(Asked(sent)), n)

\* A transaction is repeated only for a valid update, and by its handler; each
\* one that was made so far has applied the update or has not.
RetryInv ==
    /\ retries \in 0 .. retryCount
    /\ retries # 0 => Inside /\ StorageMayFail /\ Updates(sent) /\ Valid(sent)
    /\ way = "in" => \E n \in 0 .. retries : store = Taken(n)

EffectInv ==
    /\ store \in Snapshot /\ before \in Snapshot
    /\ RetryInv
    /\ way = "out" => Tells(Code(out), store) /\ TellsAgent(Code(out), store)

ExchangeInv ==
    /\ ConfigInv /\ way \in {"idle", "in", "out"}
    /\ StackInv /\ RequestInv /\ OutInv /\ EffectInv

----------------------------------------------------------------------------
(* The configurations.                                                     *)

\* The invariant of the configurations types them.
LEMMA ConfigTypes == ConfigInv => ConfigTypeOK
  BY DEF ConfigInv, Shape, Progress, ConfigTypeOK

\* A program that is ready stays so, with the options it has.
LEMMA ReadyStays ==
    ASSUME ConfigInv, [ConfigNext]_configVars, NEW p \in Programs, Ready(p)
    PROVE  Ready(p)' /\ config'[p] = config[p]
<1>1. DOMAIN config = Programs /\ DOMAIN started = Programs
  BY DEF ConfigInv, Shape
<1>2. ASSUME NEW q \in Programs, NEW source, NEW given, Takes(q, source, given)
      PROVE  Ready(p)' /\ config'[p] = config[p]
  <2>1. q # p
    BY <1>2 DEF Takes, Reading, Ready
  <2> QED
    BY <1>1, <1>2, <2>1 DEF Takes, Ready
<1>3. ASSUME NEW q \in Programs, ReadFails(q)
      PROVE  Ready(p)' /\ config'[p] = config[p]
  <2>1. q # p
    BY <1>3 DEF ReadFails, Reading, Ready
  <2> QED
    BY <1>1, <1>3, <2>1 DEF ReadFails, Ready
<1>4. CASE ConfigNext
  BY <1>2, <1>3, <1>4 DEF ConfigNext, Do, ParseFlags, ReadEnv, ReadJSONFile
<1>5. CASE UNCHANGED configVars
  BY <1>5 DEF configVars, Ready
<1> QED
  BY <1>4, <1>5

----------------------------------------------------------------------------
(* Where each middleware is in the chain.                                  *)

\* Short sequences are joined one element at a time.
LEMMA JoinNone ==
    ASSUME NEW T, NEW s \in Seq(T)
    PROVE  <<>> \o s = s /\ s \o <<>> = s
  OBVIOUS

\* Two singletons joined.
LEMMA JoinTwo ==
    ASSUME NEW a, NEW b
    PROVE  <<a>> \o <<b>> = <<a, b>>
<1> DEFINE s == <<a>> \o <<b>>
<1>1. Len(s) = 2 /\ s[1] = a /\ s[2] = b
  OBVIOUS
<1>2. s \in Seq({a, b})
  OBVIOUS
<1> HIDE DEF s
<1>3. s = <<a, b>>
  BY <1>1, <1>2
<1> QED
  BY <1>3 DEF s

\* One more after two.
LEMMA JoinThree ==
    ASSUME NEW a, NEW b, NEW c
    PROVE  <<a, b>> \o <<c>> = <<a, b, c>>
<1> DEFINE s == <<a, b>> \o <<c>>
<1>1. Len(s) = 3 /\ s[1] = a /\ s[2] = b /\ s[3] = c
  OBVIOUS
<1>2. s \in Seq({a, b, c})
  OBVIOUS
<1> HIDE DEF s
<1>3. s = <<a, b, c>>
  BY <1>1, <1>2
<1> QED
  BY <1>3 DEF s

\* One more after three.
LEMMA JoinFour ==
    ASSUME NEW a, NEW b, NEW c, NEW d
    PROVE  <<a, b, c>> \o <<d>> = <<a, b, c, d>>
<1> DEFINE s == <<a, b, c>> \o <<d>>
<1>1. Len(s) = 4 /\ s[1] = a /\ s[2] = b /\ s[3] = c /\ s[4] = d
  OBVIOUS
<1>2. s \in Seq({a, b, c, d})
  OBVIOUS
<1> HIDE DEF s
<1>3. s = <<a, b, c, d>>
  BY <1>1, <1>2
<1> QED
  BY <1>3 DEF s

\* The first and the last of the chain, and the two that may be between
\* them (MetricsRouter).
LEMMA ChainIs ==
    /\ Len(Chain) = EncodingAt + 1
    /\ Chain[1] = "summary" /\ Chain[EncodingAt + 1] = "encoding"
    /\ Crypts => Chain[2] = "rsa"
    /\ Signs => Chain[IntegrityAt + 1] = "integrity"
<1>0. \A a : <<a>> \o <<>> = <<a>> /\ \A b : <<a, b>> \o <<>> = <<a, b>>
  OBVIOUS
<1>1. CASE Crypts /\ Signs
  <2>1. <<"summary">> \o <<"rsa">> = <<"summary", "rsa">>
    BY ONLY JoinTwo
  <2>2. <<"summary", "rsa">> \o <<"integrity">> = <<"summary", "rsa", "integrity">>
    BY ONLY JoinThree
  <2>3. <<"summary", "rsa", "integrity">> \o <<"encoding">>
           = <<"summary", "rsa", "integrity", "encoding">>
    BY ONLY JoinFour
  <2>4. Chain = <<"summary", "rsa", "integrity", "encoding">>
    BY <1>0, <1>1, <2>1, <2>2, <2>3 DEF Chain, Crypts, Signs
  <2> QED
    BY <1>1, <2>4 DEF IntegrityAt, EncodingAt
<1>2. CASE Crypts /\ ~Signs
  <2>1. <<"summary">> \o <<"rsa">> = <<"summary", "rsa">>
    BY ONLY JoinTwo
  <2>2. <<"summary", "rsa">> \o <<"encoding">> = <<"summary", "rsa", "encoding">>
    BY ONLY JoinThree
  <2>3. Chain = <<"summary", "rsa", "encoding">>
    BY <1>0, <1>2, <2>1, <2>2 DEF Chain, Crypts, Signs
  <2> QED
    BY <1>2, <2>3 DEF IntegrityAt, EncodingAt
<1>3. CASE ~Crypts /\ Signs
  <2>1. <<"summary">> \o <<"integrity">> = <<"summary", "integrity">>
    BY ONLY JoinTwo
  <2>2. <<"summary", "integrity">> \o <<"encoding">> = <<"summary", "integrity", "encoding">>
    BY ONLY JoinThree
  <2>3. Chain = <<"summary", "integrity", "encoding">>
    BY <1>0, <1>3, <2>1, <2>2 DEF Chain, Crypts, Signs
  <2> QED
    BY <1>3, <2>3 DEF IntegrityAt, EncodingAt
<1>4. CASE ~Crypts /\ ~Signs
  <2>1. <<"summary">> \o <<"encoding">> = <<"summary", "encoding">>
    BY ONLY JoinTwo
  <2>2. Chain = <<"summary", "encoding">>
    BY <1>0, <1>4, <2>1 DEF Chain, Crypts, Signs
  <2> QED
    BY <1>4, <2>2 DEF IntegrityAt, EncodingAt
<1> QED
  BY <1>1, <1>2, <1>3, <1>4

\* How many middlewares a request is inside of when it is each one's turn.
LEMMA Places ==
    ASSUME depth \in 0 .. Len(Chain)
    PROVE  /\ EncodingAt \in {1, 2, 3} /\ Len(Chain) = EncodingAt + 1
           /\ At("summary") => depth = 0
           /\ At("rsa") => Crypts /\ depth = 1
           /\ At("integrity") => Signs /\ depth = IntegrityAt
           /\ At("encoding") => depth = EncodingAt
           /\ Inside => way = "in" /\ depth = EncodingAt + 1
           /\ Out("summary") => depth = 1
           /\ Out("rsa") => Crypts /\ depth = 2
           /\ Out("integrity") => Signs /\ depth = IntegrityAt + 1
           /\ Out("encoding") => depth = EncodingAt + 1
<1>1. EncodingAt \in {1, 2, 3} /\ IntegrityAt \in {1, 2} /\ Len(Chain) = EncodingAt + 1
  BY ChainIs DEF EncodingAt, IntegrityAt
<1>2. ASSUME NEW i \in 1 .. Len(Chain)
      PROVE  /\ Chain[i] = "summary" => i = 1
             /\ Chain[i] = "rsa" => Crypts /\ i = 2
             /\ Chain[i] = "integrity" => Signs /\ i = IntegrityAt + 1
             /\ Chain[i] = "encoding" => i = EncodingAt + 1
  <2>1. i = 1 \/ (Crypts /\ i = 2) \/ (Signs /\ i = IntegrityAt + 1) \/ i = EncodingAt + 1
    BY <1>1 DEF EncodingAt, IntegrityAt
  <2> QED
    BY <2>1, ChainIs
<1>3. \A layer : At(layer) => /\ way = "in" /\ depth + 1 \in 1 .. Len(Chain)
                              /\ Chain[depth + 1] = layer
  BY <1>1 DEF At
<1>4. \A layer : Out(layer) => depth \in 1 .. Len(Chain) /\ Chain[depth] = layer
  BY <1>1 DEF Out
<1>5. /\ At("summary") => depth + 1 = 1
      /\ At("rsa") => Crypts /\ depth + 1 = 2
      /\ At("integrity") => Signs /\ depth + 1 = IntegrityAt + 1
      /\ At("encoding") => depth + 1 = EncodingAt + 1
  BY <1>2, <1>3
<1>6. /\ Out("summary") => depth = 1
      /\ Out("rsa") => Crypts /\ depth = 2
      /\ Out("integrity") => Signs /\ depth = IntegrityAt + 1
      /\ Out("encoding") => depth = EncodingAt + 1
  BY <1>2, <1>4
<1>7. Inside => way = "in" /\ depth = EncodingAt + 1
  BY <1>1 DEF Inside
<1> QED
  BY <1>1, <1>5, <1>6, <1>7

----------------------------------------------------------------------------
(* A write through a stack of writers.                                     *)

\* What a stack of writers hands on.
Passed(w, acc) == FoldRight(PassOn, w, acc)

\* What FoldRight builds, for a stack of at most three.
FoldsIn(g, w, acc) ==
    g = [I \in SUBSET (DOMAIN w) |->
            IF I = {} THEN acc ELSE PassOn(w[Min(I)], g[I \ {Min(I)}])]

\* A write through at most three writers has been handed on by each of them
\* in turn: the fold has intermediate results.
LEMMA FoldsInExists ==
    ASSUME NEW w, NEW acc, DOMAIN w \subseteq {1, 2, 3}
    PROVE  \E g : FoldsIn(g, w, acc)
<1> DEFINE three(I) == IF 3 \in I THEN PassOn(w[3], acc) ELSE acc
           two(I)   == IF 2 \in I THEN PassOn(w[2], three(I)) ELSE three(I)
           one(I)   == IF 1 \in I THEN PassOn(w[1], two(I)) ELSE two(I)
           g        == [I \in SUBSET (DOMAIN w) |-> one(I)]
<1>1. ASSUME NEW I \in SUBSET (DOMAIN w)
      PROVE  g[I] = IF I = {} THEN acc ELSE PassOn(w[Min(I)], g[I \ {Min(I)}])
  <2>0. g[I] = one(I)
    OBVIOUS
  <2>1. CASE 1 \in I
    <3>1. Min(I) = 1
      BY <2>1 DEF Min
    <3>2. g[I \ {1}] = one(I \ {1}) /\ one(I \ {1}) = two(I) /\ I # {}
      BY <2>1
    <3>3. one(I) = PassOn(w[1], two(I))
      BY <2>1
    <3> HIDE DEF one, two, three, g
    <3> QED
      BY <2>0, <3>1, <3>2, <3>3
  <2>2. CASE 1 \notin I /\ 2 \in I
    <3>1. Min(I) = 2
      BY <2>2 DEF Min
    <3>2. g[I \ {2}] = one(I \ {2}) /\ one(I \ {2}) = three(I) /\ I # {}
      BY <2>2
    <3>3. one(I) = PassOn(w[2], three(I))
      BY <2>2
    <3> HIDE DEF one, two, three, g
    <3> QED
      BY <2>0, <3>1, <3>2, <3>3
  <2>3. CASE 1 \notin I /\ 2 \notin I /\ 3 \in I
    <3>1. Min(I) = 3
      BY <2>3 DEF Min
    <3>2. g[I \ {3}] = one(I \ {3}) /\ one(I \ {3}) = acc /\ I # {}
      BY <2>3
    <3>3. one(I) = PassOn(w[3], acc)
      BY <2>3
    <3> HIDE DEF one, two, three, g
    <3> QED
      BY <2>0, <3>1, <3>2, <3>3
  <2>4. CASE 1 \notin I /\ 2 \notin I /\ 3 \notin I
    <3>1. I = {} /\ one(I) = acc
      BY <2>4
    <3> QED
      BY <2>0, <3>1
  <2> QED
    BY <2>1, <2>2, <2>3, <2>4
<1>2. g = [I \in SUBSET (DOMAIN w) |-> g[I]]
  OBVIOUS
<1> HIDE DEF g
<1> QED
  BY <1>1, <1>2 DEF FoldsIn

\* What a stack makes of a write: the first to see it is the last of it.
LEMMA FoldRightIs ==
    ASSUME NEW w, NEW acc, NEW D \in SUBSET {1, 2, 3}, DOMAIN w = D
    PROVE  \E g : /\ Passed(w, acc) = g[D]
                  /\ g[{}] = acc
                  /\ \A I \in SUBSET D : \A i \in I :
                        (\A j \in I : i <= j) => g[I] = PassOn(w[i], g[I \ {i}])
<1> DEFINE g == CHOOSE h : FoldsIn(h, w, acc)
<1>1. FoldsIn(g, w, acc)
  BY FoldsInExists
<1>2. Passed(w, acc) = g[DOMAIN w]
  BY DEF Passed, FoldRight, MapThenFoldSet, FoldsIn
<1> HIDE DEF g
<1>3. g[{}] = acc
  BY <1>1 DEF FoldsIn
<1>4. ASSUME NEW I \in SUBSET D, NEW i \in I, \A j \in I : i <= j
      PROVE  g[I] = PassOn(w[i], g[I \ {i}])
  <2>1. \A k \in I : (\A j \in I : k <= j) => k = i
    BY <1>4
  <2>2. Min(I) = i
    BY <1>4, <2>1 DEF Min
  <2>3. g[I] = IF I = {} THEN acc ELSE PassOn(w[Min(I)], g[I \ {Min(I)}])
    BY <1>1 DEF FoldsIn
  <2> QED
    BY <2>2, <2>3
<1> QED
  BY <1>2, <1>3, <1>4, ZenonT(60)

\* A write through one writer, through two, and through three.
LEMMA FoldOne == ASSUME NEW a, NEW acc PROVE Passed(<<a>>, acc) = PassOn(a, acc)
<1> DEFINE w == <<a>>
<1>1. DOMAIN w = {1} /\ w[1] = a /\ {1} \in SUBSET {1, 2, 3}
  OBVIOUS
<1> DEFINE D == {1}
<1>0. DOMAIN w = D /\ D \in SUBSET {1, 2, 3}
  BY <1>1
<1> HIDE DEF w, D
<1>2. PICK g : /\ Passed(w, acc) = g[D] /\ g[{}] = acc
               /\ \A I \in SUBSET D : \A i \in I :
                     (\A j \in I : i <= j) => g[I] = PassOn(w[i], g[I \ {i}])
  BY ONLY <1>0, FoldRightIs
<1>3. {1} \in SUBSET {1} /\ 1 \in {1} /\ \A j \in {1} : 1 <= j
  OBVIOUS
<1>4. g[{1}] = PassOn(w[1], g[{1} \ {1}])
  BY <1>2, <1>3 DEF D
<1>5. {1} \ {1} = {}
  OBVIOUS
<1>6. Passed(w, acc) = PassOn(a, acc)
  BY <1>1, <1>2, <1>4, <1>5 DEF D
<1> QED
  BY <1>6 DEF w

\* Through two.
LEMMA FoldTwo ==
    ASSUME NEW a, NEW b, NEW acc
    PROVE  Passed(<<a, b>>, acc) = PassOn(a, PassOn(b, acc))
<1> DEFINE w == <<a, b>>
<1>1. DOMAIN w = {1, 2} /\ w[1] = a /\ w[2] = b /\ {1, 2} \in SUBSET {1, 2, 3}
  OBVIOUS
<1> DEFINE D == {1, 2}
<1>0. DOMAIN w = D /\ D \in SUBSET {1, 2, 3}
  BY <1>1
<1> HIDE DEF w, D
<1>2. PICK g : /\ Passed(w, acc) = g[D] /\ g[{}] = acc
               /\ \A I \in SUBSET D : \A i \in I :
                     (\A j \in I : i <= j) => g[I] = PassOn(w[i], g[I \ {i}])
  BY ONLY <1>0, FoldRightIs
<1>3. {1, 2} \in SUBSET {1, 2} /\ 1 \in {1, 2} /\ \A j \in {1, 2} : 1 <= j
  OBVIOUS
<1>4. {2} \in SUBSET {1, 2} /\ 2 \in {2} /\ \A j \in {2} : 2 <= j
  OBVIOUS
<1>5. g[{1, 2}] = PassOn(w[1], g[{1, 2} \ {1}])
  BY <1>2, <1>3 DEF D
<1>6. g[{2}] = PassOn(w[2], g[{2} \ {2}])
  BY <1>2, <1>4 DEF D
<1>7. {1, 2} \ {1} = {2} /\ {2} \ {2} = {}
  OBVIOUS
<1>8. Passed(w, acc) = PassOn(a, PassOn(b, acc))
  BY <1>1, <1>2, <1>5, <1>6, <1>7 DEF D
<1> QED
  BY <1>8 DEF w

\* Through three.
LEMMA FoldThree ==
    ASSUME NEW a, NEW b, NEW c, NEW acc
    PROVE  Passed(<<a, b, c>>, acc) = PassOn(a, PassOn(b, PassOn(c, acc)))
<1> DEFINE w == <<a, b, c>>
<1>1. DOMAIN w = {1, 2, 3} /\ w[1] = a /\ w[2] = b /\ w[3] = c
  OBVIOUS
<1>2. {1, 2, 3} \in SUBSET {1, 2, 3}
  OBVIOUS
<1> DEFINE D == {1, 2, 3}
<1>0. DOMAIN w = D /\ D \in SUBSET {1, 2, 3}
  BY <1>1
<1> HIDE DEF w, D
<1>3. PICK g : /\ Passed(w, acc) = g[D] /\ g[{}] = acc
               /\ \A I \in SUBSET D : \A i \in I :
                     (\A j \in I : i <= j) => g[I] = PassOn(w[i], g[I \ {i}])
  BY ONLY <1>0, FoldRightIs
<1>4. 1 \in {1, 2, 3} /\ \A j \in {1, 2, 3} : 1 <= j
  OBVIOUS
<1>5. {2, 3} \in SUBSET {1, 2, 3} /\ 2 \in {2, 3} /\ \A j \in {2, 3} : 2 <= j
  OBVIOUS
<1>6. {3} \in SUBSET {1, 2, 3} /\ 3 \in {3} /\ \A j \in {3} : 3 <= j
  OBVIOUS
<1>7. g[{1, 2, 3}] = PassOn(w[1], g[{1, 2, 3} \ {1}])
  BY <1>3, <1>4 DEF D
<1>8. g[{2, 3}] = PassOn(w[2], g[{2, 3} \ {2}])
  BY <1>3, <1>5 DEF D
<1>9. g[{3}] = PassOn(w[3], g[{3} \ {3}])
  BY <1>3, <1>6 DEF D
<1>10. {1, 2, 3} \ {1} = {2, 3} /\ {2, 3} \ {2} = {3} /\ {3} \ {3} = {}
  OBVIOUS
<1>11. Passed(w, acc) = PassOn(a, PassOn(b, PassOn(c, acc)))
  BY <1>1, <1>3, <1>7, <1>8, <1>9, <1>10 DEF D
<1> QED
  BY <1>11 DEF w

\* The stacks there can be.
LEMMA StackIs ==
    ASSUME NEW W
    PROVE  /\ "log" \notin W /\ "sign" \notin W /\ "zip" \notin W => StackOf(W) = <<>>
           /\ "log" \in W =>
                 /\ "sign" \notin W /\ "zip" \notin W => StackOf(W) = <<"log">>
                 /\ "sign" \in W /\ "zip" \notin W => StackOf(W) = <<"log", "sign">>
                 /\ "sign" \notin W /\ "zip" \in W => StackOf(W) = <<"log", "zip">>
                 /\ "sign" \in W /\ "zip" \in W => StackOf(W) = <<"log", "sign", "zip">>
<1>1. /\ <<"log">> \o <<"sign">> = <<"log", "sign">>
      /\ <<"log">> \o <<"zip">> = <<"log", "zip">>
  BY ONLY JoinTwo
<1>2. <<"log", "sign">> \o <<"zip">> = <<"log", "sign", "zip">>
  BY ONLY JoinThree
<1>3. /\ <<>> \o <<>> = <<>>
      /\ \A a : <<a>> \o <<>> = <<a>>
      /\ \A a, b : <<a, b>> \o <<>> = <<a, b>>
  OBVIOUS
<1> QED
  BY <1>1, <1>2, <1>3 DEF StackOf

\* The writers of a set are in its stack.
LEMMA StackHas ==
    ASSUME NEW W, "log" \in W
    PROVE  /\ Contains(StackOf(W), "log")
           /\ Contains(StackOf(W), "sign") <=> "sign" \in W
<1>1. ASSUME NEW x
      PROVE  /\ Contains(<<"log">>, x) <=> x = "log"
             /\ Contains(<<"log", "sign">>, x) <=> x \in {"log", "sign"}
             /\ Contains(<<"log", "zip">>, x) <=> x \in {"log", "zip"}
             /\ Contains(<<"log", "sign", "zip">>, x) <=> x \in {"log", "sign", "zip"}
  BY DEF Contains
<1> QED
  BY <1>1, StackIs

\* What the compressor hands on, if there is one.
Zipped(W, a, chunks) ==
    IF "zip" \in W THEN PassOn("zip", [answer |-> a, chunks |-> chunks])
                   ELSE [answer |-> a, chunks |-> chunks]

\* What becomes of what it hands on: it is held back, or it leaves.
HandedOn(b, W, acc) ==
    /\ "sign" \in W => b = [acc.answer EXCEPT !.buffer = @ \o acc.chunks]
    /\ "sign" \notin W => b = Leave(acc.answer, acc.chunks)

\* What is written to a stack: what the compressor makes of it, signed.
LEMMA WriteAllIs ==
    ASSUME NEW W, "log" \in W, NEW a, NEW chunks, NEW acc, acc = Zipped(W, a, chunks),
           NEW b, b = WriteAll(a, StackOf(W), chunks)
    PROVE  HandedOn(b, W, acc)
<1> DEFINE x   == [answer |-> a, chunks |-> chunks]
           w   == StackOf(W)
           end == Passed(w, x)
<1>1. \A y : PassOn("log", y) = y
  BY DEF PassOn
<1>2. \A y : PassOn("sign", y) =
                [answer |-> [y.answer EXCEPT !.buffer = @ \o y.chunks], chunks |-> <<>>]
  BY DEF PassOn
<1>3. acc = IF "zip" \in W THEN PassOn("zip", x) ELSE x
  BY DEF Zipped
<1>4. Contains(w, "sign") <=> "sign" \in W
  BY StackHas
<1>5. end = IF "sign" \in W THEN PassOn("sign", acc) ELSE acc
  <2>1. /\ Passed(<<"log">>, x) = x
        /\ Passed(<<"log", "sign">>, x) = PassOn("sign", x)
        /\ Passed(<<"log", "zip">>, x) = PassOn("zip", x)
        /\ Passed(<<"log", "sign", "zip">>, x) = PassOn("sign", PassOn("zip", x))
    <3> HIDE DEF x
    <3>1. Passed(<<"log">>, x) = PassOn("log", x)
      BY ONLY FoldOne
    <3>2. /\ Passed(<<"log", "sign">>, x) = PassOn("log", PassOn("sign", x))
          /\ Passed(<<"log", "zip">>, x) = PassOn("log", PassOn("zip", x))
      BY ONLY FoldTwo
    <3>3. Passed(<<"log", "sign", "zip">>, x)
             = PassOn("log", PassOn("sign", PassOn("zip", x)))
      BY ONLY FoldThree
    <3> QED
      BY <1>1, <3>1, <3>2, <3>3
  <2> HIDE DEF x
  <2> QED
    BY <1>3, <2>1, StackIs
<1> HIDE DEF w
<1>6. WriteAll(a, w, chunks) =
         IF "sign" \in W THEN end.answer ELSE Leave(end.answer, end.chunks)
  BY <1>4 DEF WriteAll, Passed
<1> HIDE DEF end
<1>7. CASE "sign" \in W
  <2> DEFINE y == [answer |-> [acc.answer EXCEPT !.buffer = @ \o acc.chunks], chunks |-> <<>>]
  <2>1. end = y
    BY <1>2, <1>5, <1>7
  <2>2. y.answer = [acc.answer EXCEPT !.buffer = @ \o acc.chunks]
    OBVIOUS
  <2> HIDE DEF y
  <2> QED
    BY <1>6, <1>7, <2>1, <2>2 DEF w, HandedOn
<1>8. CASE "sign" \notin W
  BY <1>5, <1>6, <1>8 DEF w, HandedOn
<1> QED
  BY <1>7, <1>8

----------------------------------------------------------------------------
(* What is written of an answer.                                           *)

\* The fields of an answer.
Are(a, header, status, sentWith, body, buffer, zip, logged) ==
    /\ IsAnswer(a)
    /\ a.header = header /\ a.status = status /\ a.sent = sentWith
    /\ a.body = body /\ a.buffer = buffer /\ a.zip = zip /\ a.logged = logged

IsHeader(h) == h = Header(h.type, h.encoding, h.sum)

\* The fields of an answer that is put together.
LEMMA Made ==
    ASSUME NEW header, IsHeader(header), NEW status, NEW sentWith, NEW body, NEW buffer,
           NEW zip, NEW logged
    PROVE  Are(MadeOf(header, status, sentWith, body, buffer, zip, logged),
               header, status, sentWith, body, buffer, zip, logged)
<1> DEFINE b == MadeOf(header, status, sentWith, body, buffer, zip, logged)
<1>1. /\ b.header = header /\ b.status = status /\ b.sent = sentWith /\ b.body = body
      /\ b.buffer = buffer /\ b.zip = zip /\ b.logged = logged
  BY DEF MadeOf
<1>2. b = MadeOf(header, status, sentWith, body, buffer, zip, logged)
  OBVIOUS
<1> HIDE DEF b
<1>3. IsAnswer(b)
  BY <1>1, <1>2 DEF IsAnswer, IsHeader
<1> QED
  BY <1>1, <1>3 DEF b, Are

\* The fields of a header that is put together.
LEMMA HeaderIs ==
    ASSUME NEW type, NEW encoding, NEW sum
    PROVE  LET h == Header(type, encoding, sum)
           IN  IsHeader(h) /\ h.type = type /\ h.encoding = encoding /\ h.sum = sum
  BY DEF Header, IsHeader

\* An answer is put together of its fields.
LEMMA AnswerIs ==
    ASSUME NEW a, IsAnswer(a)
    PROVE  /\ a = MadeOf(a.header, a.status, a.sent, a.body, a.buffer, a.zip, a.logged)
           /\ IsHeader(a.header)
<1> DEFINE h == Header(a.header.type, a.header.encoding, a.header.sum)
<1>1. a = MadeOf(h, a.status, a.sent, a.body, a.buffer, a.zip, a.logged)
  BY DEF IsAnswer
<1>2. a.header = h
  BY <1>1 DEF MadeOf
<1> QED
  BY <1>1, <1>2 DEF IsHeader

\* A record changed in one field.
LEMMA Typed ==
    ASSUME NEW a, IsAnswer(a), NEW x
    PROVE  Are([a EXCEPT !.header.type = x], Header(x, a.header.encoding, a.header.sum),
               a.status, a.sent, a.body, a.buffer, a.zip, a.logged)
<1> DEFINE h == Header(x, a.header.encoding, a.header.sum)
<1>1. /\ a = MadeOf(a.header, a.status, a.sent, a.body, a.buffer, a.zip, a.logged)
      /\ IsHeader(a.header)
  BY AnswerIs
<1>2. [a.header EXCEPT !.type = x] = h
  BY ONLY <1>1 DEF IsHeader, Header
<1>3. [a EXCEPT !.header.type = x] = [a EXCEPT !.header = [a.header EXCEPT !.type = x]]
  OBVIOUS
<1>4. IsHeader(h)
  BY ONLY HeaderIs
<1> HIDE DEF h
<1>5. [a EXCEPT !.header.type = x]
         = MadeOf(h, a.status, a.sent, a.body, a.buffer, a.zip, a.logged)
  BY ONLY <1>1, <1>2, <1>3 DEF MadeOf
<1>6. Are([a EXCEPT !.header.type = x], h, a.status, a.sent, a.body, a.buffer, a.zip, a.logged)
  BY ONLY <1>4, <1>5, Made
<1> QED
  BY ONLY <1>6 DEF h

\* Each of the fields set, and what the others are then.
LEMMA Encoded ==
    ASSUME NEW a, IsAnswer(a), NEW x
    PROVE  Are([a EXCEPT !.header.encoding = x], Header(a.header.type, x, a.header.sum),
               a.status, a.sent, a.body, a.buffer, a.zip, a.logged)
<1> DEFINE h == Header(a.header.type, x, a.header.sum)
<1>1. /\ a = MadeOf(a.header, a.status, a.sent, a.body, a.buffer, a.zip, a.logged)
      /\ IsHeader(a.header)
  BY AnswerIs
<1>2. [a.header EXCEPT !.encoding = x] = h
  BY ONLY <1>1 DEF IsHeader, Header
<1>3. [a EXCEPT !.header.encoding = x] = [a EXCEPT !.header = [a.header EXCEPT !.encoding = x]]
  OBVIOUS
<1>4. IsHeader(h)
  BY ONLY HeaderIs
<1> HIDE DEF h
<1>5. [a EXCEPT !.header.encoding = x]
         = MadeOf(h, a.status, a.sent, a.body, a.buffer, a.zip, a.logged)
  BY ONLY <1>1, <1>2, <1>3 DEF MadeOf
<1>6. Are([a EXCEPT !.header.encoding = x], h,
          a.status, a.sent, a.body, a.buffer, a.zip, a.logged)
  BY ONLY <1>4, <1>5, Made
<1> QED
  BY ONLY <1>6 DEF h

\* The signature.
LEMMA Summed ==
    ASSUME NEW a, IsAnswer(a), NEW x
    PROVE  Are([a EXCEPT !.header.sum = x], Header(a.header.type, a.header.encoding, x),
               a.status, a.sent, a.body, a.buffer, a.zip, a.logged)
<1> DEFINE h == Header(a.header.type, a.header.encoding, x)
<1>1. /\ a = MadeOf(a.header, a.status, a.sent, a.body, a.buffer, a.zip, a.logged)
      /\ IsHeader(a.header)
  BY AnswerIs
<1>2. [a.header EXCEPT !.sum = x] = h
  BY ONLY <1>1 DEF IsHeader, Header
<1>3. [a EXCEPT !.header.sum = x] = [a EXCEPT !.header = [a.header EXCEPT !.sum = x]]
  OBVIOUS
<1>4. IsHeader(h)
  BY ONLY HeaderIs
<1> HIDE DEF h
<1>5. [a EXCEPT !.header.sum = x] = MadeOf(h, a.status, a.sent, a.body, a.buffer, a.zip, a.logged)
  BY ONLY <1>1, <1>2, <1>3 DEF MadeOf
<1>6. Are([a EXCEPT !.header.sum = x], h, a.status, a.sent, a.body, a.buffer, a.zip, a.logged)
  BY ONLY <1>4, <1>5, Made
<1> QED
  BY ONLY <1>6 DEF h

\* The status.
LEMMA WithStatus ==
    ASSUME NEW a, IsAnswer(a), NEW x
    PROVE  Are([a EXCEPT !.status = x], a.header, x, a.sent, a.body, a.buffer, a.zip, a.logged)
<1>1. /\ a = MadeOf(a.header, a.status, a.sent, a.body, a.buffer, a.zip, a.logged)
      /\ IsHeader(a.header)
  BY AnswerIs
<1>2. [a EXCEPT !.status = x] = MadeOf(a.header, x, a.sent, a.body, a.buffer, a.zip, a.logged)
  BY ONLY <1>1 DEF MadeOf
<1> QED
  BY ONLY <1>1, <1>2, Made

\* The header that is sent.
LEMMA SentWith ==
    ASSUME NEW a, IsAnswer(a), NEW x
    PROVE  Are([a EXCEPT !.sent = x], a.header, a.status, x, a.body, a.buffer, a.zip, a.logged)
<1>1. /\ a = MadeOf(a.header, a.status, a.sent, a.body, a.buffer, a.zip, a.logged)
      /\ IsHeader(a.header)
  BY AnswerIs
<1>2. [a EXCEPT !.sent = x] = MadeOf(a.header, a.status, x, a.body, a.buffer, a.zip, a.logged)
  BY ONLY <1>1 DEF MadeOf
<1> QED
  BY ONLY <1>1, <1>2, Made

\* What has left to the client.
LEMMA LeftWith ==
    ASSUME NEW a, IsAnswer(a), NEW x
    PROVE  Are([a EXCEPT !.body = x], a.header, a.status, a.sent, x, a.buffer, a.zip, a.logged)
<1>1. /\ a = MadeOf(a.header, a.status, a.sent, a.body, a.buffer, a.zip, a.logged)
      /\ IsHeader(a.header)
  BY AnswerIs
<1>2. [a EXCEPT !.body = x] = MadeOf(a.header, a.status, a.sent, x, a.buffer, a.zip, a.logged)
  BY ONLY <1>1 DEF MadeOf
<1> QED
  BY ONLY <1>1, <1>2, Made

\* What is held back for the signature.
LEMMA Kept ==
    ASSUME NEW a, IsAnswer(a), NEW x
    PROVE  Are([a EXCEPT !.buffer = x], a.header, a.status, a.sent, a.body, x, a.zip, a.logged)
<1>1. /\ a = MadeOf(a.header, a.status, a.sent, a.body, a.buffer, a.zip, a.logged)
      /\ IsHeader(a.header)
  BY AnswerIs
<1>2. [a EXCEPT !.buffer = x] = MadeOf(a.header, a.status, a.sent, a.body, x, a.zip, a.logged)
  BY ONLY <1>1 DEF MadeOf
<1> QED
  BY ONLY <1>1, <1>2, Made

\* Whether it is compressed.
LEMMA Zips ==
    ASSUME NEW a, IsAnswer(a), NEW x
    PROVE  Are([a EXCEPT !.zip = x], a.header, a.status, a.sent, a.body, a.buffer, x, a.logged)
<1>1. /\ a = MadeOf(a.header, a.status, a.sent, a.body, a.buffer, a.zip, a.logged)
      /\ IsHeader(a.header)
  BY AnswerIs
<1>2. [a EXCEPT !.zip = x] = MadeOf(a.header, a.status, a.sent, a.body, a.buffer, x, a.logged)
  BY ONLY <1>1 DEF MadeOf
<1> QED
  BY ONLY <1>1, <1>2, Made

\* What the summary logs.
LEMMA Logged ==
    ASSUME NEW a, IsAnswer(a), NEW x
    PROVE  Are([a EXCEPT !.logged = x], a.header, a.status, a.sent, a.body, a.buffer, a.zip, x)
<1>1. /\ a = MadeOf(a.header, a.status, a.sent, a.body, a.buffer, a.zip, a.logged)
      /\ IsHeader(a.header)
  BY AnswerIs
<1>2. [a EXCEPT !.logged = x] = MadeOf(a.header, a.status, a.sent, a.body, a.buffer, a.zip, x)
  BY ONLY <1>1 DEF MadeOf
<1> QED
  BY ONLY <1>1, <1>2, Made

\* An answer of which nothing but the status may have been written.
Fresh(a) ==
    /\ IsAnswer(a)
    /\ a.status \in {0, 200, 400, 404, 500} /\ a.logged = Code(a)
    /\ a.zip = "open" /\ a.body = <<>> /\ a.buffer = <<>>
    /\ a.header.encoding = "" /\ a.header.sum = <<>> /\ a.sent.sum = <<>>
    /\ a.status # 0 => /\ a.sent.encoding = ""
                       /\ a.header.type \notin {"application/json", "text/html"}

\* Nothing has been written of the answer a request begins with.
LEMMA FreshAnswer == Fresh(NoAnswer)
  BY DEF Fresh, IsAnswer, MadeOf, Header, NoAnswer, NoHeader, Code

\* Setting the type of a fresh answer leaves it fresh.
LEMMA FreshTyped ==
    ASSUME NEW a, Fresh(a), a.status = 0, NEW type
    PROVE  /\ Fresh(SetType(a, type)) /\ SetType(a, type).status = 0
           /\ SetType(a, type).header.type = type
<1> DEFINE b == SetType(a, type)
<1>0. IsAnswer(a)
  BY DEF Fresh
<1>1. Are(b, Header(type, a.header.encoding, a.header.sum), a.status, a.sent,
          a.body, a.buffer, a.zip, a.logged)
  BY ONLY <1>0, Typed DEF SetType
<1> HIDE DEF b
<1>2. /\ b.header.type = type /\ b.header.encoding = a.header.encoding
      /\ b.header.sum = a.header.sum
  BY ONLY <1>1, HeaderIs DEF Are
<1>3. /\ a.logged = Code(a) /\ a.zip = "open" /\ a.body = <<>> /\ a.buffer = <<>>
      /\ a.header.encoding = "" /\ a.header.sum = <<>> /\ a.sent.sum = <<>>
  BY ONLY Fresh(a) DEF Fresh
<1>4. a.logged = 200
  BY ONLY <1>3, a.status = 0 DEF Code
<1>5. IsAnswer(b) /\ b.status = 0 /\ b.logged = 200 /\ b.body = <<>> /\ b.buffer = <<>>
      /\ b.zip = "open" /\ b.sent.sum = <<>>
  BY ONLY <1>1, <1>3, <1>4, a.status = 0, ZenonT(60) DEF Are
<1>6. Fresh(b) /\ b.status = 0 /\ b.header.type = type
  BY ONLY <1>2, <1>3, <1>5 DEF Fresh, Code
<1> QED
  BY <1>6 DEF b

\* WriteHeader counts the first time; the summary logs the last.
LEMMA WriteHeaderIs ==
    ASSUME NEW a, IsAnswer(a), NEW w, NEW code
    PROVE  Are(WriteHeader(a, w, code), a.header, IF a.status = 0 THEN code ELSE a.status,
               IF a.status = 0 THEN a.header ELSE a.sent, a.body, a.buffer, a.zip,
               IF Contains(w, "log") THEN code ELSE a.logged)
<1> DEFINE c == [a EXCEPT !.status = code]
           d == [c EXCEPT !.sent = a.header]
           b == IF a.status = 0 THEN d ELSE a
<1>1. Are(a, a.header, a.status, a.sent, a.body, a.buffer, a.zip, a.logged)
  BY DEF Are
<1>2. Are(c, a.header, code, a.sent, a.body, a.buffer, a.zip, a.logged)
  BY WithStatus
<1>3. Are(d, a.header, code, a.header, a.body, a.buffer, a.zip, a.logged)
  <2> HIDE DEF c
  <2>1. Are(d, c.header, c.status, a.header, c.body, c.buffer, c.zip, c.logged)
    BY <1>2, SentWith DEF Are
  <2> QED
    BY <1>2, <2>1 DEF Are
<1>4. [a EXCEPT !.status = code, !.sent = a.header] = d
  OBVIOUS
<1> HIDE DEF c, d
<1>5. Are(b, a.header, IF a.status = 0 THEN code ELSE a.status,
          IF a.status = 0 THEN a.header ELSE a.sent, a.body, a.buffer, a.zip, a.logged)
  BY <1>1, <1>3
<1>6. WriteHeader(a, w, code) = IF Contains(w, "log") THEN [b EXCEPT !.logged = code] ELSE b
  BY <1>4 DEF WriteHeader
<1> HIDE DEF b
<1>7. Are([b EXCEPT !.logged = code], b.header, b.status, b.sent, b.body, b.buffer, b.zip, code)
  BY <1>5, Logged DEF Are
<1>8. CASE Contains(w, "log")
  BY <1>5, <1>6, <1>7, <1>8 DEF Are
<1>9. CASE ~Contains(w, "log")
  BY <1>5, <1>6, <1>9 DEF Are
<1> QED
  BY <1>8, <1>9

\* An early status of an answer that no compressor would take.
LEMMA FreshHeaded ==
    ASSUME NEW a, Fresh(a), a.status = 0, NEW w, Contains(w, "log"),
           NEW code \in {200, 400, 404, 500},
           a.header.type \notin {"application/json", "text/html"}
    PROVE  /\ Fresh(WriteHeader(a, w, code))
           /\ WriteHeader(a, w, code).status = code
<1> DEFINE b == WriteHeader(a, w, code)
<1>1. Are(b, a.header, code, a.header, a.body, a.buffer, a.zip, code)
  <2>1. IsAnswer(a)
    BY DEF Fresh
  <2> QED
    BY <2>1, WriteHeaderIs
<1> HIDE DEF b
<1>2. /\ a.zip = "open" /\ a.body = <<>> /\ a.buffer = <<>>
      /\ a.header.encoding = "" /\ a.header.sum = <<>>
  BY ONLY Fresh(a), ZenonT(60) DEF Fresh
<1>3. IsAnswer(b) /\ b.header = a.header /\ b.status = code /\ b.sent = a.header
      /\ b.body = <<>> /\ b.buffer = <<>> /\ b.zip = "open" /\ b.logged = code
  BY ONLY <1>1, <1>2 DEF Are
<1>4. Code(b) = code
  BY <1>3 DEF Code
<1>a. b.status \in {0, 200, 400, 404, 500} /\ b.logged = Code(b)
  BY ONLY <1>3, <1>4, code \in {200, 400, 404, 500}
<1>b. b.header.encoding = "" /\ b.header.sum = <<>> /\ b.sent.sum = <<>> /\ b.sent.encoding = ""
  BY ONLY <1>2, <1>3
<1>c. b.header.type \notin {"application/json", "text/html"}
  BY ONLY <1>3, a.header.type \notin {"application/json", "text/html"}
<1>5. Fresh(b) /\ b.status = code
  BY ONLY <1>3, <1>a, <1>b, <1>c, ZenonT(60) DEF Fresh
<1> QED
  BY <1>5 DEF b

\* What leaves to the client sends the header with it, if none was sent.
LEMMA LeaveIs ==
    ASSUME NEW a, IsAnswer(a), NEW chunks
    PROVE  Are(Leave(a, chunks), a.header, Code(a), IF a.status = 0 THEN a.header ELSE a.sent,
               a.body \o chunks, a.buffer, a.zip, a.logged)
<1> DEFINE c == WriteHeader(a, <<>>, 200)
<1>1. ~Contains(<<>>, "log")
  BY DEF Contains
<1>2. Are(c, a.header, Code(a), IF a.status = 0 THEN a.header ELSE a.sent,
          a.body, a.buffer, a.zip, a.logged)
  BY <1>1, WriteHeaderIs DEF Code
<1>3. Leave(a, chunks) = [c EXCEPT !.body = c.body \o chunks]
  BY DEF Leave
<1> HIDE DEF c
<1>4. Are([c EXCEPT !.body = c.body \o chunks], c.header, c.status, c.sent, c.body \o chunks,
          c.buffer, c.zip, c.logged)
  BY <1>2, LeftWith DEF Are
<1> QED
  BY <1>2, <1>3, <1>4 DEF Are

\* What the compressor decides with the first chunk, by the type of the body.
LEMMA DecideIs ==
    ASSUME NEW a, IsAnswer(a), a.zip = "open"
    PROVE  /\ a.header.type \in {"application/json", "text/html"} =>
                 Are(Decide(a), Header(a.header.type, "gzip", a.header.sum),
                     a.status, a.sent, a.body, a.buffer, "yes", a.logged)
           /\ a.header.type \notin {"application/json", "text/html"} =>
                 Are(Decide(a), a.header, a.status, a.sent, a.body, a.buffer, "no", a.logged)
<1>1. CASE a.header.type \in {"application/json", "text/html"}
  <2> DEFINE c == [a EXCEPT !.zip = "yes"]
             d == [c EXCEPT !.header.encoding = "gzip"]
  <2>1. Are(c, a.header, a.status, a.sent, a.body, a.buffer, "yes", a.logged)
    BY Zips
  <2>2. [a EXCEPT !.zip = "yes", !.header.encoding = "gzip"] = d
    OBVIOUS
  <2>3. Decide(a) = d
    BY <1>1, <2>2 DEF Decide
  <2> HIDE DEF c
  <2>4. Are(d, Header(c.header.type, "gzip", c.header.sum), c.status, c.sent, c.body,
            c.buffer, c.zip, c.logged)
    BY <2>1, Encoded DEF Are
  <2> HIDE DEF d
  <2> QED
    BY <1>1, <2>1, <2>3, <2>4 DEF Are
<1>2. CASE a.header.type \notin {"application/json", "text/html"}
  <2>1. Decide(a) = [a EXCEPT !.zip = "no"]
    BY <1>2 DEF Decide
  <2> QED
    BY <1>2, <2>1, Zips
<1> QED
  BY <1>1, <1>2

\* A body of one chunk.
LEMMA OneChunk ==
    ASSUME NEW what, NEW doc
    PROVE  LET b == <<Chunk(what, doc)>>
           IN  b # <<>> /\ b[1].doc = doc /\ <<>> \o b = b /\ b \o <<>> = b
  BY DEF Chunk

\* What becomes of an answer when its first chunks have gone through the compressor.
FirstOf(W, a, c, chunks) ==
    /\ IsAnswer(c) /\ c.status = a.status /\ c.logged = a.logged /\ c.sent = a.sent
    /\ c.body = <<>> /\ c.buffer = <<>> /\ c.header.sum = <<>>
    /\ c.zip \in {"open", "yes", "no"} /\ (c.zip = "yes" => "zip" \in W)
    /\ c.status # 0 => c.sent.encoding = c.header.encoding
    /\ Written(c, chunks, W)
    /\ <<>> \o chunks = chunks

\* The first write of a fresh answer decides whether it is compressed.
LEMMA ZippedFresh ==
    ASSUME NEW W, NEW a, Fresh(a), NEW doc,
           NEW acc, acc = Zipped(W, a, <<Chunk("plain", doc)>>)
    PROVE  FirstOf(W, a, acc.answer, acc.chunks)
<1> DEFINE chunks == <<Chunk("plain", doc)>>
           x == [answer |-> a, chunks |-> chunks]
           b == Decide(a)
           y == [answer |-> b,
                 chunks |-> IF b.zip = "yes"
                            THEN [i \in DOMAIN chunks |-> [chunks[i] EXCEPT !.what = "deflated"]]
                            ELSE chunks]
           c == acc.answer
<1>1. /\ IsAnswer(a) /\ a.zip = "open" /\ a.body = <<>> /\ a.buffer = <<>>
      /\ a.header.encoding = "" /\ a.header.sum = <<>>
      /\ a.status # 0 => /\ a.sent.encoding = ""
                         /\ a.header.type \notin {"application/json", "text/html"}
  BY DEF Fresh
<1>2. chunks # <<GzipEnd>>
  BY DEF GzipEnd, Chunk
<1>3. PassOn("zip", x) = y
  BY <1>2 DEF PassOn
<1>4. [i \in DOMAIN chunks |-> [chunks[i] EXCEPT !.what = "deflated"]]
         = <<Chunk("deflated", doc)>>
  BY DEF Chunk
<1>5. x.answer = a /\ x.chunks = <<Chunk("plain", doc)>>
  OBVIOUS
<1>6. /\ y.answer = b
      /\ y.chunks = IF b.zip = "yes" THEN <<Chunk("deflated", doc)>> ELSE <<Chunk("plain", doc)>>
  BY <1>4
<1>7. acc = IF "zip" \in W THEN y ELSE x
  BY <1>3 DEF Zipped
<1> HIDE DEF x, y, chunks
<1>8. CASE "zip" \notin W
  <2>1. c = a /\ acc.chunks = <<Chunk("plain", doc)>>
    BY <1>5, <1>7, <1>8
  <2>2. Written(c, acc.chunks, W)
    <3>1. acc.chunks = <<Chunk("plain", acc.chunks[1].doc)>> /\ acc.chunks # <<>>
      BY ONLY <2>1, OneChunk
    <3>2. c.header.encoding = "" /\ c.zip # "yes"
      BY ONLY <1>1, <2>1
    <3> HIDE DEF c
    <3> QED
      BY ONLY <3>1, <3>2 DEF Written
  <2>3. <<>> \o acc.chunks = acc.chunks
    BY ONLY <2>1, OneChunk
  <2>4. /\ c.zip \in {"open", "yes", "no"}
        /\ c.status # 0 => c.sent.encoding = c.header.encoding
    BY ONLY <1>1, <2>1
  <2> QED
    BY ONLY <1>1, <1>8, <2>1, <2>2, <2>3, <2>4 DEF FirstOf
<1>9. CASE "zip" \in W /\ a.header.type \notin {"application/json", "text/html"}
  <2>1. Are(b, a.header, a.status, a.sent, a.body, a.buffer, "no", a.logged)
    BY <1>1, <1>9, DecideIs
  <2> HIDE DEF b
  <2>2. c = b /\ acc.chunks = <<Chunk("plain", doc)>>
    BY <1>6, <1>7, <1>9, <2>1 DEF Are
  <2>3. Written(c, acc.chunks, W)
    <3>1. acc.chunks = <<Chunk("plain", acc.chunks[1].doc)>> /\ acc.chunks # <<>>
      BY ONLY <2>2, OneChunk
    <3>2. c.header.encoding = "" /\ c.zip # "yes"
      BY ONLY <1>1, <2>1, <2>2 DEF Are
    <3> HIDE DEF c
    <3> QED
      BY ONLY <3>1, <3>2 DEF Written
  <2>4. <<>> \o acc.chunks = acc.chunks
    BY ONLY <2>2, OneChunk
  <2>5. /\ c.zip \in {"open", "yes", "no"} /\ c.zip # "yes"
        /\ c.status # 0 => c.sent.encoding = c.header.encoding
        /\ IsAnswer(c) /\ c.status = a.status /\ c.logged = a.logged /\ c.sent = a.sent
        /\ c.body = <<>> /\ c.buffer = <<>> /\ c.header.sum = <<>>
    BY ONLY <1>1, <2>1, <2>2 DEF Are
  <2> QED
    BY ONLY <2>3, <2>4, <2>5 DEF FirstOf
<1>10. CASE "zip" \in W /\ a.header.type \in {"application/json", "text/html"}
  <2> DEFINE h == Header(a.header.type, "gzip", a.header.sum)
  <2>1. Are(b, h, a.status, a.sent, a.body, a.buffer, "yes", a.logged)
    BY <1>1, <1>10, DecideIs
  <2>2. h.encoding = "gzip" /\ h.sum = <<>>
    <3>1. h.encoding = "gzip" /\ h.sum = a.header.sum
      BY ONLY HeaderIs
    <3> HIDE DEF h
    <3> QED
      BY ONLY <1>1, <3>1
  <2> HIDE DEF b, h
  <2>3. c = b /\ acc.chunks = <<Chunk("deflated", doc)>>
    BY <1>6, <1>7, <1>10, <2>1 DEF Are
  <2>4. Written(c, acc.chunks, W)
    <3>1. acc.chunks = <<Chunk("deflated", acc.chunks[1].doc)>> /\ acc.chunks # <<>>
      BY <2>3, OneChunk
    <3>2. acc.chunks \o <<>> = acc.chunks
      BY <2>3, OneChunk
    <3> HIDE DEF c
    <3> QED
      BY <1>10, <2>1, <2>2, <2>3, <3>1, <3>2 DEF Are, Written
  <2>5. a.status = 0
    BY <1>1, <1>10
  <2>6. <<>> \o acc.chunks = acc.chunks
    BY ONLY <2>3, OneChunk
  <2>7. /\ c.zip \in {"open", "yes", "no"} /\ "zip" \in W /\ c.status = 0
        /\ IsAnswer(c) /\ c.status = a.status /\ c.logged = a.logged /\ c.sent = a.sent
        /\ c.body = <<>> /\ c.buffer = <<>> /\ c.header.sum = <<>>
    BY ONLY <1>1, <1>10, <2>1, <2>2, <2>3, <2>5 DEF Are
  <2> QED
    BY ONLY <2>4, <2>6, <2>7 DEF FirstOf
<1> QED
  BY <1>8, <1>9, <1>10

\* An answer as a handler or a refusal leaves it: what the client will see, and
\* the status line that has left already, if any, when the body is held back.
Replied(b, W, code, early) ==
    /\ Shaped(b, W)
    /\ b.header.sum = <<>> /\ b.sent.sum = <<>> /\ Code(b) = code
    /\ b.zip = "yes" => "zip" \in W
    /\ b.status = early \/ ("sign" \notin W /\ b.status = code)

\* A write of a handler, or the message of an error.
LEMMA WriteFresh ==
    ASSUME NEW W, "log" \in W, NEW a, Fresh(a), NEW doc,
           NEW b, b = Write(a, StackOf(W), doc)
    PROVE  Replied(b, W, Code(a), a.status)
<1> DEFINE acc == Zipped(W, a, <<Chunk("plain", doc)>>)
           c   == acc.answer
<1>1. acc = Zipped(W, a, <<Chunk("plain", doc)>>)
  OBVIOUS
<1> HIDE DEF acc
<1>2. /\ "sign" \in W => b = [c EXCEPT !.buffer = c.buffer \o acc.chunks]
      /\ "sign" \notin W => b = Leave(c, acc.chunks)
  <2>1. b = WriteAll(a, StackOf(W), <<Chunk("plain", doc)>>)
    BY ONLY b = Write(a, StackOf(W), doc) DEF Write
  <2>2. HandedOn(b, W, acc)
    BY ONLY <1>1, <2>1, "log" \in W, WriteAllIs
  <2> QED
    BY ONLY <2>2 DEF HandedOn
<1>0. FirstOf(W, a, c, acc.chunks)
  BY ONLY <1>1, Fresh(a), ZippedFresh
<1>3. /\ IsAnswer(c) /\ c.status = a.status /\ c.logged = a.logged /\ c.sent = a.sent
      /\ c.body = <<>> /\ c.buffer = <<>> /\ c.header.sum = <<>>
      /\ c.zip \in {"open", "yes", "no"} /\ (c.zip = "yes" => "zip" \in W)
      /\ c.status # 0 => c.sent.encoding = c.header.encoding
      /\ Written(c, acc.chunks, W)
      /\ <<>> \o acc.chunks = acc.chunks
  BY ONLY <1>0 DEF FirstOf
<1>4. /\ a.status \in {0, 200, 400, 404, 500} /\ a.logged = Code(a) /\ a.sent.sum = <<>>
  BY ONLY Fresh(a) DEF Fresh
<1> HIDE DEF c
<1>5. /\ Code(c) = Code(a) /\ (c.status = 0 => Code(a) = 200)
      /\ (c.status # 0 => Code(a) = a.status)
  BY ONLY <1>3 DEF Code
<1>6. CASE "sign" \in W
  <2>1. b = [c EXCEPT !.buffer = acc.chunks]
    BY ONLY <1>2, <1>3, <1>6
  <2>2. Are(b, c.header, c.status, c.sent, c.body, acc.chunks, c.zip, c.logged)
    BY ONLY <1>3, <2>1, Kept
  <2>3. /\ IsAnswer(b) /\ b.header = c.header /\ b.status = a.status /\ b.sent = a.sent
        /\ b.body = <<>> /\ b.buffer = acc.chunks /\ b.zip = c.zip /\ b.logged = a.logged
    BY ONLY <1>3, <2>2 DEF Are
  <2>4. Written(b, b.buffer, W)
    BY ONLY <1>3, <2>3 DEF Written
  <2>5. Code(b) = Code(a) /\ b.logged = Code(b) /\ b.status \in {0, 200, 400, 404, 500}
    BY ONLY <1>4, <2>3 DEF Code
  <2>6. /\ b.header.sum = <<>> /\ b.sent.sum = <<>> /\ b.zip \in {"open", "yes", "no"}
        /\ b.status # 0 => b.sent.encoding = b.header.encoding
    BY ONLY <1>3, <1>4, <2>3
  <2>7. Shaped(b, W)
    BY ONLY <1>6, <2>3, <2>4, <2>5, <2>6 DEF Shaped
  <2> QED
    BY ONLY <1>3, <1>6, <2>3, <2>5, <2>6, <2>7 DEF Replied
<1>7. CASE "sign" \notin W
  <2>1. b = Leave(c, acc.chunks)
    BY ONLY <1>2, <1>7
  <2>2. Are(b, c.header, Code(c), IF c.status = 0 THEN c.header ELSE c.sent,
            c.body \o acc.chunks, c.buffer, c.zip, c.logged)
    BY ONLY <1>3, <2>1, LeaveIs
  <2>3. /\ IsAnswer(b) /\ b.header = c.header /\ b.status = Code(a)
        /\ b.sent = (IF c.status = 0 THEN c.header ELSE c.sent)
        /\ b.body = acc.chunks /\ b.buffer = <<>> /\ b.zip = c.zip /\ b.logged = a.logged
    BY ONLY <1>3, <1>5, <2>2 DEF Are
  <2>4. Written(b, b.body, W)
    BY ONLY <1>3, <2>3 DEF Written
  <2>5. Code(b) = Code(a) /\ b.logged = Code(b) /\ b.status \in {200, 400, 404, 500}
    BY ONLY <1>3, <1>4, <1>5, <2>3 DEF Code
  <2>6. /\ b.header.sum = <<>> /\ b.sent.sum = <<>> /\ b.zip \in {"open", "yes", "no"}
        /\ b.sent.encoding = b.header.encoding
    BY ONLY <1>3, <1>4, <2>3
  <2>7. b.status # 0 /\ b.status \in {0, 200, 400, 404, 500}
    BY ONLY <2>5
  <2>8. Shaped(b, W)
    BY ONLY <1>7, <2>3, <2>4, <2>5, <2>6, <2>7 DEF Shaped
  <2> QED
    BY ONLY <1>3, <1>7, <2>3, <2>5, <2>6, <2>8 DEF Replied
<1> QED
  BY ONLY <1>6, <1>7

\* An answer with an error.
LEMMA HTTPErrorIs ==
    ASSUME NEW W, "log" \in W, NEW a, Fresh(a), a.status = 0,
           NEW code \in {200, 400, 404, 500}, NEW b, b = HTTPError(a, StackOf(W), code)
    PROVE  Replied(b, W, code, code)
<1> DEFINE c == SetType(a, "text/plain")
           d == WriteHeader(c, StackOf(W), code)
<1>1. Fresh(c) /\ c.status = 0 /\ c.header.type = "text/plain"
  BY ONLY Fresh(a), a.status = 0, FreshTyped
<1>2. Contains(StackOf(W), "log")
  BY ONLY "log" \in W, StackHas
<1>3. b = Write(d, StackOf(W), ErrorDoc)
  BY DEF HTTPError, SetType
<1> HIDE DEF c
<1>4. c.header.type \notin {"application/json", "text/html"}
  BY ONLY <1>1
<1>5. Fresh(d) /\ d.status = code
  BY ONLY <1>1, <1>2, <1>4, code \in {200, 400, 404, 500}, FreshHeaded
<1> HIDE DEF d
<1>6. Replied(b, W, Code(d), d.status)
  BY ONLY <1>3, <1>5, "log" \in W, WriteFresh
<1>7. Code(d) = code
  BY ONLY <1>5, code \in {200, 400, 404, 500} DEF Code
<1> QED
  BY ONLY <1>5, <1>6, <1>7

\* A JSON answer: the status is 200 just when it can be written.
LEMMA WriteJSONIs ==
    ASSUME NEW W, "log" \in W, NEW a, Fresh(a), a.status = 0,
           NEW form, NEW metrics, NEW b, b = WriteJSON(a, StackOf(W), form, metrics)
    PROVE  /\ Writable(metrics) => Replied(b, W, 200, 0)
           /\ ~Writable(metrics) => Replied(b, W, 500, 500)
<1> DEFINE c == SetType(a, "application/json")
<1>1. Fresh(c) /\ c.status = 0
  BY ONLY Fresh(a), a.status = 0, FreshTyped
<1>2. b = IF Writable(metrics) THEN Write(c, StackOf(W), Document(form, metrics))
                               ELSE HTTPError(c, StackOf(W), 500)
  BY DEF WriteJSON
<1> HIDE DEF c
<1>3. CASE Writable(metrics)
  <2>1. b = Write(c, StackOf(W), Document(form, metrics))
    BY ONLY <1>2, <1>3
  <2>2. Replied(b, W, Code(c), c.status)
    BY ONLY <1>1, <2>1, "log" \in W, WriteFresh
  <2>3. Code(c) = 200
    BY ONLY <1>1 DEF Code
  <2> QED
    BY ONLY <1>1, <1>3, <2>2, <2>3
<1>4. CASE ~Writable(metrics)
  <2>1. b = HTTPError(c, StackOf(W), 500)
    BY ONLY <1>2, <1>4
  <2>2. Replied(b, W, 500, 500)
    BY ONLY <1>1, <2>1, "log" \in W,
            500 \in {200, 400, 404, 500}, HTTPErrorIs
  <2> QED
    BY ONLY <1>4, <2>2
<1> QED
  BY ONLY <1>3, <1>4

\* Nothing is lost of a body that is put after nothing.
LEMMA WrittenJoins ==
    ASSUME NEW a, NEW b, NEW W, Written(a, b, W)
    PROVE  <<>> \o b = b /\ b \o <<>> = b
<1>1. CASE b = <<>>
  BY ONLY <1>1
<1>2. ASSUME NEW x, b = <<x>>
      PROVE  <<>> \o b = b /\ b \o <<>> = b
  BY ONLY <1>2
<1>3. ASSUME NEW x, NEW y, b = <<x, y>>
      PROVE  <<>> \o b = b /\ b \o <<>> = b
  BY ONLY <1>3
<1>4. ASSUME NEW x PROVE <<x>> \o <<>> = <<x>> /\ <<x>> \o <<GzipEnd>> = <<x, GzipEnd>>
  BY ONLY JoinTwo
<1> QED
  BY <1>1, <1>2, <1>3, <1>4 DEF Written

\* How a body is written is told by two fields of the answer, and the compressor.
LEMMA WrittenFits ==
    ASSUME NEW a, NEW c, NEW W, Written(a, c, W), NEW b, NEW V, "zip" \notin W, "zip" \notin V,
           b.header.encoding = a.header.encoding, b.zip = a.zip
    PROVE  Written(b, c, V)
<1>1. CASE c = <<>> /\ a.header.encoding = "" /\ a.zip = "open"
  BY ONLY <1>1, b.header.encoding = a.header.encoding, b.zip = a.zip DEF Written
<1>2. CASE /\ c # <<>> /\ c = <<Chunk("plain", c[1].doc)>>
           /\ a.header.encoding = "" /\ a.zip # "yes"
  BY ONLY <1>2, b.header.encoding = a.header.encoding, b.zip = a.zip DEF Written
<1>3. CASE /\ c # <<>> /\ a.header.encoding = "gzip" /\ a.zip = "yes"
           /\ c = <<Chunk("deflated", c[1].doc)>> \o <<GzipEnd>>
  BY ONLY <1>3, b.header.encoding = a.header.encoding, b.zip = a.zip, "zip" \notin V DEF Written
<1> QED
  BY ONLY <1>1, <1>2, <1>3, Written(a, c, W), "zip" \notin W DEF Written

\* The compressor is closed: what it still holds goes after what has gone before.
LEMMA CloseKeeps ==
    ASSUME NEW W, "log" \in W, "zip" \in W, NEW V, V = W \ {"zip"},
           NEW a, Shaped(a, W), NEW b, b = Close(a, StackOf(V))
    PROVE  /\ Shaped(b, V)
           /\ b.header = a.header /\ b.status = a.status /\ b.sent = a.sent /\ b.zip = a.zip
<1>0. "log" \in V /\ "zip" \notin V /\ ("sign" \in V <=> "sign" \in W)
  OBVIOUS
<1>1. CASE a.zip # "yes"
  <2>1. b = a
    BY <1>1 DEF Close
  <2>2. \A c : Written(a, c, W) => Written(a, c, V)
    BY <1>1 DEF Written
  <2>3. Shaped(a, V)
    <3>1. CASE "sign" \in V
      BY ONLY <1>0, <2>2, <3>1, Shaped(a, W) DEF Shaped
    <3>2. CASE "sign" \notin V
      BY ONLY <1>0, <2>2, <3>2, Shaped(a, W) DEF Shaped
    <3> QED
      BY ONLY <3>1, <3>2
  <2> QED
    BY ONLY <2>1, <2>3
<1>2. CASE a.zip = "yes"
  <2> DEFINE acc == Zipped(V, a, <<GzipEnd>>)
  <2>1. b = WriteAll(a, StackOf(V), <<GzipEnd>>)
    BY <1>2 DEF Close
  <2>2. acc.answer = a /\ acc.chunks = <<GzipEnd>>
    BY <1>0 DEF Zipped
  <2>3. acc = Zipped(V, a, <<GzipEnd>>)
    OBVIOUS
  <2> HIDE DEF acc
  <2>4. HandedOn(b, V, acc)
    BY ONLY <1>0, <2>1, <2>3, WriteAllIs
  <2>5. ASSUME NEW c, Written(a, c, W)
        PROVE  /\ c # <<>> /\ a.header.encoding = "gzip"
               /\ c \o <<GzipEnd>> # <<>> /\ (c \o <<GzipEnd>>)[1].doc = c[1].doc
               /\ c \o <<GzipEnd>> = <<Chunk("deflated", c[1].doc)>> \o <<GzipEnd>>
    <3>1. /\ c # <<>> /\ a.header.encoding = "gzip"
          /\ c = <<Chunk("deflated", c[1].doc)>> \o <<>>
      BY <1>2, <2>5 DEF Written
    <3> DEFINE x == Chunk("deflated", c[1].doc)
    <3>2. <<x>> \o <<>> = <<x>> /\ <<x>> \o <<GzipEnd>> = <<x, GzipEnd>> /\ x.doc = c[1].doc
      BY JoinTwo DEF Chunk
    <3>3. c = <<x>> /\ c \o <<GzipEnd>> = <<x, GzipEnd>> /\ x = Chunk("deflated", c[1].doc)
      BY ONLY <3>1, <3>2
    <3> HIDE DEF x
    <3>4. <<x, GzipEnd>> # <<>> /\ <<x, GzipEnd>>[1] = x
      OBVIOUS
    <3> QED
      BY ONLY <3>1, <3>2, <3>3, <3>4
  <2>6. IsAnswer(a)
    BY ONLY Shaped(a, W) DEF Shaped
  <2>7. CASE "sign" \in V
    <3> DEFINE c == a.buffer \o <<GzipEnd>>
    <3>1. b = [a EXCEPT !.buffer = c]
      BY ONLY <2>2, <2>4, <2>7 DEF HandedOn
    <3>2. Are(b, a.header, a.status, a.sent, a.body, c, a.zip, a.logged)
      BY <2>6, <3>1, Kept
    <3>3. Written(a, a.buffer, W)
      BY ONLY <1>0, <2>7, Shaped(a, W) DEF Shaped
    <3>4. /\ a.header.encoding = "gzip" /\ c # <<>> /\ c[1].doc = a.buffer[1].doc
          /\ c = <<Chunk("deflated", a.buffer[1].doc)>> \o <<GzipEnd>>
      BY <2>5, <3>3
    <3> HIDE DEF c
    <3>5. /\ IsAnswer(b) /\ b.header = a.header /\ b.status = a.status /\ b.sent = a.sent
          /\ b.body = a.body /\ b.buffer = c /\ b.zip = a.zip /\ b.logged = a.logged
      BY ONLY <3>2 DEF Are
    <3>6. Written(b, b.buffer, V)
      BY ONLY <1>0, <1>2, <3>4, <3>5 DEF Written
    <3> QED
      BY ONLY <1>0, <2>7, <3>5, <3>6, Shaped(a, W) DEF Shaped, Code
  <2>8. CASE "sign" \notin V
    <3> DEFINE c == a.body \o <<GzipEnd>>
    <3>1. b = Leave(a, <<GzipEnd>>)
      BY ONLY <2>2, <2>4, <2>8 DEF HandedOn
    <3>2. Are(b, a.header, Code(a), IF a.status = 0 THEN a.header ELSE a.sent, c, a.buffer,
              a.zip, a.logged)
      BY <2>6, <3>1, LeaveIs
    <3>3. Written(a, a.body, W)
      BY ONLY <1>0, <2>8, Shaped(a, W) DEF Shaped
    <3>4. /\ a.header.encoding = "gzip" /\ c # <<>> /\ c[1].doc = a.body[1].doc
          /\ c = <<Chunk("deflated", a.body[1].doc)>> \o <<GzipEnd>> /\ a.body # <<>>
      BY <2>5, <3>3
    <3>5. a.status # 0 /\ Code(a) = a.status
      BY ONLY <3>4, Shaped(a, W) DEF Shaped, Code
    <3> HIDE DEF c
    <3>6. /\ IsAnswer(b) /\ b.header = a.header /\ b.status = a.status /\ b.sent = a.sent
          /\ b.body = c /\ b.buffer = a.buffer /\ b.zip = a.zip /\ b.logged = a.logged
      BY ONLY <3>2, <3>5 DEF Are
    <3>7. Written(b, b.body, V)
      BY ONLY <1>0, <1>2, <3>4, <3>6 DEF Written
    <3> QED
      BY ONLY <1>0, <2>8, <3>5, <3>6, <3>7, Shaped(a, W) DEF Shaped, Code
  <2> QED
    BY <2>7, <2>8
<1> QED
  BY <1>1, <1>2

\* What was held back leaves with its sum, if the header has not left before.
LEMMA SignKeeps ==
    ASSUME NEW W, "log" \in W, "sign" \in W, "zip" \notin W, NEW V, V = W \ {"sign"},
           NEW a, Shaped(a, W), NEW key, NEW b, b = Sign(a, StackOf(V), key)
    PROVE  /\ Shaped(b, V) /\ b.status = Code(a) /\ b.zip = a.zip
           /\ a.status = 0 => b.sent.sum = <<Hmac(key, b.body)>>
           /\ a.status # 0 => b.sent.sum = <<>>
<1> DEFINE h   == Header(a.header.type, a.header.encoding, <<Hmac(key, a.buffer)>>)
           c   == [a EXCEPT !.header.sum = <<Hmac(key, a.buffer)>>]
           d   == [c EXCEPT !.buffer = <<>>]
           acc == Zipped(V, d, a.buffer)
<1>0. "log" \in V /\ "zip" \notin V /\ "sign" \notin V
  OBVIOUS
<1>1. IsAnswer(a)
  BY ONLY Shaped(a, W) DEF Shaped
<1>2. Are(c, h, a.status, a.sent, a.body, a.buffer, a.zip, a.logged)
  BY <1>1, Summed
<1>3. h.encoding = a.header.encoding /\ h.sum = <<Hmac(key, a.buffer)>>
  BY ONLY HeaderIs
<1>4. d = [a EXCEPT !.header.sum = <<Hmac(key, a.buffer)>>, !.buffer = <<>>]
  OBVIOUS
<1> HIDE DEF c, h
<1>5. Are(d, c.header, c.status, c.sent, c.body, <<>>, c.zip, c.logged)
  BY <1>2, Kept DEF Are
<1> HIDE DEF d
<1>6. Are(d, h, a.status, a.sent, a.body, <<>>, a.zip, a.logged)
  BY ONLY <1>2, <1>5 DEF Are
<1>7. b = WriteAll(d, StackOf(V), a.buffer)
  BY <1>4 DEF Sign
<1>8. acc.answer = d /\ acc.chunks = a.buffer
  BY <1>0 DEF Zipped
<1>9. acc = Zipped(V, d, a.buffer)
  OBVIOUS
<1> HIDE DEF acc
<1>10. HandedOn(b, V, acc)
  BY ONLY <1>0, <1>7, <1>9, WriteAllIs
<1>11. b = Leave(d, a.buffer)
  BY ONLY <1>0, <1>8, <1>10 DEF HandedOn
<1>12. /\ Written(a, a.buffer, W) /\ a.body = <<>> /\ a.sent.sum = <<>>
       /\ a.status \in {0, 200, 400, 404, 500} /\ a.logged = Code(a)
       /\ a.zip \in {"open", "yes", "no"}
       /\ a.status # 0 => a.sent.encoding = a.header.encoding
  BY ONLY Shaped(a, W), "sign" \in W DEF Shaped
<1>13. Are(b, d.header, Code(d), IF d.status = 0 THEN d.header ELSE d.sent, d.body \o a.buffer,
           d.buffer, d.zip, d.logged)
  <2>1. IsAnswer(d)
    BY ONLY <1>6 DEF Are
  <2> QED
    BY ONLY <1>11, <2>1, LeaveIs
<1>14. d.body \o a.buffer = a.buffer /\ Code(d) = Code(a)
  BY <1>6, <1>12, WrittenJoins DEF Are, Code
<1>15. /\ IsAnswer(b) /\ b.header = h /\ b.status = Code(a)
       /\ b.sent = (IF a.status = 0 THEN h ELSE a.sent)
       /\ b.body = a.buffer /\ b.buffer = <<>> /\ b.zip = a.zip /\ b.logged = a.logged
  BY ONLY <1>6, <1>13, <1>14 DEF Are
<1>16. Written(b, b.body, V)
  <2>1. Written(a, a.buffer, W) /\ b.header.encoding = a.header.encoding /\ b.zip = a.zip
    BY ONLY <1>3, <1>12, <1>15
  <2>2. Written(b, a.buffer, V)
    BY ONLY <1>0, <2>1, "zip" \notin W, WrittenFits
  <2> QED
    BY ONLY <1>15, <2>2
<1>17. b.status \in {200, 400, 404, 500} /\ b.logged = Code(b)
  BY ONLY <1>12, <1>15 DEF Code
<1>18. b.sent.encoding = b.header.encoding
  BY ONLY <1>3, <1>12, <1>15
<1>19. Shaped(b, V)
  BY ONLY <1>0, <1>12, <1>15, <1>16, <1>17, <1>18 DEF Shaped
<1> QED
  BY ONLY <1>3, <1>12, <1>15, <1>19

\* The handler has returned.
LEMMA FinishKeeps ==
    ASSUME NEW W, "sign" \notin W, "zip" \notin W, NEW V, V = W \ {"log"},
           NEW a, Shaped(a, W), NEW b, b = Finish(a)
    PROVE  /\ Shaped(b, V) /\ b.status = Code(a) /\ b.zip = a.zip
           /\ b.header = a.header /\ b.body = a.body
           /\ a.status = 0 => b.sent = a.header
           /\ a.status # 0 => b.sent = a.sent
<1>1. IsAnswer(a)
  BY ONLY Shaped(a, W) DEF Shaped
<1>2. b = Leave(a, <<>>)
  BY DEF Finish
<1>3. Are(b, a.header, Code(a), IF a.status = 0 THEN a.header ELSE a.sent, a.body \o <<>>,
          a.buffer, a.zip, a.logged)
  BY ONLY <1>1, <1>2, LeaveIs
<1>4. /\ Written(a, a.body, W) /\ a.buffer = <<>>
      /\ a.status \in {0, 200, 400, 404, 500} /\ a.logged = Code(a)
      /\ a.zip \in {"open", "yes", "no"}
      /\ a.status # 0 => a.sent.encoding = a.header.encoding
  BY ONLY Shaped(a, W), "sign" \notin W DEF Shaped
<1>5. a.body \o <<>> = a.body
  BY ONLY <1>4, WrittenJoins
<1>6. /\ IsAnswer(b) /\ b.header = a.header /\ b.status = Code(a)
      /\ b.sent = (IF a.status = 0 THEN a.header ELSE a.sent)
      /\ b.body = a.body /\ b.buffer = <<>> /\ b.zip = a.zip /\ b.logged = a.logged
  BY ONLY <1>3, <1>4, <1>5 DEF Are
<1>7. Written(b, b.body, V)
  <2>1. "zip" \notin V
    OBVIOUS
  <2> QED
    BY ONLY <1>4, <1>6, <2>1, "zip" \notin W, WrittenFits
<1>8. b.status \in {200, 400, 404, 500} /\ b.logged = Code(b)
  BY ONLY <1>4, <1>6 DEF Code
<1>9. b.sent.encoding = b.header.encoding
  BY ONLY <1>4, <1>6
<1>10. Shaped(b, V)
  BY <1>4, <1>6, <1>7, <1>8, <1>9 DEF Shaped
<1> QED
  BY ONLY <1>6, <1>10

----------------------------------------------------------------------------
(* The writers, as the middlewares put them on and take them off.          *)

\* The writers but the last, and the last.
LEMMA Fronts ==
    ASSUME NEW a, NEW b, NEW c
    PROVE  /\ Front(<<a>>) = <<>> /\ Last(<<a>>) = a
           /\ Front(<<a, b>>) = <<a>> /\ Last(<<a, b>>) = b
           /\ Front(<<a, b, c>>) = <<a, b>> /\ Last(<<a, b, c>>) = c
<1> DEFINE x == SubSeq(<<a, b>>, 1, 1)
           y == SubSeq(<<a, b, c>>, 1, 2)
<1>1. x \in Seq({a, b}) /\ Len(x) = 1 /\ x[1] = a
  OBVIOUS
<1>2. y \in Seq({a, b, c}) /\ Len(y) = 2 /\ y[1] = a /\ y[2] = b
  OBVIOUS
<1>3. Front(<<a, b>>) = x /\ Front(<<a, b, c>>) = y
  BY DEF Front
<1> HIDE DEF x, y
<1>4. x = <<a>> /\ y = <<a, b>>
  BY <1>1, <1>2
<1>5. Front(<<a>>) = <<>>
  BY DEF Front
<1>6. Last(<<a>>) = a /\ Last(<<a, b>>) = b /\ Last(<<a, b, c>>) = c
  BY DEF Last
<1> QED
  BY <1>3, <1>4, <1>5, <1>6

\* A writer put on the others.
LEMMA Appends ==
    ASSUME NEW a, NEW b, NEW c
    PROVE  /\ Append(<<>>, a) = <<a>> /\ Append(<<a>>, b) = <<a, b>>
           /\ Append(<<a, b>>, c) = <<a, b, c>>
<1> DEFINE x == Append(<<a>>, b)
           y == Append(<<a, b>>, c)
<1>1. x \in Seq({a, b}) /\ Len(x) = 2 /\ x[1] = a /\ x[2] = b
  OBVIOUS
<1>2. y \in Seq({a, b, c}) /\ Len(y) = 3 /\ y[1] = a /\ y[2] = b /\ y[3] = c
  OBVIOUS
<1> HIDE DEF x, y
<1>3. x = <<a, b>> /\ y = <<a, b, c>>
  BY <1>1, <1>2
<1>4. Append(<<>>, a) = <<a>>
  OBVIOUS
<1> QED
  BY <1>3, <1>4 DEF x, y

\* A writer goes around the others.
LEMMA Pushed ==
    /\ Append(StackOf({}), "log") = StackOf({"log"})
    /\ Append(StackOf({"log"}), "sign") = StackOf({"log", "sign"})
    /\ Append(StackOf({"log"}), "zip") = StackOf({"log", "zip"})
    /\ Append(StackOf({"log", "sign"}), "zip") = StackOf({"log", "sign", "zip"})
<1>1. /\ StackOf({}) = <<>> /\ StackOf({"log"}) = <<"log">>
      /\ StackOf({"log", "sign"}) = <<"log", "sign">>
      /\ StackOf({"log", "zip"}) = <<"log", "zip">>
      /\ StackOf({"log", "sign", "zip"}) = <<"log", "sign", "zip">>
  BY StackIs
<1> QED
  BY <1>1, Appends

\* And comes off before them.
LEMMA Popped ==
    ASSUME NEW W, "log" \in W, W \subseteq {"log", "sign", "zip"}, writers = StackOf(W)
    PROVE  /\ "zip" \in W => Innermost("zip") /\ Unwrap("zip") = StackOf(W \ {"zip"})
           /\ "zip" \notin W => ~Innermost("zip") /\ Unwrap("zip") = writers
           /\ "zip" \notin W /\ "sign" \in W =>
                 Innermost("sign") /\ Unwrap("sign") = StackOf(W \ {"sign"})
           /\ "zip" \notin W /\ "sign" \notin W => Unwrap("log") = StackOf(W \ {"log"})
<1>1. CASE W = {"log"}
  <2>1. writers = <<"log">> /\ StackOf(W \ {"log"}) = <<>>
    BY <1>1, StackIs
  <2> QED
    BY <1>1, <2>1, Fronts DEF Innermost, Unwrap
<1>2. CASE W = {"log", "sign"}
  <2>1. writers = <<"log", "sign">> /\ StackOf(W \ {"sign"}) = <<"log">>
    BY <1>2, StackIs
  <2> QED
    <3>1. /\ <<"log", "sign">> # <<>> /\ Last(<<"log", "sign">>) = "sign"
          /\ Front(<<"log", "sign">>) = <<"log">>
      BY Fronts
    <3>2. writers # <<>> /\ Last(writers) = "sign" /\ Front(writers) = <<"log">>
      BY ONLY <2>1, <3>1
    <3> QED
      BY ONLY <1>2, <2>1, <3>2 DEF Innermost, Unwrap
<1>3. CASE W = {"log", "zip"}
  <2>1. writers = <<"log", "zip">> /\ StackOf(W \ {"zip"}) = <<"log">>
    BY <1>3, StackIs
  <2> QED
    <3>1. /\ <<"log", "zip">> # <<>> /\ Last(<<"log", "zip">>) = "zip"
          /\ Front(<<"log", "zip">>) = <<"log">>
      BY Fronts
    <3>2. writers # <<>> /\ Last(writers) = "zip" /\ Front(writers) = <<"log">>
      BY ONLY <2>1, <3>1
    <3> QED
      BY ONLY <1>3, <2>1, <3>2 DEF Innermost, Unwrap
<1>4. CASE W = {"log", "sign", "zip"}
  <2>1. writers = <<"log", "sign", "zip">> /\ StackOf(W \ {"zip"}) = <<"log", "sign">>
    BY <1>4, StackIs
  <2> QED
    <3>0. <<"log", "sign", "zip">> # <<>>
      OBVIOUS
    <3>a. Last(<<"log", "sign", "zip">>) = "zip"
      BY DEF Last
    <3>b. Front(<<"log", "sign", "zip">>) = <<"log", "sign">>
      BY ONLY Fronts
    <3>1. /\ <<"log", "sign", "zip">> # <<>> /\ Last(<<"log", "sign", "zip">>) = "zip"
          /\ Front(<<"log", "sign", "zip">>) = <<"log", "sign">>
      BY ONLY <3>0, <3>a, <3>b
    <3>2. writers # <<>> /\ Last(writers) = "zip" /\ Front(writers) = <<"log", "sign">>
      BY ONLY <2>1, <3>1
    <3> QED
      BY ONLY <1>4, <2>1, <3>2 DEF Innermost, Unwrap
<1> QED
  BY <1>1, <1>2, <1>3, <1>4

----------------------------------------------------------------------------
(* The layers of a body.                                                   *)

\* The layers the agent puts round its report, and what takes them off.
LEMMA LayersOfReport ==
    ASSUME NEW doc, NEW key
    PROVE  LET zipped == Gzip(Plain(doc))
               sealed == Encrypt(key, zipped)
           IN  /\ zipped = [layers |-> <<<<"gzip", "">>>>, doc |-> doc]
               /\ sealed = [layers |-> <<<<"rsa", key>>, <<"gzip", "">>>>, doc |-> doc]
               /\ TakeOff(sealed) = zipped /\ TakeOff(zipped) = Plain(doc)
               /\ HasLayer(zipped, <<"gzip", "">>) /\ ~HasLayer(sealed, <<"gzip", "">>)
               /\ \A k : HasLayer(sealed, <<"rsa", k>>) <=> k = key
<1> DEFINE zip    == <<"gzip", "">>
           rsa    == <<"rsa", key>>
           zipped == [layers |-> <<zip>>, doc |-> doc]
           sealed == [layers |-> <<rsa, zip>>, doc |-> doc]
<1>1. zip # rsa /\ \A k : <<"rsa", k>> = rsa <=> k = key
  OBVIOUS
<1> HIDE DEF zip, rsa
<1>2. Gzip(Plain(doc)) = zipped
  <2> DEFINE p == Plain(doc)
  <2>1. <<zip>> \o <<>> = <<zip>>
    OBVIOUS
  <2>2. p = [layers |-> <<>>, doc |-> doc]
    BY DEF Plain
  <2>3. Gzip(p) = [p EXCEPT !.layers = <<zip>> \o p.layers]
    BY DEF Gzip, zip
  <2>4. [p EXCEPT !.layers = <<zip>>] = zipped
    BY <2>2
  <2> HIDE DEF p
  <2>5. Gzip(p) = zipped
    BY <2>1, <2>2, <2>3, <2>4
  <2> QED
    BY <2>5 DEF p
<1>3. Encrypt(key, zipped) = sealed
  <2>1. <<rsa>> \o <<zip>> = <<rsa, zip>>
    BY JoinTwo
  <2> QED
    BY <2>1 DEF Encrypt, rsa
<1>4. Tail(<<rsa, zip>>) = <<zip>> /\ Tail(<<zip>>) = <<>>
  OBVIOUS
<1>5. TakeOff(sealed) = zipped /\ TakeOff(zipped) = Plain(doc)
  BY <1>4 DEF TakeOff, Plain
<1>6. \A x : /\ HasLayer(zipped, x) <=> x = zip
             /\ HasLayer(sealed, x) <=> x = rsa
  BY DEF HasLayer
<1> QED
  BY <1>1, <1>2, <1>3, <1>5, <1>6 DEF zip, rsa

----------------------------------------------------------------------------
(* A step that does not configure.                                         *)

\* What is said of the configurations stays while none of them changes.
LEMMA SameConfig ==
    ASSUME UNCHANGED configVars
    PROVE  /\ Server' = Server /\ Agent' = Agent /\ Chain' = Chain
           /\ (Crypts' <=> Crypts) /\ (Signs' <=> Signs)
           /\ IntegrityAt' = IntegrityAt /\ EncodingAt' = EncodingAt
           /\ (StorageMayFail' <=> StorageMayFail)
           /\ (KeysAgree' <=> KeysAgree) /\ (SignAgree' <=> SignAgree)
           /\ (Ready("server")' <=> Ready("server")) /\ (Ready("agent")' <=> Ready("agent"))
<1>1. Server' = Server /\ Agent' = Agent
  BY DEF configVars, Server, Agent
<1>2. (Ready("server")' <=> Ready("server")) /\ (Ready("agent")' <=> Ready("agent"))
  BY DEF configVars, Ready
<1>3. (Crypts' <=> Crypts) /\ (Signs' <=> Signs)
  BY ONLY <1>1 DEF Crypts, Signs
<1>4. IntegrityAt' = IntegrityAt
  BY ONLY <1>3 DEF IntegrityAt
<1>5. EncodingAt' = EncodingAt
  BY ONLY <1>3, <1>4 DEF EncodingAt
<1>6. /\ (StorageMayFail' <=> StorageMayFail) /\ (KeysAgree' <=> KeysAgree)
      /\ (SignAgree' <=> SignAgree)
  BY ONLY <1>1 DEF StorageMayFail, KeysAgree, SignAgree
<1>7. Chain' = Chain
  BY ONLY <1>1 DEF Chain
<1> QED
  BY ONLY <1>1, <1>2, <1>3, <1>4, <1>5, <1>6, <1>7

\* The writers a request has, by how many middlewares it is inside of.
LEMMA WrappedIs ==
    /\ "log" \in Wrapped <=> depth >= 1
    /\ "sign" \in Wrapped <=> PassedIntegrity
    /\ "zip" \in Wrapped <=> PassedEncoding /\ sent.accept
    /\ Wrapped \subseteq {"log", "sign", "zip"}
  BY DEF Wrapped

\* How many middlewares the request is inside of says which writers there are.
LEMMA Inwards ==
    ASSUME UNCHANGED <<configVars, sent>>, depth \in 0 .. Len(Chain), depth' = depth + 1
    PROVE  /\ depth = 0 => Wrapped = {} /\ Wrapped' = {"log"}
           /\ Crypts /\ depth = 1 => Wrapped' = Wrapped
           /\ Signs /\ depth = IntegrityAt => Wrapped = {"log"} /\ Wrapped' = {"log", "sign"}
           /\ depth = EncodingAt =>
                 Wrapped' = IF sent.accept THEN Wrapped \cup {"zip"} ELSE Wrapped
           /\ depth = EncodingAt => Wrapped = IF Signs THEN {"log", "sign"} ELSE {"log"}
<1>1. /\ (Crypts' <=> Crypts) /\ (Signs' <=> Signs)
      /\ IntegrityAt' = IntegrityAt /\ EncodingAt' = EncodingAt
  BY SameConfig
<1>2. /\ IntegrityAt = (IF Crypts THEN 2 ELSE 1)
      /\ EncodingAt = (IF Signs THEN IntegrityAt + 1 ELSE IntegrityAt)
      /\ depth \in Nat /\ sent' = sent
  BY ChainIs DEF IntegrityAt, EncodingAt
<1>3. /\ "log" \in Wrapped <=> depth >= 1
      /\ "sign" \in Wrapped <=> Signs /\ depth > IntegrityAt
      /\ "zip" \in Wrapped <=> depth > EncodingAt /\ sent.accept
      /\ Wrapped \subseteq {"log", "sign", "zip"}
  BY DEF Wrapped, PassedIntegrity, PassedEncoding
<1>4. /\ "log" \in Wrapped' <=> depth' >= 1
      /\ "sign" \in Wrapped' <=> Signs' /\ depth' > IntegrityAt'
      /\ "zip" \in Wrapped' <=> depth' > EncodingAt' /\ sent'.accept
      /\ Wrapped' \subseteq {"log", "sign", "zip"}
  BY DEF Wrapped, PassedIntegrity, PassedEncoding
<1>5. /\ IntegrityAt \in {1, 2} /\ EncodingAt \in {1, 2, 3}
      /\ (Signs => EncodingAt = IntegrityAt + 1)
  BY ONLY <1>2
<1>6. \A w : /\ w \in Wrapped => w \in {"log", "sign", "zip"}
             /\ w \in Wrapped' => w \in {"log", "sign", "zip"}
  BY ONLY <1>3, <1>4
<1>7. depth = 0 => Wrapped = {} /\ Wrapped' = {"log"}
  <2> SUFFICES ASSUME depth = 0 PROVE Wrapped = {} /\ Wrapped' = {"log"}
    OBVIOUS
  <2>1. /\ ~(depth > IntegrityAt) /\ ~(depth > EncodingAt) /\ ~(depth >= 1)
        /\ ~(depth' > IntegrityAt') /\ ~(depth' > EncodingAt') /\ depth' >= 1
    BY ONLY <1>1, <1>2, <1>5, depth = 0, depth' = depth + 1
  <2>2. /\ "log" \notin Wrapped /\ "sign" \notin Wrapped /\ "zip" \notin Wrapped
        /\ "log" \in Wrapped' /\ "sign" \notin Wrapped' /\ "zip" \notin Wrapped'
    BY ONLY <1>1, <1>2, <1>3, <1>4, <2>1, depth = 0
  <2> QED
    BY ONLY <1>6, <2>2
<1>8. Crypts /\ depth = 1 => Wrapped' = Wrapped
  <2> SUFFICES ASSUME Crypts /\ depth = 1 PROVE Wrapped' = Wrapped
    OBVIOUS
  <2>1. /\ ~(depth > IntegrityAt) /\ ~(depth > EncodingAt) /\ depth >= 1
        /\ ~(depth' > IntegrityAt') /\ ~(depth' > EncodingAt') /\ depth' >= 1
    BY ONLY <1>1, <1>2, <1>5, Crypts /\ depth = 1, depth' = depth + 1
  <2>2. /\ "log" \in Wrapped /\ "sign" \notin Wrapped /\ "zip" \notin Wrapped
        /\ "log" \in Wrapped' /\ "sign" \notin Wrapped' /\ "zip" \notin Wrapped'
    BY ONLY <1>1, <1>2, <1>3, <1>4, <2>1, Crypts /\ depth = 1
  <2> QED
    BY ONLY <1>6, <2>2
<1>9. Signs /\ depth = IntegrityAt => Wrapped = {"log"} /\ Wrapped' = {"log", "sign"}
  <2> SUFFICES ASSUME Signs /\ depth = IntegrityAt
               PROVE  Wrapped = {"log"} /\ Wrapped' = {"log", "sign"}
    OBVIOUS
  <2>1. /\ ~(depth > IntegrityAt) /\ ~(depth > EncodingAt) /\ depth >= 1
        /\ depth' > IntegrityAt' /\ ~(depth' > EncodingAt') /\ depth' >= 1
    BY ONLY <1>1, <1>2, <1>5, Signs /\ depth = IntegrityAt, depth' = depth + 1
  <2>2. /\ "log" \in Wrapped /\ "sign" \notin Wrapped /\ "zip" \notin Wrapped
        /\ "log" \in Wrapped' /\ "sign" \in Wrapped' /\ "zip" \notin Wrapped'
    BY ONLY <1>1, <1>2, <1>3, <1>4, <2>1, Signs /\ depth = IntegrityAt
  <2> QED
    BY ONLY <1>6, <2>2
<1>10. depth = EncodingAt =>
          /\ Wrapped' = IF sent.accept THEN Wrapped \cup {"zip"} ELSE Wrapped
          /\ Wrapped = IF Signs THEN {"log", "sign"} ELSE {"log"}
  <2> SUFFICES ASSUME depth = EncodingAt
               PROVE  /\ Wrapped' = IF sent.accept THEN Wrapped \cup {"zip"} ELSE Wrapped
                      /\ Wrapped = IF Signs THEN {"log", "sign"} ELSE {"log"}
    OBVIOUS
  <2>1. /\ ~(depth > EncodingAt) /\ depth >= 1 /\ depth' > EncodingAt' /\ depth' >= 1
        /\ (Signs => depth > IntegrityAt /\ depth' > IntegrityAt')
    BY ONLY <1>1, <1>2, <1>5, depth = EncodingAt, depth' = depth + 1
  <2>2. /\ "log" \in Wrapped /\ ("sign" \in Wrapped <=> Signs) /\ "zip" \notin Wrapped
        /\ "log" \in Wrapped' /\ ("sign" \in Wrapped' <=> Signs)
        /\ ("zip" \in Wrapped' <=> sent.accept)
    BY ONLY <1>1, <1>2, <1>3, <1>4, <2>1, depth = EncodingAt
  <2> QED
    BY ONLY <1>6, <2>2
<1> QED
  BY ONLY <1>7, <1>8, <1>9, <1>10

\* A step out of a middleware takes off the writer it has put on.
LEMMA Outwards ==
    ASSUME UNCHANGED <<configVars, sent>>, depth \in 0 .. Len(Chain), depth' = depth - 1
    PROVE  /\ depth = EncodingAt + 1 => Wrapped' = Wrapped \ {"zip"}
           /\ Signs /\ depth = IntegrityAt + 1 =>
                 "zip" \notin Wrapped /\ "sign" \in Wrapped /\ Wrapped' = Wrapped \ {"sign"}
           /\ Crypts /\ depth = 2 => Wrapped' = Wrapped
           /\ depth = 1 => Wrapped' = Wrapped \ {"log"} /\ Wrapped = {"log"}
<1>1. /\ (Crypts' <=> Crypts) /\ (Signs' <=> Signs)
      /\ IntegrityAt' = IntegrityAt /\ EncodingAt' = EncodingAt
  BY SameConfig
<1>2. /\ IntegrityAt = (IF Crypts THEN 2 ELSE 1)
      /\ EncodingAt = (IF Signs THEN IntegrityAt + 1 ELSE IntegrityAt)
      /\ depth \in Nat /\ sent' = sent
  BY ChainIs DEF IntegrityAt, EncodingAt
<1>3. /\ "log" \in Wrapped <=> depth >= 1
      /\ "sign" \in Wrapped <=> Signs /\ depth > IntegrityAt
      /\ "zip" \in Wrapped <=> depth > EncodingAt /\ sent.accept
      /\ Wrapped \subseteq {"log", "sign", "zip"}
  BY DEF Wrapped, PassedIntegrity, PassedEncoding
<1>4. /\ "log" \in Wrapped' <=> depth' >= 1
      /\ "sign" \in Wrapped' <=> Signs' /\ depth' > IntegrityAt'
      /\ "zip" \in Wrapped' <=> depth' > EncodingAt' /\ sent'.accept
      /\ Wrapped' \subseteq {"log", "sign", "zip"}
  BY DEF Wrapped, PassedIntegrity, PassedEncoding
<1>5. /\ IntegrityAt \in {1, 2} /\ EncodingAt \in {1, 2, 3}
      /\ (Signs => EncodingAt = IntegrityAt + 1)
  BY ONLY <1>2
<1>6. \A w : /\ w \in Wrapped => w \in {"log", "sign", "zip"}
             /\ w \in Wrapped' => w \in {"log", "sign", "zip"}
  BY ONLY <1>3, <1>4
<1>7. depth = EncodingAt + 1 => Wrapped' = Wrapped \ {"zip"}
  <2> SUFFICES ASSUME depth = EncodingAt + 1 PROVE Wrapped' = Wrapped \ {"zip"}
    OBVIOUS
  <2>1. /\ depth > EncodingAt /\ depth >= 1 /\ ~(depth' > EncodingAt') /\ depth' >= 1
        /\ (Signs => depth > IntegrityAt /\ depth' > IntegrityAt')
    BY ONLY <1>1, <1>2, <1>5, depth = EncodingAt + 1, depth' = depth - 1
  <2>2. /\ "log" \in Wrapped /\ ("sign" \in Wrapped <=> Signs) /\ "log" \in Wrapped'
        /\ ("sign" \in Wrapped' <=> Signs) /\ "zip" \notin Wrapped'
    BY ONLY <1>1, <1>2, <1>3, <1>4, <2>1, depth = EncodingAt + 1
  <2> QED
    BY ONLY <1>6, <2>2
<1>8. Signs /\ depth = IntegrityAt + 1 =>
         "zip" \notin Wrapped /\ "sign" \in Wrapped /\ Wrapped' = Wrapped \ {"sign"}
  <2> SUFFICES ASSUME Signs /\ depth = IntegrityAt + 1
               PROVE  "zip" \notin Wrapped /\ "sign" \in Wrapped /\ Wrapped' = Wrapped \ {"sign"}
    OBVIOUS
  <2>1. /\ depth > IntegrityAt /\ ~(depth > EncodingAt) /\ depth >= 1
        /\ ~(depth' > EncodingAt') /\ depth' >= 1 /\ ~(depth' > IntegrityAt')
    BY ONLY <1>1, <1>2, <1>5, Signs /\ depth = IntegrityAt + 1, depth' = depth - 1
  <2>2. /\ "log" \in Wrapped /\ "sign" \in Wrapped /\ "zip" \notin Wrapped
        /\ "log" \in Wrapped' /\ "sign" \notin Wrapped' /\ "zip" \notin Wrapped'
    BY ONLY <1>1, <1>2, <1>3, <1>4, <2>1, Signs /\ depth = IntegrityAt + 1
  <2> QED
    BY ONLY <1>6, <2>2
<1>9. Crypts /\ depth = 2 => Wrapped' = Wrapped
  <2> SUFFICES ASSUME Crypts /\ depth = 2 PROVE Wrapped' = Wrapped
    OBVIOUS
  <2>1. /\ ~(depth > IntegrityAt) /\ ~(depth > EncodingAt) /\ depth >= 1
        /\ ~(depth' > EncodingAt') /\ depth' >= 1 /\ ~(depth' > IntegrityAt')
    BY ONLY <1>1, <1>2, <1>5, Crypts /\ depth = 2, depth' = depth - 1
  <2>2. /\ "log" \in Wrapped /\ "sign" \notin Wrapped /\ "zip" \notin Wrapped
        /\ "log" \in Wrapped' /\ "sign" \notin Wrapped' /\ "zip" \notin Wrapped'
    BY ONLY <1>1, <1>2, <1>3, <1>4, <2>1, Crypts /\ depth = 2
  <2> QED
    BY ONLY <1>6, <2>2
<1>10. depth = 1 => Wrapped' = Wrapped \ {"log"} /\ Wrapped = {"log"}
  <2> SUFFICES ASSUME depth = 1 PROVE Wrapped' = Wrapped \ {"log"} /\ Wrapped = {"log"}
    OBVIOUS
  <2>1. /\ ~(depth > IntegrityAt) /\ ~(depth > EncodingAt) /\ depth >= 1
        /\ ~(depth' > EncodingAt') /\ ~(depth' >= 1) /\ ~(depth' > IntegrityAt')
    BY ONLY <1>1, <1>2, <1>5, depth = 1, depth' = depth - 1
  <2>2. /\ "log" \in Wrapped /\ "sign" \notin Wrapped /\ "zip" \notin Wrapped
        /\ "log" \notin Wrapped' /\ "sign" \notin Wrapped' /\ "zip" \notin Wrapped'
    BY ONLY <1>1, <1>2, <1>3, <1>4, <2>1, depth = 1
  <2> QED
    BY ONLY <1>6, <2>2
<1> QED
  BY ONLY <1>7, <1>8, <1>9, <1>10

----------------------------------------------------------------------------
(* The request on its way in.                                              *)

\* A request keeps all but its type and its layers.
Rest(q, r) ==
    /\ q.client = r.client /\ q.route = r.route /\ q.gzip = r.gzip /\ q.accept = r.accept
    /\ q.sum = r.sum /\ q.url = r.url /\ q.body.doc = r.body.doc

\* A request that some layers have been taken off is as well formed.
LEMMA PeeledIs ==
    ASSUME NEW r, WellFormed(r), NEW t, NEW l, NEW q, q = Peeled(r, t, l)
    PROVE  /\ WellFormed(q) /\ Rest(q, r)
           /\ q.type = t /\ q.body.layers = l /\ q = Peeled(r, q.type, q.body.layers)
<1>1. /\ q.client = r.client /\ q.route = r.route /\ q.gzip = r.gzip /\ q.accept = r.accept
      /\ q.sum = r.sum /\ q.url = r.url /\ q.body = [layers |-> l, doc |-> r.body.doc]
      /\ q.type = t
  BY ONLY q = Peeled(r, t, l) DEF Peeled
<1>2. q.body.doc = r.body.doc /\ q.body.layers = l
  BY ONLY <1>1
<1>3. q = Peeled(q, q.type, q.body.layers)
  BY ONLY <1>1, <1>2, q = Peeled(r, t, l) DEF Peeled
<1>4. WellFormed(q)
  BY ONLY <1>1, <1>2, <1>3, WellFormed(r) DEF WellFormed, Peeled
<1> QED
  BY ONLY <1>1, <1>2, <1>4, q = Peeled(r, t, l) DEF Rest

\* The outermost layer is taken off.
Undone(q)  == [q EXCEPT !.body = TakeOff(@)]
Decoded(q) == [q EXCEPT !.body = TakeOff(@), !.type = "application/json"]

\* Another layer is taken off a request that some have been taken off.
LEMMA TakenOff ==
    ASSUME NEW r, NEW t, NEW l, NEW q, q = Peeled(r, t, l)
    PROVE  /\ TakeOff(q.body) = [layers |-> Tail(l), doc |-> r.body.doc]
           /\ Undone(q) = Peeled(r, t, Tail(l))
           /\ Decoded(q) = Peeled(r, "application/json", Tail(l))
<1> DEFINE b == [layers |-> l, doc |-> r.body.doc]
           c == [layers |-> Tail(l), doc |-> r.body.doc]
           x == TakeOff(q.body)
<1>1. q.body = b
  BY DEF Peeled
<1>2. TakeOff(b) = c
  <2> DEFINE m == Tail(l)
  <2>1. TakeOff(b) = [b EXCEPT !.layers = m]
    BY DEF TakeOff
  <2> HIDE DEF m
  <2>2. [b EXCEPT !.layers = m] = [layers |-> m, doc |-> r.body.doc]
    OBVIOUS
  <2> QED
    BY <2>1, <2>2 DEF m
<1>3. x = c
  BY ONLY <1>1, <1>2
<1>a. q = [client |-> r.client, route |-> r.route, type |-> t, gzip |-> r.gzip,
           accept |-> r.accept, sum |-> r.sum, url |-> r.url, body |-> b]
  BY ONLY q = Peeled(r, t, l) DEF Peeled
<1> HIDE DEF x, c, b
<1>4. [q EXCEPT !.body = x] =
         [client |-> r.client, route |-> r.route, type |-> t, gzip |-> r.gzip,
          accept |-> r.accept, sum |-> r.sum, url |-> r.url, body |-> x]
  BY ONLY <1>a
<1>5. [q EXCEPT !.body = x, !.type = "application/json"] =
         [client |-> r.client, route |-> r.route, type |-> "application/json", gzip |-> r.gzip,
          accept |-> r.accept, sum |-> r.sum, url |-> r.url, body |-> x]
  <2> DEFINE p == [q EXCEPT !.body = x]
  <2>1. [q EXCEPT !.body = x, !.type = "application/json"] = [p EXCEPT !.type = "application/json"]
    OBVIOUS
  <2>2. p = [client |-> r.client, route |-> r.route, type |-> t, gzip |-> r.gzip,
             accept |-> r.accept, sum |-> r.sum, url |-> r.url, body |-> x]
    BY <1>4
  <2> HIDE DEF p
  <2> QED
    BY ONLY <2>1, <2>2
<1> QED
  BY <1>3, <1>4, <1>5 DEF x, c, Peeled, Undone, Decoded

\* What a batch makes of a store in so many attempts is what one more makes of
\* what it was after the others: the recursive function is there.
Iterates(f, s, metrics, n) ==
    /\ f[0] = s
    /\ \A i \in 1 .. n : f[i] = FoldLeft(Apply, f[i - 1], metrics)

\* Two functions that count so do it alike.
LEMMA StepsAlike ==
    ASSUME NEW s, NEW metrics, NEW n \in Nat, NEW f, Iterates(f, s, metrics, n),
           NEW k \in Nat, k >= n, NEW g, Iterates(g, s, metrics, k)
    PROVE  \A i \in 0 .. n : f[i] = g[i]
<1> DEFINE step(x) == FoldLeft(Apply, x, metrics)
           N == {i \in Nat : i <= n => f[i] = g[i]}
<1>1. /\ f[0] = s /\ \A i \in 1 .. n : f[i] = step(f[i - 1])
      /\ g[0] = s /\ \A i \in 1 .. k : g[i] = step(g[i - 1])
  BY DEF Iterates
<1> HIDE DEF step
<1>2. 0 \in N
  BY <1>1
<1>3. ASSUME NEW i \in N PROVE i + 1 \in N
  <2>1. SUFFICES ASSUME i + 1 <= n PROVE f[i + 1] = g[i + 1]
    OBVIOUS
  <2>2. i \in Nat /\ i + 1 \in 1 .. n /\ i + 1 \in 1 .. k /\ (i + 1) - 1 = i /\ f[i] = g[i]
    BY <2>1
  <2>3. f[i + 1] = step(f[(i + 1) - 1]) /\ g[i + 1] = step(g[(i + 1) - 1])
    BY <1>1, <2>2
  <2> QED
    BY ONLY <2>2, <2>3
<1>4. N = Nat
  <2> HIDE DEF N
  <2>1. N \in SUBSET Nat
    BY DEF N
  <2> QED
    BY <1>2, <1>3, <2>1, SetInduction
<1> QED
  BY <1>4

\* And there is one for each number of attempts.
LEMMA StepsExist ==
    ASSUME NEW s, NEW metrics, NEW n \in Nat
    PROVE  \E f : Iterates(f, s, metrics, n)
<1> DEFINE step(x) == FoldLeft(Apply, x, metrics)
           N == {k \in Nat : \E f : Iterates(f, s, metrics, k)}
<1>1. 0 \in N
  <2>1. [i \in {0} |-> s][0] = s /\ 1 .. 0 = {}
    OBVIOUS
  <2>2. Iterates([i \in {0} |-> s], s, metrics, 0)
    BY <2>1 DEF Iterates
  <2> QED
    BY <2>2
<1>2. ASSUME NEW k \in N PROVE k + 1 \in N
  <2>1. PICK f : Iterates(f, s, metrics, k)
    OBVIOUS
  <2>2. f[0] = s /\ \A i \in 1 .. k : f[i] = step(f[i - 1])
    BY <2>1 DEF Iterates
  <2> HIDE DEF step
  <2> DEFINE g == [i \in 0 .. k + 1 |-> IF i = k + 1 THEN step(f[k]) ELSE f[i]]
  <2>3. g[0] = s
    BY <2>2
  <2>4. ASSUME NEW i \in 1 .. k + 1 PROVE g[i] = step(g[i - 1])
    <3>1. CASE i = k + 1
      BY <3>1
    <3>2. CASE i # k + 1
      <4>1. i \in 1 .. k /\ i - 1 \in 0 .. k + 1 /\ i - 1 # k + 1 /\ i \in 0 .. k + 1
        BY <3>2
      <4>2. g[i] = f[i] /\ g[i - 1] = f[i - 1]
        BY <4>1
      <4> QED
        BY ONLY <2>2, <4>1, <4>2
    <3> QED
      BY <3>1, <3>2
  <2> HIDE DEF g
  <2>5. Iterates(g, s, metrics, k + 1)
    BY <2>3, <2>4 DEF Iterates, step
  <2> QED
    BY <2>5
<1>3. N = Nat
  <2> HIDE DEF N
  <2>1. N \in SUBSET Nat
    BY DEF N
  <2> QED
    BY <1>1, <1>2, <2>1, SetInduction
<1> QED
  BY <1>3

\* Applied no times, a batch leaves the store; one more time, it is applied to
\* what the others have left.
LEMMA RepeatedIs ==
    ASSUME NEW s, NEW metrics
    PROVE  /\ Repeated(s, metrics, 0) = s
           /\ \A n \in Nat :
                 Repeated(s, metrics, n + 1) = FoldLeft(Apply, Repeated(s, metrics, n), metrics)
<1> DEFINE step(x) == FoldLeft(Apply, x, metrics)
           some(n) == CHOOSE f : Iterates(f, s, metrics, n)
           all     == [i \in Nat |-> some(i)[i]]
           Is(f)   == f = [i \in Nat |-> IF i = 0 THEN s ELSE step(f[i - 1])]
           after   == CHOOSE f : Is(f)
<1>1. \A n \in Nat : Iterates(some(n), s, metrics, n)
  BY StepsExist
<1> HIDE DEF some
<1>2. ASSUME NEW i \in Nat PROVE all[i] = IF i = 0 THEN s ELSE step(all[i - 1])
  <2>1. CASE i = 0
    BY <1>1, <2>1 DEF Iterates
  <2>2. CASE i # 0
    <3>1. i - 1 \in Nat /\ i >= i - 1 /\ i - 1 \in 0 .. i - 1 /\ i \in 1 .. i
      BY <2>2
    <3>2. Iterates(some(i), s, metrics, i) /\ Iterates(some(i - 1), s, metrics, i - 1)
      BY <1>1, <3>1
    <3>3. some(i - 1)[i - 1] = some(i)[i - 1]
      BY ONLY <3>1, <3>2, StepsAlike
    <3>4. some(i)[i] = step(some(i)[i - 1])
      BY ONLY <3>1, <3>2 DEF Iterates
    <3>5. all[i] = some(i)[i] /\ all[i - 1] = some(i - 1)[i - 1]
      BY <3>1
    <3> QED
      BY ONLY <2>2, <3>3, <3>4, <3>5
  <2> QED
    BY <2>1, <2>2
<1>3. all = [i \in Nat |-> all[i]]
  OBVIOUS
<1> HIDE DEF all, step
<1>4. Is(all)
  BY <1>2, <1>3
<1>5. Is(after)
  BY <1>4
<1>6. \A n : Repeated(s, metrics, n) = after[n]
  BY DEF Repeated, step
<1> HIDE DEF after
<1>7. after[0] = s
  BY <1>5
<1>8. ASSUME NEW n \in Nat PROVE after[n + 1] = step(after[n])
  <2>1. n + 1 \in Nat /\ n + 1 # 0 /\ (n + 1) - 1 = n
    OBVIOUS
  <2> QED
    BY <1>5, <2>1
<1> QED
  BY <1>6, <1>7, <1>8 DEF step

\* Before the first attempt ends nothing has been applied.
Untried == retries = 0 /\ store = before

LEMMA UntriedIs == Untried => RetryInv
<1>1. Taken(0) = before
  BY RepeatedIs DEF Taken
<1>2. 0 \in 0 .. 0 /\ 0 \in 0 .. retryCount
  BY ExchangeAssumption
<1> QED
  BY <1>1, <1>2 DEF Untried, RetryInv

\* The same of the next state.
LEMMA UntriedIsNext == Untried' => RetryInv'
  BY UntriedIs, PTL

\* Nor is anything repeated when the handler has returned.
Returned == retries = 0 /\ way # "in"

LEMMA ReturnedIs == Returned => RetryInv
  BY ExchangeAssumption DEF Returned, RetryInv

\* The same of the next state.
LEMMA ReturnedIsNext == Returned' => RetryInv'
  BY ReturnedIs, PTL

\* Outside of the handlers nothing is repeated, and what comes to the first
\* attempt is the store as it was.
LEMMA NotRepeated ==
    ASSUME ExchangeInv, ~Inside \/ ~Updates(sent) \/ retries = 0
    PROVE  retries = 0 /\ (way = "in" => store = before)
<1>1. RetryInv
  BY DEF ExchangeInv, EffectInv
<1>2. retries = 0
  BY <1>1 DEF RetryInv
<1>3. Taken(0) = before
  BY RepeatedIs DEF Taken
<1>4. \A n \in 0 .. 0 : n = 0
  OBVIOUS
<1> QED
  BY ONLY <1>1, <1>2, <1>3, <1>4 DEF RetryInv

\* A middleware has let the request through.
LEMMA GoesOn ==
    ASSUME ExchangeInv, UNCHANGED <<configVars, store, sent, out, before, retries>>,
           way = "in", way' = "in", depth < Len(Chain), depth' = depth + 1,
           writers' = StackOf(Wrapped'),
           req' = Peeled(sent, req'.type, req'.body.layers),
           sent.client = "agent" => PeeledInv'
    PROVE  ExchangeInv'
<1>1. /\ ConfigInv /\ StackInv /\ RequestInv /\ OutInv /\ EffectInv
      /\ depth \in 0 .. Len(Chain)
  BY DEF ExchangeInv, StackInv
<1>0. UNCHANGED configVars
  OBVIOUS
<1>2. /\ Chain' = Chain /\ Agent' = Agent
      /\ (Ready("server")' <=> Ready("server")) /\ (Ready("agent")' <=> Ready("agent"))
  BY ONLY <1>0, SameConfig
<1>3. ConfigInv'
  BY <1>1, ConfigKeeps
<1>4. StackInv'
  <2>1. depth' \in 0 .. Len(Chain')
    BY <1>1, <1>2, ChainIs
  <2> QED
    BY <2>1 DEF StackInv
<1>5. WellFormed(sent) /\ WellFormed(req')
  BY <1>1, PeeledIs DEF RequestInv
<1>6. RequestInv'
  <2>1. /\ WellFormed(sent') /\ WellFormed(req') /\ way' # "idle" /\ Ready("server")'
        /\ req' = Peeled(sent', req'.type, req'.body.layers)
    BY <1>1, <1>2, <1>5 DEF RequestInv
  <2>2. ASSUME sent.client = "agent"
        PROVE  /\ Ready("agent")' /\ Reported(AgentDoc'.metrics)
               /\ sent' = Post(AgentDoc.metrics)' /\ PeeledInv'
    BY <1>1, <1>2, <2>2, SameConfig DEF RequestInv, AgentDoc, Post, AgentSum
  <2> QED
    BY <2>1, <2>2 DEF RequestInv
<1>7. OutInv'
  BY <1>1 DEF OutInv
<1>8. EffectInv'
  <2>1. ~Inside
    BY <1>1 DEF Inside
  <2>2. retries = 0 /\ store = before
    BY <2>1, NotRepeated
  <2>3. Untried'
    BY <2>2 DEF Untried
  <2> QED
    BY <1>1, <2>3, UntriedIsNext DEF EffectInv
<1> QED
  BY <1>3, <1>4, <1>6, <1>7, <1>8 DEF ExchangeInv

\* A report, and how it is sealed.
LEMMA PostIs ==
    ASSUME NEW metrics, NEW p, p = Post(metrics)
    PROVE  /\ p.client = "agent" /\ p.route = "POST:/updates/" /\ p.url = None
           /\ p.gzip = TRUE /\ p.accept = TRUE
           /\ p.sum = AgentSum(metrics) /\ p.body.doc = Document("array", metrics)
           /\ Agent.CryptoKey = "" =>
                 p.type = "application/json" /\ p.body = Gzip(Plain(Document("array", metrics)))
           /\ Agent.CryptoKey # "" =>
                 /\ p.type = "application/octet-stream"
                 /\ p.body = Encrypt(Agent.CryptoKey, Gzip(Plain(Document("array", metrics))))
<1> DEFINE doc    == Document("array", metrics)
           zipped == Gzip(Plain(doc))
           sealed == Encrypt(Agent.CryptoKey, zipped)
<1> HIDE DEF doc
<1>1. zipped.doc = doc /\ sealed.doc = doc
  <2>1. /\ zipped = [layers |-> <<<<"gzip", "">>>>, doc |-> doc]
        /\ sealed = [layers |-> <<<<"rsa", Agent.CryptoKey>>, <<"gzip", "">>>>, doc |-> doc]
    BY ONLY LayersOfReport
  <2> HIDE DEF zipped, sealed
  <2> QED
    BY ONLY <2>1
<1> HIDE DEF zipped, sealed
<1>2. p = [client |-> "agent", route |-> "POST:/updates/",
           type |-> IF Agent.CryptoKey # "" THEN "application/octet-stream" ELSE "application/json",
           gzip |-> TRUE, accept |-> TRUE, sum |-> AgentSum(metrics), url |-> None,
           body |-> IF Agent.CryptoKey # "" THEN sealed ELSE zipped]
  BY DEF Post, doc, zipped, sealed
<1>3. /\ p.client = "agent" /\ p.route = "POST:/updates/" /\ p.url = None
      /\ p.gzip = TRUE /\ p.accept = TRUE /\ p.sum = AgentSum(metrics)
      /\ p.type = (IF Agent.CryptoKey # "" THEN "application/octet-stream" ELSE "application/json")
      /\ p.body = (IF Agent.CryptoKey # "" THEN sealed ELSE zipped)
  BY ONLY <1>2
<1> QED
  BY <1>1, <1>3 DEF doc, zipped, sealed

\* What is known of a report on its way in.
Zipped0 == Gzip(Plain(AgentDoc))
Sealed  == Encrypt(Agent.CryptoKey, Zipped0)

\* What the agent has put into the request it sends (sendMetrics).
LEMMA ReportIs ==
    ASSUME RequestInv, sent.client = "agent"
    PROVE  /\ sent.route = "POST:/updates/" /\ sent.gzip = TRUE /\ sent.url = None
           /\ sent.sum = (IF Agent.Key = "" THEN <<>> ELSE <<Hmac(Agent.Key, Zipped0)>>)
           /\ AgentDoc = Document("array", AgentDoc.metrics)
           /\ Agent.CryptoKey = "" => sent.type = "application/json" /\ sent.body = Zipped0
           /\ Agent.CryptoKey # "" =>
                 sent.type = "application/octet-stream" /\ sent.body = Sealed
<1> DEFINE metrics == AgentDoc.metrics
           doc == Document("array", metrics)
<1>1. sent = Post(metrics)
  BY DEF RequestInv
<1> HIDE DEF metrics
<1>2. /\ sent.route = "POST:/updates/" /\ sent.url = None /\ sent.gzip = TRUE
      /\ sent.sum = AgentSum(metrics) /\ sent.body.doc = doc
      /\ Agent.CryptoKey = "" => sent.type = "application/json" /\ sent.body = Gzip(Plain(doc))
      /\ Agent.CryptoKey # "" =>
            /\ sent.type = "application/octet-stream"
            /\ sent.body = Encrypt(Agent.CryptoKey, Gzip(Plain(doc)))
  BY ONLY <1>1, PostIs
<1>3. AgentDoc = doc
  BY <1>2 DEF AgentDoc
<1> QED
  BY <1>2, <1>3 DEF metrics, Zipped0, Sealed, AgentSum

\* A body that has its layers and its document.
LEMMA SummaryKeeps == ExchangeInv /\ Summary => ExchangeInv'
<1> SUFFICES ASSUME ExchangeInv, Summary PROVE ExchangeInv'
  OBVIOUS
<1>0. /\ UNCHANGED <<configVars, store, sent, req, out, before, retries>> /\ way = "in" /\ way' = "in"
      /\ depth < Len(Chain) /\ depth' = depth + 1 /\ writers' = Append(writers, "log")
  BY DEF Summary, GoOn, At
<1>1. /\ StackInv /\ RequestInv /\ depth \in 0 .. Len(Chain)
  BY DEF ExchangeInv, StackInv
<1>2. depth = 0
  BY <1>1, Places DEF Summary
<1>3. Wrapped = {} /\ Wrapped' = {"log"}
  BY <1>0, <1>1, <1>2, Inwards
<1>4. writers' = StackOf(Wrapped')
  BY <1>0, <1>1, <1>3, Pushed DEF StackInv
<1>5. req' = Peeled(sent, req'.type, req'.body.layers)
  BY <1>0, <1>1 DEF RequestInv
<1>6. ASSUME sent.client = "agent" PROVE PeeledInv'
  <2>1. PeeledInv
    BY <1>0, <1>1, <1>6 DEF RequestInv
  <2>2. EncodingAt \in {1, 2, 3} /\ IntegrityAt \in {1, 2} /\ depth' = 1
    BY <1>0, <1>1, <1>2, Places DEF IntegrityAt
  <2>3. ~PassedCrypto /\ ~PassedIntegrity /\ ~PassedEncoding
    BY <1>2, <2>2 DEF PassedCrypto, PassedIntegrity, PassedEncoding
  <2>4. ~PassedCrypto' /\ ~PassedIntegrity' /\ ~PassedEncoding'
    BY <1>0, <2>2, SameConfig DEF PassedCrypto, PassedIntegrity, PassedEncoding
  <2> QED
    BY <1>0, <2>1, <2>3, <2>4 DEF PeeledInv
<1> QED
  BY ONLY <1>0, <1>4, <1>5, <1>6, ExchangeInv, GoesOn

\* What a middleware that is entered has been, and has become.
LEMMA Passing ==
    ASSUME UNCHANGED configVars, depth \in 0 .. Len(Chain), depth' = depth + 1
    PROVE  /\ Crypts /\ depth = 1 =>
                 /\ ~PassedCrypto /\ ~PassedIntegrity /\ ~PassedEncoding
                 /\ PassedCrypto' /\ ~PassedIntegrity' /\ ~PassedEncoding'
           /\ Signs /\ depth = IntegrityAt =>
                 /\ (PassedCrypto <=> Crypts) /\ ~PassedIntegrity /\ ~PassedEncoding
                 /\ (PassedCrypto' <=> Crypts) /\ PassedIntegrity' /\ ~PassedEncoding'
           /\ depth = EncodingAt =>
                 /\ (PassedCrypto <=> Crypts) /\ (PassedIntegrity <=> Signs) /\ ~PassedEncoding
                 /\ (PassedCrypto' <=> Crypts) /\ (PassedIntegrity' <=> Signs)
                 /\ PassedEncoding'
<1>1. /\ (Crypts' <=> Crypts) /\ (Signs' <=> Signs)
      /\ IntegrityAt' = IntegrityAt /\ EncodingAt' = EncodingAt
  BY SameConfig
<1>2. /\ IntegrityAt = (IF Crypts THEN 2 ELSE 1)
      /\ EncodingAt = (IF Signs THEN IntegrityAt + 1 ELSE IntegrityAt)
      /\ depth \in Nat
  BY ChainIs DEF IntegrityAt, EncodingAt
<1>3. /\ PassedCrypto <=> Crypts /\ depth >= 2
      /\ PassedIntegrity <=> Signs /\ depth > IntegrityAt
      /\ PassedEncoding <=> depth > EncodingAt
  BY DEF PassedCrypto, PassedIntegrity, PassedEncoding
<1>4. /\ PassedCrypto' <=> Crypts' /\ depth' >= 2
      /\ PassedIntegrity' <=> Signs' /\ depth' > IntegrityAt'
      /\ PassedEncoding' <=> depth' > EncodingAt'
  BY DEF PassedCrypto, PassedIntegrity, PassedEncoding
<1> QED
  BY ONLY <1>1, <1>2, <1>3, <1>4, depth' = depth + 1

\* rsa: one layer less, and of a report the one the agent put on.
LEMMA DecryptKeeps == ExchangeInv /\ DecryptBody => ExchangeInv'
<1> SUFFICES ASSUME ExchangeInv, DecryptBody PROVE ExchangeInv'
  OBVIOUS
<1>0. /\ UNCHANGED <<configVars, store, sent, writers, out, before, retries>> /\ way = "in"
      /\ way' = "in"
      /\ depth < Len(Chain) /\ depth' = depth + 1
      /\ Encrypted => HasLayer(req.body, <<"rsa", Server.CryptoKey>>)
      /\ Encrypted => req' = Decoded(req)
      /\ ~Encrypted => req' = req
  BY DEF DecryptBody, GoOn, At, Decoded
<1>1. /\ StackInv /\ RequestInv /\ depth \in 0 .. Len(Chain)
  BY DEF ExchangeInv, StackInv
<1>2. Crypts /\ depth = 1
  BY <1>1, Places DEF DecryptBody
<1>3. Wrapped' = Wrapped
  BY <1>0, <1>1, <1>2, Inwards
<1>4. writers' = StackOf(Wrapped')
  BY <1>0, <1>1, <1>3 DEF StackInv
<1>5. req = Peeled(sent, req.type, req.body.layers) /\ WellFormed(sent)
  BY <1>1 DEF RequestInv
<1>6. Encrypted => /\ req' = Peeled(sent, "application/json", Tail(req.body.layers))
                   /\ TakeOff(req.body) = [layers |-> Tail(req.body.layers), doc |-> sent.body.doc]
  <2> DEFINE t == req.type
             l == req.body.layers
  <2>1. req = Peeled(sent, t, l)
    BY ONLY <1>5
  <2> HIDE DEF t, l
  <2>2. /\ TakeOff(req.body) = [layers |-> Tail(l), doc |-> sent.body.doc]
        /\ Decoded(req) = Peeled(sent, "application/json", Tail(l))
    BY ONLY <2>1, TakenOff
  <2>3. Encrypted => req' = Peeled(sent, "application/json", Tail(l))
    BY ONLY <1>0, <2>2
  <2> QED
    BY <2>2, <2>3 DEF l
<1>7. Encrypted => /\ req' = Peeled(sent, req'.type, req'.body.layers)
                   /\ req'.type = "application/json" /\ req'.body = TakeOff(req.body)
  <2> SUFFICES ASSUME Encrypted
               PROVE  /\ req' = Peeled(sent, req'.type, req'.body.layers)
                      /\ req'.type = "application/json" /\ req'.body = TakeOff(req.body)
    OBVIOUS
  <2> DEFINE l == Tail(req.body.layers)
  <2>1. /\ req' = Peeled(sent, "application/json", l)
        /\ TakeOff(req.body) = [layers |-> l, doc |-> sent.body.doc]
    BY <1>6
  <2> HIDE DEF l
  <2>2. req'.type = "application/json" /\ req'.body = [layers |-> l, doc |-> sent.body.doc]
    BY ONLY <2>1 DEF Peeled
  <2>3. req'.body.layers = l
    BY ONLY <2>2
  <2> QED
    BY ONLY <2>1, <2>2, <2>3
<1>8. req' = Peeled(sent, req'.type, req'.body.layers)
  BY ONLY <1>0, <1>5, <1>7
<1>9. ASSUME sent.client = "agent" PROVE PeeledInv'
  <2>1. /\ ~PassedCrypto /\ ~PassedEncoding
        /\ PassedCrypto' /\ ~PassedIntegrity' /\ ~PassedEncoding'
    BY <1>0, <1>1, <1>2, Passing
  <2>2. req.body = sent.body /\ req.type = sent.type
    BY <1>0, <1>1, <1>9, <2>1 DEF RequestInv, PeeledInv
  <2>3. Agent' = Agent /\ Server' = Server /\ AgentDoc' = AgentDoc
    BY <1>0, SameConfig DEF AgentDoc
  <2>4. /\ Agent.CryptoKey = "" => sent.type = "application/json" /\ sent.body = Zipped0
        /\ Agent.CryptoKey # "" =>
              sent.type = "application/octet-stream" /\ sent.body = Sealed
    BY <1>1, <1>9, ReportIs
  <2>5. /\ TakeOff(Sealed) = Zipped0
        /\ HasLayer(Sealed, <<"rsa", Server.CryptoKey>>) => Server.CryptoKey = Agent.CryptoKey
    BY LayersOfReport DEF Sealed, Zipped0
  <2>6. /\ req'.body = Zipped0 /\ req'.type = "application/json"
        /\ Agent.CryptoKey \in {"", Server.CryptoKey}
    <3>1. CASE Agent.CryptoKey = ""
      BY <1>0, <2>2, <2>4, <3>1 DEF Encrypted
    <3>2. CASE Agent.CryptoKey # ""
      <4>1. Encrypted
        BY <2>2, <2>4, <3>2 DEF Encrypted
      <4> QED
        BY <1>0, <1>7, <2>2, <2>4, <2>5, <3>2, <4>1
    <3> QED
      BY <3>1, <3>2
  <2> QED
    BY ONLY <2>1, <2>3, <2>6 DEF PeeledInv, Zipped0
<1> QED
  BY ONLY <1>0, <1>4, <1>8, <1>9, ExchangeInv, GoesOn

\* Two signatures are equal when their keys and their bodies are.
LEMMA HmacIs ==
    ASSUME NEW k, NEW b, NEW l, NEW c
    PROVE  /\ Hmac(k, b) = Hmac(l, c) <=> k = l /\ b = c
           /\ Head(<<Hmac(k, b)>>) = Hmac(k, b) /\ <<Hmac(k, b)>> # <<>>
<1>1. Hmac(k, b).key = k /\ Hmac(k, b).of = b /\ Hmac(l, c).key = l /\ Hmac(l, c).of = c
  BY DEF Hmac
<1> QED
  BY <1>1

\* The signature of a report is compared with what the server makes of its body.
LEMMA SignatureOfReport ==
    ASSUME RequestInv, sent.client = "agent"
    PROVE  SignatureFits <=> Agent.Key = "" \/ (Agent.Key = Server.Key /\ req.body = Zipped0)
<1>1. req.sum = IF Agent.Key = "" THEN <<>> ELSE <<Hmac(Agent.Key, Zipped0)>>
  <2>1. req = Peeled(sent, req.type, req.body.layers) /\ WellFormed(sent)
    BY DEF RequestInv
  <2>2. req.sum = sent.sum
    BY ONLY <2>1, PeeledIs DEF Rest
  <2> QED
    BY <2>2, ReportIs
<1>2. CASE Agent.Key = ""
  BY <1>1, <1>2 DEF SignatureFits
<1>3. CASE Agent.Key # ""
  <2>1. req.sum # <<>> /\ Head(req.sum) = Hmac(Agent.Key, Zipped0)
    <3> DEFINE h == Hmac(Agent.Key, Zipped0)
    <3>1. req.sum = <<h>>
      BY <1>1, <1>3
    <3> HIDE DEF h
    <3>2. req.sum # <<>> /\ Head(req.sum) = h
      BY ONLY <3>1
    <3> QED
      BY <3>2 DEF h
  <2>2. Hmac(Agent.Key, Zipped0) = Hmac(Server.Key, req.body)
           <=> Agent.Key = Server.Key /\ req.body = Zipped0
    BY HmacIs
  <2> QED
    BY <1>3, <2>1, <2>2 DEF SignatureFits
<1> QED
  BY <1>2, <1>3

\* integrity: the request stays as it is.
LEMMA VerifyKeeps == ExchangeInv /\ VerifyRequest => ExchangeInv'
<1> SUFFICES ASSUME ExchangeInv, VerifyRequest PROVE ExchangeInv'
  OBVIOUS
<1>0. /\ UNCHANGED <<configVars, store, sent, req, out, before, retries>> /\ way = "in" /\ way' = "in"
      /\ depth < Len(Chain) /\ depth' = depth + 1 /\ SignatureFits
      /\ writers' = Append(writers, "sign")
  BY DEF VerifyRequest, GoOn, At
<1>1. /\ StackInv /\ RequestInv /\ depth \in 0 .. Len(Chain)
  BY DEF ExchangeInv, StackInv
<1>2. Signs /\ depth = IntegrityAt
  BY <1>1, Places DEF VerifyRequest
<1>3. Wrapped = {"log"} /\ Wrapped' = {"log", "sign"}
  BY <1>0, <1>1, <1>2, Inwards
<1>4. writers' = StackOf(Wrapped')
  BY <1>0, <1>1, <1>3, Pushed DEF StackInv
<1>5. req' = Peeled(sent, req'.type, req'.body.layers)
  BY <1>0, <1>1 DEF RequestInv
<1>6. ASSUME sent.client = "agent" PROVE PeeledInv'
  <2>1. /\ (PassedCrypto' <=> PassedCrypto) /\ ~PassedEncoding /\ ~PassedEncoding'
    BY <1>0, <1>1, <1>2, Passing
  <2>2. PeeledInv
    BY <1>0, <1>1, <1>6 DEF RequestInv
  <2>3. Agent' = Agent /\ Server' = Server /\ AgentDoc' = AgentDoc /\ (SignAgree' <=> SignAgree)
        /\ req' = req /\ sent' = sent
    BY <1>0, SameConfig DEF AgentDoc
  <2>4. SignAgree
    BY <1>0, <1>1, <1>6, SignatureOfReport DEF SignAgree
  <2> QED
    BY ONLY <2>1, <2>2, <2>3, <2>4 DEF PeeledInv
<1> QED
  BY ONLY <1>0, <1>4, <1>5, <1>6, ExchangeInv, GoesOn

\* encoding: one layer less, and the compressor is put on if it is accepted.
LEMMA DecompressKeeps == ExchangeInv /\ Decompress => ExchangeInv'
<1> SUFFICES ASSUME ExchangeInv, Decompress PROVE ExchangeInv'
  OBVIOUS
<1>0. /\ UNCHANGED <<configVars, store, sent, out, before, retries>> /\ way = "in" /\ way' = "in"
      /\ depth < Len(Chain) /\ depth' = depth + 1
      /\ writers' = (IF req.accept THEN Append(writers, "zip") ELSE writers)
      /\ req.gzip => HasLayer(req.body, <<"gzip", "">>) /\ req' = Undone(req)
      /\ ~req.gzip => req' = req
  BY DEF Decompress, GoOn, At, Undone
<1>1. /\ StackInv /\ RequestInv /\ depth \in 0 .. Len(Chain)
  BY DEF ExchangeInv, StackInv
<1>2. depth = EncodingAt
  BY <1>1, Places DEF Decompress
<1>3. /\ Wrapped' = (IF sent.accept THEN Wrapped \cup {"zip"} ELSE Wrapped)
      /\ Wrapped = (IF Signs THEN {"log", "sign"} ELSE {"log"})
  BY <1>0, <1>1, <1>2, Inwards
<1>4. req = Peeled(sent, req.type, req.body.layers) /\ WellFormed(sent)
  BY <1>1 DEF RequestInv
<1>5. Rest(req, sent)
  BY ONLY <1>4, PeeledIs
<1>6. writers' = StackOf(Wrapped')
  <2>1. req.accept = sent.accept
    BY ONLY <1>5 DEF Rest
  <2>2. /\ {"log"} \cup {"zip"} = {"log", "zip"}
        /\ {"log", "sign"} \cup {"zip"} = {"log", "sign", "zip"}
    OBVIOUS
  <2> QED
    BY <1>0, <1>1, <1>3, <2>1, <2>2, Pushed DEF StackInv
<1>7. req.gzip => /\ req' = Peeled(sent, req'.type, req'.body.layers)
                  /\ req'.type = req.type /\ req'.body = TakeOff(req.body)
  <2> SUFFICES ASSUME req.gzip
               PROVE  /\ req' = Peeled(sent, req'.type, req'.body.layers)
                      /\ req'.type = req.type /\ req'.body = TakeOff(req.body)
    OBVIOUS
  <2> DEFINE l == req.body.layers
             m == Tail(l)
  <2>0. req = Peeled(sent, req.type, l)
    BY ONLY <1>4
  <2> HIDE DEF l
  <2>1. /\ req' = Peeled(sent, req.type, m)
        /\ TakeOff(req.body) = [layers |-> m, doc |-> sent.body.doc]
    <3>1. req' = Undone(req)
      BY ONLY <1>0, req.gzip
    <3>2. /\ TakeOff(req.body) = [layers |-> m, doc |-> sent.body.doc]
          /\ Undone(req) = Peeled(sent, req.type, m)
      BY ONLY <2>0, TakenOff
    <3> QED
      BY ONLY <3>1, <3>2
  <2> HIDE DEF m
  <2>2. req'.type = req.type /\ req'.body = [layers |-> m, doc |-> sent.body.doc]
    BY ONLY <2>1 DEF Peeled
  <2>3. req'.body.layers = m
    BY ONLY <2>2
  <2> QED
    BY ONLY <2>1, <2>2, <2>3
<1>8. req' = Peeled(sent, req'.type, req'.body.layers)
  BY ONLY <1>0, <1>4, <1>7
<1>9. ASSUME sent.client = "agent" PROVE PeeledInv'
  <2>1. /\ (PassedCrypto <=> Crypts) /\ (PassedCrypto' <=> Crypts)
        /\ (PassedIntegrity' <=> PassedIntegrity) /\ ~PassedEncoding /\ PassedEncoding'
    BY <1>0, <1>1, <1>2, Passing
  <2>2. PeeledInv
    BY <1>0, <1>1, <1>9 DEF RequestInv
  <2>3. Agent' = Agent /\ Server' = Server /\ AgentDoc' = AgentDoc /\ (SignAgree' <=> SignAgree)
    BY <1>0, SameConfig DEF AgentDoc
  <2>4. /\ sent.gzip = TRUE
        /\ Agent.CryptoKey = "" => sent.type = "application/json" /\ sent.body = Zipped0
        /\ Agent.CryptoKey # "" =>
              sent.type = "application/octet-stream" /\ sent.body = Sealed
    BY <1>1, <1>9, ReportIs
  <2>5. req.gzip
    BY ONLY <1>5, <2>4 DEF Rest
  <2>6. ~HasLayer(Sealed, <<"gzip", "">>) /\ TakeOff(Zipped0) = Plain(AgentDoc)
    BY LayersOfReport DEF Sealed, Zipped0
  <2>7. /\ req.body = Zipped0 /\ req.type = "application/json"
        /\ Agent.CryptoKey \in {"", Server.CryptoKey}
    <3>1. CASE Crypts
      BY ONLY <2>1, <2>2, <3>1 DEF PeeledInv, Zipped0
    <3>2. CASE ~Crypts
      <4>1. req.body = sent.body /\ req.type = sent.type
        BY ONLY <2>1, <2>2, <3>2 DEF PeeledInv
      <4> QED
        BY ONLY <1>0, <2>4, <2>5, <2>6, <4>1
    <3> QED
      BY <3>1, <3>2
  <2>8. req'.body = Plain(AgentDoc) /\ req'.type = "application/json"
    BY ONLY <1>7, <2>5, <2>6, <2>7
  <2> QED
    BY ONLY <2>1, <2>2, <2>3, <2>7, <2>8 DEF PeeledInv
<1> QED
  BY ONLY <1>0, <1>6, <1>8, <1>9, ExchangeInv, GoesOn

----------------------------------------------------------------------------
(* A request that waits, while a program is configured or a transaction is *)
(* made again: what it has met and what it meets stays.                    *)

\* No request is on its way unless the programs it concerns are configured.
LEMMA RequestWaits ==
    ASSUME ExchangeInv, way # "idle", [ConfigNext]_configVars,
           UNCHANGED <<sent, req, depth, way, writers, out>>
    PROVE  /\ ConfigInv' /\ StackInv' /\ RequestInv' /\ OutInv' /\ Server' = Server
           /\ sent.client = "agent" => Agent' = Agent
<1>0. UNCHANGED <<sent, req, depth, way, writers, out>>
  OBVIOUS
<1>a. ConfigInv /\ ConfigInv'
  BY ConfigKeeps DEF ExchangeInv
<1>1. RequestInv /\ Ready("server") /\ (sent.client = "agent" => Ready("agent"))
  BY DEF ExchangeInv, RequestInv
<1>2. Ready("server")' /\ Server' = Server
  BY <1>a, <1>1, ReadyStays DEF Server, Programs
<1>3. sent.client = "agent" => Ready("agent")' /\ Agent' = Agent
  BY <1>a, <1>1, ReadyStays DEF Agent, Programs
<1>4. /\ Chain' = Chain /\ (Crypts' <=> Crypts) /\ (Signs' <=> Signs)
      /\ (StorageMayFail' <=> StorageMayFail)
  BY <1>2 DEF Chain, Crypts, Signs, StorageMayFail
<1>5. IntegrityAt' = IntegrityAt
  BY <1>4 DEF IntegrityAt
<1>6. EncodingAt' = EncodingAt
  BY <1>4, <1>5 DEF EncodingAt
<1>7. /\ (PassedCrypto' <=> PassedCrypto) /\ (PassedIntegrity' <=> PassedIntegrity)
      /\ (PassedEncoding' <=> PassedEncoding)
  BY <1>0, <1>4, <1>5, <1>6 DEF PassedCrypto, PassedIntegrity, PassedEncoding
<1>8. Wrapped' = Wrapped
  BY <1>0, <1>7 DEF Wrapped
<1>9. StackInv'
  BY <1>0, <1>4, <1>8 DEF ExchangeInv, StackInv
<1>10. RequestInv'
  <2>1. ASSUME sent.client = "agent"
        PROVE  /\ Ready("agent")' /\ Reported(AgentDoc.metrics)'
               /\ sent' = Post(AgentDoc.metrics)'
               /\ way' = "in" => PeeledInv'
    <3>1. AgentDoc' = AgentDoc
      BY <1>0 DEF AgentDoc
    <3>2. Post(AgentDoc.metrics)' = Post(AgentDoc.metrics)
      BY <1>3, <2>1, <3>1 DEF Post, AgentSum
    <3>3. SignAgree' <=> SignAgree
      BY <1>2, <1>3, <2>1 DEF SignAgree
    <3>4. PeeledInv => PeeledInv'
      BY ONLY <1>0, <1>2, <1>3, <1>7, <2>1, <3>1, <3>3 DEF PeeledInv
    <3> QED
      BY <1>0, <1>1, <1>3, <2>1, <3>1, <3>2, <3>4 DEF RequestInv
  <2> QED
    BY <1>0, <1>1, <1>2, <2>1 DEF RequestInv
<1>11. OutInv'
  <2>1. SumInv => SumInv'
    <3>1. Hmac(Server.Key, out.body)' = Hmac(Server.Key, out.body)
      BY ONLY <1>0, <1>2 DEF Hmac
    <3> QED
      BY ONLY <1>0, <1>4, <1>7, <3>1 DEF SumInv
  <2>2. OutInv
    BY DEF ExchangeInv
  <2> QED
    BY ONLY <1>0, <1>8, <2>1, <2>2 DEF OutInv
<1> QED
  BY ONLY <1>a, <1>2, <1>3, <1>9, <1>10, <1>11

----------------------------------------------------------------------------
(* The answer.                                                             *)

\* What the status should tell depends on the request and the store alone.
LEMMA SameRequest ==
    ASSUME UNCHANGED <<configVars, sent, before>>, NEW code, NEW s
    PROVE  /\ Tells(code, s)' <=> Tells(code, s)
           /\ TellsAgent(code, s)' <=> TellsAgent(code, s)
<1>1. /\ (StorageMayFail' <=> StorageMayFail) /\ (KeysAgree' <=> KeysAgree)
      /\ sent' = sent /\ before' = before
  BY SameConfig
<1>2. Outcomes' = Outcomes
  BY <1>1 DEF Outcomes, Attempts
<1> QED
  BY <1>1, <1>2 DEF Tells, TellsAgent

\* And which writers there are on the place in the chain.
LEMMA SameWriters ==
    ASSUME UNCHANGED <<configVars, sent, depth>>
    PROVE  /\ Wrapped' = Wrapped /\ Chain' = Chain /\ (Signs' <=> Signs)
           /\ (PassedIntegrity' <=> PassedIntegrity)
<1>1. /\ Chain' = Chain /\ IntegrityAt' = IntegrityAt /\ EncodingAt' = EncodingAt
      /\ (Signs' <=> Signs) /\ sent' = sent /\ depth' = depth
  BY SameConfig
<1>2. (PassedIntegrity' <=> PassedIntegrity) /\ (PassedEncoding' <=> PassedEncoding)
  BY <1>1 DEF PassedIntegrity, PassedEncoding
<1>3. Wrapped' = Wrapped
  BY <1>1, <1>2 DEF Wrapped
<1> QED
  BY ONLY <1>1, <1>2, <1>3

\* A request that is done with keeps what is known of it.
LEMMA RequestKeeps ==
    ASSUME RequestInv, way # "idle", UNCHANGED <<configVars, sent, req>>, way' = "out"
    PROVE  RequestInv'
<1>1. /\ (Ready("server")' <=> Ready("server")) /\ (Ready("agent")' <=> Ready("agent"))
      /\ Agent' = Agent /\ sent' = sent /\ req' = req
  BY SameConfig
<1>2. /\ WellFormed(sent') /\ WellFormed(req') /\ way' # "idle" /\ way' # "in"
      /\ Ready("server")'
      /\ req' = Peeled(sent', req'.type, req'.body.layers)
  BY <1>1 DEF RequestInv
<1>3. ASSUME sent'.client = "agent"
      PROVE  Ready("agent")' /\ Reported(AgentDoc'.metrics) /\ sent' = Post(AgentDoc.metrics)'
  <2>1. Ready("agent") /\ Reported(AgentDoc.metrics) /\ sent = Post(AgentDoc.metrics)
    BY <1>1, <1>3 DEF RequestInv
  <2>2. AgentDoc' = AgentDoc /\ Post(AgentDoc.metrics)' = Post(AgentDoc.metrics)
    BY <1>1 DEF AgentDoc, Post, AgentSum
  <2> QED
    BY <1>1, <2>1, <2>2
<1> QED
  BY <1>2, <1>3 DEF RequestInv

\* Whoever answers and turns the request back: the answer has been written
\* through the writers there are, and its status tells what it should.
LEMMA Replies ==
    ASSUME ExchangeInv, way = "in", way' = "out", depth >= 1,
           UNCHANGED <<configVars, sent, req, writers, before>>, depth' = depth, retries' = 0,
           NEW code, NEW early \in {0, code}, Replied(out', Wrapped, code, early),
           code = 200 => early = 0 \/ sent.route = "GET:/ping",
           Signs /\ ~PassedIntegrity => early = code /\ code # 200,
           store' \in Snapshot, Tells(code, store'), TellsAgent(code, store')
    PROVE  ExchangeInv'
<1>1. /\ ConfigInv /\ StackInv /\ RequestInv /\ EffectInv /\ depth \in 0 .. Len(Chain)
  BY DEF ExchangeInv, StackInv
<1>2. /\ Wrapped' = Wrapped /\ Chain' = Chain /\ (Signs' <=> Signs)
      /\ (PassedIntegrity' <=> PassedIntegrity)
  BY SameWriters
<1>3. ConfigInv'
  BY <1>1, ConfigKeeps
<1>4. StackInv'
  BY <1>1, <1>2 DEF StackInv
<1>5. RequestInv'
  BY <1>1, RequestKeeps
<1>6. /\ Shaped(out', Wrapped) /\ out'.header.sum = <<>> /\ out'.sent.sum = <<>>
      /\ Code(out') = code
      /\ out'.zip = "yes" => "zip" \in Wrapped
      /\ out'.status = early \/ ("sign" \notin Wrapped /\ out'.status = code)
  BY DEF Replied
<1>7. code # 0 /\ (out'.status # 0 => out'.status = code)
  BY ONLY <1>6 DEF Code
<1>8. SumInv'
  <2>1. "sign" \in Wrapped <=> PassedIntegrity
    BY WrappedIs
  <2>2. PassedIntegrity' /\ out'.status = 200 => sent'.route = "GET:/ping"
    <3>1. code = 200 => early = 0 \/ sent.route = "GET:/ping"
      OBVIOUS
    <3>2. sent' = sent
      OBVIOUS
    <3> SUFFICES ASSUME PassedIntegrity', out'.status = 200 PROVE sent'.route = "GET:/ping"
      OBVIOUS
    <3>3. "sign" \in Wrapped
      BY ONLY <1>2, <2>1, PassedIntegrity'
    <3>4. code = 200 /\ out'.status = early
      BY ONLY <1>6, <1>7, <3>3, out'.status = 200
    <3>5. early # 0
      BY ONLY <3>4, out'.status = 200
    <3> QED
      BY ONLY <3>1, <3>2, <3>4, <3>5
  <2>3. Signs' /\ ~PassedIntegrity' => out'.status # 0 /\ out'.status # 200
    BY <1>2, <1>6, <1>7
  <2> QED
    BY ONLY <1>6, <2>2, <2>3 DEF SumInv
<1>9. OutInv'
  <2>1. out'.zip = "yes" => sent'.accept
    BY <1>6, WrappedIs
  <2>2. depth' # 0
    BY ONLY depth >= 1, depth' = depth
  <2> QED
    BY <1>2, <1>6, <1>8, <2>1, <2>2 DEF OutInv
<1>10. EffectInv'
  <2>1. \A s : /\ Tells(code, s)' <=> Tells(code, s)
              /\ TellsAgent(code, s)' <=> TellsAgent(code, s)
    BY SameRequest
  <2>2. store' \in Snapshot /\ before' \in Snapshot /\ way' = "out" /\ Code(out') = code
    BY <1>1, <1>6 DEF EffectInv
  <2>3. Tells(code, store)' /\ TellsAgent(code, store)'
    BY <2>1
  <2>4. Returned'
    BY DEF Returned
  <2> QED
    BY <2>2, <2>3, <2>4, ReturnedIsNext DEF EffectInv
<1> QED
  BY <1>3, <1>4, <1>5, <1>9, <1>10 DEF ExchangeInv

\* A status that promises nothing, of a store that is as it was.
LEMMA TellsNothing ==
    ASSUME NEW code, NEW s, s = before, code # 200 \/ ~Updates(sent)
    PROVE  Tells(code, s)
  BY DEF Tells

\* A middleware that refuses a request has not changed the store; and it
\* does not refuse a report of an agent whose keys agree.
LEMMA Refused ==
    ASSUME ExchangeInv, way = "in", depth >= 1, depth < Len(Chain),
           NEW code \in {400, 500}, Refuse(code),
           sent.client = "agent" => ~KeysAgree
    PROVE  ExchangeInv'
<1>1. /\ out' = HTTPError(out, writers, code) /\ way' = "out"
      /\ UNCHANGED <<configVars, store, sent, req, writers, before, retries>> /\ depth' = depth
  BY DEF Refuse
<1>2. /\ writers = StackOf(Wrapped) /\ out = NoAnswer /\ store = before /\ store \in Snapshot
      /\ retries = 0
  <2>1. depth \in 0 .. Len(Chain)
    BY DEF ExchangeInv, StackInv
  <2>2. ~Inside
    BY <2>1 DEF Inside
  <2>3. retries = 0 /\ store = before
    BY <2>2, NotRepeated
  <2> QED
    BY <2>3 DEF ExchangeInv, StackInv, OutInv, EffectInv
<1>3. "log" \in Wrapped
  BY WrappedIs
<1>4. Fresh(out) /\ out.status = 0
  BY <1>2, FreshAnswer DEF NoAnswer
<1>5. /\ out' = HTTPError(out, StackOf(Wrapped), code) /\ code \in {200, 400, 404, 500}
      /\ code # 200
  BY <1>1, <1>2
<1>6. Replied(out', Wrapped, code, code)
  BY ONLY <1>3, <1>4, <1>5, HTTPErrorIs
<1>7. Tells(code, store')
  BY <1>1, <1>2, <1>5, TellsNothing
<1>8. TellsAgent(code, store')
  BY <1>1, <1>2, <1>5 DEF TellsAgent
<1>9. store' \in Snapshot
  BY <1>1, <1>2
<1>10. /\ code \in {0, code}
       /\ code = 200 => code = 0 \/ sent.route = "GET:/ping"
       /\ Signs /\ ~PassedIntegrity => code = code /\ code # 200
  BY ONLY <1>5
<1>11. UNCHANGED <<configVars, sent, req, writers, before>> /\ retries' = 0
  BY ONLY <1>1, <1>2
<1> QED
  BY ONLY <1>1, <1>6, <1>7, <1>8, <1>9, <1>10, <1>11, ExchangeInv, way = "in", depth >= 1, Replies

\* None of the three that refuse breaks the invariant.
LEMMA RefusalsKeep ==
    ExchangeInv /\ (DecryptionFails \/ VerificationFails \/ DecompressionFails) => ExchangeInv'
<1> SUFFICES ASSUME ExchangeInv
             PROVE  DecryptionFails \/ VerificationFails \/ DecompressionFails => ExchangeInv'
  OBVIOUS
<1>1. /\ RequestInv /\ depth \in 0 .. Len(Chain)
  BY DEF ExchangeInv, StackInv
<1>2. IntegrityAt \in {1, 2} /\ EncodingAt \in {1, 2, 3}
  BY DEF IntegrityAt, EncodingAt
<1>4. ASSUME DecryptionFails PROVE ExchangeInv'
  <2>1. way = "in" /\ depth = 1 /\ depth < Len(Chain) /\ Crypts /\ Refuse(400) /\ Encrypted
        /\ ~HasLayer(req.body, <<"rsa", Server.CryptoKey>>)
    BY <1>1, <1>4, Places DEF DecryptionFails, At
  <2>2. ASSUME sent.client = "agent" PROVE ~KeysAgree
    <3>1. ~PassedCrypto /\ ~PassedEncoding
      BY <1>2, <2>1 DEF PassedCrypto, PassedEncoding
    <3>2. req.body = sent.body /\ req.type = sent.type
      BY <1>1, <2>1, <2>2, <3>1 DEF RequestInv, PeeledInv
    <3>3. /\ Agent.CryptoKey = "" => sent.type = "application/json"
          /\ Agent.CryptoKey # "" => sent.body = Sealed
      BY <1>1, <2>2, ReportIs
    <3>4. Agent.CryptoKey # ""
      BY <2>1, <3>2, <3>3 DEF Encrypted
    <3>5. Server.CryptoKey = Agent.CryptoKey => HasLayer(Sealed, <<"rsa", Server.CryptoKey>>)
      BY LayersOfReport DEF Sealed, Zipped0
    <3> QED
      BY <2>1, <3>2, <3>3, <3>4, <3>5 DEF KeysAgree
  <2> QED
    BY <2>1, <2>2, Refused
<1>5. ASSUME VerificationFails PROVE ExchangeInv'
  <2>1. /\ way = "in" /\ depth = IntegrityAt /\ depth < Len(Chain)
        /\ Signs /\ Refuse(400) /\ ~SignatureFits
    BY <1>1, <1>5, Places DEF VerificationFails, At
  <2>2. ASSUME sent.client = "agent" PROVE ~KeysAgree
    <3>1. (PassedCrypto <=> Crypts) /\ ~PassedEncoding
      BY <1>2, <2>1 DEF PassedCrypto, PassedEncoding, EncodingAt, IntegrityAt
    <3>2. PeeledInv
      BY <1>1, <2>1, <2>2 DEF RequestInv
    <3>3. Agent.Key # "" /\ ~(Agent.Key = Server.Key /\ req.body = Zipped0)
      BY <1>1, <2>1, <2>2, SignatureOfReport
    <3>4. Crypts => req.body = Zipped0
      BY ONLY <3>1, <3>2 DEF PeeledInv, Zipped0
    <3>5. Agent.CryptoKey = "" => sent.body = Zipped0
      BY <1>1, <2>2, ReportIs
    <3>6. ~Crypts => req.body = sent.body
      BY ONLY <3>1, <3>2 DEF PeeledInv
    <3> QED
      BY ONLY <2>1, <3>3, <3>4, <3>5, <3>6 DEF KeysAgree, Crypts, Signs
  <2> QED
    BY <1>2, <2>1, <2>2, Refused
<1>6. ASSUME DecompressionFails PROVE ExchangeInv'
  <2>1. way = "in" /\ depth = EncodingAt /\ depth < Len(Chain)
    BY <1>1, <1>6, Places DEF DecompressionFails, At
  <2>a. Refuse(500)
    BY <1>6 DEF DecompressionFails
  <2>b. ~HasLayer(req.body, <<"gzip", "">>)
    BY <1>6 DEF DecompressionFails
  <2>2. ASSUME sent.client = "agent" PROVE ~KeysAgree
    <3>1. (PassedCrypto <=> Crypts) /\ ~PassedEncoding
      <4>1. Crypts => IntegrityAt = 2 /\ EncodingAt >= 2
        BY DEF IntegrityAt, EncodingAt
      <4> QED
        BY ONLY <1>2, <2>1, <4>1 DEF PassedCrypto, PassedEncoding
    <3>2. PeeledInv
      BY <1>1, <2>1, <2>2 DEF RequestInv
    <3>3. HasLayer(Zipped0, <<"gzip", "">>)
      BY LayersOfReport DEF Zipped0
    <3>4. Crypts => req.body = Zipped0
      BY ONLY <3>1, <3>2 DEF PeeledInv, Zipped0
    <3>5. Agent.CryptoKey = "" => sent.body = Zipped0
      BY <1>1, <2>2, ReportIs
    <3>6. ~Crypts => req.body = sent.body
      BY ONLY <3>1, <3>2 DEF PeeledInv
    <3> QED
      BY ONLY <2>b, <3>3, <3>4, <3>5, <3>6 DEF KeysAgree, Crypts
  <2>3. depth >= 1 /\ 500 \in {400, 500}
    BY ONLY <1>2, <2>1
  <2> QED
    BY ONLY <2>1, <2>a, <2>2, <2>3, ExchangeInv, Refused
<1> QED
  BY <1>4, <1>5, <1>6

----------------------------------------------------------------------------
(* The metrics of a request.                                               *)

\* A set of numbers has a least one.
LEMMA LeastIndex ==
    ASSUME NEW S \in SUBSET Nat, S # {}
    PROVE  \E i \in S : \A j \in S : i <= j
<1> DEFINE R == OpToRel(<, Nat)
<1>1. PICK i \in S : \A j \in S : <<j, i>> \notin R
  <2>1. S \subseteq Nat /\ IsWellFoundedOn(R, Nat)
    BY NatLessThanWellFounded
  <2> HIDE DEF R
  <2> QED
    BY <2>1, WFMin
<1>2. ASSUME NEW j \in S PROVE i <= j
  <2>1. ~(j < i)
    BY <1>1 DEF OpToRel
  <2>2. i \in Nat /\ j \in Nat
    OBVIOUS
  <2> QED
    BY ONLY <2>1, <2>2
<1> QED
  BY <1>2

\* A batch with which nothing is wrong has metrics with which nothing is wrong.
LEMMA BatchIsValid ==
    ASSUME NEW metrics \in Seq(JSONMetric)
    PROVE  BatchFault(metrics) = "none" <=>
              \A i \in DOMAIN metrics : MetricFault(metrics[i]) = "none"
<1> DEFINE wrong == {i \in DOMAIN metrics : MetricFault(metrics[i]) # "none"}
           least == CHOOSE i \in wrong : \A j \in wrong : i <= j
<1>1. CASE wrong = {}
  BY <1>1 DEF BatchFault
<1>2. CASE wrong # {}
  <2>1. wrong \in SUBSET Nat
    OBVIOUS
  <2>2. \E i \in wrong : \A j \in wrong : i <= j
    <3> HIDE DEF wrong
    <3> QED
      BY <1>2, <2>1, LeastIndex
  <2>3. least \in wrong
    <3> HIDE DEF wrong
    <3> QED
      BY <2>2
  <2>4. BatchFault(metrics) = MetricFault(metrics[least])
    BY <1>2 DEF BatchFault
  <2>5. MetricFault(metrics[least]) # "none"
    <3> HIDE DEF least
    <3> QED
      BY <2>3
  <2> HIDE DEF least
  <2> QED
    BY <2>3, <2>4, <2>5
<1> QED
  BY <1>1, <1>2

\* What the adapters let pass is a metric.
LEMMA EntityType ==
    ASSUME NEW m \in JSONMetric, MetricFault(m) = "none"
    PROVE  ToEntity(m) \in Metric
<1>1. /\ m.ID \in Names \cup {None} /\ m.MType \in {"gauge", "counter", "other"}
      /\ m.Value \in GaugeValues \cup {None} /\ m.Delta \in Counter \cup {None}
  BY DEF JSONMetric
<1>2. KindFault(m) = "none"
  BY DEF MetricFault
<1>3. m.MType # "other" /\ m.ID # None
  BY ONLY <1>2 DEF KindFault
<1>4. CASE m.MType = "gauge"
  <2>1. m.Value # None
    BY <1>2, <1>4 DEF MetricFault
  <2> QED
    BY <1>1, <1>3, <1>4, <2>1 DEF ToEntity, Metric
<1>5. CASE m.MType = "counter"
  <2>1. m.Delta # None
    BY <1>2, <1>5 DEF MetricFault
  <2> QED
    BY <1>1, <1>3, <1>5, <2>1 DEF ToEntity, Metric
<1> QED
  BY <1>1, <1>3, <1>4, <1>5

\* The value in a path is checked as well.
LEMMA URLIsValid ==
    ASSUME NEW m, URLFault(m) = "none"
    PROVE  MetricFault(m) = "none"
  BY DEF URLFault

\* A batch that is valid is applied as a whole.
ValidBatch(metrics) ==
    /\ metrics \in Seq(JSONMetric)
    /\ \A i \in DOMAIN metrics : MetricFault(metrics[i]) = "none"

\* The entities of a valid list of metrics.
LEMMA EntitiesType ==
    ASSUME NEW metrics, ValidBatch(metrics)
    PROVE  /\ ToEntities(metrics) \in Seq(Metric)
           /\ Len(ToEntities(metrics)) = Len(metrics)
           /\ \A i \in 1 .. Len(metrics) : /\ ToEntities(metrics)[i] = ToEntity(metrics[i])
                                           /\ ToEntity(metrics[i]) \in Metric
<1>1. metrics \in Seq(JSONMetric) /\ DOMAIN metrics = 1 .. Len(metrics)
  BY DEF ValidBatch
<1>2. ASSUME NEW i \in 1 .. Len(metrics) PROVE ToEntity(metrics[i]) \in Metric
  <2>1. metrics[i] \in JSONMetric /\ MetricFault(metrics[i]) = "none"
    BY <1>1 DEF ValidBatch
  <2> QED
    BY <2>1, EntityType
<1>3. ToEntities(metrics) = [i \in 1 .. Len(metrics) |-> ToEntity(metrics[i])]
  BY <1>1 DEF ToEntities
<1> QED
  BY <1>1, <1>2, <1>3

\* What a call that updates makes of the store.
LEMMA AfterIs ==
    ASSUME NEW s \in Snapshot, NEW es \in Seq(Metric)
    PROVE  /\ After(s, UpdateCall(es)) = FoldLeft(Apply, s, es)
           /\ After(s, UpdateCall(es)) \in Snapshot
<1>1. After(s, UpdateCall(es)) = FirstApplied(s, es, Len(es))
  BY DEF After, UpdateCall, IsUpdate, AfterFirst, FirstApplied
<1>2. SubSeq(es, 1, Len(es)) = es
  OBVIOUS
<1>3. Len(es) \in 0 .. Len(es)
  OBVIOUS
<1>4. FirstApplied(s, es, Len(es)) \in Snapshot
  BY <1>3, FoldType
<1> QED
  BY <1>1, <1>2, <1>4 DEF FirstApplied

\* What is answered to a valid batch can be written: a gauge is answered with
\* the value it was set to.
LEMMA AnswerWritable ==
    ASSUME NEW metrics, ValidBatch(metrics), Writable(metrics), store \in Snapshot
    PROVE  Writable(UpdateAnswer(ToEntities(metrics)))
<1> DEFINE es == ToEntities(metrics)
           cs == [i \in 1 .. Len(es) |-> Current(AfterFirst(store, es, i), es[i])]
<1>1. /\ es \in Seq(Metric) /\ Len(es) = Len(metrics) /\ metrics \in Seq(JSONMetric)
      /\ \A i \in 1 .. Len(es) : es[i] = ToEntity(metrics[i]) /\ es[i] \in Metric
  BY EntitiesType DEF ValidBatch
<1> HIDE DEF es
<1>2. Answer(store, UpdateCall(es)).metrics = cs
  BY DEF Answer, UpdateCall, IsUpdate, NoReply
<1>3. UpdateAnswer(es) = [i \in 1 .. Len(es) |-> ConvertEntityMetric(cs[i])]
  BY <1>2 DEF UpdateAnswer, ConvertEntityMetrics
<1>4. ASSUME NEW i \in 1 .. Len(es)
      PROVE  ConvertEntityMetric(cs[i]).Value \notin NonFinite
  <2> DEFINE e == es[i]
             s == FirstApplied(store, es, i - 1)
  <2>1. /\ cs[i] = Current(AfterFirst(store, es, i), e) /\ e = ToEntity(metrics[i])
        /\ e \in Metric
        /\ i \in DOMAIN metrics /\ i - 1 \in 0 .. Len(es)
    BY <1>1
  <2>2. AfterFirst(store, es, i) = Apply(s, e)
    <3>1. AppliedInOrder(store, es)
      BY <1>1, FoldApply
    <3>2. AfterFirst(store, es, i) = FirstApplied(store, es, i)
      BY DEF AfterFirst, FirstApplied
    <3> QED
      BY ONLY <3>1, <3>2, <1>4 DEF AppliedInOrder
  <2>3. s \in Snapshot
    BY <1>1, <2>1, FoldType
  <2> HIDE DEF e, s, cs
  <2>4. CASE e.Type = "gauge"
    <3>1. e \in [Type: {"gauge"}, Name: Names, Value: GaugeValues] /\ e.Value = metrics[i].Value
      BY <2>1, <2>4 DEF Metric, ToEntity
    <3>2. Apply(s, e) = [s EXCEPT !.gauge = Put(s.gauge, e.Name, e.Value)]
      BY <2>4 DEF Apply
    <3>3. Apply(s, e).gauge[e.Name] = e.Value
      BY <2>3, <3>1, <3>2, PutType DEF Snapshot
    <3>4. cs[i].Type = "gauge" /\ cs[i].Value = e.Value
      BY <2>1, <2>2, <2>4, <3>1, <3>3 DEF Current
    <3>5. metrics[i].Value \notin NonFinite
      BY <2>1 DEF Writable
    <3> QED
      BY <3>1, <3>4, <3>5 DEF ConvertEntityMetric
  <2>5. CASE e.Type # "gauge"
    <3>1. e \in [Type: {"counter"}, Name: Names, Delta: Counter]
      BY <2>1, <2>5 DEF Metric
    <3>2. cs[i].Type = "counter"
      BY <2>1, <2>5, <3>1 DEF Current
    <3>3. None \notin NonFinite
      BY MetricsAssumption, AdaptersAssumption
    <3> QED
      BY <3>2, <3>3 DEF ConvertEntityMetric
  <2> QED
    BY <2>4, <2>5
<1>5. Writable(UpdateAnswer(es))
  <2> HIDE DEF cs
  <2> QED
    BY <1>3, <1>4 DEF Writable
<1> QED
  BY <1>5 DEF es

----------------------------------------------------------------------------
(* The handlers.                                                           *)

\* The request that comes to a handler has gone through all the middlewares.
LEMMA InsideIs ==
    ASSUME ExchangeInv, Inside
    PROVE  /\ way = "in" /\ depth >= 1 /\ "log" \in Wrapped /\ (PassedIntegrity <=> Signs)
           /\ PassedEncoding
           /\ out = NoAnswer /\ writers = StackOf(Wrapped)
           /\ store \in Snapshot /\ before \in Snapshot
           /\ Rest(req, sent) /\ WellFormed(sent)
<1>1. /\ way = "in" /\ depth = EncodingAt + 1 /\ EncodingAt \in {1, 2, 3}
  BY Places DEF ExchangeInv, StackInv
<1>2. "log" \in Wrapped <=> depth >= 1
  BY WrappedIs
<1>3. depth > IntegrityAt /\ depth >= 1
  BY <1>1 DEF EncodingAt, IntegrityAt
<1>4. PassedEncoding /\ (PassedIntegrity <=> Signs)
  BY <1>1, <1>3 DEF PassedEncoding, PassedIntegrity
<1>5. /\ out = NoAnswer /\ writers = StackOf(Wrapped)
      /\ store \in Snapshot /\ before \in Snapshot
  BY <1>1 DEF ExchangeInv, StackInv, OutInv, EffectInv
<1>6. WellFormed(sent) /\ req = Peeled(sent, req.type, req.body.layers)
  BY DEF ExchangeInv, RequestInv
<1>7. Rest(req, sent)
  BY ONLY <1>6, PeeledIs
<1> QED
  BY ONLY <1>1, <1>2, <1>3, <1>4, <1>5, <1>6, <1>7

\* A report that comes to the handler is what the agent meant.
LEMMA AgentInside ==
    ASSUME ExchangeInv, Inside, sent.client = "agent"
    PROVE  /\ req.type = "application/json" /\ req.body = Plain(AgentDoc) /\ KeysAgree
           /\ AgentDoc = Document("array", AgentDoc.metrics) /\ Reported(AgentDoc.metrics)
           /\ sent.route = "POST:/updates/"
<1>1. way = "in" /\ PassedEncoding /\ (PassedIntegrity <=> Signs)
  BY InsideIs
<1>2. RequestInv
  BY DEF ExchangeInv
<1>3. PeeledInv /\ Reported(AgentDoc.metrics)
  BY <1>1, <1>2 DEF RequestInv
<1>4. /\ req.type = "application/json" /\ req.body = Plain(AgentDoc)
      /\ Agent.CryptoKey \in {"", Server.CryptoKey}
      /\ PassedIntegrity => SignAgree
  BY ONLY <1>1, <1>3 DEF PeeledInv
<1>5. SignAgree
  BY <1>1, <1>4 DEF SignAgree, Signs
<1>6. KeysAgree
  BY ONLY <1>4, <1>5 DEF KeysAgree, SignAgree
<1>7. AgentDoc = Document("array", AgentDoc.metrics) /\ sent.route = "POST:/updates/"
  BY ONLY <1>2, sent.client = "agent", ReportIs
<1> QED
  BY ONLY <1>3, <1>4, <1>6, <1>7

\* A handler that has answered keeps the invariant.
LEMMA HandlerKeeps ==
    ASSUME ExchangeInv, Inside, NEW answer, HandlerReturns(answer),
           NEW code, NEW early \in {0, code}, Replied(answer, Wrapped, code, early),
           code = 200 => early = 0 \/ sent.route = "GET:/ping",
           store' \in Snapshot, Tells(code, store'), TellsAgent(code, store')
    PROVE  ExchangeInv'
<1>1. /\ way = "in" /\ depth >= 1 /\ (PassedIntegrity <=> Signs)
  BY InsideIs
<1>2. /\ UNCHANGED <<configVars, sent, req, writers, before>> /\ depth' = depth
      /\ out' = answer /\ way' = "out" /\ retries' = 0
  BY DEF HandlerReturns
<1>3. Replied(out', Wrapped, code, early)
  BY ONLY <1>2, Replied(answer, Wrapped, code, early)
<1>4. Signs /\ ~PassedIntegrity => early = code /\ code # 200
  BY ONLY <1>1
<1> QED
  BY ONLY <1>1, <1>2, <1>3, <1>4, ExchangeInv, early \in {0, code},
          code = 200 => early = 0 \/ sent.route = "GET:/ping",
          store' \in Snapshot, Tells(code, store'), TellsAgent(code, store'), Replies

\* An error is answered.
LEMMA FailingKeeps ==
    ASSUME ExchangeInv, Inside, NEW code \in {400, 404, 500}, Failing(code),
           store' \in Snapshot, Tells(code, store'), TellsAgent(code, store')
    PROVE  ExchangeInv'
<1> DEFINE answer == HTTPError(out, writers, code)
<1>1. "log" \in Wrapped /\ out = NoAnswer /\ writers = StackOf(Wrapped)
  BY InsideIs
<1>2. Fresh(out) /\ out.status = 0
  BY <1>1, FreshAnswer DEF NoAnswer
<1>3. answer = HTTPError(out, StackOf(Wrapped), code) /\ code \in {200, 400, 404, 500}
  BY <1>1
<1>4. HandlerReturns(answer)
  BY DEF Failing
<1> HIDE DEF answer
<1>5. Replied(answer, Wrapped, code, code)
  BY ONLY <1>1, <1>2, <1>3, HTTPErrorIs
<1>6. code \in {0, code} /\ (code = 200 => code = 0 \/ sent.route = "GET:/ping")
  OBVIOUS
<1> QED
  BY ONLY <1>4, <1>5, <1>6, ExchangeInv, Inside, store' \in Snapshot, Tells(code, store'),
          TellsAgent(code, store'), HandlerKeeps

\* An error that has touched nothing, of a request that is not a report.
LEMMA RefusingKeeps ==
    ASSUME ExchangeInv, Inside, NEW code \in {400, 404, 500}, Failing(code), store' = store,
           sent.client # "agent", ~Updates(sent) \/ retries = 0
    PROVE  ExchangeInv'
<1>1. store' = before /\ store' \in Snapshot
  BY InsideIs, NotRepeated
<1>2. Tells(code, store')
  BY <1>1, TellsNothing
<1>3. TellsAgent(code, store')
  BY DEF TellsAgent
<1> QED
  BY <1>1, <1>2, <1>3, FailingKeeps

\* The statuses the handlers give.
LEMMA Statuses ==
    ASSUME NEW fault
    PROVE  /\ UpdateStatus(fault) \in {400, 404, 500} /\ GetterStatus(fault) \in {400, 404, 500}
           /\ UpdateStatus("Internal") = 500
  BY DEF UpdateStatus, GetterStatus

----------------------------------------------------------------------------
(* The updates.                                                            *)

\* What one more attempt makes of what the others have left.
LEMMA OneMore ==
    ASSUME ExchangeInv, Inside, Updates(sent), NEW metrics, ValidBatch(metrics),
           Asked(sent) = metrics
    PROVE  /\ Applied(ToEntities(metrics)) \in Snapshot
           /\ Applied(ToEntities(metrics)) \in Outcomes
           /\ \E n \in 0 .. retries + 1 : Applied(ToEntities(metrics)) = Taken(n)
           /\ store = before \/ store \in Outcomes
<1> DEFINE es == ToEntities(metrics)
<1>1. es \in Seq(Metric) /\ store \in Snapshot /\ way = "in"
  BY EntitiesType, InsideIs
<1>2. es = ToEntities(Asked(sent))
  OBVIOUS
<1> HIDE DEF es
<1>3. Applied(es) = FoldLeft(Apply, store, es) /\ Applied(es) \in Snapshot
  BY <1>1, AfterIs DEF Applied
<1>4. RetryInv
  BY DEF ExchangeInv, EffectInv
<1>5. PICK n \in 0 .. retries : store = Taken(n)
  BY <1>1, <1>4 DEF RetryInv
<1>6. Taken(0) = before /\ Taken(n + 1) = FoldLeft(Apply, Taken(n), es)
  BY <1>2, RepeatedIs DEF Taken
<1>7. /\ retries \in 0 .. retryCount /\ retryCount \in Nat
      /\ retries # 0 => StorageMayFail
  BY <1>4, ExchangeAssumption DEF RetryInv
<1>8. n \in 1 .. Attempts \/ n = 0
  BY <1>7 DEF Attempts
<1>9. n + 1 \in 1 .. Attempts /\ n + 1 \in 0 .. retries + 1
  BY <1>7 DEF Attempts
<1>10. \A k \in 1 .. Attempts : Taken(k) \in Outcomes
  BY DEF Outcomes, Taken
<1>11. Applied(es) = Taken(n + 1)
  BY ONLY <1>3, <1>5, <1>6
<1>12. store = before \/ store \in Outcomes
  BY ONLY <1>5, <1>6, <1>8, <1>10
<1> QED
  BY ONLY <1>3, <1>9, <1>10, <1>11, <1>12 DEF es

\* An update that the storage applies.
LEMMA UpdatedKeeps ==
    ASSUME ExchangeInv, Inside, Updates(sent), NEW metrics, ValidBatch(metrics),
           Asked(sent) = metrics,
           NEW answer, Updated(ToEntities(metrics), answer), Replied(answer, Wrapped, 200, 0)
    PROVE  ExchangeInv'
<1>1. store' = Applied(ToEntities(metrics)) /\ HandlerReturns(answer)
  BY DEF Updated
<1>2. store' \in Snapshot /\ store' \in Outcomes
  BY <1>1, OneMore
<1>3. Valid(sent)
  BY EntitiesType DEF Valid, ValidBatch
<1>4. Tells(200, store')
  BY ONLY <1>2, <1>3, Updates(sent) DEF Tells
<1>5. TellsAgent(200, store')
  BY AgentInside DEF TellsAgent
<1>6. 0 \in {0, 200} /\ (200 = 200 => 0 = 0 \/ sent.route = "GET:/ping")
  OBVIOUS
<1> QED
  BY ONLY <1>1, <1>2, <1>4, <1>5, <1>6, ExchangeInv, Inside, Replied(answer, Wrapped, 200, 0),
          HandlerKeeps

\* A transaction that ends with an error leaves the store as it was before it,
\* or with all of the batch.
LEMMA LeftIs ==
    ASSUME NEW metrics, NEW s \in LeftBy(metrics)
    PROVE  s = store \/ s = Applied(metrics)
  BY DEF LeftBy

\* An update that the storage fails, before it has applied it or after.
LEMMA UpdateFailsKeeps ==
    ASSUME ExchangeInv, Inside, Updates(sent), NEW metrics, ValidBatch(metrics),
           Asked(sent) = metrics, UpdateFails(ToEntities(metrics))
    PROVE  ExchangeInv'
<1>1. /\ StorageMayFail /\ Failing(UpdateStatus("Internal"))
      /\ store' = store \/ store' = Applied(ToEntities(metrics))
  BY LeftIs DEF UpdateFails
<1>2. /\ store \in Snapshot
      /\ Applied(ToEntities(metrics)) \in Snapshot /\ Applied(ToEntities(metrics)) \in Outcomes
      /\ store = before \/ store \in Outcomes
  BY OneMore, InsideIs
<1>3. store' \in Snapshot /\ (store' = before \/ store' \in Outcomes)
  BY ONLY <1>1, <1>2
<1>4. Valid(sent)
  BY EntitiesType DEF Valid, ValidBatch
<1>5. Tells(500, store')
  BY ONLY <1>1, <1>3, <1>4, Updates(sent) DEF Tells
<1>6. TellsAgent(500, store')
  BY <1>1, AgentInside DEF TellsAgent
<1>7. Failing(500)
  BY <1>1, Statuses
<1> QED
  BY ONLY <1>3, <1>5, <1>6, <1>7, ExchangeInv, Inside, FailingKeeps

\* A transaction that is made again: the request stays where it is.
LEMMA RepeatKeeps ==
    ASSUME ExchangeInv, Inside, Updates(sent), NEW metrics, ValidBatch(metrics),
           Asked(sent) = metrics, Repeat(ToEntities(metrics))
    PROVE  ExchangeInv'
<1>1. /\ StorageMayFail /\ retries < retryCount /\ retries' = retries + 1
      /\ store' = store \/ store' = Applied(ToEntities(metrics))
      /\ UNCHANGED <<configVars, sent, req, depth, way, writers, out, before>>
  BY LeftIs DEF Repeat
<1>2. way = "in" /\ store \in Snapshot /\ before \in Snapshot
  BY InsideIs
<1>3. StackInv' /\ RequestInv' /\ OutInv' /\ ConfigInv'
  BY <1>1, <1>2, RequestWaits
<1>4. RetryInv /\ retryCount \in Nat
  BY ExchangeAssumption DEF ExchangeInv, EffectInv
<1>5. retries' \in 0 .. retryCount
  BY <1>1, <1>4 DEF RetryInv
<1>6. Inside' /\ StorageMayFail' /\ Updates(sent)' /\ Valid(sent)'
  <2>1. Chain' = Chain /\ (StorageMayFail' <=> StorageMayFail)
    BY <1>1, SameConfig
  <2>2. Valid(sent)
    BY EntitiesType DEF Valid, ValidBatch
  <2> QED
    BY <1>1, <2>1, <2>2 DEF Inside, Updates, Valid, Asked
<1>7. \E n \in 0 .. retries' : store' = Taken(n)'
  <2>1. \A n : Taken(n)' = Taken(n)
    BY <1>1 DEF Taken, Asked
  <2>2. \E n \in 0 .. retries : store = Taken(n)
    BY <1>2, <1>4 DEF RetryInv
  <2>3. \A n \in 0 .. retries : n \in 0 .. retries + 1
    BY <1>4 DEF RetryInv
  <2>4. \E n \in 0 .. retries + 1 : store = Taken(n)
    BY ONLY <2>2, <2>3
  <2>5. \E n \in 0 .. retries + 1 : Applied(ToEntities(metrics)) = Taken(n)
    BY OneMore
  <2> QED
    BY ONLY <1>1, <2>1, <2>4, <2>5
<1>8. store' \in Snapshot
  BY <1>1, <1>2, OneMore
<1>9. EffectInv'
  BY ONLY <1>1, <1>2, <1>5, <1>6, <1>7, <1>8 DEF EffectInv, RetryInv
<1> QED
  BY ONLY <1>1, <1>2, <1>3, <1>9 DEF ExchangeInv

\* Whatever the storage does with an update.
LEMMA UpdateKeeps ==
    ASSUME ExchangeInv, Inside, Updates(sent), NEW metrics, ValidBatch(metrics),
           Asked(sent) = metrics,
           NEW answer, Update(ToEntities(metrics), answer), Replied(answer, Wrapped, 200, 0)
    PROVE  ExchangeInv'
  BY UpdatedKeeps, UpdateFailsKeeps, RepeatKeeps DEF Update

\* An update that is refused for what it asks.
LEMMA UpdateRefusedKeeps ==
    ASSUME ExchangeInv, Inside, NEW fault, UpdateRefused(fault), sent.client # "agent"
    PROVE  ExchangeInv'
<1>1. /\ UpdateStatus(fault) \in {400, 404, 500} /\ Failing(UpdateStatus(fault))
      /\ store' = store /\ retries = 0
  BY Statuses DEF UpdateRefused
<1> QED
  BY ONLY <1>1, ExchangeInv, Inside, sent.client # "agent", RefusingKeeps

\* Where the metrics of a request are is told by its route.
LEMMA AskedIs ==
    ASSUME ExchangeInv, Inside
    PROVE  /\ req.route = sent.route
           /\ sent.route \notin URLRoutes =>
                 /\ Asked(sent) = req.body.doc.metrics
                 /\ req.body.doc.metrics \in Seq(JSONMetric) /\ Writable(req.body.doc.metrics)
           /\ sent.route \in URLRoutes => Asked(sent) = <<req.url>> /\ req.url \in JSONMetric
<1>1. Rest(req, sent) /\ WellFormed(sent)
  BY InsideIs
<1>2. /\ req.route = sent.route /\ req.url = sent.url /\ req.body.doc = sent.body.doc
  BY ONLY <1>1 DEF Rest
<1>3. /\ sent.url \in JSONMetric \cup {None}
      /\ sent.body.doc.metrics \in Seq(JSONMetric) /\ Writable(sent.body.doc.metrics)
      /\ sent.url # None <=> sent.route \in URLRoutes
  BY ONLY <1>1 DEF WellFormed
<1>4. Asked(sent) = IF sent.url # None THEN <<sent.url>> ELSE sent.body.doc.metrics
  BY DEF Asked
<1> QED
  BY ONLY <1>2, <1>3, <1>4

\* A batch is answered as a whole.
LEMMA AnsweredBatch ==
    ASSUME ExchangeInv, Inside, NEW form, NEW metrics, ValidBatch(metrics), Writable(metrics)
    PROVE  Replied(WriteJSON(out, writers, form, UpdateAnswer(ToEntities(metrics))),
                   Wrapped, 200, 0)
<1> DEFINE ms == UpdateAnswer(ToEntities(metrics))
           b  == WriteJSON(out, writers, form, ms)
<1>1. "log" \in Wrapped /\ out = NoAnswer /\ writers = StackOf(Wrapped) /\ store \in Snapshot
  BY InsideIs
<1>2. Fresh(out) /\ out.status = 0
  BY <1>1, FreshAnswer DEF NoAnswer
<1>3. Writable(ms)
  BY ONLY <1>1, ValidBatch(metrics), Writable(metrics), AnswerWritable
<1>4. b = WriteJSON(out, StackOf(Wrapped), form, ms)
  BY ONLY <1>1
<1> HIDE DEF ms, b
<1>5. Replied(b, Wrapped, 200, 0)
  BY ONLY <1>1, <1>2, <1>3, <1>4, WriteJSONIs
<1> QED
  BY <1>5 DEF ms, b

\* There is a first fault if there is one.
LEMMA FirstFaultIs ==
    ASSUME NEW f, NEW g
    PROVE  FirstFault(f, g) = "none" <=> f = "none" /\ g = "none"
  BY DEF FirstFault

\* A list without a fault is valid.
LEMMA ValidIfNoFault ==
    ASSUME NEW metrics \in Seq(JSONMetric), BatchFault(metrics) = "none"
    PROVE  ValidBatch(metrics)
  BY BatchIsValid DEF ValidBatch

\* POST /update/: one metric, in a body.
LEMMA JSONUpdateKeeps == ExchangeInv /\ UpdateFromJSON => ExchangeInv'
<1> SUFFICES ASSUME ExchangeInv, UpdateFromJSON PROVE ExchangeInv'
  OBVIOUS
<1> DEFINE metrics == req.body.doc.metrics
           fault   == FirstFault(BodyFault(req, "object"), BatchFault(metrics))
           answer  == WriteJSON(out, writers, "object", UpdateAnswer(ToEntities(metrics)))
<1>1. Inside /\ req.route = "POST:/update/"
  BY DEF UpdateFromJSON, Serving
<1>2. UpdateRefused(fault) \/ (fault = "none" /\ Update(ToEntities(metrics), answer))
  BY DEF UpdateFromJSON
<1>3. /\ sent.route = "POST:/update/" /\ Asked(sent) = metrics
      /\ metrics \in Seq(JSONMetric) /\ Writable(metrics)
  BY <1>1, AskedIs DEF URLRoutes
<1>4. sent.client # "agent"
  BY <1>1, <1>3, AgentInside
<1>5. Updates(sent)
  BY <1>3 DEF Updates
<1>6. ASSUME UpdateRefused(fault) PROVE ExchangeInv'
  <2> HIDE DEF fault
  <2> QED
    BY ONLY <1>1, <1>4, <1>6, ExchangeInv, UpdateRefusedKeeps
<1>7. ASSUME fault = "none" PROVE ValidBatch(metrics)
  <2>1. BatchFault(metrics) = "none"
    BY ONLY <1>7, FirstFaultIs
  <2> HIDE DEF metrics
  <2> QED
    BY ONLY <1>3, <2>1, ValidIfNoFault
<1>8. ASSUME fault = "none", Update(ToEntities(metrics), answer) PROVE ExchangeInv'
  <2>1. ValidBatch(metrics)
    BY ONLY <1>7, <1>8
  <2> HIDE DEF metrics
  <2>2. Replied(answer, Wrapped, 200, 0)
    BY ONLY <1>1, <1>3, <2>1, ExchangeInv, AnsweredBatch
  <2> HIDE DEF answer
  <2> QED
    BY ONLY <1>1, <1>3, <1>5, <1>8, <2>1, <2>2, ExchangeInv, UpdateKeeps
<1> QED
  BY ONLY <1>2, <1>6, <1>8

\* POST /updates/: many, in a body; a report is not refused for what it is.
LEMMA BatchUpdateKeeps == ExchangeInv /\ UpdateBatchFromJSON => ExchangeInv'
<1> SUFFICES ASSUME ExchangeInv, UpdateBatchFromJSON PROVE ExchangeInv'
  OBVIOUS
<1> DEFINE metrics == req.body.doc.metrics
           fault   == FirstFault(BodyFault(req, "array"), BatchFault(metrics))
           answer  == WriteJSON(out, writers, "array", UpdateAnswer(ToEntities(metrics)))
<1>1. Inside /\ req.route = "POST:/updates/"
  BY DEF UpdateBatchFromJSON, Serving
<1>2. UpdateRefused(fault) \/ (fault = "none" /\ Update(ToEntities(metrics), answer))
  BY DEF UpdateBatchFromJSON
<1>3. /\ sent.route = "POST:/updates/" /\ Asked(sent) = metrics
      /\ metrics \in Seq(JSONMetric) /\ Writable(metrics)
  BY <1>1, AskedIs DEF URLRoutes
<1>4. sent.client = "agent" => fault = "none"
  <2> SUFFICES ASSUME sent.client = "agent" PROVE fault = "none"
    OBVIOUS
  <2>1. /\ req.type = "application/json" /\ req.body = Plain(AgentDoc)
        /\ AgentDoc = Document("array", AgentDoc.metrics) /\ Reported(AgentDoc.metrics)
    BY <1>1, AgentInside
  <2>2. req.body.layers = <<>> /\ req.body.doc = AgentDoc /\ AgentDoc.form = "array"
    BY ONLY <2>1 DEF Plain, Document
  <2>3. BodyFault(req, "array") = "none"
    BY ONLY <2>1, <2>2 DEF BodyFault
  <2>4. BatchFault(metrics) = "none"
    <3>1. metrics = AgentDoc.metrics
      BY ONLY <2>2
    <3> HIDE DEF metrics
    <3>2. \A i \in DOMAIN metrics : MetricFault(metrics[i]) = "none"
      BY ONLY <2>1, <3>1 DEF Reported
    <3> QED
      BY ONLY <1>3, <3>2, BatchIsValid
  <2> QED
    BY ONLY <2>3, <2>4, FirstFaultIs
<1>5. Updates(sent)
  BY <1>3 DEF Updates
<1>6. ASSUME UpdateRefused(fault) PROVE ExchangeInv'
  <2>1. fault # "none"
    BY <1>6 DEF UpdateRefused
  <2> HIDE DEF fault
  <2>2. sent.client # "agent"
    BY ONLY <1>4, <2>1
  <2> QED
    BY ONLY <1>1, <2>2, <1>6, ExchangeInv, UpdateRefusedKeeps
<1>7. ASSUME fault = "none" PROVE ValidBatch(metrics)
  <2>1. BatchFault(metrics) = "none"
    BY ONLY <1>7, FirstFaultIs
  <2> HIDE DEF metrics
  <2> QED
    BY ONLY <1>3, <2>1, ValidIfNoFault
<1>8. ASSUME fault = "none", Update(ToEntities(metrics), answer) PROVE ExchangeInv'
  <2>1. ValidBatch(metrics)
    BY ONLY <1>7, <1>8
  <2> HIDE DEF metrics
  <2>2. Replied(answer, Wrapped, 200, 0)
    BY ONLY <1>1, <1>3, <2>1, ExchangeInv, AnsweredBatch
  <2> HIDE DEF answer
  <2> QED
    BY ONLY <1>1, <1>3, <1>5, <1>8, <2>1, <2>2, ExchangeInv, UpdateKeeps
<1> QED
  BY ONLY <1>2, <1>6, <1>8

\* A fresh answer is one to which nothing more is written.
LEMMA FreshReplied ==
    ASSUME NEW a, Fresh(a), NEW W
    PROVE  Replied(a, W, Code(a), a.status)
<1>1. /\ IsAnswer(a)
      /\ a.status \in {0, 200, 400, 404, 500} /\ a.logged = Code(a)
      /\ a.zip = "open" /\ a.body = <<>> /\ a.buffer = <<>>
      /\ a.header.encoding = "" /\ a.header.sum = <<>> /\ a.sent.sum = <<>>
      /\ a.status # 0 => a.sent.encoding = ""
  BY ONLY Fresh(a) DEF Fresh
<1>2. Written(a, <<>>, W)
  BY ONLY <1>1 DEF Written
<1>3. Shaped(a, W)
  BY ONLY <1>1, <1>2, ZenonT(60) DEF Shaped
<1> QED
  BY ONLY <1>1, <1>3 DEF Replied

\* The type may be set when all is written.
LEMMA RetypedReplied ==
    ASSUME NEW W, NEW a, NEW code, NEW early, Replied(a, W, code, early), NEW type,
           NEW b, b = SetType(a, type)
    PROVE  Replied(b, W, code, early)
<1>1. IsAnswer(a) /\ Shaped(a, W)
  BY ONLY Replied(a, W, code, early) DEF Replied, Shaped
<1>2. Are(b, Header(type, a.header.encoding, a.header.sum),
          a.status, a.sent, a.body, a.buffer, a.zip, a.logged)
  BY ONLY <1>1, b = SetType(a, type), Typed DEF SetType
<1>3. /\ IsAnswer(b) /\ b.status = a.status /\ b.sent = a.sent
      /\ b.body = a.body /\ b.buffer = a.buffer /\ b.zip = a.zip /\ b.logged = a.logged
      /\ b.header.encoding = a.header.encoding /\ b.header.sum = a.header.sum
  BY ONLY <1>2 DEF Are, Header
<1>4. \A c : Written(a, c, W) => Written(b, c, W)
  BY ONLY <1>3 DEF Written
<1>5. Code(b) = Code(a)
  BY ONLY <1>3 DEF Code
<1>6. Shaped(b, W)
  BY ONLY <1>1, <1>3, <1>4, <1>5 DEF Shaped
<1> QED
  BY ONLY <1>3, <1>5, <1>6, Replied(a, W, code, early) DEF Replied

\* POST /update/{type}/{name}/{value}: one metric, in the path.
LEMMA URLUpdateKeeps == ExchangeInv /\ UpdateFromURL => ExchangeInv'
<1> SUFFICES ASSUME ExchangeInv, UpdateFromURL PROVE ExchangeInv'
  OBVIOUS
<1> DEFINE metrics == <<req.url>>
           fault   == URLFault(req.url)
           answer  == SetType(out, "text/plain")
           es      == <<ToEntity(req.url)>>
<1>1. Inside /\ req.route = "POST:/update/:type/:name/:value"
  BY DEF UpdateFromURL, Serving
<1>2. \/ UpdateRefused(fault)
      \/ fault = "none" /\ Update(es, answer)
  BY DEF UpdateFromURL
<1>3. /\ sent.route = "POST:/update/:type/:name/:value" /\ Asked(sent) = metrics
      /\ req.url \in JSONMetric
  BY <1>1, AskedIs DEF URLRoutes
<1>4. sent.client # "agent"
  BY <1>1, <1>3, AgentInside
<1>5. Updates(sent)
  BY <1>3 DEF Updates
<1>6. ASSUME UpdateRefused(fault) PROVE ExchangeInv'
  <2> HIDE DEF fault
  <2> QED
    BY ONLY <1>1, <1>4, <1>6, ExchangeInv, UpdateRefusedKeeps
<1>7. ASSUME fault = "none" PROVE ValidBatch(metrics)
  <2>1. MetricFault(req.url) = "none"
    BY <1>7, URLIsValid
  <2> QED
    BY <1>3, <2>1 DEF ValidBatch
<1>8. es = ToEntities(metrics)
  BY DEF ToEntities
<1> HIDE DEF es
<1>9. ASSUME fault = "none", Update(ToEntities(metrics), answer) PROVE ExchangeInv'
  <2>1. ValidBatch(metrics)
    BY ONLY <1>7, <1>9
  <2>2. out = NoAnswer
    BY <1>1, InsideIs
  <2>3. Fresh(answer) /\ answer.status = 0
    BY <2>2, FreshAnswer, FreshTyped DEF NoAnswer
  <2> HIDE DEF answer, metrics
  <2>4. Replied(answer, Wrapped, Code(answer), answer.status) /\ Code(answer) = 200
    BY <2>3, FreshReplied DEF Code
  <2>5. Replied(answer, Wrapped, 200, 0)
    BY ONLY <2>3, <2>4
  <2> QED
    BY ONLY <1>1, <1>3, <1>5, <1>9, <2>1, <2>5, ExchangeInv, UpdateKeeps
<1> QED
  BY ONLY <1>2, <1>6, <1>8, <1>9

----------------------------------------------------------------------------
(* The handlers that leave the store as it is.                             *)

\* An answer to a request that asks for something.
LEMMA GotKeeps ==
    ASSUME ExchangeInv, Inside, sent.client # "agent", ~Updates(sent), store' = store,
           NEW answer, HandlerReturns(answer),
           NEW code, NEW early \in {0, code}, Replied(answer, Wrapped, code, early),
           code = 200 => early = 0 \/ sent.route = "GET:/ping"
    PROVE  ExchangeInv'
<1>1. store' = before /\ store' \in Snapshot
  BY InsideIs, NotRepeated
<1>2. Tells(code, store') /\ TellsAgent(code, store')
  BY ONLY <1>1, sent.client # "agent", ~Updates(sent), TellsNothing DEF TellsAgent
<1> QED
  BY ONLY <1>1, <1>2, ExchangeInv, Inside, HandlerReturns(answer), early \in {0, code},
          Replied(answer, Wrapped, code, early),
          code = 200 => early = 0 \/ sent.route = "GET:/ping", HandlerKeeps

\* A request for a metric that is refused.
LEMMA GetRefusedKeeps ==
    ASSUME ExchangeInv, Inside, sent.client # "agent", ~Updates(sent), store' = store,
           NEW fault, GetRefused(fault)
    PROVE  ExchangeInv'
<1>1. GetterStatus(fault) \in {400, 404, 500} /\ Failing(GetterStatus(fault))
  BY Statuses DEF GetRefused
<1> QED
  BY ONLY <1>1, ExchangeInv, Inside, sent.client # "agent", ~Updates(sent), store' = store,
          RefusingKeeps

\* A request that the storage fails.
LEMMA GetFailsKeeps ==
    ASSUME ExchangeInv, Inside, sent.client # "agent", ~Updates(sent), store' = store, GetFails
    PROVE  ExchangeInv'
<1>1. GetterStatus("Internal") \in {400, 404, 500} /\ Failing(GetterStatus("Internal"))
  BY Statuses DEF GetFails
<1> QED
  BY ONLY <1>1, ExchangeInv, Inside, sent.client # "agent", ~Updates(sent), store' = store,
          RefusingKeeps

\* What an answer starts from.
LEMMA Starts ==
    ASSUME ExchangeInv, Inside
    PROVE  /\ "log" \in Wrapped /\ writers = StackOf(Wrapped)
           /\ Fresh(out) /\ out.status = 0
<1>1. "log" \in Wrapped /\ writers = StackOf(Wrapped) /\ out = NoAnswer
  BY InsideIs
<1> QED
  BY <1>1, FreshAnswer DEF NoAnswer

\* POST /value/.
LEMMA JSONGetKeeps == ExchangeInv /\ GetAsJSON => ExchangeInv'
<1> SUFFICES ASSUME ExchangeInv, GetAsJSON PROVE ExchangeInv'
  OBVIOUS
<1>1. Inside /\ req.route = "POST:/value/" /\ store' = store
  BY DEF GetAsJSON, Serving
<1>2. \/ \E fault : GetRefused(fault)
      \/ \E metrics : HandlerReturns(WriteJSON(out, writers, "object", metrics))
      \/ GetFails
  BY Zenon DEF GetAsJSON
<1>3. sent.route = "POST:/value/"
  BY <1>1, AskedIs
<1>4. sent.client # "agent" /\ ~Updates(sent)
  BY <1>1, <1>3, AgentInside DEF Updates
<1>5. ASSUME NEW metrics, HandlerReturns(WriteJSON(out, writers, "object", metrics))
      PROVE  ExchangeInv'
  <2> DEFINE answer == WriteJSON(out, writers, "object", metrics)
  <2>0. HandlerReturns(answer)
    BY <1>5
  <2>1. "log" \in Wrapped /\ writers = StackOf(Wrapped) /\ Fresh(out) /\ out.status = 0
    BY <1>1, Starts
  <2>2. answer = WriteJSON(out, StackOf(Wrapped), "object", metrics)
    BY <2>1
  <2> HIDE DEF answer
  <2>3. Replied(answer, Wrapped, 200, 0) \/ Replied(answer, Wrapped, 500, 500)
    BY ONLY <2>1, <2>2, WriteJSONIs
  <2>4. CASE Replied(answer, Wrapped, 200, 0)
    <3>1. 0 \in {0, 200} /\ (200 = 200 => 0 = 0 \/ sent.route = "GET:/ping")
      OBVIOUS
    <3> QED
      BY ONLY <1>1, <1>4, <2>0, <2>4, <3>1, ExchangeInv, GotKeeps
  <2>5. CASE Replied(answer, Wrapped, 500, 500)
    <3>1. 500 \in {0, 500} /\ (500 = 200 => 500 = 0 \/ sent.route = "GET:/ping")
      OBVIOUS
    <3> QED
      BY ONLY <1>1, <1>4, <2>0, <2>5, <3>1, ExchangeInv, GotKeeps
  <2> QED
    BY ONLY <2>3, <2>4, <2>5
<1>6. ASSUME NEW fault, GetRefused(fault) PROVE ExchangeInv'
  BY ONLY <1>1, <1>4, <1>6, ExchangeInv, GetRefusedKeeps
<1>7. ASSUME GetFails PROVE ExchangeInv'
  BY ONLY <1>1, <1>4, <1>7, ExchangeInv, GetFailsKeeps
<1> QED
  BY ONLY <1>2, <1>5, <1>6, <1>7

\* GET /value/{type}/{name}.
LEMMA TextGetKeeps == ExchangeInv /\ GetAsText => ExchangeInv'
<1> SUFFICES ASSUME ExchangeInv, GetAsText PROVE ExchangeInv'
  OBVIOUS
<1>1. Inside /\ req.route = "GET:/value/:type/:name" /\ store' = store
  BY DEF GetAsText, Serving
<1>2. \/ \E fault : GetRefused(fault)
      \/ \E doc : HandlerReturns(SetType(Write(out, writers, doc), "text/plain"))
      \/ GetFails
  BY Zenon DEF GetAsText
<1>3. sent.route = "GET:/value/:type/:name"
  BY <1>1, AskedIs
<1>4. sent.client # "agent" /\ ~Updates(sent)
  BY <1>1, <1>3, AgentInside DEF Updates
<1>5. ASSUME NEW doc, HandlerReturns(SetType(Write(out, writers, doc), "text/plain"))
      PROVE  ExchangeInv'
  <2> DEFINE written == Write(out, writers, doc)
             answer  == SetType(written, "text/plain")
  <2>0. HandlerReturns(answer)
    BY <1>5
  <2>1. "log" \in Wrapped /\ writers = StackOf(Wrapped) /\ Fresh(out) /\ out.status = 0
    BY <1>1, Starts
  <2>2. written = Write(out, StackOf(Wrapped), doc)
    BY <2>1
  <2> HIDE DEF written
  <2>3. Replied(written, Wrapped, Code(out), out.status)
    BY ONLY <2>1, <2>2, WriteFresh
  <2>4. Code(out) = 200
    BY <2>1 DEF Code
  <2>5. Replied(written, Wrapped, 200, 0)
    BY ONLY <2>1, <2>3, <2>4
  <2>6. Replied(answer, Wrapped, 200, 0)
    BY <2>5, RetypedReplied
  <2>7. 0 \in {0, 200} /\ (200 = 200 => 0 = 0 \/ sent.route = "GET:/ping")
    OBVIOUS
  <2> HIDE DEF answer
  <2> QED
    BY ONLY <1>1, <1>4, <2>0, <2>6, <2>7, ExchangeInv, GotKeeps
<1>6. ASSUME NEW fault, GetRefused(fault) PROVE ExchangeInv'
  BY ONLY <1>1, <1>4, <1>6, ExchangeInv, GetRefusedKeeps
<1>7. ASSUME GetFails PROVE ExchangeInv'
  BY ONLY <1>1, <1>4, <1>7, ExchangeInv, GetFailsKeeps
<1> QED
  BY ONLY <1>2, <1>5, <1>6, <1>7

\* GET /.
LEMMA PageKeeps == ExchangeInv /\ MainPage => ExchangeInv'
<1> SUFFICES ASSUME ExchangeInv, MainPage PROVE ExchangeInv'
  OBVIOUS
<1> DEFINE typed  == SetType(out, "text/html")
           answer == Write(typed, writers, Page(store))
<1>1. Inside /\ req.route = "GET:/" /\ store' = store
  BY DEF MainPage, Serving
<1>2. HandlerReturns(answer) \/ Failing(500)
  BY DEF MainPage
<1>3. sent.route = "GET:/"
  BY <1>1, AskedIs
<1>4. sent.client # "agent" /\ ~Updates(sent)
  BY <1>1, <1>3, AgentInside DEF Updates
<1>5. ASSUME HandlerReturns(answer) PROVE ExchangeInv'
  <2>1. "log" \in Wrapped /\ writers = StackOf(Wrapped) /\ Fresh(out) /\ out.status = 0
    BY <1>1, Starts
  <2>2. Fresh(typed) /\ typed.status = 0
    BY <2>1, FreshTyped
  <2>3. answer = Write(typed, StackOf(Wrapped), Page(store))
    BY <2>1
  <2> HIDE DEF typed, answer
  <2>4. Replied(answer, Wrapped, Code(typed), typed.status)
    BY ONLY <2>1, <2>2, <2>3, WriteFresh
  <2>5. Code(typed) = 200
    BY <2>2 DEF Code
  <2>6. Replied(answer, Wrapped, 200, 0)
    BY ONLY <2>2, <2>4, <2>5
  <2>7. 0 \in {0, 200} /\ (200 = 200 => 0 = 0 \/ sent.route = "GET:/ping")
    OBVIOUS
  <2> QED
    BY ONLY <1>1, <1>4, <1>5, <2>6, <2>7, ExchangeInv, GotKeeps
<1>6. ASSUME Failing(500) PROVE ExchangeInv'
  <2>1. 500 \in {400, 404, 500}
    OBVIOUS
  <2> QED
    BY ONLY <1>1, <1>4, <1>6, <2>1, ExchangeInv, RefusingKeeps
<1> QED
  BY ONLY <1>2, <1>5, <1>6

\* Only ping writes its status before anything else could be signed.
LEMMA PingKeeps == ExchangeInv /\ Ping => ExchangeInv'
<1> SUFFICES ASSUME ExchangeInv, Ping PROVE ExchangeInv'
  OBVIOUS
<1> DEFINE typed  == SetType(out, "text/plain")
           answer == WriteHeader(typed, writers, 200)
<1>1. Inside /\ req.route = "GET:/ping" /\ store' = store
  BY DEF Ping, Serving
<1>2. HandlerReturns(answer) \/ Failing(500)
  BY DEF Ping
<1>3. sent.route = "GET:/ping"
  BY <1>1, AskedIs
<1>4. sent.client # "agent" /\ ~Updates(sent)
  BY <1>1, <1>3, AgentInside DEF Updates
<1>5. ASSUME HandlerReturns(answer) PROVE ExchangeInv'
  <2>1. "log" \in Wrapped /\ writers = StackOf(Wrapped) /\ Fresh(out) /\ out.status = 0
    BY <1>1, Starts
  <2>2. Fresh(typed) /\ typed.status = 0 /\ typed.header.type = "text/plain"
    BY <2>1, FreshTyped
  <2>3. Contains(writers, "log")
    BY <2>1, StackHas
  <2> HIDE DEF typed
  <2>4. Fresh(answer) /\ answer.status = 200
    BY <2>2, <2>3, FreshHeaded
  <2> HIDE DEF answer
  <2>5. Replied(answer, Wrapped, Code(answer), answer.status)
    BY ONLY <2>4, FreshReplied
  <2>6. Code(answer) = 200
    BY ONLY <2>4 DEF Code
  <2>7. Replied(answer, Wrapped, 200, 200) /\ 200 \in {0, 200}
    BY ONLY <2>4, <2>5, <2>6
  <2> QED
    BY ONLY <1>1, <1>3, <1>4, <1>5, <2>7, ExchangeInv, GotKeeps
<1>6. ASSUME Failing(500) PROVE ExchangeInv'
  <2>1. 500 \in {400, 404, 500}
    OBVIOUS
  <2> QED
    BY ONLY <1>1, <1>4, <1>6, <2>1, ExchangeInv, RefusingKeeps
<1> QED
  BY ONLY <1>2, <1>5, <1>6

\* No handler breaks the invariant.
LEMMA HandleKeeps == ExchangeInv /\ Handle => ExchangeInv'
  BY JSONUpdateKeeps, BatchUpdateKeeps, URLUpdateKeeps, JSONGetKeeps, TextGetKeeps, PageKeeps,
     PingKeeps DEF Handle

----------------------------------------------------------------------------
(* The way out.                                                            *)

\* A middleware that the answer leaves may not change what the status says.
LEMMA BackKeeps ==
    ASSUME ExchangeInv, way = "out", GoBack, depth > 0,
           writers' = StackOf(Wrapped'), Shaped(out', Wrapped'), Code(out') = Code(out),
           out'.zip = "yes" => sent.accept, depth' = 0 => out'.status # 0, SumInv'
    PROVE  ExchangeInv'
<1>1. /\ ConfigInv /\ StackInv /\ RequestInv /\ OutInv /\ EffectInv /\ depth \in 0 .. Len(Chain)
      /\ EncodingAt \in {1, 2, 3} /\ Len(Chain) = EncodingAt + 1
  BY Places DEF ExchangeInv, StackInv
<1>2. /\ depth' = depth - 1 /\ UNCHANGED <<configVars, store, sent, req, way, before, retries>>
  BY DEF GoBack
<1>3. ConfigInv'
  BY <1>1, <1>2, ConfigKeeps
<1>4. StackInv'
  <2>1. Chain' = Chain
    BY <1>2, SameConfig
  <2>2. depth' \in 0 .. Len(Chain')
    BY <1>1, <1>2, <2>1
  <2> QED
    BY <2>2 DEF StackInv
<1>5. RequestInv'
  BY <1>1, <1>2, RequestKeeps
<1>6. OutInv'
  <2>1. way' = "out" /\ sent' = sent
    BY <1>2
  <2> QED
    BY <2>1 DEF OutInv
<1>7. EffectInv'
  <2>1. /\ Tells(Code(out), store) /\ TellsAgent(Code(out), store) /\ store \in Snapshot
        /\ before \in Snapshot
    BY <1>1 DEF EffectInv
  <2>2. \A c, s : /\ Tells(c, s)' <=> Tells(c, s)
                  /\ TellsAgent(c, s)' <=> TellsAgent(c, s)
    BY <1>2, SameRequest
  <2>3. store' = store /\ before' = before /\ way' = "out" /\ Code(out)' = Code(out)
    BY <1>2
  <2>4. Tells(Code(out), store)' /\ TellsAgent(Code(out), store)'
    BY <2>1, <2>2, <2>3
  <2>5. Returned'
    BY <1>2, NotRepeated DEF Returned, Inside
  <2> QED
    BY <2>1, <2>3, <2>4, <2>5, ReturnedIsNext DEF EffectInv
<1> QED
  BY <1>1, <1>2, <1>3, <1>4, <1>5, <1>6, <1>7 DEF ExchangeInv

\* Where the sum of an answer is: nowhere, until the request has come back
\* through the integrity.
LEMMA SumStays ==
    ASSUME ExchangeInv, way = "out", UNCHANGED <<configVars, sent>>,
           PassedIntegrity' <=> PassedIntegrity,
           out'.header.sum = out.header.sum, out'.sent = out.sent,
           out'.status = out.status,
           out'.body = out.body \/ ~Signs \/ PassedIntegrity
    PROVE  SumInv'
<1>1. SumInv /\ (Signs' <=> Signs) /\ Server' = Server /\ sent' = sent
  BY SameConfig DEF ExchangeInv, OutInv
<1>2. ~Signs \/ PassedIntegrity => out.header.sum = <<>> /\ out.sent.sum = <<>>
  BY ONLY <1>1 DEF SumInv
<1>3. Signs /\ ~PassedIntegrity =>
          /\ out.status # 0
          /\ out.sent.sum # <<>> => out.sent.sum = <<Hmac(Server.Key, out.body)>>
          /\ out.status = 200 /\ sent.route # "GET:/ping" => out.sent.sum # <<>>
  BY ONLY <1>1 DEF SumInv
<1>4. PassedIntegrity /\ out.status = 200 => sent.route = "GET:/ping"
  BY ONLY <1>1 DEF SumInv
<1>5. Signs' /\ ~PassedIntegrity' =>
         out'.body = out.body /\ Hmac(Server.Key, out.body)' = Hmac(Server.Key, out.body)
  BY ONLY <1>1, PassedIntegrity' <=> PassedIntegrity,
          out'.body = out.body \/ ~Signs \/ PassedIntegrity DEF Hmac
<1> QED
  BY <1>1, <1>2, <1>3, <1>4, <1>5 DEF SumInv

\* What is known of an answer on its way out.
LEMMA OutIs ==
    ASSUME ExchangeInv, way = "out"
    PROVE  /\ Shaped(out, Wrapped) /\ (out.zip = "yes" => sent.accept)
           /\ depth \in 0 .. Len(Chain) /\ writers = StackOf(Wrapped)
           /\ Wrapped \subseteq {"log", "sign", "zip"}
  BY WrappedIs DEF ExchangeInv, OutInv, StackInv

\* The compressor is closed.
LEMMA CloseWriterKeeps == ExchangeInv /\ CloseWriter => ExchangeInv'
<1> SUFFICES ASSUME ExchangeInv, CloseWriter PROVE ExchangeInv'
  OBVIOUS
<1>1. /\ way = "out" /\ GoBack /\ Out("encoding")
      /\ out' = IF Innermost("zip") THEN Close(out, Unwrap("zip")) ELSE out
      /\ writers' = Unwrap("zip")
  BY DEF CloseWriter, Out
<1>2. /\ Shaped(out, Wrapped) /\ (out.zip = "yes" => sent.accept)
      /\ depth \in 0 .. Len(Chain) /\ writers = StackOf(Wrapped)
      /\ Wrapped \subseteq {"log", "sign", "zip"}
  BY <1>1, OutIs
<1>3. depth = EncodingAt + 1 /\ EncodingAt \in {1, 2, 3}
  BY <1>1, <1>2, Places
<1>4. /\ UNCHANGED <<configVars, sent>> /\ depth' = depth - 1
      /\ depth > 0 /\ depth' # 0 /\ depth >= 1
  BY <1>1, <1>3 DEF GoBack
<1>5. "log" \in Wrapped
  BY <1>4, WrappedIs
<1>6. Wrapped' = Wrapped \ {"zip"}
  BY <1>2, <1>3, <1>4, Outwards
<1>7. PassedIntegrity' <=> PassedIntegrity
  <2>1. (Signs' <=> Signs) /\ IntegrityAt' = IntegrityAt
    BY <1>4, SameConfig
  <2>2. Signs => depth > IntegrityAt /\ depth' > IntegrityAt
    BY <1>3, <1>4 DEF EncodingAt, IntegrityAt
  <2> QED
    BY <2>1, <2>2 DEF PassedIntegrity
<1>8. PassedIntegrity \/ ~Signs
  <2>1. Signs => depth > IntegrityAt
    BY <1>3 DEF EncodingAt, IntegrityAt
  <2> QED
    BY <2>1 DEF PassedIntegrity
<1>9. CASE "zip" \in Wrapped
  <2>1. Innermost("zip") /\ Unwrap("zip") = StackOf(Wrapped \ {"zip"})
    BY <1>2, <1>5, <1>9, Popped
  <2>2. out' = Close(out, StackOf(Wrapped \ {"zip"})) /\ writers' = StackOf(Wrapped')
    BY ONLY <1>1, <1>6, <2>1
  <2>3. /\ Shaped(out', Wrapped')
        /\ out'.header = out.header /\ out'.status = out.status /\ out'.sent = out.sent
        /\ out'.zip = out.zip
    BY ONLY <1>2, <1>5, <1>6, <1>9, <2>2, CloseKeeps
  <2>4. Code(out') = Code(out)
    BY ONLY <2>3 DEF Code
  <2>5. SumInv'
    BY <1>1, <1>4, <1>7, <1>8, <2>3, SumStays
  <2>6. out'.zip = "yes" => sent.accept
    BY ONLY <1>2, <2>3
  <2> QED
    BY ONLY <1>1, <1>4, <2>2, <2>3, <2>4, <2>5, <2>6, ExchangeInv, BackKeeps
<1>10. CASE "zip" \notin Wrapped
  <2>1. ~Innermost("zip") /\ Unwrap("zip") = writers
    BY <1>2, <1>5, <1>10, Popped
  <2>2. Wrapped' = Wrapped
    BY ONLY <1>6, <1>10
  <2>3. out' = out /\ writers' = StackOf(Wrapped')
    BY ONLY <1>1, <1>2, <2>1, <2>2
  <2>4. Shaped(out', Wrapped') /\ Code(out') = Code(out) /\ (out'.zip = "yes" => sent.accept)
    BY ONLY <1>2, <2>2, <2>3
  <2>5. SumInv'
    BY <1>1, <1>4, <1>7, <1>8, <2>3, SumStays
  <2> QED
    BY ONLY <1>1, <1>4, <2>3, <2>4, <2>5, ExchangeInv, BackKeeps
<1> QED
  BY <1>9, <1>10

\* The signature is set and what was held back goes to the client.
LEMMA SignResponseKeeps == ExchangeInv /\ SignResponse => ExchangeInv'
<1> SUFFICES ASSUME ExchangeInv, SignResponse PROVE ExchangeInv'
  OBVIOUS
<1>1. /\ way = "out" /\ GoBack /\ Out("integrity")
      /\ out' = IF Innermost("sign") THEN Sign(out, Unwrap("sign"), Server.Key) ELSE out
      /\ writers' = Unwrap("sign")
  BY DEF SignResponse, Out
<1>2. /\ Shaped(out, Wrapped) /\ (out.zip = "yes" => sent.accept)
      /\ depth \in 0 .. Len(Chain) /\ writers = StackOf(Wrapped)
      /\ Wrapped \subseteq {"log", "sign", "zip"}
  BY <1>1, OutIs
<1>3. Signs /\ depth = IntegrityAt + 1 /\ IntegrityAt \in {1, 2}
  BY <1>1, <1>2, Places DEF IntegrityAt
<1>4. /\ UNCHANGED <<configVars, sent>> /\ depth' = depth - 1
      /\ depth > 0 /\ depth' # 0 /\ depth >= 1
  BY <1>1, <1>3 DEF GoBack
<1>5. "log" \in Wrapped
  BY <1>4, WrappedIs
<1>6. "zip" \notin Wrapped /\ "sign" \in Wrapped /\ Wrapped' = Wrapped \ {"sign"}
  BY <1>2, <1>3, <1>4, Outwards
<1>7. PassedIntegrity /\ ~PassedIntegrity' /\ Signs' /\ Server' = Server /\ sent' = sent
  BY <1>3, <1>4, SameConfig DEF PassedIntegrity
<1>8. Innermost("sign") /\ Unwrap("sign") = StackOf(Wrapped \ {"sign"})
  BY <1>2, <1>5, <1>6, Popped
<1>9. out' = Sign(out, StackOf(Wrapped \ {"sign"}), Server.Key) /\ writers' = StackOf(Wrapped')
  BY ONLY <1>1, <1>6, <1>8
<1>10. /\ Shaped(out', Wrapped') /\ out'.status = Code(out) /\ out'.zip = out.zip
       /\ out.status = 0 => out'.sent.sum = <<Hmac(Server.Key, out'.body)>>
       /\ out.status # 0 => out'.sent.sum = <<>>
  BY ONLY <1>2, <1>5, <1>6, <1>9, SignKeeps
<1>11. Code(out) # 0 /\ Code(out') = Code(out) /\ (out.status # 0 => Code(out) = out.status)
  BY ONLY <1>10 DEF Code
<1>12. PassedIntegrity /\ out.status = 200 => sent.route = "GET:/ping"
  BY <1>1 DEF ExchangeInv, OutInv, SumInv
<1>13. SumInv'
  <2>1. out'.status # 0
    BY ONLY <1>10, <1>11
  <2>2. out'.sent.sum # <<>> => out'.sent.sum = <<Hmac(Server.Key, out'.body)>>
    BY ONLY <1>10
  <2>3. out'.status = 200 /\ sent'.route # "GET:/ping" => out'.sent.sum # <<>>
    <3>1. ASSUME out'.status = 200, sent'.route # "GET:/ping" PROVE out.status = 0
      BY ONLY <1>7, <1>10, <1>11, <1>12, <3>1
    <3>2. <<Hmac(Server.Key, out'.body)>> # <<>>
      OBVIOUS
    <3> QED
      BY ONLY <1>10, <3>1, <3>2
  <2>4. Hmac(Server.Key, out.body)' = Hmac(Server.Key, out'.body)
    BY ONLY <1>7 DEF Hmac
  <2> QED
    BY ONLY <1>7, <2>1, <2>2, <2>3, <2>4 DEF SumInv
<1>14. out'.zip = "yes" => sent.accept
  BY ONLY <1>2, <1>10
<1> QED
  BY ONLY <1>1, <1>4, <1>9, <1>10, <1>11, <1>13, <1>14, ExchangeInv, BackKeeps

\* rsa does nothing on the way out.
LEMMA LeaveDecoderKeeps == ExchangeInv /\ LeaveDecoder => ExchangeInv'
<1> SUFFICES ASSUME ExchangeInv, LeaveDecoder PROVE ExchangeInv'
  OBVIOUS
<1>1. /\ way = "out" /\ GoBack /\ Out("rsa") /\ out' = out /\ writers' = writers
  BY DEF LeaveDecoder, Out
<1>2. /\ Shaped(out, Wrapped) /\ (out.zip = "yes" => sent.accept)
      /\ depth \in 0 .. Len(Chain) /\ writers = StackOf(Wrapped)
  BY <1>1, OutIs
<1>3. Crypts /\ depth = 2
  BY <1>1, <1>2, Places
<1>4. /\ UNCHANGED <<configVars, sent>> /\ depth' = depth - 1
      /\ depth > 0 /\ depth' # 0
  BY <1>1, <1>3 DEF GoBack
<1>5. Wrapped' = Wrapped
  BY <1>2, <1>3, <1>4, Outwards
<1>6. PassedIntegrity' <=> PassedIntegrity
  <2>1. IntegrityAt = 2 /\ IntegrityAt' = IntegrityAt
    BY <1>3, <1>4, SameConfig DEF IntegrityAt
  <2>2. ~(depth > IntegrityAt) /\ ~(depth' > IntegrityAt')
    BY ONLY <1>3, <1>4, <2>1
  <2> QED
    BY ONLY <2>2 DEF PassedIntegrity
<1>7. SumInv'
  BY <1>1, <1>4, <1>6, SumStays
<1>8. /\ writers' = StackOf(Wrapped') /\ Shaped(out', Wrapped') /\ Code(out') = Code(out)
      /\ out'.zip = "yes" => sent.accept
  BY ONLY <1>1, <1>2, <1>5
<1> QED
  BY ONLY <1>1, <1>4, <1>7, <1>8, ExchangeInv, BackKeeps

\* The request is logged, and net/http sends what was not sent.
LEMMA LeaveSummaryKeeps == ExchangeInv /\ LeaveSummary => ExchangeInv'
<1> SUFFICES ASSUME ExchangeInv, LeaveSummary PROVE ExchangeInv'
  OBVIOUS
<1>1. /\ way = "out" /\ GoBack /\ Out("summary") /\ out' = Finish(out)
      /\ writers' = Unwrap("log")
  BY DEF LeaveSummary, Out
<1>2. /\ Shaped(out, Wrapped) /\ (out.zip = "yes" => sent.accept)
      /\ depth \in 0 .. Len(Chain) /\ writers = StackOf(Wrapped)
      /\ Wrapped \subseteq {"log", "sign", "zip"}
  BY <1>1, OutIs
<1>3. depth = 1
  BY <1>1, <1>2, Places
<1>4. /\ UNCHANGED <<configVars, sent>> /\ depth' = depth - 1 /\ depth > 0
  BY <1>1, <1>3 DEF GoBack
<1>5. Wrapped = {"log"} /\ Wrapped' = Wrapped \ {"log"}
  BY <1>2, <1>3, <1>4, Outwards
<1>6. "log" \in Wrapped /\ "sign" \notin Wrapped /\ "zip" \notin Wrapped
  BY ONLY <1>5
<1>7. Unwrap("log") = StackOf(Wrapped \ {"log"})
  BY <1>2, <1>6, Popped
<1>8. /\ Shaped(out', Wrapped') /\ out'.status = Code(out) /\ out'.zip = out.zip
      /\ out'.header = out.header /\ out'.body = out.body
      /\ out.status = 0 => out'.sent = out.header
      /\ out.status # 0 => out'.sent = out.sent
  <2>1. out' = Finish(out) /\ Shaped(out, Wrapped) /\ Wrapped' = Wrapped \ {"log"}
    BY ONLY <1>1, <1>2, <1>5
  <2> QED
    BY ONLY <2>1, <1>6, FinishKeeps
<1>9. Code(out) # 0 /\ Code(out') = Code(out) /\ (out.status # 0 => Code(out) = out.status)
  BY ONLY <1>8 DEF Code
<1>10. /\ ~PassedIntegrity /\ ~PassedIntegrity' /\ (Signs' <=> Signs) /\ Server' = Server
       /\ sent' = sent
  <2>1. /\ IntegrityAt \in {1, 2} /\ IntegrityAt' = IntegrityAt /\ (Signs' <=> Signs)
        /\ Server' = Server
    BY <1>4, SameConfig DEF IntegrityAt
  <2>2. ~(depth > IntegrityAt) /\ ~(depth' > IntegrityAt')
    BY ONLY <1>3, <1>4, <2>1
  <2> QED
    BY ONLY <1>4, <2>1, <2>2 DEF PassedIntegrity
<1>11. SumInv'
  <2>1. SumInv
    BY <1>1 DEF ExchangeInv, OutInv
  <2>2. CASE Signs
    <3>1. /\ out.status # 0
          /\ out.sent.sum # <<>> => out.sent.sum = <<Hmac(Server.Key, out.body)>>
          /\ out.status = 200 /\ sent.route # "GET:/ping" => out.sent.sum # <<>>
      BY ONLY <1>10, <2>1, <2>2 DEF SumInv
    <3>2. out'.sent = out.sent /\ out'.status = out.status
      BY ONLY <1>8, <1>9, <3>1
    <3>3. UNCHANGED <<configVars, sent>> /\ (PassedIntegrity' <=> PassedIntegrity)
      BY <1>4, <1>10
    <3> QED
      BY ONLY <1>1, <1>8, <3>2, <3>3, ExchangeInv, SumStays
  <2>3. CASE ~Signs
    <3>1. out.header.sum = <<>> /\ out.sent.sum = <<>>
      BY ONLY <2>1, <2>3 DEF SumInv
    <3>2. out'.header.sum = <<>> /\ out'.sent.sum = <<>>
      BY ONLY <1>8, <3>1
    <3> QED
      BY ONLY <1>10, <2>3, <3>2 DEF SumInv
  <2> QED
    BY <2>2, <2>3
<1>12. /\ writers' = StackOf(Wrapped') /\ (out'.zip = "yes" => sent.accept)
       /\ depth' = 0 => out'.status # 0
  BY ONLY <1>1, <1>2, <1>5, <1>7, <1>8, <1>9
<1> QED
  BY ONLY <1>1, <1>4, <1>8, <1>9, <1>11, <1>12, ExchangeInv, BackKeeps

----------------------------------------------------------------------------
(* Between two requests.                                                   *)

Idle ==
    /\ way = "idle" /\ depth = 0 /\ sent = NoRequest
    /\ WellFormed(req) /\ req = Peeled(sent, req.type, req.body.layers)
    /\ writers = <<>> /\ out = NoAnswer
    /\ store \in Snapshot /\ before \in Snapshot /\ retries = 0

\* The request there is before the first.
LEMMA NoRequestIs ==
    /\ WellFormed(NoRequest) /\ NoRequest.client = "none"
    /\ NoRequest = Peeled(NoRequest, NoRequest.type, NoRequest.body.layers)
<1>1. /\ NoRequest.body = [layers |-> <<>>, doc |-> Nothing] /\ Nothing.metrics = <<>>
      /\ Nothing.form = "nothing"
  BY DEF NoRequest, Plain, Nothing, Document
<1>2. /\ NoRequest.client = "none" /\ NoRequest.url = None /\ NoRequest.route = "none"
      /\ NoRequest.gzip = FALSE /\ NoRequest.accept = FALSE
  BY DEF NoRequest
<1>3. NoRequest = Peeled(NoRequest, NoRequest.type, NoRequest.body.layers)
  BY ONLY <1>1 DEF NoRequest, Plain, Peeled
<1>4. Writable(<<>>) /\ <<>> \in Seq(JSONMetric)
  BY DEF Writable
<1>5. NoRequest.body.doc.metrics = <<>> /\ NoRequest.body.doc.form # "object"
  BY ONLY <1>1
<1>6. NoRequest.route \notin URLRoutes
  BY ONLY <1>2 DEF URLRoutes
<1>7. WellFormed(NoRequest)
  BY ONLY <1>2, <1>3, <1>4, <1>5, <1>6 DEF WellFormed, Peeled
<1> QED
  BY ONLY <1>2, <1>3, <1>7

Outside == depth = 0

Unwrapped ==
    /\ Wrapped = {} /\ depth \in 0 .. Len(Chain)
    /\ ~PassedCrypto /\ ~PassedIntegrity /\ ~PassedEncoding

\* No writer is on when no request is inside, now and next.
LEMMA NobodyWraps == Outside => Unwrapped
<1> SUFFICES ASSUME depth = 0 PROVE Unwrapped
  BY DEF Outside
<1>1. EncodingAt \in {1, 2, 3} /\ IntegrityAt \in {1, 2} /\ Len(Chain) = EncodingAt + 1
  BY ChainIs DEF EncodingAt, IntegrityAt
<1>2. ~PassedIntegrity /\ ~PassedEncoding /\ ~PassedCrypto
  BY <1>1 DEF PassedIntegrity, PassedEncoding, PassedCrypto
<1>3. Wrapped = {}
  BY <1>2 DEF Wrapped
<1> QED
  BY <1>1, <1>2, <1>3 DEF Unwrapped

\* The same of the next state.
LEMMA NobodyWrapsNext == Outside' => Unwrapped'
  BY NobodyWraps, PTL

\* The stack of no writers.
LEMMA StackOfNone == StackOf({}) = <<>>
  BY StackIs

\* Between two requests nothing is left of the last one but the store.
LEMMA IdleIs == ConfigInv /\ Idle => ExchangeInv
<1> SUFFICES ASSUME ConfigInv, Idle PROVE ExchangeInv
  OBVIOUS
<1>1. StackInv
  BY NobodyWraps, StackOfNone DEF Outside, Unwrapped, Idle, StackInv
<1>2. RequestInv
  BY NoRequestIs DEF Idle, RequestInv
<1>3. OutInv /\ EffectInv
  BY ReturnedIs DEF Idle, OutInv, EffectInv, Returned
<1> QED
  BY <1>1, <1>2, <1>3 DEF ExchangeInv, Idle

\* The same of the next state.
LEMMA IdleIsNext == ConfigInv' /\ Idle' => ExchangeInv'
  BY IdleIs, PTL

\* And nothing else is there when the invariant holds.
LEMMA IdleOf == ExchangeInv /\ way = "idle" => Idle
<1> SUFFICES ASSUME ExchangeInv, way = "idle" PROVE Idle
  OBVIOUS
<1>1. /\ sent = NoRequest /\ depth = 0 /\ WellFormed(req)
      /\ req = Peeled(sent, req.type, req.body.layers)
  BY DEF ExchangeInv, RequestInv
<1>2. writers = <<>>
  BY <1>1, NobodyWraps, StackOfNone DEF Outside, Unwrapped, ExchangeInv, StackInv
<1>3. out = NoAnswer /\ store \in Snapshot /\ before \in Snapshot /\ retries = 0
  BY NotRepeated DEF ExchangeInv, OutInv, EffectInv, Inside
<1> QED
  BY <1>1, <1>2, <1>3 DEF Idle

\* At the start nothing has been asked.
LEMMA ExchangeStarts == ExchangeInit => ExchangeInv
<1> SUFFICES ASSUME ExchangeInit PROVE ExchangeInv
  OBVIOUS
<1>1. ConfigInv
  BY ConfigStarts DEF ExchangeInit
<1>2. Idle
  BY NoRequestIs, EmptySnapshotType DEF ExchangeInit, Idle
<1> QED
  BY <1>1, <1>2, IdleIs

\* The answer is received.
LEMMA ReceiveKeeps == ExchangeInv /\ Receive => ExchangeInv'
<1> SUFFICES ASSUME ExchangeInv, Receive PROVE ExchangeInv'
  OBVIOUS
<1>1. /\ depth = 0 /\ way = "out" /\ way' = "idle"
      /\ sent' = NoRequest /\ req' = NoRequest /\ out' = NoAnswer
      /\ before' = EmptySnapshot /\ UNCHANGED <<configVars, store, depth, writers, retries>>
  BY DEF Receive, Answered
<1>2. ConfigInv'
  BY <1>1, ConfigKeeps DEF ExchangeInv
<1>3. writers = <<>> /\ store \in Snapshot /\ retries = 0
  BY <1>1, NotRepeated, NobodyWraps, StackOfNone DEF Outside, Unwrapped, Inside, ExchangeInv, StackInv, EffectInv
<1>4. Idle'
  BY <1>1, <1>3, NoRequestIs, EmptySnapshotType DEF Idle
<1> QED
  BY ONLY <1>2, <1>4, IdleIsNext

----------------------------------------------------------------------------
(* A request comes.                                                        *)

\* A well-formed request arrives.
LEMMA ArrivesKeeps ==
    ASSUME ExchangeInv, NEW r, Arrives(r), WellFormed(r),
           r.client = "agent" =>
              /\ Ready("agent") /\ Reported(r.body.doc.metrics) /\ r = Post(r.body.doc.metrics)
    PROVE  ExchangeInv'
<1>1. /\ Ready("server") /\ way = "idle" /\ sent' = r /\ req' = r /\ way' = "in"
      /\ before' = store /\ UNCHANGED <<configVars, store, depth, writers, out, retries>>
  BY DEF Arrives
<1>2. /\ depth = 0 /\ writers = <<>> /\ out = NoAnswer /\ store \in Snapshot /\ retries = 0
  BY <1>1, IdleOf DEF Idle
<1>3. ConfigInv'
  BY <1>1, ConfigKeeps DEF ExchangeInv
<1>4. /\ Wrapped' = {} /\ depth' \in 0 .. Len(Chain')
      /\ ~PassedCrypto' /\ ~PassedIntegrity' /\ ~PassedEncoding'
  BY <1>1, <1>2, NobodyWrapsNext DEF Outside, Unwrapped
<1>5. StackInv'
  BY <1>1, <1>2, <1>4, StackOfNone DEF StackInv
<1>6. RequestInv'
  <2>1. /\ (Ready("server")' <=> Ready("server")) /\ (Ready("agent")' <=> Ready("agent"))
        /\ Agent' = Agent
    BY <1>1, SameConfig
  <2>2. r = Peeled(r, r.type, r.body.layers)
    BY DEF WellFormed, Peeled
  <2>4. PeeledInv'
    BY ONLY <1>1, <1>4 DEF PeeledInv
  <2>5. AgentDoc' = r.body.doc
    BY ONLY <1>1 DEF AgentDoc
  <2>6. Post(AgentDoc.metrics)' = Post(r.body.doc.metrics)
    BY ONLY <2>1, <2>5 DEF Post, AgentSum
  <2>7. r.client = "agent" =>
           Ready("agent")' /\ Reported(AgentDoc.metrics)' /\ sent' = Post(AgentDoc.metrics)'
    BY <1>1, <2>1, <2>5, <2>6
  <2> QED
    BY <1>1, <2>1, <2>2, <2>4, <2>7 DEF RequestInv
<1>7. OutInv' /\ EffectInv'
  BY <1>1, <1>2, UntriedIsNext DEF OutInv, EffectInv, Untried
<1> QED
  BY <1>1, <1>3, <1>5, <1>6, <1>7 DEF ExchangeInv

\* A client sends one.
LEMMA ClientSendsKeeps == ExchangeInv /\ ClientSends => ExchangeInv'
<1> SUFFICES ASSUME ExchangeInv, NEW r \in ClientRequests, Arrives(r) PROVE ExchangeInv'
  BY DEF ClientSends
<1>1. r.client = "other" /\ WellFormed(r)
  BY ExchangeAssumption
<1> QED
  BY <1>1, ArrivesKeeps

----------------------------------------------------------------------------
(* A report.                                                               *)

\* A list of all the elements of a finite set is a list of elements of it.
LEMMA ListOf ==
    ASSUME NEW S, NEW D, IsFiniteSet(D), NEW f \in Surjection(D, S), NEW l \in SetToSeqs(S)
    PROVE  l \in Seq(S)
<1>1. Cardinality(S) \in Nat
  BY FS_Surjection, FS_CardinalityType
<1>2. l \in [1 .. Cardinality(S) -> S]
  BY DEF SetToSeqs
<1> QED
  BY <1>1, <1>2

\* What a snapshot holds is listed as metrics with which nothing is wrong.
LEMMA ListedIsReported ==
    ASSUME NEW s \in Reports, NEW metrics \in Listings(s), Writable(metrics)
    PROVE  Reported(metrics)
<1> DEFINE gauge   == [n \in DOMAIN s.gauge |->
                          [Type |-> "gauge", Name |-> n, Value |-> s.gauge[n]]]
           counter == [n \in DOMAIN s.counter |->
                          [Type |-> "counter", Name |-> n, Delta |-> s.counter[n]]]
           G == {gauge[n] : n \in DOMAIN s.gauge}
           C == {counter[n] : n \in DOMAIN s.counter}
<1>1. s \in Snapshot /\ IsFiniteSet(DOMAIN s.gauge) /\ IsFiniteSet(DOMAIN s.counter)
  BY ExchangeAssumption
<1>2. /\ G = {[Type |-> "gauge", Name |-> n, Value |-> s.gauge[n]] : n \in DOMAIN s.gauge}
      /\ C = {[Type |-> "counter", Name |-> n, Delta |-> s.counter[n]] : n \in DOMAIN s.counter}
  OBVIOUS
<1>3. PICK g \in SetToSeqs(G), c \in SetToSeqs(C) : metrics = ConvertEntityMetrics(g \o c)
  <2> HIDE DEF G, C
  <2> QED
    BY <1>2 DEF Listings
<1>4. /\ gauge \in Surjection(DOMAIN s.gauge, G)
      /\ counter \in Surjection(DOMAIN s.counter, C)
  BY DEF Surjection
<1>5. G \subseteq Metric
  <2>1. s.gauge \in MapTo(GaugeValues)
    BY <1>1 DEF Snapshot
  <2>2. \A n \in DOMAIN s.gauge : n \in Names /\ s.gauge[n] \in GaugeValues
    BY <2>1 DEF MapTo
  <2>3. ASSUME NEW n \in DOMAIN s.gauge PROVE gauge[n] \in Metric
    <3>1. gauge[n] = [Type |-> "gauge", Name |-> n, Value |-> s.gauge[n]]
      OBVIOUS
    <3> QED
      BY ONLY <2>2, <2>3, <3>1 DEF Metric
  <2> HIDE DEF gauge
  <2> QED
    BY <2>3
<1>6. C \subseteq Metric
  <2>1. s.counter \in MapTo(Counter)
    BY <1>1 DEF Snapshot
  <2>2. \A n \in DOMAIN s.counter : n \in Names /\ s.counter[n] \in Counter
    BY <2>1 DEF MapTo
  <2>3. ASSUME NEW n \in DOMAIN s.counter PROVE counter[n] \in Metric
    <3>1. counter[n] = [Type |-> "counter", Name |-> n, Delta |-> s.counter[n]]
      OBVIOUS
    <3> QED
      BY ONLY <2>2, <2>3, <3>1 DEF Metric
  <2> HIDE DEF counter
  <2> QED
    BY <2>3
<1> HIDE DEF gauge, counter, G, C
<1>7. g \in Seq(G) /\ c \in Seq(C)
  BY ONLY <1>1, <1>3, <1>4, ListOf
<1> DEFINE es == g \o c
<1>8. es \in Seq(Metric)
  BY <1>5, <1>6, <1>7
<1> HIDE DEF es
<1>9. ASSUME NEW e \in Metric
      PROVE  /\ ConvertEntityMetric(e) \in JSONMetric
             /\ MetricFault(ConvertEntityMetric(e)) = "none"
  <2> DEFINE m == ConvertEntityMetric(e)
  <2>0. None \notin Names /\ None \notin GaugeValues /\ None \notin Counter
    BY AdaptersAssumption
  <2>1. CASE e \in [Type: {"gauge"}, Name: Names, Value: GaugeValues]
    <3>1. m = [ID |-> e.Name, MType |-> "gauge", Value |-> e.Value, Delta |-> None]
      BY <2>1 DEF ConvertEntityMetric
    <3>2. e.Name \in Names /\ e.Value \in GaugeValues
      BY <2>1
    <3> HIDE DEF m
    <3>3. m \in JSONMetric
      BY ONLY <3>1, <3>2 DEF JSONMetric
    <3>4. m.MType = "gauge" /\ m.ID # None /\ m.Value # None
      BY ONLY <2>0, <3>1, <3>2
    <3>5. MetricFault(m) = "none"
      BY ONLY <3>4 DEF MetricFault, KindFault
    <3> QED
      BY <3>3, <3>5 DEF m
  <2>2. CASE e \in [Type: {"counter"}, Name: Names, Delta: Counter]
    <3>1. m = [ID |-> e.Name, MType |-> "counter", Value |-> None, Delta |-> e.Delta]
      BY <2>2 DEF ConvertEntityMetric
    <3>2. e.Name \in Names /\ e.Delta \in Counter
      BY <2>2
    <3> HIDE DEF m
    <3>3. m \in JSONMetric
      BY ONLY <3>1, <3>2 DEF JSONMetric
    <3>4. m.MType = "counter" /\ m.ID # None /\ m.Delta # None
      BY ONLY <2>0, <3>1, <3>2
    <3>5. MetricFault(m) = "none"
      BY ONLY <3>4 DEF MetricFault, KindFault
    <3> QED
      BY <3>3, <3>5 DEF m
  <2> QED
    BY <2>1, <2>2 DEF Metric
<1>10. metrics = [i \in 1 .. Len(es) |-> ConvertEntityMetric(es[i])]
  BY <1>3, <1>8 DEF es, ConvertEntityMetrics
<1>11. \A i \in 1 .. Len(es) : es[i] \in Metric
  BY <1>8
<1>12. metrics \in Seq(JSONMetric) /\ DOMAIN metrics = 1 .. Len(es)
  BY <1>8, <1>9, <1>10, <1>11
<1>13. \A i \in DOMAIN metrics : MetricFault(metrics[i]) = "none"
  BY <1>9, <1>10, <1>11, <1>12
<1> QED
  BY <1>12, <1>13 DEF Reported

\* The agent's request is well formed.
LEMMA PostWellFormed ==
    ASSUME NEW metrics, Reported(metrics), NEW p, p = Post(metrics)
    PROVE  WellFormed(p) /\ p.body.doc.metrics = metrics
<1>1. /\ p.route = "POST:/updates/" /\ p.url = None /\ p.gzip = TRUE /\ p.accept = TRUE
      /\ p.body.doc = Document("array", metrics)
  BY ONLY p = Post(metrics), PostIs
<1>2. \/ p.body = Gzip(Plain(Document("array", metrics)))
      \/ p.body = Encrypt(Agent.CryptoKey, Gzip(Plain(Document("array", metrics))))
  BY ONLY p = Post(metrics), PostIs
<1>3. p.body = [layers |-> p.body.layers, doc |-> p.body.doc]
  <2> DEFINE doc == Document("array", metrics)
  <2> HIDE DEF doc
  <2>1. Gzip(Plain(doc)) = [layers |-> <<<<"gzip", "">>>>, doc |-> doc]
    BY LayersOfReport
  <2>2. Encrypt(Agent.CryptoKey, Gzip(Plain(doc)))
           = [layers |-> <<<<"rsa", Agent.CryptoKey>>, <<"gzip", "">>>>, doc |-> doc]
    BY LayersOfReport
  <2>3. \A l, d : LET b == [layers |-> l, doc |-> d] IN b = [layers |-> b.layers, doc |-> b.doc]
    OBVIOUS
  <2>4. Gzip(Plain(doc)) = [layers |-> Gzip(Plain(doc)).layers, doc |-> Gzip(Plain(doc)).doc]
    BY ONLY <2>1, <2>3
  <2>5. Encrypt(Agent.CryptoKey, Gzip(Plain(doc)))
           = [layers |-> Encrypt(Agent.CryptoKey, Gzip(Plain(doc))).layers,
              doc |-> Encrypt(Agent.CryptoKey, Gzip(Plain(doc))).doc]
    BY ONLY <2>2, <2>3
  <2> QED
    BY <1>2, <2>4, <2>5 DEF doc
<1>4. p = [client |-> p.client, route |-> p.route, type |-> p.type, gzip |-> p.gzip,
           accept |-> p.accept, sum |-> p.sum, url |-> p.url, body |-> p.body]
  BY ONLY p = Post(metrics) DEF Post
<1>5. p.body.doc.metrics = metrics /\ p.body.doc.form = "array"
  BY ONLY <1>1 DEF Document
<1>6. metrics \in Seq(JSONMetric) /\ Writable(metrics)
  BY DEF Reported
<1>7. p.route \notin URLRoutes
  BY ONLY <1>1 DEF URLRoutes
<1>8. p = [client |-> p.client, route |-> p.route, type |-> p.type, gzip |-> p.gzip,
            accept |-> p.accept, sum |-> p.sum, url |-> p.url,
            body |-> [layers |-> p.body.layers, doc |-> p.body.doc]]
  BY ONLY <1>3, <1>4
<1> QED
  BY ONLY <1>1, <1>5, <1>6, <1>7, <1>8 DEF WellFormed

\* The agent sends one.
LEMMA ReportKeeps == ExchangeInv /\ Report => ExchangeInv'
<1> SUFFICES ASSUME ExchangeInv, Ready("agent"),
                    NEW s \in Reports, NEW metrics \in Listings(s),
                    Sendable(metrics), Arrives(Post(metrics))
             PROVE  ExchangeInv'
  BY DEF Report
<1>1. Reported(metrics)
  BY ListedIsReported DEF Sendable
<1> DEFINE p == Post(metrics)
<1>2. p = Post(metrics) /\ Arrives(p)
  OBVIOUS
<1> HIDE DEF p
<1>3. WellFormed(p) /\ p.body.doc.metrics = metrics
  BY ONLY <1>1, <1>2, PostWellFormed
<1>4. Reported(p.body.doc.metrics) /\ p = Post(p.body.doc.metrics)
  BY ONLY <1>1, <1>2, <1>3
<1> QED
  BY ONLY <1>2, <1>3, <1>4, ExchangeInv, Ready("agent"), ArrivesKeeps

----------------------------------------------------------------------------
(* The other program may still read its configuration while a request is   *)
(* on its way; what the request meets stays.                               *)

\* A program reads its configuration; no request is on its way unless the
\* programs it concerns have.
LEMMA ConfiguringKeeps ==
    ExchangeInv /\ [ConfigNext]_configVars /\ UNCHANGED exchangeVars => ExchangeInv'
<1> SUFFICES ASSUME ExchangeInv, [ConfigNext]_configVars, UNCHANGED exchangeVars
             PROVE  ExchangeInv'
  OBVIOUS
<1>1. UNCHANGED <<store, sent, req, depth, way, writers, out, before, retries>>
  BY DEF exchangeVars
<1>2. ConfigInv /\ ConfigInv'
  BY ConfigKeeps DEF ExchangeInv
<1>3. CASE way = "idle"
  <2>1. Idle
    BY <1>3, IdleOf
  <2>2. Idle'
    BY <1>1, <2>1 DEF Idle
  <2> QED
    BY ONLY <1>2, <2>2, IdleIsNext
<1>4. CASE way # "idle"
  <2>1. RequestInv
    BY DEF ExchangeInv
  <2>2. /\ StackInv' /\ RequestInv' /\ OutInv' /\ Server' = Server
        /\ sent.client = "agent" => Agent' = Agent
    BY <1>1, <1>4, RequestWaits
  <2>3. (StorageMayFail' <=> StorageMayFail) /\ Chain' = Chain
    BY ONLY <2>2 DEF StorageMayFail, Chain
  <2>4. EffectInv'
    <3>1. EffectInv
      BY DEF ExchangeInv
    <3>2. Code(out)' = Code(out) /\ Outcomes' = Outcomes
      BY ONLY <1>1, <2>3 DEF Code, Outcomes, Attempts, Asked
    <3>3. Tells(Code(out), store) => Tells(Code(out), store)'
      BY ONLY <1>1, <2>3, <3>2 DEF Tells, Updates, Valid, Asked
    <3>4. sent.client = "agent" => (KeysAgree' <=> KeysAgree)
      BY ONLY <2>2 DEF KeysAgree
    <3>5. TellsAgent(Code(out), store) => TellsAgent(Code(out), store)'
      BY ONLY <1>1, <2>3, <3>2, <3>4 DEF TellsAgent
    <3>6. RetryInv => RetryInv'
      BY ONLY <1>1, <2>3 DEF RetryInv, Inside, Updates, Valid, Asked, Taken
    <3> QED
      BY ONLY <1>1, <3>1, <3>3, <3>5, <3>6 DEF EffectInv
  <2> QED
    BY <1>1, <1>2, <2>2, <2>4 DEF ExchangeInv
<1> QED
  BY <1>3, <1>4

\* No step of the exchange breaks the invariant.
LEMMA ExchangeKeeps == ExchangeInv /\ [ExchangeNext]_allVars => ExchangeInv'
<1> SUFFICES ASSUME ExchangeInv, [ExchangeNext]_allVars PROVE ExchangeInv'
  OBVIOUS
<1>1. CASE ReadConfig \/ UNCHANGED allVars
  BY <1>1, ConfiguringKeeps DEF ReadConfig, allVars
<1>2. CASE Report \/ ClientSends
  BY <1>2, ReportKeeps, ClientSendsKeeps
<1>3. CASE Summary \/ DecryptBody \/ VerifyRequest \/ Decompress
  BY <1>3, SummaryKeeps, DecryptKeeps, VerifyKeeps, DecompressKeeps
<1>4. CASE DecryptionFails \/ VerificationFails \/ DecompressionFails
  BY <1>4, RefusalsKeep
<1>5. CASE Handle
  BY <1>5, HandleKeeps
<1>6. CASE CloseWriter \/ SignResponse \/ LeaveDecoder \/ LeaveSummary
  BY <1>6, CloseWriterKeeps, SignResponseKeeps, LeaveDecoderKeeps, LeaveSummaryKeeps
<1>7. CASE Receive
  BY <1>7, ReceiveKeeps
<1> QED
  BY ONLY <1>1, <1>2, <1>3, <1>4, <1>5, <1>6, <1>7, [ExchangeNext]_allVars DEF ExchangeNext

\* The invariant holds of every state.
LEMMA ExchangeAlways == ExchangeSpec => []ExchangeInv
  BY ExchangeStarts, ExchangeKeeps, PTL DEF ExchangeSpec

----------------------------------------------------------------------------
(* What the invariant says of an answer that has left.                     *)

\* An answer that has left is all written, signed and final.
LEMMA AnsweredIs ==
    ASSUME ExchangeInv, Answered
    PROVE  /\ Shaped(out, Wrapped) /\ SumInv /\ out.status # 0 /\ Code(out) = out.status
           /\ out.zip = "yes" => sent.accept
           /\ Unwrapped /\ Wrapped = {} /\ ~PassedIntegrity
           /\ Tells(out.status, store) /\ TellsAgent(out.status, store)
<1>1. way = "out" /\ depth = 0
  BY DEF Answered
<1>2. Shaped(out, Wrapped) /\ SumInv /\ out.status # 0 /\ (out.zip = "yes" => sent.accept)
  BY <1>1 DEF ExchangeInv, OutInv
<1>3. Code(out) = out.status
  BY ONLY <1>2 DEF Code
<1>4. Unwrapped /\ Wrapped = {} /\ ~PassedIntegrity
  BY <1>1, NobodyWraps DEF Outside, Unwrapped
<1>5. Tells(Code(out), store) /\ TellsAgent(Code(out), store)
  BY <1>1 DEF ExchangeInv, EffectInv
<1> QED
  BY ONLY <1>2, <1>3, <1>4, <1>5

\* So its status tells what has happened to the store,
LEMMA TellsEffect == ExchangeInv => StatusTellsEffect
<1> SUFFICES ASSUME ExchangeInv, Answered
             PROVE  /\ out.status = 200 /\ Updates(sent) => Valid(sent) /\ store \in Outcomes
                    /\ out.status \in {400, 404} \/ ~Updates(sent) => store = before
                    /\ out.status = 500 /\ store # before =>
                          StorageMayFail /\ Valid(sent) /\ store \in Outcomes
  BY DEF StatusTellsEffect
<1>1. Tells(out.status, store)
  BY AnsweredIs
<1> QED
  BY ONLY <1>1 DEF Tells

\* a report is understood or leaves nothing behind,
LEMMA TellsAgents == ExchangeInv => AgentIsUnderstood /\ ForeignReportRefused
<1> SUFFICES ASSUME ExchangeInv PROVE AgentIsUnderstood /\ ForeignReportRefused
  OBVIOUS
<1>1. Answered => TellsAgent(out.status, store)
  BY AnsweredIs
<1> QED
  BY ONLY <1>1 DEF TellsAgent, AgentIsUnderstood, ForeignReportRefused

\* A body of which nothing has been written has no chunks.
LEMMA NothingIn == ASSUME NEW b, b = <<>> PROVE DOMAIN b = {}
  BY SMT

\* its body is what its Content-Encoding says,
LEMMA Readable == ExchangeInv => AnswerReadable
<1> SUFFICES ASSUME ExchangeInv, Answered PROVE AnswerReadable
  BY DEF AnswerReadable
<1> DEFINE deflated == \E i \in DOMAIN out.body : out.body[i].what # "plain"
           whole    == /\ Last(out.body) = GzipEnd
                       /\ \A i \in 1 .. Len(out.body) - 1 : out.body[i].what = "deflated"
<1>1. /\ Shaped(out, {}) /\ out.status # 0 /\ Code(out) = out.status
      /\ out.zip = "yes" => sent.accept
  BY AnsweredIs
<1>2. /\ Written(out, out.body, {}) /\ out.logged = out.status
      /\ out.sent.encoding = out.header.encoding
  BY ONLY <1>1 DEF Shaped
<1>3. /\ deflated <=> out.sent.encoding = "gzip"
      /\ deflated => out.zip = "yes" /\ whole
  <2>1. CASE out.body = <<>> /\ out.header.encoding = ""
    <3>1. DOMAIN out.body = {}
      BY <2>1, NothingIn
    <3>2. ~deflated
      BY ONLY <3>1
    <3> QED
      BY ONLY <1>2, <2>1, <3>2
  <2>2. CASE out.body = <<Chunk("plain", out.body[1].doc)>> /\ out.header.encoding = ""
    <3> DEFINE d == out.body[1].doc
    <3> HIDE DEF d
    <3>1. out.body = <<Chunk("plain", d)>>
      BY <2>2 DEF d
    <3>2. Chunk("plain", d).what = "plain"
      BY DEF Chunk
    <3>3. ~deflated
      BY <3>1, <3>2
    <3> QED
      BY ONLY <1>2, <2>2, <3>3
  <2>3. CASE /\ out.header.encoding = "gzip" /\ out.zip = "yes"
             /\ out.body = <<Chunk("deflated", out.body[1].doc)>> \o <<GzipEnd>>
    <3> DEFINE d == Chunk("deflated", out.body[1].doc)
    <3>1. d.what = "deflated" /\ GzipEnd.what = "end"
      BY DEF Chunk, GzipEnd
    <3> HIDE DEF d
    <3>2. out.body = <<d, GzipEnd>>
      BY ONLY <2>3, JoinTwo DEF d
    <3>3. /\ DOMAIN out.body = 1 .. 2 /\ Len(out.body) = 2
          /\ out.body[1] = d /\ out.body[2] = GzipEnd
      BY ONLY <3>2
    <3>4. deflated /\ whole
      BY ONLY <3>1, <3>3 DEF Last
    <3> QED
      BY ONLY <1>2, <2>3, <3>4
  <2> QED
    BY ONLY <1>2, <2>1, <2>2, <2>3 DEF Written
<1> QED
  BY ONLY <1>1, <1>2, <1>3 DEF AnswerReadable

\* its signature is that of its body,
LEMMA Verifies == ExchangeInv => SignatureVerifies
<1> SUFFICES ASSUME ExchangeInv, Answered
             PROVE  /\ out.sent.sum # <<>> =>
                          Server.Key # "" /\ out.sent.sum = <<Hmac(Server.Key, out.body)>>
                    /\ Server.Key # "" /\ out.status = 200 /\ sent.route # "GET:/ping" =>
                          out.sent.sum # <<>>
  BY DEF SignatureVerifies
<1>1. SumInv /\ ~PassedIntegrity
  BY AnsweredIs
<1> QED
  BY ONLY <1>1 DEF SumInv, Signs

\* and everything has its type.
LEMMA Types == ExchangeInv => ExchangeTypeOK
<1> SUFFICES ASSUME ExchangeInv PROVE ExchangeTypeOK
  OBVIOUS
<1>1. /\ ConfigTypeOK /\ way \in {"idle", "in", "out"} /\ depth \in 0 .. Len(Chain)
      /\ WellFormed(sent) /\ WellFormed(req) /\ store \in Snapshot /\ before \in Snapshot
      /\ retries \in 0 .. retryCount
  BY ConfigTypes DEF ExchangeInv, StackInv, RequestInv, EffectInv, RetryInv
<1>2. writers \in Stacks
  <2>1. writers = StackOf(Wrapped)
    BY DEF ExchangeInv, StackInv
  <2>2. /\ "log" \in Wrapped <=> depth >= 1
        /\ "sign" \in Wrapped => depth > IntegrityAt
        /\ "zip" \in Wrapped => depth > EncodingAt
    BY WrappedIs DEF PassedIntegrity, PassedEncoding
  <2>3. IntegrityAt \in {1, 2} /\ EncodingAt \in {1, 2, 3} /\ depth \in Int
    BY <1>1 DEF IntegrityAt, EncodingAt
  <2>4. \/ "log" \in Wrapped
        \/ "log" \notin Wrapped /\ "sign" \notin Wrapped /\ "zip" \notin Wrapped
    BY ONLY <2>2, <2>3
  <2> QED
    BY ONLY <2>1, <2>4, StackIs DEF Stacks
<1>3. /\ out.status \in {0, 200, 400, 404, 500} /\ out.zip \in {"open", "yes", "no"}
      /\ way # "out" => out.body = <<>> /\ out.buffer = <<>>
  <2>1. CASE way = "out"
    BY <2>1 DEF ExchangeInv, OutInv, Shaped
  <2>2. CASE way # "out"
    <3>1. out = NoAnswer
      BY <2>2 DEF ExchangeInv, OutInv
    <3> QED
      BY <3>1 DEF NoAnswer
  <2> QED
    BY <2>1, <2>2
<1> QED
  BY <1>1, <1>2, <1>3 DEF ExchangeTypeOK
----------------------------------------------------------------------------
(* The theorems.                                                           *)

\* Whatever is asked, in whatever configurations: the configurations, the
\* requests as the middlewares change them, the stack of ResponseWriters, the
\* store and the answer are what they should be at every step.
THEOREM ExchangeTypesAreKept == ExchangeSpec => []ExchangeTypeOK
<1>1. ExchangeInv => ExchangeTypeOK
  BY Types
<1> QED
  BY <1>1, ExchangeAlways, PTL

\* The status a client gets tells what its request has done to the store: 200
\* to an update that all of it is valid and applied, in order, once or by a
\* database up to once for each of its retryCount + 1 transactions; 400 and 404
\* that none is; and 500 with another store that a database has applied all of
\* it, so often (MetricsRouter, handleUpdateError, handleGetterError,
\* doTransactionWithRetries).
THEOREM StatusesTellEffect == ExchangeSpec => []StatusTellsEffect
<1>1. ExchangeInv => StatusTellsEffect
  BY TellsEffect
<1> QED
  BY <1>1, ExchangeAlways, PTL

\* Every answer can be read by its client: Content-Encoding says what the body
\* is, and only what was accepted is compressed (compressibleWriter).
THEOREM AnswersAreReadable == ExchangeSpec => []AnswerReadable
<1>1. ExchangeInv => AnswerReadable
  BY Readable
<1> QED
  BY <1>1, ExchangeAlways, PTL

\* Every signature on an answer is the one of its body as it is received, and
\* of the answers with 200 only that of ping has none (signedWriter).
THEOREM SignaturesVerify == ExchangeSpec => []SignatureVerifies
<1>1. ExchangeInv => SignatureVerifies
  BY Verifies
<1> QED
  BY <1>1, ExchangeAlways, PTL

\* Whatever the agent reports and the two are configured to do, the server
\* undoes what the agent has done to the body, if their keys agree.
THEOREM AgentsAreUnderstood == ExchangeSpec => []AgentIsUnderstood
<1>1. ExchangeInv => AgentIsUnderstood
  BY TellsAgents
<1> QED
  BY <1>1, ExchangeAlways, PTL

\* And if they do not, nothing of the report gets into the store.
THEOREM ForeignReportsAreRefused == ExchangeSpec => []ForeignReportRefused
<1>1. ExchangeInv => ForeignReportRefused
  BY TellsAgents
<1> QED
  BY <1>1, ExchangeAlways, PTL
=============================================================================
