----------------------------- MODULE MCExchange -----------------------------
(***************************************************************************)
(* Each program started in a few ways, which together have every option    *)
(* from every source, and the keys alike, different, and on one side only; *)
(* one name, reports of one and of two metrics, and requests of every      *)
(* route, most of which are wrong in one way.                              *)
(***************************************************************************)
EXTENDS Exchange

CONSTANTS cpu, v, nan

Empty == [o \in {} |-> ""]

Given(flags, env, file, path, broken) ==
    [flags |-> flags, env |-> env, file |-> file, path |-> path, broken |-> broken]

ServerInputs ==
    { Given(Empty, Empty, Empty, FALSE, {}),
      \* every source gives a key, and the file what nothing else gives
      Given([Key |-> "k1"], [Key |-> "k2"], [Key |-> "k3", CryptoKey |-> "r1"], TRUE, {}),
      \* the flag holds against the file, and an empty variable is none
      Given([Key |-> "k2", CryptoKey |-> ""], [Key |-> ""], [Key |-> "k1", CryptoKey |-> "r1"],
            TRUE, {}),
      Given([DatabaseDSN |-> "dsn", CryptoKey |-> "r1"], Empty, [FileStoragePath |-> ""], TRUE, {}),
      Given([Key |-> "k1"], [DatabaseDSN |-> "dsn"], [Key |-> "k1"], FALSE, {}),
      Given([Key |-> "k1"], Empty, [Key |-> "k3"], TRUE, {"file"}) }

AgentInputs ==
    { Given(Empty, Empty, Empty, FALSE, {}),
      Given(Empty, [Key |-> "k2"], Empty, FALSE, {}),
      Given([Key |-> "k1"], [Key |-> "k2"], [Key |-> "k3", CryptoKey |-> "r1"], TRUE, {}),
      Given([CryptoKey |-> "r1"], Empty, [CryptoKey |-> "r2"], TRUE, {}),
      Given([Key |-> "k3"], [CryptoKey |-> "r2"], Empty, FALSE, {}),
      Given(Empty, Empty, Empty, FALSE, {"flags"}),
      Given(Empty, Empty, Empty, FALSE, {"env"}) }

MCInputs == [p \in Programs |-> IF p = "server" THEN ServerInputs ELSE AgentInputs]

Only(n, x) == [k \in {n} |-> x]

MCReports ==
    { [gauge |-> Only(cpu, v),   counter |-> Only(cpu, 1)],
      [gauge |-> Only(cpu, nan), counter |-> EmptyMap],
      [gauge |-> EmptyMap,       counter |-> Only(cpu, -1)] }

G(x) == [ID |-> cpu, MType |-> "gauge", Value |-> x, Delta |-> None]
C(d) == [ID |-> cpu, MType |-> "counter", Value |-> None, Delta |-> d]
Odd     == [C(1) EXCEPT !.MType = "other"]
Unnamed == [C(1) EXCEPT !.ID = None]

\* A client that signs nothing and compresses nothing.
Client(route, form, metrics) ==
    [NoRequest EXCEPT !.client = "other", !.route = route, !.type = "application/json",
                      !.body = Plain(Document(form, metrics))]

ByURL(route, m) ==
    [NoRequest EXCEPT !.client = "other", !.route = route, !.url = m]

Set(m) == ByURL("POST:/update/:type/:name/:value", m)
Get(m) == ByURL("GET:/value/:type/:name", m)

Accepting(r) == [r EXCEPT !.accept = TRUE]

MCClientRequests ==
    { Client("POST:/update/", "object", <<C(1)>>),
      Accepting(Client("POST:/update/", "object", <<G(v)>>)),
      Client("POST:/update/", "object", <<C(None)>>),
      Client("POST:/update/", "array", <<C(1)>>),
      [Client("POST:/update/", "object", <<C(1)>>) EXCEPT !.type = "text/plain"],
      Client("POST:/updates/", "array", <<C(1), Unnamed, C(1)>>),
      Accepting(Client("POST:/updates/", "array", <<C(1), G(None), C(1)>>)),
      Client("POST:/updates/", "array", <<>>),
      \* a body said to be compressed that is not, and the other way round
      [Client("POST:/updates/", "array", <<C(1)>>) EXCEPT !.gzip = TRUE],
      [Client("POST:/updates/", "array", <<C(1)>>) EXCEPT !.body = Gzip(@)],
      [Client("POST:/updates/", "array", <<C(1)>>)
          EXCEPT !.sum = <<Hmac("k1", Plain(Document("array", <<C(1)>>)))>>],
      Set(G(nan)), Set(C(-1)), Set(C(None)), Set(Odd), Set(Unnamed),
      Accepting(Client("POST:/value/", "object", <<G(None)>>)),
      Client("POST:/value/", "object", <<C(None)>>),
      Client("POST:/value/", "object", <<Odd>>),
      Client("POST:/value/", "garbage", <<C(1)>>),
      Accepting(Get(G(None))), Get(C(None)), Get(Unnamed),
      Accepting(ByURL("GET:/", None)), ByURL("GET:/ping", None) }
============================================================================
