# A TLA+ model of go-advanced

go-advanced is a metrics collector: an **agent** polls runtime and system
metrics and reports them over HTTP to a **server**, which keeps gauges and
counters in memory, in memory with a JSON file, or in PostgreSQL. This directory
holds TLA+ modules that model the parts of it where interleavings, crashes and
lost messages matter, TLC configurations that check them on small instances, and
proofs of the central safety properties for every instance.

## The system

| Component | State | Operations | Interacts with |
|---|---|---|---|
| Metric entities (`entities`, `models`) | a metric: type, name, value or delta | replace a gauge, add to a counter | everything |
| MemStorage (`storage/memstorage`) | two maps, one `RWMutex` | GetMetric, UpdateMetric, UpdateMetrics, GetMetricsByTypes | called by request handlers, concurrently |
| FileStorage (`storage/filestorage`) | the same, and a JSON file | the same; Init (load), Start (preserver: store at once, at ticks, on exit), store on change | request handlers, its preserver goroutine, the context of the server |
| PgStorage (`storage/pgstorage`) | two tables | the same four, each one transaction with retries | PostgreSQL |
| Server process (`app/server`) | context, wait group, `success` | Run: listener, watchdog, signal handler, storage | all of them stop by one context |
| Transactions (`pgstorage/transaction.go`) | the number of retries | doTransaction, doTransactionWithRetries | a pool of connections |
| Use cases, handlers, adapters (`usecases`, `handlers`) | none | decode, call the storage, answer; a status per class of error | the middleware outside, the storage inside |
| Middleware (`middleware`) | the request's body, wrapped writers | summary, RSA decoding, integrity, encoding | net/http and the handlers |
| Agent process (`app/agent`) | context, wait group | Run: two pollers, scheduler, reporter pool | one context, one channel |
| Pollers (`agent/metrics`, `workers/poller.go`) | gauges, counters, `pollCount`, `readyRead`, an `RWMutex` each | Poll, Get, ReadyRead | their goroutine writes, the scheduler reads |
| Scheduler (`workers/scheduler.go`) | the channel of metrics | first round, a round per tick, close | reads pollers, sends to reporters |
| Reporters, flusher (`workers`) | a report in flight | take from the channel, report | the server, through RetryableTransport |
| RetryableTransport (`workers/http_retry`) | the number of retries | RoundTrip | the network |
| Configuration (`configreader`, two `config.go`) | the options | flags, environment, file, flags, environment | the mains |
| staticlint | none | runs passes | none |

What is hard in it, and what makes each part correct:

- **MemStorage.** Handlers interleave; a batch is built on copies and swapped in
  by two assignments, a dump reads two maps. Correct means linearizable: every
  call takes effect at one instant, batches whole, counters in 64 bits.
- **FileStorage.** The encoder reads live maps; the file is truncated before it
  is written; file system calls fail; the process is killed. Correct means: a
  readable file is one version, the latest when it was written; every version is
  stored in the end; no path keeps the lock.
- **PgStorage.** Transactions overlap at READ COMMITTED and lock rows in the order
  of their batches; the pool is bounded; an error ends a transaction anywhere, and
  after a lost commit the call is made again. Correct means: updates are whole and
  none is lost, one is applied at most once per attempt, an answer is of the instant
  of the commit, and every call returns.
- **Server process.** A signal, a failing listener, a drain with a timeout and a
  last store run concurrently. Correct means: Run returns, after the requests it
  took, and what clients were told is in the file.
- **Agent process.** Goroutines meet on mutexes, on closed channels and on an
  unbuffered one. Correct means: reports are whole polls, in order, none is
  forgotten, and a signal ends everything.
- **Requests and answers.** Four middlewares take a body apart on the way in and
  build the answer on the way out, through wrapped writers that disagree on when a
  header leaves; a batch is checked metric by metric before it is stored. Correct
  means: the status says what has happened to the store, an answer can be read and
  its signature fits it, and the agent's report arrives exactly if the keys agree.
- **Configuration.** A file of the least priority is found out last and read
  between two rounds of the others. Correct means: the priority holds all the same.
- **Delivery.** Answers get lost, retries duplicate, timeouts race with late
  answers. Correct means: what a reporter believes of a report is true of the
  server, and every report ends.

## The modules

| Module | What it is |
|---|---|
| `Metrics` | metrics, maps, the effect of an update; no state |
| `Calls` | the four calls of a storage, what one does to the maps and answers; no state |
| `MetricStore` | abstract: a store on which every call takes effect at one instant |
| `MemStorage` | `memstorage.go`, one action per step between lock, map accesses and unlock; implements `MetricStore` |
| `DurableStore` | abstract: metrics and a file that is absent, torn, or one version |
| `FileStorage` | extends `MemStorage` with `storeMetrics`, the preserver, failures, crash and restart; implements `DurableStore` |
| `RetriedStore` | abstract: a `MetricStore` whose calls may fail and be made again |
| `PgStorage` | `pgstorage.go` and `transaction.go`, one action per statement, with row locks, the pool, errors and deadlines; implements `RetriedStore` |
| `Server` | composes `FileStorage` with listener, watchdog, signal handler and requests: one life of the process |
| `Agent` | `startWorkers` of the agent: pollers, scheduler, channel, reporters or flusher |
| `Delivery` | reports, retries, the network and the counters at the server |
| `Config` | `configreader.Do` over the two `config.go`, one action per source read |
| `Adapters` | bodies, the checks and conversions of `handlers/adapters`, the status of an error; no state |
| `Answers` | the ResponseWriters of the middlewares, as operators on an answer; no state |
| `Exchange` | composes these three: `Config` of both programs, the agent's request, the chain of middlewares, the handlers, the answer |
| `MC*` | the constants for TLC |
| `*_proofs` | the theorems, of `Metrics`, `MemStorage`, `FileStorage`, `PgStorage`, `Server`, `Agent`, `Delivery`, and of `Exchange` with `Config` |

Program counters are functions from goroutines to labels (`pc`, `saving`,
`preserver`, `poller`, `sched`, `worker`, ...), Go locals are functions on
goroutines (`work[h]` for `NewGaugeMap`/`NewCounterMap` or the caller's maps of a
dump, `result[h]`, `buf[t]`), and fields keep their names. A `sync.RWMutex` is the
record `mutex`: a writer first claims it, keeping out new readers, then waits for
those inside; it is not reentrant. `hist`, `at`, `acked`, `polled`, `taken`,
`applied` and `outcome` are history variables: no action depends on them, but for
the bounds.

`FileStorage.go` repeats the methods of `memstorage.go` line by line, so
`FileStorage` takes the actions of `MemStorage` and conjoins what is added: an
update puts its handler into `storeMetrics` when the interval is not positive, and
the unlock waits for that call to end. `PgStorage` has no maps of its own: the
committed rows are `tables`, those a transaction has changed and therefore locks are
`written[h]`, and the rules of the database are in the guards (`RowIsFree`, `InCycle`,
`OutOfRange`). `Server` conjoins the process being alive
and what a request does around its call of the storage.

In `Exchange` a body is a document in layers, a signature a key with the body it was
made from, and each middleware is one action on the way in (`depth` counts up) and
one on the way out. `writers` is the stack of wrapped ResponseWriters; a write goes
from the innermost out (`Answers!WriteAll`), and `out.sent` is the copy of the header
that net/http takes with the status line, which is what the client sees. One request
is served at a time: requests share nothing but the storage. A call of it is one step
with memory and file storage, as `Linearizable` and `SavesCurrent` say it may be. With a
database it is one step for each transaction that is made for it (`retries`): as
`RetriedLinearizable` has it, one that fails leaves nothing, or everything if the end of
its commit was lost (`LeftBy`); it may be repeated in either case (`Repeat`), and the
last one decides between 200 and 500. `Delivery` has the server with memory or file
storage, where a request that has arrived is applied once or refused; what a database
adds to that, several applications of one request and a 500 after one, is in `PgStorage`
and `Exchange`. A route is named
by its method and path (`"POST:/updates/"`, with `:name` for chi's `{name}`), and the
signature of a header is the list of its values, as `http.Header` has it, so that no
signature is the empty list.

A definition headed `Mutant:` stands next to the one it is a broken version of. No
specification uses it: it shows that the property it is paired with in
`PROJECT.json` would notice that mistake in the code.

## The runs

| Run | Instance | What it shows |
|---|---|---|
| `mem` | 2 handlers, 1 name, 2 gauge values, 2-bit counters, 4 versions | `Linearizable` (MemStorage implements MetricStore), `DumpIsAtomic`, `BatchIsCurrent`, `EveryCallReturns` |
| `file` | 1 handler and the preserver, 3 versions, 1 file system error, 1 crash | `FileIsCommitted`, `SavesCurrent` (implements DurableStore), `EveryVersionIsStored`, `EveryFileCallReturns` |
| `server` | 2 handlers, 1 file system error | `AckedBeforeCancelStored`, `RequestsAreDrained`, `ShutdownTerminates` |
| `agent` | both pollers, 2 reporters or the flusher, 2 polls each | `ReportsAreWholePolls`, `TakenInOrder`, `EveryPollIsTaken`, `AgentTerminates` |
| `delivery` | 2 reporters, 2 reports, 2 polls, 2 retries | `SucceededIsApplied`, `AppliedAtMostAttempted`, `OnlyOvertakenSetsBack`, `EveryReportEnds` |
| `pg` | 2 handlers, 1 name (2 rows), a pool of 1 or 2, 1 retry, 2 faults | `RetriedLinearizable` (PgStorage implements RetriedStore), `WrittenIsCurrent`, `TookAtMostTried`, `EveryPgCallReturns` |
| `exchange` | 6 ways to start the server and 7 the agent, 3 reports, 25 requests of other clients, 3-bit counters, 2 retries of a transaction | `PriorityHolds`, `StatusTellsEffect`, `AnswerReadable`, `SignatureVerifies`, `AgentIsUnderstood`, `ForeignReportRefused` |
| `file_on_change` | store interval 0 | violated `EveryFileCallReturns`: an update waits for its own lock |
| `file_nan` | a NaN gauge | violated `ExitStoreRestorable`: the last store empties the file |
| `server_exit` | 1 handler | violated `AckedStored`: the last store does not wait for the drain |
| `exchange_unsigned` | as `exchange` | violated `EveryAnswerIsSigned`: an error, and the answer to ping, leave before they are signed |

**Bounds.** `MaxVersions` stops new updates once `hist` has that length; two
handlers may both pass it, so `mem` reaches five versions. One name is enough
because the code treats names independently: what can be mixed up is the two maps,
and the batch changes both, the counter twice. Int64 has two bits in the model
(`HalfRange = 2`), so that counters overflow within three increments. Two handlers
give every pair of calls; with more, the RWMutex admits no new kind of overlap but
more readers. `file` has one handler since the second actor there is the preserver;
the theorems below cover any number. One error and one crash each fall between
any two steps. Two polls make a stale copy differ from a fresh one, and two
reporters let one report overtake another; `retryCount` is 3 in the code and 2 in
the run, which has the first, a middle and the last retry. In `agent` one of the two
readings of gopsutil may fail, so that a poll has both, or one of its own and one of
an earlier poll; the theorems cover every set of readings that may fail.

In `pg` a retry, a last attempt and two lost commits need `retryCount = 1` and
`MaxFaults = 2`, which counts errors and deadlines; the two batches change the same
two rows in opposite orders, so that they wait for each other and deadlock, and a pool
of one makes every other call wait for a connection. A counter is -1 or 0
(`HalfRange = 1`), so that a second decrement leaves `bigint`. Three transactions would
add longer cycles of waits, which `InCycle` treats alike. In `exchange` two
retries of a transaction let a batch be applied once, twice or three times; a counter has
three bits (`HalfRange = 4`), so that these are different stores and that the next
application may still leave `bigint`. The two programs are started with every option from
every source and every source that fails; the keys are alike, different, or on one side; `BlockSize = 1` makes a report of
two metrics too long to be encrypted; and each of the other requests but the good ones
is wrong in one respect, so that every check is the one that fails.

The runs with
`CHECK_DEADLOCK FALSE` stop where their bounds end (all reports made, a program that cannot read
its configuration), where the
on-change store has locked everyone out, or where the preserver has left and
every handler has used up its updates.

**Fairness.** The Go scheduler runs every goroutine that can run: weak fairness of
each goroutine's step. Strong fairness where a goroutine competes again and again:
for taking an `RWMutex` (writers queue on a `sync.Mutex`, which hands over to a
waiter that starves; a writer's unlock lets in the readers it held back before the
next writer), and for a `select` case that is ready at every turn of a loop (`select`
chooses at random); and for a transaction of `PgStorage`, since connections and row
locks come and go (both queues are served in order). Tickers fire and timeouts elapse. Nothing is assumed of signals,
clients, failures, crashes, the network, or of the server answering.

**What the passing liveness says.** `EveryVersionIsStored` excuses a preserver that
has left and a gauge JSON cannot express (that is the finding of `file_nan`).
`EveryPollIsTaken` is stated for the last poll of the bound. `ShutdownTerminates`
includes a server that was never created only in that a panic, too, ends the process
(`Server!Panic`: `createServer` returns nil for a key that cannot be read, and Run uses
it). `EveryPgCallReturns` holds without the deadline of a request: a cycle of waits is
broken by the database and the attempts are counted.

**What `pg` shows beside.** PgStorage is not the `MetricStore` that the other two
storages are, in three ways that `RetriedStore` states: a dump is of two instants,
because at READ COMMITTED each of its selects sees other commits; a call whose commit
was not heard of is applied again (`TookAtMostTried` bounds how often); and a counter
that leaves its range is an error instead of wrapping around. Only class 08 errors of
the server are repeated: a socket that breaks is an error of another type, and is not.
An attempt that fails is rolled back before the next one begins, so whatever the maps
of a dump hold from it is overwritten, names being never deleted.

**What `exchange` shows beside.** A server without a key takes signed reports, and one
with a key takes unsigned ones (`SignatureFits`); `KeysAgree` is therefore weaker than
equality. The option of the environment variable CONFIG has no effect in either program, its field
not being exported, so that only the flag names a file. The body is one RSA block,
which a report of some thirty gauges hardly fits into. After a metric type that no
storage returns two handlers would go on without a return
(`metrics_router.go:235`, `:266`); nothing leads there.

## The proofs

Checked by TLAPS for every value of the constants, from the assumptions that the
modules state and TLC evaluates on each run: `MetricsAssumption` (the width of a
counter is positive, `NonFinite` are gauge values), `MemAssumption` and `PgAssumption`
(a request is one of the four calls with metrics of that shape; a pool has a
connection), `FileAssumption` (the preserver is a thread that serves no request),
`AgentAssumption` (a list of different pollers, at least one poll within the bound) and
`DeliveryAssumption` (the bounds are numbers, and there is at least one poll),
`AdaptersAssumption` (`None` is no value of a metric) and `ExchangeAssumption`: the
number of retries is a natural number, what the
agent reports is a finite snapshot, as a Go map is, and what other clients send is
`WellFormed`, that is, it can be sent: a JSON object holds one metric, JSON has no
notation for NaN, and a metric is in the path just when the route has one. Its signature,
type, layers and metrics may be anything. `Server` adds none, and what is proved of
`Config` needs none of them.

Each proof has the same outline. An inductive invariant (`MemInv`, `PgInv`, ...) has
the type invariant and named parts; one lemma shows that the initial states have it, one
lemma per action, or group of actions alike, that a step keeps it; the invariants that
TLC checks follow from it, and the action properties and refinements from it and the
one step. TLC has checked each invariant on the instances above before it was proved.

- `Metrics_proofs`: wrapping stays in 64 bits; `Put`, `Apply`, `Lookup` and `Current`
  are well typed. The arithmetic of `%` and the set `MapTo`, a union of function sets,
  are dealt with here once. `FoldApply` says what the fold over a batch is: nothing for
  no metric, and one more `Apply` for one more metric. The folds are recursive functions,
  and what they come to is shown from a set of numbers that has 0 and with each number
  the next (`SetInduction`, by the least number that is not in it).
- `MemStorage_proofs`: `MemInv` is inductive. `MemTypeOK` is not so alone (a reply
  has the right type because the handler runs the code of its own request:
  `CallInv`), nor is `DumpIsAtomic`: that the counters read after the gauges are of
  the same version needs that no writer is inside while a reader is (`LockInv`),
  that the maps are the latest version except between the two swaps (`MapsInv`), and
  what a half-made dump holds (`VersionInv`). `AnswerInv` adds what the loop of a batch
  has come to: its copies are the version it began with and the first metrics applied,
  its results their values right after. Theorems: `MemTypeCorrect`, `DumpsAreAtomic`,
  `CopiesStayCurrent`, `BatchStaysCurrent`, and the refinement `MemImplementsStore`. There
  a call takes effect when its lock is given back by an update, or when a reader reads
  what it answers; every other step is a stutter of `MetricStore`.
- `FileStorage_proofs`: `FileInv` adds `SaverInv` (nobody but the preserver gets into
  `storeMetrics`; with store on change a handler gets stuck at its door, which is
  the deadlock of `file_on_change` seen from the proof) and `EncoderInv` (from the
  truncation to the write the preserver has the read lock, so that what it has
  encoded so far is of the latest version). Theorems: `FileTypeCorrect`,
  `FileStaysCommitted`, and the refinement `FileImplementsDurable`, all of them for
  any number of handlers, crashes and errors and for any store interval.
- `PgStorage_proofs`: `PgInv` says what a transaction has come to on the rows that are
  committed *now*, not on those it has begun with (`TxInv`): its own rows over the
  committed ones are the committed ones with its first metrics applied. That another
  commit keeps this so is because two transactions never have a row in common (`RowInv`,
  from the row locks), so that the other's rows can be laid below (`CommitBeside`).
  `AttemptInv` counts commits against attempts, `ErrInv` and `CallInv` say what an error
  and a program counter tell of the call, `ReadInv` what a read has so far. Theorems:
  `PgTypes`, `WrittenStaysCurrent`, `TookAtMostTriedAlways`, and the refinement
  `PgImplementsRetriedStore`: a commit is the effect of the call, whether its answer is
  heard or not, the statement that reads is the instant of a read, and an attempt that
  fails leaves the abstract store as it was.
- `Server_proofs`: `ServerInv` extends `FileInv`. The store on exit begins after the
  context is cancelled (`ExitInv`), so that its version has what was acknowledged until
  then (`AckInv`) unless the write or a NaN fails it; and no connection is accepted once
  the watchdog drains (`DrainInv`). Theorems: `ServerTypes`, `AckedBeforeCancelStays`,
  `RequestsStayDrained`.
- `Agent_proofs`: `AgentInv`. The mutex of a poller keeps its poll and the scheduler's
  two copies apart (`PollersInv`, `SchedulerInv`), `readyRead` is closed before the first
  copy, and what is in the channel or with a reporter is a poll of the history
  (`WorkersInv`). Theorems: `AgentTypes`, `ReportsAreWholePollsAlways`,
  `TakenInOrderAlways`.
- `Delivery_proofs`: `DeliveryInv`. A report is applied as often as requests of it have
  arrived, so that what was applied and what is still under way are together at most
  the attempts made (`CountInv`, with the cardinality of `Under(i)`); reports are
  numbered in the order of their polls (`NumberInv`), have one reporter (`OwnerInv`), and
  an answer is one to the attempt waiting (`AnswerInv`). Theorems: `DeliveryTypes`,
  `AppliedAtMostAttemptedAlways`, `SucceededIsAppliedAlways`,
  `OnlyOvertakenSetsBackAlways`.
- `Exchange_proofs`: of `Config`, `ConfigInv` says after each step of `Do` which source
  lies over which (`Layered`) and how far a program that is ready has read (`Progress`);
  the five layers come to the four of the priority, since the second round of flags and
  environment hides what the file has put over the first: `PriorityIsKept`. Every step of
  the exchange is one of `Do` or leaves both configurations alone (`OnlyDoConfigures`), so
  the theorem carries over: `ExchangeKeepsPriority`. The properties of an answer speak
  of the moment when it has left; `ExchangeInv` says what leads there, and everything in
  it goes by `depth`, the number of middlewares the request is inside of. `RequestInv`:
  on the way in `req` is what was sent with the layers of the middlewares passed taken
  off, and nothing else changed, so that a report of an agent whose keys agree has at
  each middleware just the layer that this one expects; one whose keys do not agree is
  refused there, and gets no further. `StackInv`: the writers are those that the
  middlewares passed have put on. `OutInv`: nothing is written on the way in, and an answer
  on its way out is `Shaped`, whoever wrote it: what the writers still on hold back
  and what has left are together one body, with the header that says how it is encoded;
  a gzip stream lacks its end as long as its writer is on, and a body that has to be signed
  has left only under a status written early, which is a refusal or ping. `SumInv`: the
  signature set is the one of the body that leaves. `EffectInv`: the status already
  decided on tells what has become of the store, which changes nowhere but in a handler;
  and until it is decided, the store is what it was with the batch applied some number of
  times, at most once for each transaction so far (`RetryInv`), so that the one that ends
  well makes at least one and at most `retryCount + 1`. How often a batch is applied is
  counted by a recursive function, of which it is shown that it exists (`StepsExist`).
  What a write through the whole stack makes of an answer is a fold over at most three
  writers, dealt with once (`WriteAllIs`). Each of the handlers and refusals then is
  shown to write an answer that is `Replied` with a status that tells what it should
  (`HandlerKeeps`, `Replies`). Theorems: `ExchangeTypesAreKept`, `StatusesTellEffect`,
  `AnswersAreReadable`, `SignaturesVerify`, `AgentsAreUnderstood`,
  `ForeignReportsAreRefused`, for reports and batches of any length.

Every invariant that a passing run checks is stated by a theorem. Only model-checked
is liveness, which is beyond this prover: `EveryCallReturns` and its kin. What a model
takes as a bound (versions, crashes, polls, retries) is a constant in the theorems, of
any size.

## Not modelled

- **Cryptography and compression**: layers that come off only as what they are. Keys
  are loaded or not (`Server`, `Agent`); the PEM formats are left out.
- **Shutdown with the other two storages**: `Server` has FileStorage, whose preserver
  is what makes it hard; without it there remain listener, watchdog and signal.
- **The other options** (addresses, intervals, levels), which are read as those of
  `Config` are, and LogValue, which hides the secret ones in the log. Intervals that are
  not positive make `time.NewTicker` panic; no module has their values.
- **New and migrate of PgStorage**: they run before the server serves.
- **A failed commit that takes place later**: when the error is returned, it is settled
  whether the rows are in. Likewise a rollback frees its row locks at once, while a
  database notices only after some time that a connection is dead. Errors of reading a body from the network, of writing into
  memory, and a client that has gone are not in `Exchange` either.
- **staticlint** (a list of third-party passes and one syntax check), **mains** beyond
  the reading of the configuration, **mocks, the HTML page, logging**: no state worth a
  model.
- **MetricTypeUndefined** in the storages: the adapters refuse every other type, so
  the `default` branches are dead.
- **Real time**: intervals and pauses have an order but no length.

## The plan

All parts the first plan named have their module. What is left:

1. `Agent` and `Delivery` composed through a shared channel: at most `RateLimit` reports
   at once, and which order of gauges the server sees then.
