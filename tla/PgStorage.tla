----------------------------- MODULE PgStorage ------------------------------
(***************************************************************************)
(* PgStorage (internal/storage/pgstorage): every call is one transaction   *)
(* of PostgreSQL, on a connection of a pool, at READ COMMITTED, and is     *)
(* repeated when it ends with a connection exception.                      *)
(*                                                                         *)
(* Of the database there is what the code relies on: a statement sees the  *)
(* rows committed before it began and those of its own transaction; an     *)
(* upsert first waits for the transaction that has changed the same row to *)
(* end, and goes on from what that left; a cycle of such waits is broken   *)
(* by failing one of them; an addition that leaves bigint is an error.  An *)
(* error ends a transaction at any statement, and one at the commit says   *)
(* nothing about whether the rows are in.  A connection exception (class   *)
(* 08) is told apart from every other error, since only it is retried.     *)
(***************************************************************************)
EXTENDS Calls, FiniteSets

CONSTANTS
    Handlers,       \* the goroutines that serve requests
    Requests,       \* the calls the handlers make
    PoolSizes,      \* how many connections the pool may be given
    retryCount,     \* the constant of pgstorage: 3 in the code
    MaxFaults       \* bound: errors of the database and the network, and deadlines

ASSUME PgAssumption ==
    /\ Requests \subseteq AnyCall
    /\ \A r \in Requests :
          r.op \in {"GetMetric", "UpdateMetric"} => Len(r.metrics) = 1
    /\ PoolSizes \subseteq Nat \ {0}
    /\ retryCount \in Nat /\ MaxFaults \in Nat

VARIABLES
    tables,         \* the committed rows of the tables gauge and counter
    written,        \* written[h]: the rows h's transaction has changed, and locks
    pool,           \* the number of connections of the pool
    pc, call,       \* the handlers
    result, work,   \* result[h]: the metrics to return; work[h]: the caller's maps
    err,            \* err[h]: how the last doTransaction of h ended
    retries,        \* retries[h]: the variable of doTransactionWithRetries
    expired,        \* expired[h]: the 15 s of the handler's context are over
    faults,
    took            \* history: took[h] is how often the call has been committed

pgVars == <<tables, written, pool, pc, call, result, work, err, retries, expired, faults, took>>

----------------------------------------------------------------------------
Goto(h, label) == pc' = [pc EXCEPT ![h] = label]

\* The map g with the entries of f laid over it.
Over(f, g) == [n \in DOMAIN f \cup DOMAIN g |-> IF n \in DOMAIN f THEN f[n] ELSE g[n]]

Overlay(s, rows) == [gauge   |-> Over(rows.gauge, s.gauge),
                     counter |-> Over(rows.counter, s.counter)]

\* What a statement of h's transaction sees.
Seen(h) == Overlay(tables, written[h])

NextMetric(h) == call[h].metrics[Len(result[h]) + 1]

Upserting(h) == pc[h] = "query" /\ IsUpdate(call[h])

\* h waits for the row that g has changed and not yet committed.
WaitsFor(h, g) == h # g /\ Upserting(h) /\ Has(written[g], NextMetric(h))

\* Every handler waits for one row, so that a set in which each one waits for
\* a member and is waited for by one is made of cycles.
InCycle(h) ==
    \E D \in SUBSET Handlers :
        /\ h \in D
        /\ \A g \in D : (\E f \in D : WaitsFor(g, f)) /\ (\E f \in D : WaitsFor(f, g))

\* Mutant: an upsert does not wait for the transaction that has the row.
RowIsTaken(h) == TRUE

RowIsFree(h) == \A g \in Handlers : ~WaitsFor(h, g)

SetRow(rows, m) ==
    IF m.Type = "gauge" THEN [rows EXCEPT !.gauge = Put(@, m.Name, m.Value)]
                        ELSE [rows EXCEPT !.counter = Put(@, m.Name, m.Delta)]

OutOfRange(h, m) ==
    m.Type = "counter" /\ Lookup(Seen(h).counter, m.Name) + m.Delta \notin Counter

\* A handler has a connection from Begin to the end of its transaction.
Connected == {h \in Handlers : pc[h] \in {"query", "dump", "commit", "rollback"}}

\* The transaction of h, or the call, goes on at label with the error e.
Ends(h, label, e) ==
    /\ Goto(h, label)
    /\ err' = [err EXCEPT ![h] = e]

Failures == {"connection", "other"}

\* The maps of a dump when it fails after some rows of the present select.
PartlyRead(h, rows) ==
    LET read(map) == Restrict(map, rows \cap DOMAIN map)
    IN  CASE pc[h] = "query" /\ call[h].op = "GetMetricsByTypes" ->
               [work[h] EXCEPT !.gauge = Over(read(tables.gauge), @)]
          [] pc[h] = "dump" -> [work[h] EXCEPT !.counter = Over(read(tables.counter), @)]
          [] OTHER -> work[h]

\* h has the answer it is going to return: from the commit on for an update,
\* from its last statement on for a read, unless the attempt fails.
Answered(h) ==
    \/ pc[h] = "reply"
    \/ pc[h] = "commit" /\ ~IsUpdate(call[h])
    \/ pc[h] \in {"rollback", "ended"} /\ err[h] = "noRows"

\* Mutant: one attempt too many.
ShouldRetryOnceMore(h) == err[h] = "connection" /\ retries[h] <= retryCount

ShouldRetry(h) == err[h] = "connection" /\ retries[h] < retryCount

\* The last attempt of h has failed.
Failed(h) == pc[h] = "ended" /\ ~ShouldRetry(h)

----------------------------------------------------------------------------
PgInit ==
    /\ tables = EmptySnapshot
    /\ written = [h \in Handlers |-> EmptySnapshot]
    /\ pool \in PoolSizes
    /\ pc = [h \in Handlers |-> "idle"]
    /\ call = [h \in Handlers |-> NoCall]
    /\ result = [h \in Handlers |-> <<>>]
    /\ work = [h \in Handlers |-> EmptySnapshot]
    /\ err = [h \in Handlers |-> "none"]
    /\ retries = [h \in Handlers |-> 0]
    /\ expired = [h \in Handlers |-> FALSE]
    /\ faults = 0
    /\ took = [h \in Handlers |-> 0]

\* A request reaches the storage, with a context of its own.
Call(h) ==
    /\ pc[h] = "idle"
    /\ \E r \in Requests : call' = [call EXCEPT ![h] = r]
    /\ Goto(h, "begin")
    /\ UNCHANGED <<tables, written, pool, result, work, err, retries, expired, faults, took>>

Expire(h) ==
    /\ pc[h] # "idle" /\ ~expired[h] /\ faults < MaxFaults
    /\ expired' = [expired EXCEPT ![h] = TRUE]
    /\ faults' = faults + 1
    /\ UNCHANGED <<tables, written, pool, pc, call, result, work, err, retries, took>>

----------------------------------------------------------------------------
(* doTransaction and the queries of the four calls                         *)

\* pool.Begin waits for a connection; UpdateMetrics starts a new result.
BeginTx(h) ==
    /\ pc[h] = "begin" /\ ~expired[h]
    /\ Cardinality(Connected) < pool
    /\ result' = [result EXCEPT ![h] = <<>>]
    /\ Goto(h, IF IsUpdate(call[h]) /\ call[h].metrics = <<>> THEN "commit" ELSE "query")
    /\ UNCHANGED <<tables, written, pool, call, work, err, retries, expired, faults, took>>

\* "insert ... on conflict do update ... returning value", for the next metric.
Upsert(h) ==
    /\ Upserting(h) /\ RowIsFree(h) /\ ~OutOfRange(h, NextMetric(h))
    /\ LET m   == NextMetric(h)
           row == Current(Apply(Seen(h), m), m)
       IN  /\ written' = [written EXCEPT ![h] = SetRow(@, row)]
           /\ result' = [result EXCEPT ![h] = Append(@, row)]
    /\ Goto(h, IF Len(result'[h]) = Len(call[h].metrics) THEN "commit" ELSE "query")
    /\ UNCHANGED <<tables, pool, call, work, err, retries, expired, faults, took>>

\* bigint out of range: an error of the statement, and of the whole batch.
UpsertOverflows(h) ==
    /\ Upserting(h) /\ RowIsFree(h) /\ OutOfRange(h, NextMetric(h))
    /\ Ends(h, "rollback", "other")
    /\ UNCHANGED <<tables, written, pool, call, result, work, retries, expired, faults, took>>

DeadlockDetected(h) ==
    /\ InCycle(h)
    /\ Ends(h, "rollback", "other")
    /\ UNCHANGED <<tables, written, pool, call, result, work, retries, expired, faults, took>>

\* No row is pgx.ErrNoRows, which ends the transaction as an error does.
Select(h) ==
    /\ pc[h] = "query" /\ call[h].op = "GetMetric"
    /\ LET m == call[h].metrics[1]
       IN  IF Has(tables, m)
           THEN /\ result' = [result EXCEPT ![h] = <<Current(tables, m)>>]
                /\ Goto(h, "commit") /\ UNCHANGED err
           ELSE Ends(h, "rollback", "noRows") /\ UNCHANGED result
    /\ UNCHANGED <<tables, written, pool, call, work, retries, expired, faults, took>>

(* GetMetricsByTypes fills the maps of its caller from two selects; a      *)
(* second attempt fills them again, over what the first one left.          *)

SelectGauges(h) ==
    /\ pc[h] = "query" /\ call[h].op = "GetMetricsByTypes"
    /\ work' = [work EXCEPT ![h].gauge = Over(tables.gauge, @)]
    /\ Goto(h, "dump")
    /\ UNCHANGED <<tables, written, pool, call, result, err, retries, expired, faults, took>>

\* Mutant: the rows are added to what the maps have.
SelectCountersOnce(h) ==
    /\ pc[h] = "dump"
    /\ work' = [work EXCEPT ![h].counter = Over(@, tables.counter)]
    /\ Goto(h, "commit")
    /\ UNCHANGED <<tables, written, pool, call, result, err, retries, expired, faults, took>>

SelectCounters(h) ==
    /\ pc[h] = "dump"
    /\ work' = [work EXCEPT ![h].counter = Over(tables.counter, @)]
    /\ Goto(h, "commit")
    /\ UNCHANGED <<tables, written, pool, call, result, err, retries, expired, faults, took>>

Commit(h) ==
    /\ pc[h] = "commit"
    /\ tables' = Overlay(tables, written[h])
    /\ written' = [written EXCEPT ![h] = EmptySnapshot]
    /\ took' = [took EXCEPT ![h] = @ + 1]
    /\ Ends(h, "reply", "none")
    /\ UNCHANGED <<pool, call, result, work, retries, expired, faults>>

\* Mutant: without the deferred call an error leaves the transaction open.
RollbackForgotten(h) ==
    /\ pc[h] = "rollback"
    /\ Goto(h, "ended")
    /\ UNCHANGED <<tables, written, pool, call, result, work, err, retries, expired, faults, took>>

Rollback(h) ==
    /\ pc[h] = "rollback"
    /\ written' = [written EXCEPT ![h] = EmptySnapshot]
    /\ Goto(h, "ended")
    /\ UNCHANGED <<tables, pool, call, result, work, err, retries, expired, faults, took>>

----------------------------------------------------------------------------
(* Errors                                                                  *)

\* Begin fails: no connection can be made.
BeginFails(h) ==
    /\ pc[h] = "begin" /\ faults < MaxFaults
    /\ \E e \in Failures : Ends(h, "ended", e)
    /\ faults' = faults + 1
    /\ UNCHANGED <<tables, written, pool, call, result, work, retries, expired, took>>

\* A statement or the commit fails.  The rows read so far are in the maps.
TxFails(h) ==
    /\ pc[h] \in {"query", "dump", "commit"} /\ faults < MaxFaults
    /\ \E e \in Failures : Ends(h, "rollback", e)
    /\ \E rows \in SUBSET Names : work' = [work EXCEPT ![h] = PartlyRead(h, rows)]
    /\ faults' = faults + 1
    /\ UNCHANGED <<tables, written, pool, call, result, retries, expired, took>>

\* The commit takes place, and its answer is lost.
CommitUnheard(h) ==
    /\ pc[h] = "commit" /\ faults < MaxFaults
    /\ tables' = Overlay(tables, written[h])
    /\ written' = [written EXCEPT ![h] = EmptySnapshot]
    /\ took' = [took EXCEPT ![h] = @ + 1]
    /\ \E e \in Failures : Ends(h, "rollback", e)
    /\ faults' = faults + 1
    /\ UNCHANGED <<pool, call, result, work, retries, expired>>

\* doTransaction does not begin, and pgx gives up a statement it waits for.
ContextDone(h) ==
    /\ expired[h]
    /\ \/ pc[h] = "begin" /\ Ends(h, "ended", "other")
       \/ pc[h] \in {"query", "dump", "commit"} /\ Ends(h, "rollback", "other")
    /\ UNCHANGED <<tables, written, pool, call, result, work, retries, expired, faults, took>>

----------------------------------------------------------------------------
(* doTransactionWithRetries                                                *)

\* Mutant: the retries are not counted.
RetryUncounted(h) ==
    /\ pc[h] = "ended" /\ ShouldRetry(h)
    /\ Ends(h, "begin", "none")
    /\ UNCHANGED <<tables, written, pool, call, result, work, retries, expired, faults, took>>

\* After a pause that the context does not cut short.
Retry(h) ==
    /\ pc[h] = "ended" /\ ShouldRetry(h)
    /\ retries' = [retries EXCEPT ![h] = @ + 1]
    /\ Ends(h, "begin", "none")
    /\ UNCHANGED <<tables, written, pool, call, result, work, expired, faults, took>>

Return(h) ==
    /\ pc[h] = "reply" \/ Failed(h)
    /\ Ends(h, "idle", "none")
    /\ call' = [call EXCEPT ![h] = NoCall]
    /\ result' = [result EXCEPT ![h] = <<>>]
    /\ work' = [work EXCEPT ![h] = EmptySnapshot]
    /\ retries' = [retries EXCEPT ![h] = 0]
    /\ expired' = [expired EXCEPT ![h] = FALSE]
    /\ took' = [took EXCEPT ![h] = 0]
    /\ UNCHANGED <<tables, written, pool, faults>>

PgStep(h) ==
    \/ BeginTx(h)
    \/ Upsert(h) \/ UpsertOverflows(h) \/ DeadlockDetected(h)
    \/ Select(h) \/ SelectGauges(h) \/ SelectCounters(h)
    \/ Commit(h) \/ Rollback(h) \/ ContextDone(h)
    \/ Retry(h) \/ Return(h)

PgNext ==
    \E h \in Handlers :
        \/ Call(h) \/ Expire(h)
        \/ PgStep(h)
        \/ BeginFails(h) \/ TxFails(h) \/ CommitUnheard(h)

(* A goroutine goes on when it can, and the database answers or fails.  A  *)
(* connection or a row lock may be free only now and then, hence SF: the   *)
(* pool serves those that wait in the order they came, PostgreSQL as well. *)
(* Nothing is assumed of requests, errors and deadlines.                   *)
PgSpec == PgInit /\ [][PgNext]_pgVars /\ \A h \in Handlers : SF_pgVars(PgStep(h))

----------------------------------------------------------------------------
\* The type invariant.
PgTypeOK ==
    /\ tables \in Snapshot
    /\ written \in [Handlers -> Snapshot]
    /\ pool \in PoolSizes
    /\ pc \in [Handlers -> {"idle", "begin", "query", "dump", "commit", "rollback",
                            "ended", "reply"}]
    /\ call \in [Handlers -> Requests \cup {NoCall}]
    /\ result \in [Handlers -> Seq(Metric)]
    /\ work \in [Handlers -> Snapshot]
    /\ err \in [Handlers -> Failures \cup {"none", "noRows"}]
    /\ retries \in [Handlers -> 0 .. retryCount]
    /\ expired \in [Handlers -> BOOLEAN]
    /\ faults \in 0 .. MaxFaults
    /\ took \in [Handlers -> 0 .. retryCount + 1]
    /\ Cardinality(Connected) <= pool

\* What a transaction has written and answered is what the committed rows
\* and its own statements come to, however many others have committed since
\* it began: the rows it builds on stay what they were.
WrittenIsCurrent ==
    \A h \in Handlers :
        pc[h] \in {"query", "commit"} /\ IsUpdate(call[h]) =>
            Seen(h) = AfterFirst(tables, call[h].metrics, Len(result[h]))

\* The updates of a call that succeeds are in the store, and more than once
\* only if a connection broke before: at most once for every attempt, whose
\* number is bounded.  So it is for a call that fails, which may have none.
TookAtMostTried ==
    \A h \in Handlers :
        /\ pc[h] = "reply" => took[h] \in 1 .. retries[h] + 1
        /\ Failed(h) => took[h] <= retries[h] + 1

\* The calls of PgStorage are those of a store whose calls are retried: whole
\* updates on top of one another, answers of the instant of the commit, and
\* a second attempt at a dump that leaves nothing of the first.
Abstract == INSTANCE RetriedStore WITH
    store   <- tables,
    phase   <- [h \in Handlers |->
                  CASE pc[h] = "idle" -> "idle"
                    [] Answered(h) -> "done"
                    [] pc[h] = "dump" -> "half"
                    [] Failed(h) /\ ~Answered(h) -> "failed"
                    [] OTHER -> "pending"],
    request <- call,
    reply   <- [h \in Handlers |->
                  CASE Answered(h) ->
                         [metrics |-> result[h],
                          dump |-> IF call[h].op = "GetMetricsByTypes"
                                   THEN work[h] ELSE EmptySnapshot]
                    [] pc[h] = "dump" ->
                         [NoReply EXCEPT !.dump.gauge = work[h].gauge]
                    [] OTHER -> NoReply]

RetriedLinearizable == Abstract!RetriedSpec

\* Every call returns: neither row locks nor a small pool stop it for ever.
EveryPgCallReturns ==
    \A h \in Handlers : pc[h] = "begin" ~> pc[h] = "idle"
============================================================================
