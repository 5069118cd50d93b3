------------------------------- MODULE Agent -------------------------------
(***************************************************************************)
(* The agent process (internal/app/agent): pollers that refresh their      *)
(* metrics in place behind an RWMutex each, a scheduler that copies them   *)
(* and offers the copies on an unbuffered channel, and the reporters of    *)
(* the pool (or the flusher, when the rate limit is below one) that take   *)
(* them from it.  One context stops them all, one wait group waits.        *)
(*                                                                         *)
(* What a poll collects is the number of that poll: gauge[p] says of each  *)
(* reading which poll of p wrote its gauges last, counter[p] is its        *)
(* PollCount, and pollCount[p] the field of the Poller.  A poll that does  *)
(* not get a reading from the system leaves those gauges as they are, goes *)
(* on with the next, and counts all the same.                              *)
(***************************************************************************)
EXTENDS Integers, Sequences

CONSTANTS
    Pollers,        \* the pollers, in the order the scheduler visits them
    Counting,       \* those that keep the counter PollCount
    Fallible,       \* the readings that may fail, as pairs of poller and reading
    RateLimits,     \* the values config.RateLimit may have
    MaxPolls        \* bound: polls that a poller makes

ASSUME AgentAssumption ==
    /\ Pollers \in Seq(STRING) /\ Pollers # <<>>
    /\ \A i, j \in DOMAIN Pollers : Pollers[i] = Pollers[j] => i = j
    /\ Counting \subseteq STRING
    /\ RateLimits \subseteq Int
    /\ MaxPolls \in Nat \ {0}

VARIABLES
    main,           \* startWorkers
    rateLimit, keyLoads,            \* the configuration: is the public key readable
    ctxDone,
    poller,         \* poller[p]: where the goroutine of p is
    holder,         \* holder[p]: who has the mutex of p
    gauge, counter, pollCount, readyRead,   \* the Poller of p
    sched, turn,    \* where the scheduler is, and the index of the poller it is at
    copied,         \* its copy of that poller's metrics
    closed,         \* the channel is closed
    worker, held,   \* the reporters (or the flusher), and what each has taken
    polled,         \* history: polled[p][n] is what was there after poll n of p
    taken           \* history: taken[p] is the last copy of p taken from the channel

procVars   == <<main, rateLimit, keyLoads, ctxDone>>
pollVars   == <<poller, gauge, counter, pollCount, readyRead, polled>>
schedVars  == <<sched, turn, copied, closed>>
workVars   == <<worker, held, taken>>
agentVars  == <<procVars, pollVars, holder, schedVars, workVars>>

----------------------------------------------------------------------------
PollerSet == {Pollers[i] : i \in DOMAIN Pollers}

\* The readings of a poll: MemStats and a random number, or memory and CPU.
Readings == {"first", "second"}

NoGauges == [g \in Readings |-> 0]

NoMetrics == [poller |-> "none", gauge |-> NoGauges, counter |-> 0, pollCount |-> 0]

\* The goroutines that read the channel: the flusher is number 0.
Workers == IF rateLimit < 1 THEN {0} ELSE 1 .. rateLimit

AllWorkers == UNION {IF l < 1 THEN {0} ELSE 1 .. l : l \in RateLimits}

Current == Pollers[turn]

AgentInit ==
    /\ main = "starting"
    /\ rateLimit \in RateLimits
    /\ keyLoads \in BOOLEAN
    /\ ctxDone = FALSE
    /\ poller = [p \in PollerSet |-> "first"]
    /\ holder = [p \in PollerSet |-> "nobody"]
    /\ gauge = [p \in PollerSet |-> NoGauges]
    /\ counter = [p \in PollerSet |-> 0]
    /\ pollCount = [p \in PollerSet |-> 0]
    /\ readyRead = [p \in PollerSet |-> FALSE]
    /\ sched = "wait" /\ turn = 1
    /\ copied = NoMetrics
    /\ closed = FALSE
    /\ worker = [w \in AllWorkers |-> "off"]
    /\ held = [w \in AllWorkers |-> NoMetrics]
    /\ polled = [p \in PollerSet |-> <<>>]
    /\ taken = [p \in PollerSet |-> NoMetrics]

Alive == main # "returned" /\ main # "failed"

----------------------------------------------------------------------------
(* A poller: Poll at once and at every tick, until the context is done.    *)

PollerGoto(p, label) == poller' = [poller EXCEPT ![p] = label]

\* The first poll is not made when the context is done already; after that a
\* select between the context and the ticker takes either.
PollLock(p) ==
    /\ poller[p] \in {"first", "select"}
    /\ poller[p] = "first" => ~ctxDone
    /\ pollCount[p] < MaxPolls
    /\ holder[p] = "nobody" /\ holder' = [holder EXCEPT ![p] = "poller"]
    /\ PollerGoto(p, "gauges")
    /\ UNCHANGED <<procVars, gauge, counter, pollCount, readyRead, polled, schedVars, workVars>>

\* Each reading may fail on its own.
PollGauges(p) ==
    /\ poller[p] = "gauges"
    /\ \E failed \in SUBSET {g \in Readings : <<p, g>> \in Fallible} :
          gauge' = [gauge EXCEPT ![p] = [g \in Readings |->
                       IF g \in failed THEN gauge[p][g] ELSE pollCount[p] + 1]]
    /\ PollerGoto(p, "counter")
    /\ UNCHANGED <<procVars, holder, counter, pollCount, readyRead, polled, schedVars, workVars>>

PollCounter(p) ==
    /\ poller[p] = "counter"
    /\ counter' = IF p \in Counting THEN [counter EXCEPT ![p] = @ + 1] ELSE counter
    /\ PollerGoto(p, "ready")
    /\ UNCHANGED <<procVars, holder, gauge, pollCount, readyRead, polled, schedVars, workVars>>

\* Mutant: a poller that counts nothing is never ready.
CloseReadyReadCounted(p) ==
    /\ poller[p] = "ready"
    /\ readyRead' = [readyRead EXCEPT ![p] = p \in Counting]
    /\ PollerGoto(p, "count")
    /\ UNCHANGED <<procVars, holder, gauge, counter, pollCount, polled, schedVars, workVars>>

\* readyRead is closed once, before the poll is counted.
CloseReadyRead(p) ==
    /\ poller[p] = "ready"
    /\ readyRead' = [readyRead EXCEPT ![p] = TRUE]
    /\ PollerGoto(p, "count")
    /\ UNCHANGED <<procVars, holder, gauge, counter, pollCount, polled, schedVars, workVars>>

PollUnlock(p) ==
    /\ poller[p] = "count"
    /\ pollCount' = [pollCount EXCEPT ![p] = @ + 1]
    /\ polled' = [polled EXCEPT ![p] = Append(@, [gauge |-> gauge[p], counter |-> counter[p]])]
    /\ holder' = [holder EXCEPT ![p] = "nobody"]
    /\ PollerGoto(p, "select")
    /\ UNCHANGED <<procVars, gauge, counter, readyRead, schedVars, workVars>>

PollerStop(p) ==
    /\ poller[p] \in {"first", "select"} /\ ctxDone
    /\ PollerGoto(p, "stopped")
    /\ UNCHANGED <<procVars, gauge, counter, pollCount, readyRead, polled, holder, schedVars, workVars>>

PollerStep(p) ==
    \/ PollLock(p) \/ PollGauges(p) \/ PollCounter(p)
    \/ CloseReadyRead(p) \/ PollUnlock(p) \/ PollerStop(p)

----------------------------------------------------------------------------
(* The scheduler                                                           *)

\* It waits for the first poll of each poller in turn.
AwaitFirstPoll ==
    /\ sched = "wait" /\ readyRead[Current]
    /\ IF turn < Len(Pollers)
       THEN turn' = turn + 1 /\ UNCHANGED sched
       ELSE turn' = 1 /\ sched' = "get"
    /\ UNCHANGED <<procVars, pollVars, holder, copied, closed, workVars>>

\* Mutant: Get takes no lock.
GetUnlocked ==
    /\ sched = "get"
    /\ sched' = "gauges"
    /\ UNCHANGED <<procVars, pollVars, holder, turn, copied, closed, workVars>>

\* Poller.Get copies the gauges and the counters under the read lock.
GetRLock ==
    /\ sched = "get"
    /\ holder[Current] = "nobody"
    /\ holder' = [holder EXCEPT ![Current] = "scheduler"]
    /\ sched' = "gauges"
    /\ UNCHANGED <<procVars, pollVars, turn, copied, closed, workVars>>

GetGauges ==
    /\ sched = "gauges"
    /\ copied' = [NoMetrics EXCEPT !.poller = Current, !.gauge = gauge[Current]]
    /\ sched' = "counters"
    /\ UNCHANGED <<procVars, pollVars, holder, turn, closed, workVars>>

\* Mutant: Get starts the count of polls anew.
GetCountersReset ==
    /\ sched = "counters"
    /\ copied' = [copied EXCEPT !.counter = counter[Current],
                                !.pollCount = pollCount[Current]]
    /\ pollCount' = [pollCount EXCEPT ![Current] = 0]
    /\ holder' = [holder EXCEPT ![Current] = "nobody"]
    /\ sched' = "send"
    /\ UNCHANGED <<procVars, poller, gauge, counter, readyRead, polled, turn, closed, workVars>>

GetCounters ==
    /\ sched = "counters"
    /\ copied' = [copied EXCEPT !.counter = counter[Current],
                                !.pollCount = pollCount[Current]]
    /\ holder' = [holder EXCEPT ![Current] = "nobody"]
    /\ sched' = "send"
    /\ UNCHANGED <<procVars, pollVars, turn, closed, workVars>>

\* Mutant: the loop over the pollers goes one too far.
SendPastEnd(w) ==
    /\ sched = "send" /\ worker[w] = "select"
    /\ worker' = [worker EXCEPT ![w] = "busy"]
    /\ held' = [held EXCEPT ![w] = copied]
    /\ taken' = [taken EXCEPT ![copied.poller] = copied]
    /\ copied' = NoMetrics
    /\ IF turn <= Len(Pollers)
       THEN turn' = turn + 1 /\ sched' = "get"
       ELSE turn' = 1 /\ sched' = "tick"
    /\ UNCHANGED <<procVars, pollVars, holder, closed>>

\* The channel has no buffer: the scheduler sends when a worker receives.
Send(w) ==
    /\ sched = "send" /\ worker[w] = "select"
    /\ worker' = [worker EXCEPT ![w] = "busy"]
    /\ held' = [held EXCEPT ![w] = copied]
    /\ taken' = [taken EXCEPT ![copied.poller] = copied]
    /\ copied' = NoMetrics
    /\ IF turn < Len(Pollers)
       THEN turn' = turn + 1 /\ sched' = "get"
       ELSE turn' = 1 /\ sched' = "tick"
    /\ UNCHANGED <<procVars, pollVars, holder, closed>>

SchedulerTick ==
    /\ sched = "tick"
    /\ sched' = "get"
    /\ UNCHANGED <<procVars, pollVars, holder, turn, copied, closed, workVars>>

\* Mutant: the select that sends does not look at the context.
SchedulerStopIdle ==
    /\ sched \in {"wait", "tick"} /\ ctxDone
    /\ sched' = "stopped"
    /\ closed' = TRUE
    /\ UNCHANGED <<procVars, pollVars, holder, turn, copied, workVars>>

\* Every select of the scheduler has the context in it; leaving, it closes
\* the channel.
SchedulerStop ==
    /\ sched \in {"wait", "send", "tick"} /\ ctxDone
    /\ sched' = "stopped"
    /\ closed' = TRUE
    /\ copied' = NoMetrics
    /\ UNCHANGED <<procVars, pollVars, holder, turn, workVars>>

SchedulerStep ==
    \/ AwaitFirstPoll
    \/ GetRLock \/ GetGauges \/ GetCounters
    \/ SchedulerTick \/ SchedulerStop

----------------------------------------------------------------------------
(* The reporters and the flusher                                           *)

\* report returns, with an error or not: the reporter goes on in any case.
Reported(w) ==
    /\ w # 0 /\ worker[w] = "busy"
    /\ worker' = [worker EXCEPT ![w] = "select"]
    /\ held' = [held EXCEPT ![w] = NoMetrics]
    /\ UNCHANGED <<procVars, pollVars, holder, schedVars, taken>>

\* The flusher writes what it took to the log.
Flush ==
    /\ 0 \in Workers /\ worker[0] = "busy"
    /\ worker' = [worker EXCEPT ![0] = "select"]
    /\ held' = [held EXCEPT ![0] = NoMetrics]
    /\ UNCHANGED <<procVars, pollVars, holder, schedVars, taken>>

WorkerStop(w) ==
    /\ worker[w] = "select" /\ (ctxDone \/ closed)
    /\ worker' = [worker EXCEPT ![w] = "stopped"]
    /\ UNCHANGED <<procVars, pollVars, holder, schedVars, held, taken>>

WorkerStep(w) == Reported(w) \/ (w = 0 /\ Flush) \/ WorkerStop(w)

----------------------------------------------------------------------------
(* Run                                                                     *)

StartReporters ==
    /\ main = "starting" /\ (rateLimit < 1 \/ keyLoads)
    /\ main' = "waiting"
    /\ worker' = [w \in AllWorkers |-> IF w \in Workers THEN "select" ELSE "off"]
    /\ UNCHANGED <<rateLimit, keyLoads, ctxDone, pollVars, holder, schedVars, held, taken>>

\* Without the public key Run returns false and waits for nobody.
StartFails ==
    /\ main = "starting" /\ rateLimit >= 1 /\ ~keyLoads
    /\ main' = "failed"
    /\ UNCHANGED <<rateLimit, keyLoads, ctxDone, pollVars, holder, schedVars, workVars>>

Signal ==
    /\ ~ctxDone
    /\ ctxDone' = TRUE
    /\ UNCHANGED <<main, rateLimit, keyLoads, pollVars, holder, schedVars, workVars>>

AllStopped ==
    /\ \A p \in PollerSet : poller[p] = "stopped"
    /\ sched = "stopped"
    /\ \A w \in Workers : worker[w] = "stopped"

RunReturns ==
    /\ main = "waiting" /\ AllStopped
    /\ main' = "returned"
    /\ UNCHANGED <<rateLimit, keyLoads, ctxDone, pollVars, holder, schedVars, workVars>>

AgentStep ==
    \/ StartReporters \/ StartFails \/ Signal \/ RunReturns
    \/ \E p \in PollerSet : PollerStep(p)
    \/ SchedulerStep
    \/ \E w \in Workers : Send(w) \/ WorkerStep(w)

AgentNext ==
    \/ Alive /\ AgentStep
    \/ ~Alive /\ UNCHANGED agentVars

(* Every goroutine goes on when it can: the tickers fire, a report ends by *)
(* the timeouts of its client, and a receiver that waits gets what is      *)
(* sent.  An RWMutex lets its reader in between polls (SF), and a select   *)
(* that finds the context done again and again takes that case in the end  *)
(* (SF).                                                                   *)
AgentFairness ==
    /\ WF_agentVars(Alive /\ (StartReporters \/ StartFails \/ RunReturns))
    /\ \A p \in PollerSet :
          /\ WF_agentVars(Alive /\ PollerStep(p))
          /\ SF_agentVars(Alive /\ PollerStop(p))
    /\ WF_agentVars(Alive /\ (SchedulerStep \/ \E w \in Workers : Send(w)))
    /\ SF_agentVars(Alive /\ GetRLock) /\ SF_agentVars(Alive /\ SchedulerStop)
    /\ \A w \in AllWorkers : WF_agentVars(Alive /\ w \in Workers /\ WorkerStep(w))

AgentSpec == AgentInit /\ [][AgentNext]_agentVars /\ AgentFairness

----------------------------------------------------------------------------
Gauges == [Readings -> 0 .. MaxPolls]

Copy == [poller: PollerSet \cup {"none"}, gauge: Gauges,
         counter: 0 .. MaxPolls, pollCount: 0 .. MaxPolls]

\* The type invariant.
AgentTypeOK ==
    /\ main \in {"starting", "waiting", "returned", "failed"}
    /\ rateLimit \in RateLimits /\ keyLoads \in BOOLEAN /\ ctxDone \in BOOLEAN
    /\ poller \in [PollerSet -> {"first", "select", "gauges", "counter", "ready",
                                 "count", "stopped"}]
    /\ holder \in [PollerSet -> {"nobody", "poller", "scheduler"}]
    /\ gauge \in [PollerSet -> Gauges]
    /\ counter \in [PollerSet -> 0 .. MaxPolls]
    /\ pollCount \in [PollerSet -> 0 .. MaxPolls]
    /\ readyRead \in [PollerSet -> BOOLEAN]
    /\ sched \in {"wait", "get", "gauges", "counters", "send", "tick", "stopped"}
    /\ turn \in DOMAIN Pollers
    /\ copied \in Copy
    /\ closed \in BOOLEAN
    /\ worker \in [AllWorkers -> {"off", "select", "busy", "stopped"}]
    /\ held \in [AllWorkers -> Copy]
    /\ polled \in [PollerSet -> Seq([gauge: Gauges, counter: 0 .. MaxPolls])]
    /\ taken \in [PollerSet -> Copy]

\* What a reporter sends is what was there after one whole poll: the gauges,
\* the counter and the count that the scheduler copied belong together, and
\* there has been a first poll, though the poller writes and the scheduler
\* reads them one by one, and readyRead is closed before the poll is counted.
ReportsAreWholePolls ==
    \A w \in AllWorkers :
        worker[w] = "busy" =>
            /\ held[w].pollCount \in DOMAIN polled[held[w].poller]
            /\ [gauge |-> held[w].gauge, counter |-> held[w].counter]
                  = polled[held[w].poller][held[w].pollCount]

\* The channel carries the polls of each poller in their order.
TakenInOrder ==
    [][\A p \in PollerSet : taken'[p].pollCount >= taken[p].pollCount]_agentVars

\* Every poll is reported, itself or a later one of that poller, as long as
\* the agent runs: neither a busy reporter nor the other poller stops it.
\* It is enough to say so of the last poll the bound admits.
EveryPollIsTaken ==
    \A p \in PollerSet :
        pollCount[p] = MaxPolls ~> taken[p].pollCount = MaxPolls \/ ctxDone \/ ~Alive

\* After a signal Run returns: no goroutine stays behind on the channel, on a
\* mutex or on the first poll.
AgentTerminates == ctxDone ~> ~Alive
============================================================================
