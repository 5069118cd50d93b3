---------------------------- MODULE Agent_proofs ----------------------------
(***************************************************************************)
(* The safety properties of Agent, for any pollers, rate limits and number *)
(* of polls.                                                               *)
(***************************************************************************)
EXTENDS Agent, TLAPS

Polling == {"gauges", "counter", "ready", "count"}

\* The poller has its mutex from the lock to the unlock; what it wrote last is
\* what there was after its last poll, unless it is writing; readyRead is
\* closed one step before the first poll is counted.
PollerInv(p) ==
    /\ holder[p] = "poller" <=> poller[p] \in Polling
    /\ poller[p] \in Polling => pollCount[p] < MaxPolls
    /\ counter[p] <= pollCount[p] + (IF poller[p] \in {"ready", "count"} THEN 1 ELSE 0)
    /\ Len(polled[p]) = pollCount[p]
    /\ poller[p] \notin Polling /\ pollCount[p] # 0 =>
          polled[p][pollCount[p]] = [gauge |-> gauge[p], counter |-> counter[p]]
    /\ readyRead[p] => pollCount[p] # 0 \/ poller[p] = "count"

\* c is the outcome of one poll in the history h.
Whole(c, h) ==
    /\ c.poller \in PollerSet
    /\ c.pollCount \in DOMAIN h[c.poller]
    /\ [gauge |-> c.gauge, counter |-> c.counter] = h[c.poller][c.pollCount]

\* The scheduler has the mutex of the poller it copies, and no other; it copies
\* when all have polled; it has never sent a poll that has not been made.
SchedulerInv ==
    /\ \A p \in PollerSet :
          holder[p] = "scheduler" <=> p = Current /\ sched \in {"gauges", "counters"}
    /\ sched = "wait" => \A i \in 1 .. turn - 1 : readyRead[Pollers[i]]
    /\ sched \notin {"wait", "stopped"} => \A p \in PollerSet : readyRead[p]
    /\ sched = "counters" => copied.poller = Current /\ copied.gauge = gauge[Current]
    /\ sched = "send" =>
          /\ copied.poller = Current /\ Whole(copied, polled)
          /\ taken[Current].pollCount <= copied.pollCount
    /\ \A p \in PollerSet : taken[p].pollCount <= pollCount[p]

WorkersInv ==
    \A w \in AllWorkers : worker[w] = "busy" => Whole(held[w], polled)

PollersInv == \A p \in PollerSet : PollerInv(p)

AgentInv == AgentTypeOK /\ PollersInv /\ SchedulerInv /\ WorkersInv

----------------------------------------------------------------------------
(* The initial state.                                                      *)

LEMMA CurrentType == AgentTypeOK => Current \in PollerSet
BY DEF AgentTypeOK, Current, PollerSet

LEMMA NoMetricsType == NoGauges \in Gauges /\ NoMetrics \in Copy
<1>1. NoGauges \in Gauges
  BY AgentAssumption DEF NoGauges, Gauges
<1> QED
  BY <1>1, AgentAssumption DEF NoMetrics, Copy

LEMMA AgentInitInv == AgentInit => AgentInv
<1> SUFFICES ASSUME AgentInit PROVE AgentInv
  OBVIOUS
<1>1. turn \in DOMAIN Pollers
  BY AgentAssumption DEF AgentInit
<1>2. NoMetrics \in Copy /\ NoGauges \in Gauges
  BY NoMetricsType
<1>3. <<>> \in Seq([gauge: Gauges, counter: 0 .. MaxPolls]) /\ 0 \in 0 .. MaxPolls
  BY AgentAssumption
<1>4. AgentTypeOK
  BY <1>1, <1>2, <1>3 DEF AgentInit, AgentTypeOK
<1>5. PollersInv
  BY DEF AgentInit, PollersInv, PollerInv, Polling
<1>6. SchedulerInv
  BY DEF AgentInit, SchedulerInv, NoMetrics
<1>7. WorkersInv
  BY DEF AgentInit, WorkersInv
<1> QED
  BY <1>4, <1>5, <1>6, <1>7 DEF AgentInv

----------------------------------------------------------------------------
(* The pollers.  A step of one keeps the invariant when it keeps its own   *)
(* part and what the scheduler and the reporters rely on.                  *)

LEMMA PollerStepKeeps ==
    ASSUME AgentInv, NEW p \in PollerSet, AgentTypeOK', PollerInv(p)',
           UNCHANGED <<schedVars, workVars>>,
           \A q \in PollerSet : q # p =>
               /\ poller'[q] = poller[q] /\ holder'[q] = holder[q]
               /\ gauge'[q] = gauge[q] /\ counter'[q] = counter[q]
               /\ pollCount'[q] = pollCount[q] /\ readyRead'[q] = readyRead[q]
               /\ polled'[q] = polled[q],
           holder'[p] = "scheduler" <=> holder[p] = "scheduler",
           readyRead[p] => readyRead'[p],
           holder[p] = "scheduler" => gauge'[p] = gauge[p],
           pollCount'[p] >= pollCount[p],
           \A c : Whole(c, polled) => Whole(c, polled')
    PROVE  AgentInv'
<1>a. AgentTypeOK /\ PollersInv /\ SchedulerInv /\ WorkersInv
  BY DEF AgentInv
<1>b. UNCHANGED <<sched, turn, copied, closed, worker, held, taken>> /\ Current' = Current
  BY DEF schedVars, workVars, Current
<1>1. PollersInv'
  <2>1. ASSUME NEW q \in PollerSet, q # p PROVE PollerInv(q)'
    <3>1. PollerInv(q)
      BY <1>a DEF PollersInv
    <3> QED
      BY <2>1, <3>1 DEF PollerInv
  <2> QED
    BY <2>1 DEF PollersInv
<1>2. SchedulerInv'
  <2>1. \A q \in PollerSet : readyRead[q] => readyRead'[q]
    OBVIOUS
  <2>2. \A i \in 1 .. turn - 1 : Pollers[i] \in PollerSet
    BY <1>a, AgentAssumption DEF AgentTypeOK, PollerSet
  <2>3. \A q \in PollerSet : taken[q].pollCount <= pollCount'[q]
    <3>1. \A q \in PollerSet : /\ taken[q].pollCount \in Nat
                               /\ pollCount[q] \in Nat /\ pollCount'[q] \in Nat
      BY <1>a, AgentAssumption DEF AgentTypeOK, Copy
    <3> QED
      BY <1>a, <3>1 DEF SchedulerInv
  <2>4. sched = "counters" => copied.poller = Current /\ copied.gauge = gauge'[Current]
    <3>1. sched = "counters" => holder[Current] = "scheduler"
      BY <1>a, CurrentType DEF SchedulerInv
    <3> QED
      BY <1>a, <3>1, CurrentType DEF SchedulerInv
  <2>5. \A q \in PollerSet :
           holder'[q] = "scheduler" <=> q = Current /\ sched \in {"gauges", "counters"}
    BY <1>a DEF SchedulerInv
  <2>6. sched = "wait" => \A i \in 1 .. turn - 1 : readyRead'[Pollers[i]]
    BY <1>a, <2>1, <2>2 DEF SchedulerInv
  <2>7. sched \notin {"wait", "stopped"} => \A q \in PollerSet : readyRead'[q]
    BY <1>a, <2>1 DEF SchedulerInv
  <2>8. sched = "send" =>
          /\ copied.poller = Current /\ Whole(copied, polled')
          /\ taken[Current].pollCount <= copied.pollCount
    BY <1>a DEF SchedulerInv
  <2> QED
    BY <1>b, <2>3, <2>4, <2>5, <2>6, <2>7, <2>8 DEF SchedulerInv
<1>3. WorkersInv'
  BY <1>a, <1>b DEF WorkersInv
<1> QED
  BY <1>1, <1>2, <1>3 DEF AgentInv

\* A poll adds to the history and takes nothing from it.
LEMMA WholeStays ==
    ASSUME AgentTypeOK, NEW p \in PollerSet,
           NEW x \in [gauge: Gauges, counter: 0 .. MaxPolls],
           NEW c, Whole(c, polled)
    PROVE  Whole(c, [polled EXCEPT ![p] = Append(@, x)])
<1> DEFINE S == [gauge: Gauges, counter: 0 .. MaxPolls]
           h == [polled EXCEPT ![p] = Append(@, x)]
<1>1. /\ polled \in [PollerSet -> Seq(S)] /\ x \in S
      /\ c.poller \in PollerSet /\ c.pollCount \in DOMAIN polled[c.poller]
  BY DEF AgentTypeOK, Whole
<1> HIDE DEF S
<1>2. h[c.poller] = IF c.poller = p THEN Append(polled[c.poller], x) ELSE polled[c.poller]
  BY <1>1
<1> HIDE DEF h
<1>3. polled[c.poller] \in Seq(S)
  BY <1>1
<1>4. /\ c.pollCount \in DOMAIN Append(polled[c.poller], x)
      /\ Append(polled[c.poller], x)[c.pollCount] = polled[c.poller][c.pollCount]
  BY <1>1, <1>3
<1>5. c.pollCount \in DOMAIN h[c.poller] /\ h[c.poller][c.pollCount] = polled[c.poller][c.pollCount]
  BY <1>1, <1>2, <1>4
<1>6. Whole(c, h)
  BY <1>1, <1>5 DEF Whole
<1> QED
  BY <1>6 DEF h

LEMMA PollersKeep ==
    ASSUME AgentInv, NEW p \in PollerSet, PollerStep(p)
    PROVE  AgentInv'
<1>a. AgentTypeOK /\ PollerInv(p) /\ SchedulerInv
  BY DEF AgentInv, PollersInv
<1>b. UNCHANGED <<procVars, schedVars, workVars>>
  BY DEF PollerStep, PollLock, PollGauges, PollCounter, CloseReadyRead, PollUnlock, PollerStop
<1>c. UNCHANGED <<main, rateLimit, keyLoads, ctxDone, sched, turn, copied, closed,
                  worker, held, taken>>
  BY <1>b DEF procVars, schedVars, workVars
<1>d. /\ gauge[p] \in Gauges /\ counter[p] \in 0 .. MaxPolls
      /\ pollCount[p] \in 0 .. MaxPolls /\ MaxPolls \in Nat /\ pollCount[p] \in Nat
      /\ poller[p] \in {"first", "select", "gauges", "counter", "ready", "count", "stopped"}
      /\ holder[p] \in {"nobody", "poller", "scheduler"}
  BY <1>a, AgentAssumption DEF AgentTypeOK
<1>1. CASE PollLock(p)
  <2>0. /\ poller[p] \in {"first", "select"} /\ pollCount[p] < MaxPolls
        /\ holder[p] = "nobody"
        /\ holder' = [holder EXCEPT ![p] = "poller"] /\ poller' = [poller EXCEPT ![p] = "gauges"]
        /\ UNCHANGED <<gauge, counter, pollCount, readyRead, polled>>
    BY <1>1 DEF PollLock, PollerGoto
  <2>1. AgentTypeOK'
    BY <1>a, <1>c, <2>0 DEF AgentTypeOK
  <2>2. PollerInv(p)'
    BY <1>a, <1>d, <2>0 DEF PollerInv, Polling, AgentTypeOK
  <2>3. \A q \in PollerSet : q # p => poller'[q] = poller[q] /\ holder'[q] = holder[q]
    BY <1>a, <2>0 DEF AgentTypeOK
  <2>4. holder'[p] = "poller"
    BY <1>a, <2>0 DEF AgentTypeOK
  <2> QED
    BY <1>b, <1>d, <2>0, <2>1, <2>2, <2>3, <2>4, PollerStepKeeps
<1>2. CASE PollGauges(p)
  <2>a. PICK failed \in SUBSET Readings :
            gauge' = [gauge EXCEPT ![p] = [g \in Readings |->
                         IF g \in failed THEN gauge[p][g] ELSE pollCount[p] + 1]]
    BY <1>2 DEF PollGauges
  <2> DEFINE read == [g \in Readings |->
                         IF g \in failed THEN gauge[p][g] ELSE pollCount[p] + 1]
  <2>0. /\ poller[p] = "gauges"
        /\ gauge' = [gauge EXCEPT ![p] = read]
        /\ poller' = [poller EXCEPT ![p] = "counter"]
        /\ UNCHANGED <<holder, counter, pollCount, readyRead, polled>>
    BY <1>2, <2>a DEF PollGauges, PollerGoto
  <2>1. pollCount[p] + 1 \in 0 .. MaxPolls /\ holder[p] = "poller"
    BY <1>a, <1>d, <2>0 DEF PollerInv, Polling
  <2>r. read \in Gauges
    BY <1>d, <2>1 DEF Gauges
  <2> HIDE DEF read
  <2>2. AgentTypeOK'
    <3>1. gauge' \in [PollerSet -> Gauges]
      BY <1>a, <2>0, <2>r DEF AgentTypeOK
    <3> QED
      BY <1>a, <1>c, <2>0, <3>1 DEF AgentTypeOK
  <2>3. PollerInv(p)'
    BY <1>a, <1>d, <2>0 DEF PollerInv, Polling, AgentTypeOK
  <2>4. \A q \in PollerSet : q # p => poller'[q] = poller[q] /\ gauge'[q] = gauge[q]
    BY <1>a, <2>0 DEF AgentTypeOK
  <2> QED
    BY <1>b, <1>d, <2>0, <2>1, <2>2, <2>3, <2>4, PollerStepKeeps
<1>3. CASE PollCounter(p)
  <2>0. /\ poller[p] = "counter"
        /\ counter' = [counter EXCEPT ![p] = @ + 1] \/ counter' = counter
        /\ poller' = [poller EXCEPT ![p] = "ready"]
        /\ UNCHANGED <<holder, gauge, pollCount, readyRead, polled>>
    BY <1>3 DEF PollCounter, PollerGoto
  <2>1. counter[p] <= pollCount[p] /\ pollCount[p] < MaxPolls
    BY <1>a, <1>d, <2>0 DEF PollerInv, Polling
  <2>2. AgentTypeOK'
    <3>1. counter[p] + 1 \in 0 .. MaxPolls
      BY <1>d, <2>1
    <3>2. counter' \in [PollerSet -> 0 .. MaxPolls]
      BY <1>a, <2>0, <3>1 DEF AgentTypeOK
    <3> QED
      BY <1>a, <1>c, <2>0, <3>2 DEF AgentTypeOK
  <2>3. PollerInv(p)'
    <3>1. counter'[p] <= pollCount[p] + 1
      BY <1>a, <1>d, <2>0, <2>1 DEF AgentTypeOK
    <3>2. poller'[p] = "ready"
      BY <1>a, <2>0 DEF AgentTypeOK
    <3> QED
      BY <1>a, <1>d, <2>0, <3>1, <3>2 DEF PollerInv, Polling
  <2>4. \A q \in PollerSet : q # p => poller'[q] = poller[q] /\ counter'[q] = counter[q]
    BY <1>a, <2>0 DEF AgentTypeOK
  <2> QED
    BY <1>b, <1>d, <2>0, <2>2, <2>3, <2>4, PollerStepKeeps
<1>4. CASE CloseReadyRead(p)
  <2>0. /\ poller[p] = "ready"
        /\ readyRead' = [readyRead EXCEPT ![p] = TRUE]
        /\ poller' = [poller EXCEPT ![p] = "count"]
        /\ UNCHANGED <<holder, gauge, counter, pollCount, polled>>
    BY <1>4 DEF CloseReadyRead, PollerGoto
  <2>1. AgentTypeOK'
    BY <1>a, <1>c, <2>0 DEF AgentTypeOK
  <2>2. poller'[p] = "count"
    BY <1>a, <2>0 DEF AgentTypeOK
  <2>3. PollerInv(p)'
    BY <1>a, <1>d, <2>0, <2>2 DEF PollerInv, Polling
  <2>4. readyRead'[p]
    BY <1>a, <2>0 DEF AgentTypeOK
  <2>5. \A q \in PollerSet : q # p => poller'[q] = poller[q] /\ readyRead'[q] = readyRead[q]
    BY <1>a, <2>0 DEF AgentTypeOK
  <2> QED
    <3>1. \A q \in PollerSet : q # p =>
             /\ poller'[q] = poller[q] /\ holder'[q] = holder[q]
             /\ gauge'[q] = gauge[q] /\ counter'[q] = counter[q]
             /\ pollCount'[q] = pollCount[q] /\ readyRead'[q] = readyRead[q]
             /\ polled'[q] = polled[q]
      BY <2>0, <2>5
    <3>2. /\ holder'[p] = "scheduler" <=> holder[p] = "scheduler"
          /\ gauge'[p] = gauge[p] /\ pollCount'[p] >= pollCount[p] /\ polled' = polled
      BY <1>d, <2>0
    <3> QED
      BY <1>b, <2>1, <2>3, <2>4, <3>1, <3>2, PollerStepKeeps
<1>5. CASE PollUnlock(p)
  <2> DEFINE S == [gauge: Gauges, counter: 0 .. MaxPolls]
             x == [gauge |-> gauge[p], counter |-> counter[p]]
  <2>0. /\ poller[p] = "count"
        /\ pollCount' = [pollCount EXCEPT ![p] = @ + 1]
        /\ polled' = [polled EXCEPT ![p] = Append(@, x)]
        /\ holder' = [holder EXCEPT ![p] = "nobody"]
        /\ poller' = [poller EXCEPT ![p] = "select"]
        /\ UNCHANGED <<gauge, counter, readyRead>>
    BY <1>5 DEF PollUnlock, PollerGoto
  <2>1. /\ pollCount[p] < MaxPolls /\ holder[p] = "poller" /\ Len(polled[p]) = pollCount[p]
        /\ counter[p] <= pollCount[p] + 1
    BY <1>a, <1>d, <2>0 DEF PollerInv, Polling
  <2>2. x \in S /\ polled[p] \in Seq(S) /\ pollCount[p] + 1 \in 0 .. MaxPolls
    <3>1. x \in S /\ polled[p] \in Seq(S)
      BY <1>a, <1>d DEF AgentTypeOK
    <3> QED
      BY <1>d, <2>1, <3>1
  <2>x. x = [gauge |-> gauge[p], counter |-> counter[p]]
    OBVIOUS
  <2> HIDE DEF x
  <2>3. AgentTypeOK'
    <3>1. polled' \in [PollerSet -> Seq(S)]
      <4> HIDE DEF S
      <4>1. polled \in [PollerSet -> Seq(S)]
        BY <1>a DEF AgentTypeOK, S
      <4>2. Append(polled[p], x) \in Seq(S)
        BY <2>2
      <4> QED
        BY <2>0, <4>1, <4>2
    <3>2. pollCount' \in [PollerSet -> 0 .. MaxPolls]
      BY <1>a, <2>0, <2>2 DEF AgentTypeOK
    <3> QED
      BY <1>a, <1>c, <2>0, <3>1, <3>2 DEF AgentTypeOK
  <2>4. /\ polled'[p] = Append(polled[p], x) /\ pollCount'[p] = pollCount[p] + 1
        /\ poller'[p] = "select" /\ holder'[p] = "nobody"
    BY <1>a, <2>0 DEF AgentTypeOK
  <2>5. PollerInv(p)'
    <3> HIDE DEF S
    <3>1. Len(polled'[p]) = pollCount'[p] /\ polled'[p][pollCount'[p]] = x
      BY <1>d, <2>1, <2>2, <2>4
    <3> QED
      BY <1>d, <2>0, <2>1, <2>x, <2>4, <3>1 DEF PollerInv, Polling
  <2>6. \A q \in PollerSet : q # p =>
           /\ poller'[q] = poller[q] /\ holder'[q] = holder[q]
           /\ pollCount'[q] = pollCount[q] /\ polled'[q] = polled[q]
    BY <1>a, <2>0 DEF AgentTypeOK
  <2>7. \A c : Whole(c, polled) => Whole(c, polled')
    BY <1>a, <2>0, <2>2, WholeStays
  <2> QED
    <3>1. \A q \in PollerSet : q # p =>
             /\ poller'[q] = poller[q] /\ holder'[q] = holder[q]
             /\ gauge'[q] = gauge[q] /\ counter'[q] = counter[q]
             /\ pollCount'[q] = pollCount[q] /\ readyRead'[q] = readyRead[q]
             /\ polled'[q] = polled[q]
      BY <2>0, <2>6
    <3>2. /\ holder'[p] = "scheduler" <=> holder[p] = "scheduler"
          /\ gauge'[p] = gauge[p] /\ pollCount'[p] >= pollCount[p] /\ readyRead' = readyRead
      BY <1>d, <2>0, <2>1, <2>4
    <3> QED
      BY <1>b, <2>3, <2>5, <2>7, <3>1, <3>2, PollerStepKeeps
<1>6. CASE PollerStop(p)
  <2>0. /\ poller[p] \in {"first", "select"} /\ poller' = [poller EXCEPT ![p] = "stopped"]
        /\ UNCHANGED <<holder, gauge, counter, pollCount, readyRead, polled>>
    BY <1>6 DEF PollerStop, PollerGoto
  <2>1. AgentTypeOK'
    BY <1>a, <1>c, <2>0 DEF AgentTypeOK
  <2>2. poller'[p] = "stopped" /\ \A q \in PollerSet : q # p => poller'[q] = poller[q]
    BY <1>a, <2>0 DEF AgentTypeOK
  <2>3. PollerInv(p)'
    BY <1>a, <1>d, <2>0, <2>2 DEF PollerInv, Polling
  <2> QED
    BY <1>b, <1>d, <2>0, <2>1, <2>2, <2>3, PollerStepKeeps
<1> QED
  BY <1>1, <1>2, <1>3, <1>4, <1>5, <1>6 DEF PollerStep

----------------------------------------------------------------------------
(* The scheduler.  Its steps leave the pollers their own part.             *)

LEMMA PollersStay ==
    ASSUME PollersInv, UNCHANGED pollVars,
           \A p \in PollerSet : holder'[p] = "poller" <=> holder[p] = "poller"
    PROVE  PollersInv'
<1>1. UNCHANGED <<poller, gauge, counter, pollCount, readyRead, polled>>
  BY DEF pollVars
<1>2. ASSUME NEW p \in PollerSet PROVE PollerInv(p)'
  <2>1. PollerInv(p)
    BY DEF PollersInv
  <2> QED
    BY <1>1, <2>1 DEF PollerInv
<1> QED
  BY <1>2 DEF PollersInv

\* While the scheduler copies, the poller is between two polls.
LEMMA CopyIsWhole ==
    ASSUME AgentInv, sched \in {"gauges", "counters"}
    PROVE  /\ pollCount[Current] \in DOMAIN polled[Current]
           /\ polled[Current][pollCount[Current]]
                 = [gauge |-> gauge[Current], counter |-> counter[Current]]
<1>a. AgentTypeOK /\ SchedulerInv /\ Current \in PollerSet
  BY CurrentType DEF AgentInv
<1>1. holder[Current] = "scheduler" /\ readyRead[Current]
  BY <1>a DEF SchedulerInv
<1>2. PollerInv(Current)
  BY <1>a DEF AgentInv, PollersInv
<1>3. poller[Current] \notin Polling /\ pollCount[Current] # 0
  BY <1>1, <1>2 DEF PollerInv, Polling
<1>4. /\ pollCount[Current] \in Nat
      /\ polled[Current] \in Seq([gauge: Gauges, counter: 0 .. MaxPolls])
  <2>1. /\ pollCount[Current] \in 0 .. MaxPolls
        /\ polled[Current] \in Seq([gauge: Gauges, counter: 0 .. MaxPolls])
    BY <1>a DEF AgentTypeOK
  <2>2. pollCount[Current] \in Nat
    BY <2>1, AgentAssumption
  <2> QED
    BY <2>1, <2>2
<1>5. Len(polled[Current]) = pollCount[Current]
  BY <1>2 DEF PollerInv
<1>6. pollCount[Current] \in DOMAIN polled[Current]
  <2> DEFINE S == [gauge: Gauges, counter: 0 .. MaxPolls]
  <2>1. polled[Current] \in Seq(S)
    BY <1>4
  <2> HIDE DEF S
  <2> QED
    BY <1>3, <1>4, <1>5, <2>1
<1> QED
  BY <1>2, <1>3, <1>6 DEF PollerInv

LEMMA AwaitFirstPollKeeps ==
    ASSUME AgentInv, AwaitFirstPoll
    PROVE  AgentInv'
<1>a. AgentTypeOK /\ PollersInv /\ SchedulerInv /\ WorkersInv
  BY DEF AgentInv
<1>b. /\ sched = "wait" /\ readyRead[Pollers[turn]]
      /\ UNCHANGED <<main, rateLimit, keyLoads, ctxDone, poller, gauge, counter,
                     pollCount, readyRead, polled, holder, copied, closed, worker, held, taken>>
  BY DEF AwaitFirstPoll, Current, procVars, pollVars, workVars
<1>c. turn \in 1 .. Len(Pollers) /\ Len(Pollers) \in Nat /\ DOMAIN Pollers = 1 .. Len(Pollers)
  BY <1>a, AgentAssumption DEF AgentTypeOK
<1>d. \/ turn < Len(Pollers) /\ turn' = turn + 1 /\ sched' = "wait"
      \/ turn = Len(Pollers) /\ turn' = 1 /\ sched' = "get"
  <2>1. \/ turn < Len(Pollers) /\ turn' = turn + 1 /\ sched' = sched
        \/ ~(turn < Len(Pollers)) /\ turn' = 1 /\ sched' = "get"
    BY DEF AwaitFirstPoll
  <2>2. ~(turn < Len(Pollers)) => turn = Len(Pollers)
    <3> DEFINE n == Len(Pollers)
    <3>1. n \in Nat /\ turn \in 1 .. n
      BY <1>c
    <3> HIDE DEF n
    <3>2. ~(turn < n) => turn = n
      BY ONLY <3>1
    <3> QED
      BY <3>2 DEF n
  <2> QED
    BY <1>b, <2>1, <2>2
<1>1. AgentTypeOK'
  <2>1. turn' \in DOMAIN Pollers
    <3> DEFINE n == Len(Pollers)
    <3>1. /\ n \in Nat /\ turn \in 1 .. n /\ DOMAIN Pollers = 1 .. n
          /\ (turn < n /\ turn' = turn + 1) \/ turn' = 1
      BY <1>c, <1>d
    <3> HIDE DEF n
    <3>2. turn' \in 1 .. n
      BY ONLY <3>1
    <3> QED
      BY <3>1, <3>2
  <2>2. sched' \in {"wait", "get"}
    BY <1>d
  <2> QED
    BY <1>a, <1>b, <2>1, <2>2 DEF AgentTypeOK
<1>2. PollersInv'
  BY <1>a, <1>b, PollersStay DEF pollVars
<1>3. SchedulerInv'
  <2>1. \A i \in 1 .. turn : readyRead[Pollers[i]]
    BY <1>a, <1>b, <1>c DEF SchedulerInv
  <2>2. sched' = "wait" => \A i \in 1 .. turn' - 1 : readyRead[Pollers[i]]
    BY <1>c, <1>d, <2>1
  <2>3. sched' = "get" => \A p \in PollerSet : readyRead[p]
    BY <1>c, <1>d, <2>1 DEF PollerSet
  <2>4. \A p \in PollerSet : holder[p] # "scheduler"
    BY <1>a, <1>b DEF SchedulerInv
  <2>5. \A p \in PollerSet : taken[p].pollCount <= pollCount[p]
    BY <1>a DEF SchedulerInv
  <2> QED
    BY <1>b, <1>d, <2>2, <2>3, <2>4, <2>5 DEF SchedulerInv
<1>4. WorkersInv'
  BY <1>a, <1>b DEF WorkersInv
<1> QED
  BY <1>1, <1>2, <1>3, <1>4 DEF AgentInv

\* The read lock is free only between two polls.
LEMMA GetRLockKeeps ==
    ASSUME AgentInv, GetRLock
    PROVE  AgentInv'
<1>a. /\ AgentTypeOK /\ PollersInv /\ SchedulerInv /\ WorkersInv
      /\ Current \in PollerSet
  BY CurrentType DEF AgentInv
<1>b. /\ sched = "get" /\ sched' = "gauges" /\ holder[Current] = "nobody"
      /\ holder' = [holder EXCEPT ![Current] = "scheduler"]
      /\ UNCHANGED <<main, rateLimit, keyLoads, ctxDone, poller, gauge, counter, pollCount,
                     readyRead, polled, turn, copied, closed, worker, held, taken>>
  BY DEF GetRLock, procVars, pollVars, workVars
<1>c. Current' = Current
  BY <1>b DEF Current
<1>d. /\ holder'[Current] = "scheduler"
      /\ \A p \in PollerSet : p # Current => holder'[p] = holder[p]
  BY <1>a, <1>b DEF AgentTypeOK
<1>1. AgentTypeOK'
  BY <1>a, <1>b DEF AgentTypeOK
<1>2. PollersInv'
  <2>1. \A p \in PollerSet : holder'[p] = "poller" <=> holder[p] = "poller"
    BY <1>b, <1>d
  <2> QED
    BY <1>a, <1>b, <2>1, PollersStay DEF pollVars
<1>3. SchedulerInv'
  BY <1>a, <1>b, <1>c, <1>d DEF SchedulerInv
<1>4. WorkersInv'
  BY <1>a, <1>b DEF WorkersInv
<1> QED
  BY <1>1, <1>2, <1>3, <1>4 DEF AgentInv

LEMMA GetGaugesKeeps ==
    ASSUME AgentInv, GetGauges
    PROVE  AgentInv'
<1>a. /\ AgentTypeOK /\ PollersInv /\ SchedulerInv /\ WorkersInv
      /\ Current \in PollerSet
  BY CurrentType DEF AgentInv
<1>b. /\ sched = "gauges" /\ sched' = "counters"
      /\ copied' = [NoMetrics EXCEPT !.poller = Current, !.gauge = gauge[Current]]
      /\ UNCHANGED <<main, rateLimit, keyLoads, ctxDone, poller, gauge, counter, pollCount,
                     readyRead, polled, holder, turn, closed, worker, held, taken>>
  BY DEF GetGauges, procVars, pollVars, workVars
<1>c. Current' = Current
  BY <1>b DEF Current
<1>d. copied' \in Copy /\ copied'.poller = Current /\ copied'.gauge = gauge[Current]
  <2>1. gauge[Current] \in Gauges /\ 0 \in 0 .. MaxPolls
    BY <1>a, AgentAssumption DEF AgentTypeOK
  <2> QED
    BY <1>a, <1>b, <2>1 DEF NoMetrics, Copy
<1>1. AgentTypeOK'
  BY <1>a, <1>b, <1>d DEF AgentTypeOK
<1>2. PollersInv'
  BY <1>a, <1>b, PollersStay DEF pollVars
<1>3. SchedulerInv'
  BY <1>a, <1>b, <1>c, <1>d DEF SchedulerInv
<1>4. WorkersInv'
  BY <1>a, <1>b DEF WorkersInv
<1> QED
  BY <1>1, <1>2, <1>3, <1>4 DEF AgentInv

LEMMA GetCountersKeeps ==
    ASSUME AgentInv, GetCounters
    PROVE  AgentInv'
<1>a. /\ AgentTypeOK /\ PollersInv /\ SchedulerInv /\ WorkersInv
      /\ Current \in PollerSet
  BY CurrentType DEF AgentInv
<1>b. /\ sched = "counters" /\ sched' = "send"
      /\ copied' = [copied EXCEPT !.counter = counter[Current],
                                  !.pollCount = pollCount[Current]]
      /\ holder' = [holder EXCEPT ![Current] = "nobody"]
      /\ UNCHANGED <<main, rateLimit, keyLoads, ctxDone, poller, gauge, counter, pollCount,
                     readyRead, polled, turn, closed, worker, held, taken>>
  BY DEF GetCounters, procVars, pollVars, workVars
<1>c. Current' = Current
  BY <1>b DEF Current
<1>d. /\ copied' \in Copy /\ copied'.poller = Current /\ copied'.gauge = gauge[Current]
      /\ copied'.counter = counter[Current] /\ copied'.pollCount = pollCount[Current]
  <2>1. /\ counter[Current] \in 0 .. MaxPolls /\ pollCount[Current] \in 0 .. MaxPolls
        /\ copied \in Copy
    BY <1>a DEF AgentTypeOK
  <2>2. copied.poller = Current /\ copied.gauge = gauge[Current]
    BY <1>a, <1>b DEF SchedulerInv
  <2> QED
    BY <1>b, <2>1, <2>2 DEF Copy
<1>e. holder[Current] = "scheduler" /\ holder'[Current] = "nobody"
      /\ \A p \in PollerSet : p # Current => holder'[p] = holder[p]
  BY <1>a, <1>b DEF AgentTypeOK, SchedulerInv
<1>1. AgentTypeOK'
  BY <1>a, <1>b, <1>d DEF AgentTypeOK
<1>2. PollersInv'
  <2>1. \A p \in PollerSet : holder'[p] = "poller" <=> holder[p] = "poller"
    BY <1>e
  <2> QED
    BY <1>a, <1>b, <2>1, PollersStay DEF pollVars
<1>3. SchedulerInv'
  <2>1. Whole(copied', polled)
    BY <1>a, <1>b, <1>d, CopyIsWhole DEF Whole
  <2>2. taken[Current].pollCount <= copied'.pollCount
    BY <1>a, <1>d DEF SchedulerInv
  <2> QED
    BY <1>a, <1>b, <1>c, <1>d, <1>e, <2>1, <2>2 DEF SchedulerInv
<1>4. WorkersInv'
  BY <1>a, <1>b DEF WorkersInv
<1> QED
  BY <1>1, <1>2, <1>3, <1>4 DEF AgentInv

\* The copy changes hands; the next one starts when there is a next poller.
LEMMA SendKeeps ==
    ASSUME AgentInv, NEW w \in AllWorkers, Send(w)
    PROVE  AgentInv' /\ taken' = [taken EXCEPT ![Current] = copied]
<1>a. /\ AgentTypeOK /\ PollersInv /\ SchedulerInv /\ WorkersInv
      /\ Current \in PollerSet
  BY CurrentType DEF AgentInv
<1>b. /\ sched = "send" /\ worker[w] = "select" /\ copied' = NoMetrics
      /\ worker' = [worker EXCEPT ![w] = "busy"]
      /\ held' = [held EXCEPT ![w] = copied]
      /\ taken' = [taken EXCEPT ![copied.poller] = copied]
      /\ UNCHANGED <<main, rateLimit, keyLoads, ctxDone, poller, gauge, counter, pollCount,
                     readyRead, polled, holder, closed>>
  BY DEF Send, procVars, pollVars
<1>c. turn \in 1 .. Len(Pollers) /\ Len(Pollers) \in Nat /\ DOMAIN Pollers = 1 .. Len(Pollers)
  BY <1>a, AgentAssumption DEF AgentTypeOK
<1>d. turn' \in DOMAIN Pollers /\ sched' \in {"get", "tick"}
  BY <1>c DEF Send
<1>e. /\ copied.poller = Current /\ Whole(copied, polled) /\ copied \in Copy
      /\ copied.pollCount = copied.pollCount
  BY <1>a, <1>b DEF SchedulerInv, AgentTypeOK
<1>f. taken' = [taken EXCEPT ![Current] = copied]
  BY <1>b, <1>e
<1>g. NoMetrics \in Copy
  BY NoMetricsType
<1>1. AgentTypeOK'
  BY <1>a, <1>b, <1>d, <1>e, <1>f, <1>g DEF AgentTypeOK
<1>2. PollersInv'
  BY <1>a, <1>b, PollersStay DEF pollVars
<1>3. SchedulerInv'
  <2>1. \A p \in PollerSet : holder[p] # "scheduler" /\ readyRead[p]
    BY <1>a, <1>b DEF SchedulerInv
  <2>2. copied.pollCount <= pollCount[Current]
    <3>1. /\ Len(polled[Current]) = pollCount[Current] /\ copied.pollCount \in DOMAIN polled[Current]
      BY <1>a, <1>e DEF PollersInv, PollerInv, Whole
    <3>2. polled[Current] \in Seq([gauge: Gauges, counter: 0 .. MaxPolls])
      BY <1>a DEF AgentTypeOK
    <3>3. DOMAIN polled[Current] = 1 .. pollCount[Current] /\ pollCount[Current] \in Nat
      <4> DEFINE S == [gauge: Gauges, counter: 0 .. MaxPolls]
      <4>1. polled[Current] \in Seq(S)
        BY <3>2
      <4> HIDE DEF S
      <4> QED
        BY <3>1, <4>1
    <3> QED
      BY <3>1, <3>3
  <2>3. \A p \in PollerSet : taken'[p].pollCount <= pollCount[p]
    <3>1. \A p \in PollerSet : taken'[p] = IF p = Current THEN copied ELSE taken[p]
      BY <1>a, <1>f DEF AgentTypeOK
    <3>2. \A p \in PollerSet : taken[p].pollCount <= pollCount[p]
      BY <1>a DEF SchedulerInv
    <3> QED
      BY <2>2, <3>1, <3>2
  <2> QED
    BY <1>b, <1>d, <2>1, <2>3 DEF SchedulerInv
<1>4. WorkersInv'
  BY <1>a, <1>b, <1>e DEF WorkersInv, AgentTypeOK
<1> QED
  BY <1>1, <1>2, <1>3, <1>4, <1>f DEF AgentInv

LEMMA SchedulerRestKeeps ==
    ASSUME AgentInv, SchedulerTick \/ SchedulerStop
    PROVE  AgentInv'
<1>a. AgentTypeOK /\ PollersInv /\ SchedulerInv /\ WorkersInv
  BY DEF AgentInv
<1>b. /\ sched \in {"wait", "send", "tick"}
      /\ \/ sched = "tick" /\ sched' = "get" /\ copied' = copied /\ closed' = closed
         \/ sched' = "stopped" /\ copied' = NoMetrics /\ closed' = TRUE
      /\ UNCHANGED <<main, rateLimit, keyLoads, ctxDone, poller, gauge, counter, pollCount,
                     readyRead, polled, holder, turn, worker, held, taken>>
  BY DEF SchedulerTick, SchedulerStop, procVars, pollVars, workVars
<1>1. AgentTypeOK'
  <2>1. NoMetrics \in Copy
    BY NoMetricsType
  <2>2. copied' \in Copy /\ closed' \in BOOLEAN /\ sched' \in {"get", "stopped"}
    BY <1>a, <1>b, <2>1 DEF AgentTypeOK
  <2> QED
    BY <1>a, <1>b, <2>2 DEF AgentTypeOK
<1>2. PollersInv'
  BY <1>a, <1>b, PollersStay DEF pollVars
<1>3. SchedulerInv'
  BY <1>a, <1>b DEF SchedulerInv, Current
<1>4. WorkersInv'
  BY <1>a, <1>b DEF WorkersInv
<1> QED
  BY <1>1, <1>2, <1>3, <1>4 DEF AgentInv

----------------------------------------------------------------------------
(* The reporters, the flusher and Run: nobody becomes busy.                *)

LEMMA OthersKeep ==
    ASSUME AgentInv, AgentTypeOK',
           UNCHANGED <<poller, gauge, counter, pollCount, readyRead, polled, holder,
                       sched, turn, copied, taken>>,
           \A w \in AllWorkers : worker'[w] = "busy" =>
               worker[w] = "busy" /\ held'[w] = held[w]
    PROVE  AgentInv'
<1>a. PollersInv /\ SchedulerInv /\ WorkersInv
  BY DEF AgentInv
<1>1. PollersInv'
  BY <1>a, PollersStay DEF pollVars
<1>2. SchedulerInv'
  BY <1>a DEF SchedulerInv, Current
<1>3. WorkersInv'
  BY <1>a DEF WorkersInv
<1> QED
  BY <1>1, <1>2, <1>3 DEF AgentInv

LEMMA WorkersKeep ==
    ASSUME AgentInv, NEW w \in AllWorkers, WorkerStep(w)
    PROVE  AgentInv'
<1>a. AgentTypeOK
  BY DEF AgentInv
<1>b. /\ \/ worker' = [worker EXCEPT ![w] = "select"] /\ held' = [held EXCEPT ![w] = NoMetrics]
         \/ worker' = [worker EXCEPT ![w] = "stopped"] /\ held' = held
      /\ UNCHANGED <<main, rateLimit, keyLoads, ctxDone, poller, gauge, counter, pollCount,
                     readyRead, polled, holder, sched, turn, copied, closed, taken>>
  BY DEF WorkerStep, Reported, Flush, WorkerStop, procVars, pollVars, schedVars
<1>1. AgentTypeOK'
  <2>1. NoMetrics \in Copy
    BY NoMetricsType
  <2>2. /\ worker' \in [AllWorkers -> {"off", "select", "busy", "stopped"}]
        /\ held' \in [AllWorkers -> Copy]
    BY <1>a, <1>b, <2>1 DEF AgentTypeOK
  <2> QED
    BY <1>a, <1>b, <2>2 DEF AgentTypeOK
<1>2. \A v \in AllWorkers : worker'[v] = "busy" => worker[v] = "busy" /\ held'[v] = held[v]
  BY <1>a, <1>b DEF AgentTypeOK
<1> QED
  BY <1>b, <1>1, <1>2, OthersKeep

LEMMA MainKeeps ==
    ASSUME AgentInv, StartReporters \/ StartFails \/ Signal \/ RunReturns \/ UNCHANGED agentVars
    PROVE  AgentInv'
<1>a. AgentTypeOK
  BY DEF AgentInv
<1>b. UNCHANGED <<rateLimit, keyLoads, poller, gauge, counter, pollCount, readyRead, polled,
                  holder, sched, turn, copied, closed, held, taken>>
  BY DEF StartReporters, StartFails, Signal, RunReturns, procVars, pollVars, schedVars,
         workVars, agentVars
<1>1. main' \in {"starting", "waiting", "returned", "failed"} /\ ctxDone' \in BOOLEAN
  BY <1>a DEF StartReporters, StartFails, Signal, RunReturns, agentVars, procVars, AgentTypeOK
<1>2. \/ worker' = worker
      \/ worker' = [w \in AllWorkers |-> IF w \in Workers THEN "select" ELSE "off"]
  BY DEF StartReporters, StartFails, Signal, RunReturns, agentVars, workVars
<1>3. worker' \in [AllWorkers -> {"off", "select", "busy", "stopped"}]
  BY <1>a, <1>2 DEF AgentTypeOK
<1>4. AgentTypeOK'
  BY <1>a, <1>b, <1>1, <1>3 DEF AgentTypeOK
<1>5. \A w \in AllWorkers : worker'[w] = "busy" => worker[w] = "busy" /\ held'[w] = held[w]
  BY <1>b, <1>2
<1> QED
  BY <1>b, <1>4, <1>5, OthersKeep

LEMMA WorkersType == AgentTypeOK => Workers \subseteq AllWorkers
BY DEF AgentTypeOK, Workers, AllWorkers

LEMMA AgentNextKeeps == AgentInv /\ [AgentNext]_agentVars => AgentInv'
<1> SUFFICES ASSUME AgentInv, [AgentNext]_agentVars PROVE AgentInv'
  OBVIOUS
<1>1. CASE UNCHANGED agentVars \/ StartReporters \/ StartFails \/ Signal \/ RunReturns
  BY <1>1, MainKeeps
<1>2. ASSUME NEW p \in PollerSet, PollerStep(p) PROVE AgentInv'
  BY <1>2, PollersKeep
<1>3. CASE SchedulerStep
  BY <1>3, AwaitFirstPollKeeps, GetRLockKeeps, GetGaugesKeeps, GetCountersKeeps,
     SchedulerRestKeeps DEF SchedulerStep
<1>4. ASSUME NEW w \in Workers, Send(w) \/ WorkerStep(w) PROVE AgentInv'
  <2>1. w \in AllWorkers
    BY WorkersType DEF AgentInv
  <2> QED
    BY <1>4, <2>1, SendKeeps, WorkersKeep
<1> QED
  BY <1>1, <1>2, <1>3, <1>4 DEF AgentNext, AgentStep

----------------------------------------------------------------------------
(* What the specification promises.                                        *)

\* In every reachable state of Agent, for any pollers and any rate limit,
\* AgentInv holds: who has which mutex, what was polled and what is carried on
\* (Poller, Scheduler, Reporter).
THEOREM AgentInvariant == AgentSpec => []AgentInv
BY AgentInitInv, AgentNextKeeps, PTL DEF AgentSpec

\* The variables of the agent have their types, the counts of a poller within
\* the polls it makes (startWorkers, Poller, Scheduler, Reporter).
THEOREM AgentTypes == AgentSpec => []AgentTypeOK
BY AgentInvariant, PTL DEF AgentInv

\* What a reporter has taken is the outcome of one whole poll: the mutex of the
\* poller keeps the three reads of Get together, and readyRead keeps Get away
\* until there was a poll.
THEOREM ReportsAreWholePollsAlways == AgentSpec => []ReportsAreWholePolls
<1>1. AgentInv => ReportsAreWholePolls
  BY DEF AgentInv, WorkersInv, Whole, ReportsAreWholePolls
<1> QED
  BY <1>1, AgentInvariant, PTL

LEMMA TakenInOrderStep ==
    ASSUME AgentInv, [AgentNext]_agentVars, NEW p \in PollerSet
    PROVE  taken'[p].pollCount >= taken[p].pollCount
<1>a. AgentTypeOK /\ SchedulerInv
  BY DEF AgentInv
<1>1. \A q \in PollerSet : taken[q].pollCount \in Nat
  BY <1>a, AgentAssumption DEF AgentTypeOK, Copy
<1>2. CASE taken' = taken
  BY <1>1, <1>2
<1>3. ASSUME NEW w \in Workers, Send(w)
      PROVE  taken'[p].pollCount >= taken[p].pollCount
  <2>1. taken' = [taken EXCEPT ![Current] = copied]
    BY <1>a, <1>3, SendKeeps, WorkersType
  <2>2. taken[Current].pollCount <= copied.pollCount
    BY <1>a, <1>3 DEF Send, SchedulerInv
  <2>3. taken'[p] = IF p = Current THEN copied ELSE taken[p]
    BY <1>a, <2>1 DEF AgentTypeOK
  <2>4. copied.pollCount \in Nat
    BY <1>a, AgentAssumption DEF AgentTypeOK, Copy
  <2> QED
    BY <1>1, <2>2, <2>3, <2>4, CurrentType, <1>a
<1>4. ASSUME NEW q \in PollerSet, PollerStep(q) PROVE taken' = taken
  BY <1>4 DEF PollerStep, PollLock, PollGauges, PollCounter, CloseReadyRead, PollUnlock,
              PollerStop, workVars
<1>5. SchedulerStep => taken' = taken
  BY DEF SchedulerStep, AwaitFirstPoll, GetRLock, GetGauges, GetCounters, SchedulerTick,
         SchedulerStop, workVars
<1>6. ASSUME NEW w \in Workers, WorkerStep(w) PROVE taken' = taken
  BY <1>6 DEF WorkerStep, Reported, Flush, WorkerStop
<1>7. StartReporters \/ StartFails \/ Signal \/ RunReturns => taken' = taken
  BY DEF StartReporters, StartFails, Signal, RunReturns, workVars
<1>8. UNCHANGED agentVars => taken' = taken
  BY DEF agentVars, workVars
<1> QED
  BY <1>2, <1>3, <1>4, <1>5, <1>6, <1>7, <1>8 DEF AgentNext, AgentStep

\* A copy that leaves the channel is never older than the one of that poller
\* that left it before, whichever reporter takes it.
THEOREM TakenInOrderAlways == AgentSpec => TakenInOrder
<1>1. AgentInv /\ [AgentNext]_agentVars =>
        [\A p \in PollerSet : taken'[p].pollCount >= taken[p].pollCount]_agentVars
  BY TakenInOrderStep
<1> QED
  BY <1>1, AgentInvariant, PTL DEF AgentSpec, TakenInOrder
=============================================================================
