------------------------------ MODULE Delivery ------------------------------
(***************************************************************************)
(* From a poll of the agent to the store of the server: the reporters'     *)
(* report, the retries of RetryableTransport, a network that loses, delays *)
(* and reorders, and a server that applies each batch it receives at one   *)
(* instant (module MetricStore).  The client gives a report 15 s, and a    *)
(* request it has stopped waiting for may still be on its way.             *)
(*                                                                         *)
(* This is the server with memory or file storage.  On a database one      *)
(* request may be applied several times, and a refused one be applied all  *)
(* the same: that is the subject of PgStorage and Exchange.                *)
(*                                                                         *)
(* A report carries the metrics of one poller after poll n: a gauge, whose *)
(* value is n, and PollCount.                                              *)
(***************************************************************************)
EXTENDS Integers, FiniteSets

CONSTANTS
    Reporters,      \* the reporters of the pool
    retryCount,     \* the constant of RetryableTransport: 3 in the code
    MaxPolls,       \* bound: polls
    MaxReports      \* bound: reports

ASSUME DeliveryAssumption ==
    /\ retryCount \in Nat /\ MaxPolls \in Nat \ {0} /\ MaxReports \in Nat

VARIABLES
    polls,          \* PollCount in the agent
    phase,          \* phase[r]: where reporter r is in its report
    report,         \* report[r]: the number of the report it is making
    retries,        \* retries[r]: the variable of RoundTrip
    expired,        \* expired[r]: the 15 s are over
    batches,        \* batches[i]: the metrics in report i
    requests,       \* requests on their way to the server, for ever if lost
    response,       \* response[r]: the answer on the connection of r's attempt
    gauge, counter, \* the metrics of the server
    applied,        \* history: applied[i] is how often report i was applied
    outcome         \* history: outcome[i] is what report returned

clientVars  == <<polls, phase, report, retries, expired, batches, outcome>>
networkVars == <<requests, response>>
serverVars  == <<gauge, counter, applied>>
vars == <<clientVars, networkVars, serverVars>>

----------------------------------------------------------------------------
Reports == 1 .. MaxReports

Request == [report: Reports, attempt: 0 .. retryCount]

Sent == {i \in Reports : batches[i] # 0}

Mine(r) == [report |-> report[r], attempt |-> retries[r]]

DeliveryInit ==
    /\ polls = 1
    /\ phase = [r \in Reporters |-> "idle"]
    /\ report = [r \in Reporters |-> 0]
    /\ retries = [r \in Reporters |-> 0]
    /\ expired = [r \in Reporters |-> FALSE]
    /\ batches = [i \in Reports |-> 0]
    /\ requests = {}
    /\ response = [r \in Reporters |-> "none"]
    /\ gauge = 0 /\ counter = 0
    /\ applied = [i \in Reports |-> 0]
    /\ outcome = [i \in Reports |-> "none"]

----------------------------------------------------------------------------
(* The agent                                                               *)

\* PollRuntimeMetrics sets the gauges and adds one to PollCount.
Poll ==
    /\ polls < MaxPolls
    /\ polls' = polls + 1
    /\ UNCHANGED <<phase, report, retries, expired, batches, outcome, networkVars, serverVars>>

\* Mutant: the metrics may be those of an earlier poll.
ReportEarlier(r) ==
    /\ phase[r] = "idle" /\ Cardinality(Sent) < MaxReports
    /\ LET i == Cardinality(Sent) + 1
       IN  /\ report' = [report EXCEPT ![r] = i]
           /\ \E n \in 1 .. polls : batches' = [batches EXCEPT ![i] = n]
    /\ phase' = [phase EXCEPT ![r] = "post"]
    /\ retries' = [retries EXCEPT ![r] = 0]
    /\ expired' = [expired EXCEPT ![r] = FALSE]
    /\ UNCHANGED <<polls, outcome, networkVars, serverVars>>

\* A reporter takes the metrics as they are now and makes the body of a
\* request of them: every gauge, and every counter with its value as Delta.
Report(r) ==
    /\ phase[r] = "idle" /\ Cardinality(Sent) < MaxReports
    /\ LET i == Cardinality(Sent) + 1
       IN  /\ report' = [report EXCEPT ![r] = i]
           /\ batches' = [batches EXCEPT ![i] = polls]
    /\ phase' = [phase EXCEPT ![r] = "post"]
    /\ retries' = [retries EXCEPT ![r] = 0]
    /\ expired' = [expired EXCEPT ![r] = FALSE]
    /\ UNCHANGED <<polls, outcome, networkVars, serverVars>>

Ends(r, how) ==
    /\ phase' = [phase EXCEPT ![r] = "idle"]
    /\ outcome' = [outcome EXCEPT ![report[r]] = how]

\* The encoder cannot encrypt the body: nothing is sent.
EncodeFails(r) ==
    /\ phase[r] = "post" /\ retries[r] = 0
    /\ Ends(r, "failed")
    /\ UNCHANGED <<polls, report, retries, expired, batches, networkVars, serverVars>>

\* The transport sends nothing any more when the 15 s are over.
Post(r) ==
    /\ phase[r] = "post" /\ ~expired[r]
    /\ requests' = requests \cup {Mine(r)}
    /\ phase' = [phase EXCEPT ![r] = "wait"]
    /\ UNCHANGED <<polls, report, retries, expired, batches, outcome, response, serverVars>>

\* Mutant: one retry too many.
AttemptFailsOnceMore(r) ==
    /\ phase[r] = "wait" \/ (phase[r] = "post" /\ expired[r])
    /\ response' = [response EXCEPT ![r] = "none"]
    /\ IF retries[r] <= retryCount
       THEN /\ retries' = [retries EXCEPT ![r] = @ + 1]
            /\ phase' = [phase EXCEPT ![r] = "post"]
            /\ UNCHANGED outcome
       ELSE Ends(r, "failed") /\ UNCHANGED retries
    /\ UNCHANGED <<polls, report, expired, batches, requests, serverVars>>

\* Mutant: the retries are not counted.
AttemptFailsUncounted(r) ==
    /\ phase[r] = "wait" \/ (phase[r] = "post" /\ expired[r])
    /\ response' = [response EXCEPT ![r] = "none"]
    /\ phase' = [phase EXCEPT ![r] = "post"]
    /\ UNCHANGED <<polls, report, retries, expired, batches, outcome, requests, serverVars>>

\* Mutant: an attempt that begins after the 15 s does not return.
AttemptFailsInTime(r) ==
    /\ phase[r] = "wait"
    /\ response' = [response EXCEPT ![r] = "none"]
    /\ IF retries[r] < retryCount
       THEN /\ retries' = [retries EXCEPT ![r] = @ + 1]
            /\ phase' = [phase EXCEPT ![r] = "post"]
            /\ UNCHANGED outcome
       ELSE Ends(r, "failed") /\ UNCHANGED retries
    /\ UNCHANGED <<polls, report, expired, batches, requests, serverVars>>

\* An error, or 502, 503, 504 of something in between: RoundTrip sleeps and
\* sends the same body again, three times at most.
AttemptFails(r) ==
    /\ phase[r] = "wait" \/ (phase[r] = "post" /\ expired[r])
    /\ response' = [response EXCEPT ![r] = "none"]
    /\ IF retries[r] < retryCount
       THEN /\ retries' = [retries EXCEPT ![r] = @ + 1]
            /\ phase' = [phase EXCEPT ![r] = "post"]
            /\ UNCHANGED outcome
       ELSE Ends(r, "failed") /\ UNCHANGED retries
    /\ UNCHANGED <<polls, report, expired, batches, requests, serverVars>>

\* Mutant: report does not look at the status.
ReceiveAny(r) ==
    /\ phase[r] = "wait" /\ response[r] # "none" /\ ~expired[r]
    /\ Ends(r, "succeeded")
    /\ response' = [response EXCEPT ![r] = "none"]
    /\ UNCHANGED <<polls, report, retries, expired, batches, requests, serverVars>>

\* The answer of the server to this attempt: report fails unless the status is
\* 200 and the body is read to its end.  Neither failure is tried again.
Receive(r) ==
    /\ phase[r] = "wait" /\ response[r] # "none" /\ ~expired[r]
    /\ \E how \in IF response[r] = "ok" THEN {"succeeded", "failed"} ELSE {"failed"} :
          Ends(r, how)
    /\ response' = [response EXCEPT ![r] = "none"]
    /\ UNCHANGED <<polls, report, retries, expired, batches, requests, serverVars>>

ClientTimeout(r) ==
    /\ phase[r] # "idle" /\ ~expired[r]
    /\ expired' = [expired EXCEPT ![r] = TRUE]
    /\ UNCHANGED <<polls, phase, report, retries, batches, outcome, networkVars, serverVars>>

----------------------------------------------------------------------------
(* The network and the server                                              *)

\* The server answers q; nobody reads the answer to an attempt given up.
Answer(q, how) ==
    response' = [r \in Reporters |->
                    IF phase[r] = "wait" /\ Mine(r) = q THEN how ELSE response[r]]

\* The server applies the whole batch, once for a request that has arrived: the
\* gauge is replaced, the counter is added to.
Serve(q) ==
    /\ requests' = requests \ {q}
    /\ gauge' = batches[q.report]
    /\ counter' = counter + batches[q.report]
    /\ applied' = [applied EXCEPT ![q.report] = @ + 1]
    /\ Answer(q, "ok")
    /\ UNCHANGED clientVars

\* It refuses the request with 400 or 500, and changes nothing: memory and file
\* storage have no error that comes after a change.
Refuse(q) ==
    /\ requests' = requests \ {q}
    /\ Answer(q, "refused")
    /\ UNCHANGED <<clientVars, serverVars>>

ReporterStep(r) == EncodeFails(r) \/ Post(r) \/ AttemptFails(r) \/ Receive(r)

DeliveryNext ==
    \/ Poll
    \/ \E r \in Reporters : Report(r) \/ ReporterStep(r) \/ ClientTimeout(r)
    \/ \E q \in requests : Serve(q) \/ Refuse(q)

(* A reporter goes on: an attempt ends, by an answer, an error or the 15 s *)
(* of the client.  Nothing is assumed of the network or of the server.     *)
DeliverySpec ==
    /\ DeliveryInit /\ [][DeliveryNext]_vars
    /\ \A r \in Reporters : WF_vars(ReporterStep(r))

----------------------------------------------------------------------------
\* The type invariant.
DeliveryTypeOK ==
    /\ polls \in 1 .. MaxPolls
    /\ phase \in [Reporters -> {"idle", "post", "wait"}]
    /\ report \in [Reporters -> 0 .. MaxReports]
    /\ retries \in [Reporters -> 0 .. retryCount]
    /\ expired \in [Reporters -> BOOLEAN]
    /\ batches \in [Reports -> 0 .. MaxPolls]
    /\ requests \subseteq Request
    /\ response \in [Reporters -> {"none", "ok", "refused"}]
    /\ gauge \in 0 .. MaxPolls /\ counter \in Nat
    /\ applied \in [Reports -> 0 .. retryCount + 1]
    /\ outcome \in [Reports -> {"none", "succeeded", "failed"}]

\* A report that succeeded was applied, and one that needed no retry was
\* applied once: only a retry can apply a batch again.
SucceededIsApplied ==
    \A r \in Reporters : phase[r] = "idle" /\ report[r] # 0 =>
        /\ outcome[report[r]] = "succeeded" => applied[report[r]] >= 1
        /\ retries[r] = 0 => applied[report[r]] <= 1

\* The server never has more applications of a report than attempts made of
\* it, those that are still on their way counted in.
AppliedAtMostAttempted ==
    \A r \in Reporters : report[r] # 0 =>
        applied[report[r]] + Cardinality({q \in requests : q.report = report[r]})
            <= retries[r] + (IF phase[r] = "post" THEN 0 ELSE 1)

\* A gauge at the server goes back to an older value only by a request that
\* its reporter has given up, or when another reporter has gone ahead: with a
\* rate limit of one, by no request whose answer is waited for.
OnlyOvertakenSetsBack ==
    [][gauge' < gauge =>
          \E q \in requests \ requests' : \A r \in Reporters :
              phase[r] = "wait" /\ Mine(r) = q =>
                  \E s \in Reporters \ {r} : report[s] > report[r]]_vars

\* report returns, whatever the network does.
EveryReportEnds ==
    \A r \in Reporters : phase[r] # "idle" ~> phase[r] = "idle"
============================================================================
