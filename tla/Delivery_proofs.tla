-------------------------- MODULE Delivery_proofs ---------------------------
(***************************************************************************)
(* The safety properties of Delivery, for any number of reporters, polls,  *)
(* reports and retries.                                                    *)
(***************************************************************************)
EXTENDS Delivery, FiniteSetTheorems, TLAPS

\* The requests on their way that carry report i, and the number of reports.
Under(i) == {q \in requests : q.report = i}
Newest   == Cardinality(Sent)

\* The attempts that reporter r has made of its report.
Attempts(r) == retries[r] + (IF phase[r] = "post" THEN 0 ELSE 1)

\* Reports are numbered without gaps, their polls do not go back, and what has
\* not been reported is not applied.
NumberInv ==
    /\ Newest \in 0 .. MaxReports /\ Sent = 1 .. Newest
    /\ \A i \in Sent : batches[i] <= polls
    /\ \A i, j \in Sent : i <= j => batches[i] <= batches[j]
    /\ \A i \in Reports \ Sent : applied[i] = 0 /\ outcome[i] = "none"

\* A report is one reporter's, and the newest is some reporter's last.
OwnerInv ==
    /\ \A r \in Reporters : report[r] # 0 => report[r] \in Sent
    /\ \A r \in Reporters : phase[r] # "idle" => report[r] # 0
    /\ \A r, s \in Reporters : report[r] = report[s] /\ report[r] # 0 => r = s
    /\ Newest # 0 => \E r \in Reporters : report[r] = Newest

\* A request carries a report that was made, and an attempt that was made.
RequestInv ==
    /\ IsFiniteSet(requests)
    /\ \A q \in requests : q.report \in Sent
    /\ \A q \in requests : \A r \in Reporters :
          report[r] = q.report => q.attempt < Attempts(r)

\* How often a report was applied, or may still be.
CountInv ==
    /\ \A i \in Reports : applied[i] + Cardinality(Under(i)) <= retryCount + 1
    /\ \A r \in Reporters : report[r] # 0 =>
          applied[report[r]] + Cardinality(Under(report[r])) <= Attempts(r)

\* An answer is one to the attempt that is waiting, and 200 means applied.
AnswerInv ==
    /\ \A r \in Reporters : response[r] # "none" => phase[r] = "wait"
    /\ \A r \in Reporters : response[r] = "ok" => applied[report[r]] >= 1
    /\ \A i \in Reports : outcome[i] = "succeeded" => applied[i] >= 1

\* The gauge of the server came with one of the reports.
GaugeInv == gauge = 0 \/ \E i \in Sent : gauge = batches[i]

DeliveryInv ==
    /\ DeliveryTypeOK /\ NumberInv /\ OwnerInv /\ RequestInv
    /\ CountInv /\ AnswerInv /\ GaugeInv

----------------------------------------------------------------------------
(* Requests are counted by the report they carry.                          *)

LEMMA UnderType ==
    ASSUME IsFiniteSet(requests), NEW i
    PROVE  IsFiniteSet(Under(i)) /\ Cardinality(Under(i)) \in Nat
<1>1. Under(i) \in SUBSET requests
  BY DEF Under
<1> QED
  BY <1>1, FS_Subset, FS_CardinalityType

\* A request that was not there adds one to its report.
LEMMA UnderAdd ==
    ASSUME IsFiniteSet(requests), NEW q, q \notin requests,
           requests' = requests \cup {q}
    PROVE  /\ IsFiniteSet(requests')
           /\ \A i : Cardinality(Under(i))' =
                 Cardinality(Under(i)) + (IF i = q.report THEN 1 ELSE 0)
<1>1. IsFiniteSet(requests')
  BY FS_AddElement
<1>2. ASSUME NEW i
      PROVE  Cardinality(Under(i))' =
                Cardinality(Under(i)) + (IF i = q.report THEN 1 ELSE 0)
  <2>1. IsFiniteSet(Under(i)) /\ Cardinality(Under(i)) \in Nat
    BY UnderType
  <2>2. CASE i = q.report
    <3>1. Under(i)' = Under(i) \cup {q} /\ q \notin Under(i)
      BY <2>2 DEF Under
    <3> QED
      BY <2>1, <2>2, <3>1, FS_AddElement
  <2>3. CASE i # q.report
    <3>1. Under(i)' = Under(i)
      BY <2>3 DEF Under
    <3> QED
      BY <2>1, <2>3, <3>1
  <2> QED
    BY <2>2, <2>3
<1> QED
  BY <1>1, <1>2

\* A request that is taken away was counted for its report.
LEMMA UnderRemove ==
    ASSUME IsFiniteSet(requests), NEW q \in requests,
           requests' = requests \ {q}
    PROVE  /\ IsFiniteSet(requests')
           /\ \A i : Cardinality(Under(i))' =
                 Cardinality(Under(i)) - (IF i = q.report THEN 1 ELSE 0)
<1>1. IsFiniteSet(requests')
  BY FS_RemoveElement
<1>2. ASSUME NEW i
      PROVE  Cardinality(Under(i))' =
                Cardinality(Under(i)) - (IF i = q.report THEN 1 ELSE 0)
  <2>1. IsFiniteSet(Under(i)) /\ Cardinality(Under(i)) \in Nat
    BY UnderType
  <2>2. CASE i = q.report
    <3>1. Under(i)' = Under(i) \ {q} /\ q \in Under(i)
      BY <2>2 DEF Under
    <3> QED
      BY <2>1, <2>2, <3>1, FS_RemoveElement
  <2>3. CASE i # q.report
    <3>1. Under(i)' = Under(i)
      BY <2>3 DEF Under
    <3> QED
      BY <2>1, <2>3, <3>1
  <2> QED
    BY <2>2, <2>3
<1> QED
  BY <1>1, <1>2

\* Nothing is counted of a report that nobody has made.
LEMMA UnderNothing ==
    ASSUME DeliveryInv, NEW i \in Reports \ Sent
    PROVE  Cardinality(Under(i)) = 0
<1>1. Under(i) = {}
  BY DEF DeliveryInv, RequestInv, Under
<1> QED
  BY <1>1, FS_EmptySet

\* What a reporter that is not idle works on.
LEMMA MineType ==
    ASSUME DeliveryInv, NEW r \in Reporters, phase[r] # "idle"
    PROVE  /\ report[r] \in Reports /\ report[r] \in Sent /\ report[r] # 0
           /\ Mine(r) \in Request
           /\ Mine(r).report = report[r] /\ Mine(r).attempt = retries[r]
<1>1. report[r] \in Sent /\ report[r] # 0
  BY DEF DeliveryInv, OwnerInv
<1>2. report[r] \in Reports /\ retries[r] \in 0 .. retryCount
  BY <1>1 DEF Sent, DeliveryInv, DeliveryTypeOK
<1> QED
  BY <1>1, <1>2 DEF Mine, Request
----------------------------------------------------------------------------
(* The initial state, and every action, establishes the invariant.         *)

LEMMA DeliveryInitInv == DeliveryInit => DeliveryInv
<1> SUFFICES ASSUME DeliveryInit PROVE DeliveryInv
  OBVIOUS
<1> USE DEF DeliveryInit
<1>1. DeliveryTypeOK
  BY DeliveryAssumption DEF DeliveryTypeOK, Reports, Request
<1>2. Sent = {} /\ Newest = 0
  BY FS_EmptySet DEF Sent, Newest
<1>3. NumberInv
  BY <1>2, DeliveryAssumption DEF NumberInv, Reports
<1>4. OwnerInv
  BY <1>2 DEF OwnerInv
<1>5. RequestInv
  BY FS_EmptySet DEF RequestInv
<1>6. CountInv
  <2>1. \A i : Under(i) = {}
    BY DEF Under
  <2>2. \A i \in Reports : applied[i] + Cardinality(Under(i)) = 0
    BY <2>1, FS_EmptySet
  <2> QED
    BY <2>2, DeliveryAssumption DEF CountInv
<1>7. AnswerInv
  BY DEF AnswerInv
<1>8. GaugeInv
  BY DEF GaugeInv
<1> QED
  BY <1>1, <1>3, <1>4, <1>5, <1>6, <1>7, <1>8 DEF DeliveryInv

\* The values that the invariant adds and compares are numbers.
LEMMA CountTypes ==
    ASSUME DeliveryInv
    PROVE  /\ \A q \in requests : q.attempt \in Nat /\ q.report \in Reports
           /\ \A i : Cardinality(Under(i)) \in Nat
           /\ \A i \in Reports : applied[i] \in Nat
           /\ \A r \in Reporters : Attempts(r) \in 0 .. retryCount + 1
           /\ \A r \in Reporters : report[r] # 0 => report[r] \in Reports
           /\ \A i \in Reports : batches[i] \in Nat
<1> USE DEF DeliveryInv
<1>1. \A q \in requests : q.attempt \in Nat /\ q.report \in Reports
  <2>1. requests \subseteq Request
    BY DEF DeliveryTypeOK
  <2> QED
    BY <2>1, DeliveryAssumption DEF Request
<1>2. \A i : Cardinality(Under(i)) \in Nat
  BY UnderType DEF RequestInv
<1>3. \A i \in Reports : applied[i] \in Nat /\ batches[i] \in Nat
  BY DeliveryAssumption DEF DeliveryTypeOK
<1>4. \A r \in Reporters : Attempts(r) \in 0 .. retryCount + 1
  <2>1. \A r \in Reporters : retries[r] \in 0 .. retryCount
    BY DEF DeliveryTypeOK
  <2> QED
    BY <2>1, DeliveryAssumption DEF Attempts
<1>5. \A r \in Reporters : report[r] # 0 => report[r] \in Reports
  BY DEF OwnerInv, Sent
<1> QED
  BY <1>1, <1>2, <1>3, <1>4, <1>5

\* A step that makes no report and sends, applies and answers no request keeps
\* the invariant when it forgets no attempt and reports no false success.
LEMMA SameRequests ==
    ASSUME DeliveryInv, DeliveryTypeOK',
           UNCHANGED <<report, batches, requests, gauge, applied>>,
           polls' >= polls,
           \A s \in Reporters : Attempts(s)' >= Attempts(s),
           \A s \in Reporters : phase'[s] # "idle" => phase[s] # "idle",
           \A s \in Reporters : response'[s] # "none" =>
               phase'[s] = "wait" /\ response'[s] = response[s],
           \A i \in Reports : outcome'[i] # outcome[i] =>
               i \in Sent /\ (outcome'[i] = "succeeded" => applied[i] >= 1)
    PROVE  DeliveryInv'
<1>0. Sent' = Sent /\ Newest' = Newest /\ \A i : Under(i)' = Under(i)
  BY DEF Sent, Newest, Under
<1>a. /\ DeliveryTypeOK /\ NumberInv /\ OwnerInv /\ RequestInv
      /\ CountInv /\ AnswerInv /\ GaugeInv
  BY DEF DeliveryInv
<1>b. /\ \A q \in requests : q.attempt \in Nat /\ q.report \in Reports
      /\ \A i : Cardinality(Under(i)) \in Nat
      /\ \A i \in Reports : applied[i] \in Nat /\ batches[i] \in Nat
      /\ \A r \in Reporters : report[r] # 0 => report[r] \in Reports
      /\ \A r \in Reporters : Attempts(r) \in Nat
  BY CountTypes, DeliveryAssumption
<1>c. polls \in Nat /\ polls' \in Nat
  BY <1>a, DeliveryAssumption DEF DeliveryTypeOK
<1>d. \A r \in Reporters : Attempts(r)' \in Nat
  <2>1. \A r \in Reporters : retries'[r] \in Nat
    BY DeliveryAssumption DEF DeliveryTypeOK
  <2> QED
    BY <2>1 DEF Attempts
<1>2. NumberInv'
  <2>1. \A i \in Sent : batches[i] <= polls'
    BY <1>a, <1>b, <1>c DEF NumberInv, Sent
  <2>2. \A i \in Reports \ Sent : outcome'[i] = "none"
    BY <1>a DEF NumberInv
  <2> QED
    BY <1>0, <1>a, <2>1, <2>2 DEF NumberInv
<1>3. OwnerInv'
  BY <1>0, <1>a DEF OwnerInv
<1>4. RequestInv'
  <2>1. \A q \in requests : \A r \in Reporters :
           report[r] = q.report => q.attempt < Attempts(r)'
    BY <1>a, <1>b, <1>d DEF RequestInv
  <2> QED
    BY <1>0, <1>a, <2>1 DEF RequestInv
<1>5. CountInv'
  <2>1. \A r \in Reporters : report[r] # 0 =>
           applied[report[r]] + Cardinality(Under(report[r])) <= Attempts(r)'
    BY <1>a, <1>b, <1>d DEF CountInv
  <2> QED
    BY <1>0, <1>a, <2>1 DEF CountInv
<1>6. AnswerInv'
  BY <1>a DEF AnswerInv
<1>7. GaugeInv'
  BY <1>0, <1>a DEF GaugeInv
<1> QED
  BY <1>2, <1>3, <1>4, <1>5, <1>6, <1>7 DEF DeliveryInv

LEMMA PollKeeps ==
    ASSUME DeliveryInv, Poll
    PROVE  DeliveryInv'
<1>0. /\ polls < MaxPolls /\ polls' = polls + 1
      /\ UNCHANGED <<phase, report, retries, expired, batches, outcome, requests,
                     response, gauge, counter, applied>>
  BY DEF Poll, networkVars, serverVars
<1>a. DeliveryTypeOK /\ AnswerInv
  BY DEF DeliveryInv
<1>1. polls \in Nat /\ polls' \in 1 .. MaxPolls
  BY <1>0, <1>a, DeliveryAssumption DEF DeliveryTypeOK
<1>2. DeliveryTypeOK'
  BY <1>0, <1>1, <1>a DEF DeliveryTypeOK
<1>3. \A s \in Reporters : Attempts(s)' = Attempts(s) /\ Attempts(s) \in Nat
  BY <1>0, CountTypes, DeliveryAssumption DEF Attempts
<1> QED
  BY <1>0, <1>1, <1>2, <1>3, <1>a, SameRequests DEF AnswerInv

\* A report takes the next number, and its reporter leaves the one before.
LEMMA ReportKeeps ==
    ASSUME DeliveryInv, NEW r \in Reporters, Report(r)
    PROVE  DeliveryInv'
<1> DEFINE i == Newest + 1
<1>0. /\ phase[r] = "idle" /\ Newest < MaxReports
      /\ report' = [report EXCEPT ![r] = i]
      /\ batches' = [batches EXCEPT ![i] = polls]
      /\ phase' = [phase EXCEPT ![r] = "post"]
      /\ retries' = [retries EXCEPT ![r] = 0]
      /\ expired' = [expired EXCEPT ![r] = FALSE]
      /\ UNCHANGED <<polls, outcome, requests, response, gauge, counter, applied>>
  BY DEF Report, Newest, networkVars, serverVars
<1>a. /\ DeliveryTypeOK /\ NumberInv /\ OwnerInv /\ RequestInv
      /\ CountInv /\ AnswerInv /\ GaugeInv
  BY DEF DeliveryInv
<1>b. i \in Reports \ Sent /\ i # 0 /\ Newest \in Nat /\ i = Newest + 1
  BY <1>0, <1>a, DeliveryAssumption DEF NumberInv, Reports
<1> HIDE DEF i
<1>c. polls \in 1 .. MaxPolls /\ polls # 0 /\ batches \in [Reports -> 0 .. MaxPolls]
  BY <1>a DEF DeliveryTypeOK
<1>d. Sent' = Sent \cup {i} /\ i \in Sent'
  BY <1>0, <1>b, <1>c DEF Sent
<1>e. Newest' = i
  <2>1. Sent' = 1 .. i
    BY <1>a, <1>b, <1>d DEF NumberInv
  <2> QED
    BY <2>1, <1>b, FS_Interval DEF Newest
<1>f. \A j : Under(j)' = Under(j)
  BY <1>0 DEF Under
<1>g. \A j \in Sent : batches'[j] = batches[j]
  BY <1>0, <1>b, <1>c DEF Sent
<1>h. batches'[i] = polls /\ Sent \subseteq Reports
  BY <1>0, <1>b, <1>c DEF Sent
<1>1. DeliveryTypeOK'
  <2>1. polls \in 0 .. MaxPolls /\ 0 \in 0 .. retryCount /\ i \in 0 .. MaxReports
    BY <1>b, <1>c, DeliveryAssumption DEF Reports
  <2> QED
    BY <1>0, <1>a, <1>b, <2>1 DEF DeliveryTypeOK
<1>2. NumberInv'
  <2>1. Newest' \in 0 .. MaxReports /\ Sent' = 1 .. Newest'
    BY <1>0, <1>a, <1>b, <1>d, <1>e, DeliveryAssumption DEF NumberInv
  <2>2. \A j \in Sent' : batches'[j] <= polls'
    BY <1>0, <1>a, <1>c, <1>d, <1>g, <1>h DEF NumberInv
  <2>3. \A j, k \in Sent' : j <= k => batches'[j] <= batches'[k]
    <3>1. \A j \in Sent : j <= Newest /\ j \in Nat /\ batches[j] <= polls /\ batches[j] \in Nat
      BY <1>a, <1>b, <1>c DEF NumberInv, Sent
    <3> QED
      BY <1>a, <1>b, <1>c, <1>d, <1>g, <1>h, <3>1 DEF NumberInv
  <2>4. \A j \in (Reports \ Sent)' : applied'[j] = 0 /\ outcome'[j] = "none"
    BY <1>0, <1>a, <1>d DEF NumberInv, Reports
  <2> QED
    BY <2>1, <2>2, <2>3, <2>4 DEF NumberInv
<1>3. OwnerInv'
  <2>1. report'[r] = i /\ \A s \in Reporters \ {r} : report'[s] = report[s] /\ report'[s] # i
    BY <1>0, <1>a, <1>b DEF DeliveryTypeOK, OwnerInv
  <2>2. phase'[r] = "post" /\ \A s \in Reporters \ {r} : phase'[s] = phase[s]
    BY <1>0, <1>a DEF DeliveryTypeOK
  <2> QED
    BY <1>a, <1>b, <1>d, <1>e, <2>1, <2>2 DEF OwnerInv
<1>4. RequestInv'
  <2>1. \A q \in requests : q.report # i
    BY <1>a, <1>b DEF RequestInv
  <2> QED
    BY <1>0, <1>a, <1>d, <2>1 DEF RequestInv, Attempts, DeliveryTypeOK
<1>5. CountInv'
  <2>1. Cardinality(Under(i)) = 0 /\ applied[i] = 0
    BY <1>a, <1>b, UnderNothing DEF NumberInv
  <2>2. Attempts(r)' = 0 /\ report'[r] = i
    BY <1>0, <1>a DEF Attempts, DeliveryTypeOK
  <2>3. \A s \in Reporters \ {r} : Attempts(s)' = Attempts(s) /\ report'[s] = report[s]
    BY <1>0, <1>a DEF Attempts, DeliveryTypeOK
  <2> QED
    BY <1>0, <1>a, <1>f, <2>1, <2>2, <2>3 DEF CountInv, Reports
<1>6. AnswerInv'
  <2>1. response[r] = "none"
    BY <1>0, <1>a DEF AnswerInv, DeliveryTypeOK
  <2> QED
    BY <1>0, <1>a, <2>1 DEF AnswerInv, DeliveryTypeOK, Reports
<1>7. GaugeInv'
  BY <1>0, <1>a, <1>d, <1>g DEF GaugeInv
<1> QED
  BY <1>1, <1>2, <1>3, <1>4, <1>5, <1>6, <1>7 DEF DeliveryInv

\* The end of a report: its number is free of attempts to come.
LEMMA EncodeFailsKeeps ==
    ASSUME DeliveryInv, NEW r \in Reporters, EncodeFails(r)
    PROVE  DeliveryInv'
<1>0. /\ phase[r] = "post" /\ phase' = [phase EXCEPT ![r] = "idle"]
      /\ outcome' = [outcome EXCEPT ![report[r]] = "failed"]
      /\ UNCHANGED <<polls, report, retries, expired, batches, requests,
                     response, gauge, counter, applied>>
  BY DEF EncodeFails, Ends, networkVars, serverVars
<1>a. DeliveryTypeOK /\ AnswerInv
  BY DEF DeliveryInv
<1>m. report[r] \in Reports /\ report[r] \in Sent
  BY <1>0, MineType
<1>1. polls' >= polls
  BY <1>0, <1>a, DeliveryAssumption DEF DeliveryTypeOK
<1>2. DeliveryTypeOK'
  BY <1>0, <1>m, <1>a DEF DeliveryTypeOK
<1>3. \A s \in Reporters : Attempts(s)' >= Attempts(s)
  <2>1. \A s \in Reporters : retries[s] \in Nat
    BY <1>a, DeliveryAssumption DEF DeliveryTypeOK
  <2>2. \A s \in Reporters : phase'[s] = "post" => phase[s] = "post"
    BY <1>0, <1>a DEF DeliveryTypeOK
  <2> QED
    BY <1>0, <2>1, <2>2 DEF Attempts
<1>4. \A s \in Reporters : s # r => phase'[s] = phase[s]
  BY <1>0, <1>a DEF DeliveryTypeOK
<1>5. response[r] = "none" /\ phase'[r] = "idle"
  BY <1>0, <1>a DEF AnswerInv, DeliveryTypeOK
<1>6. \A i \in Reports : outcome'[i] # outcome[i] => i = report[r] /\ outcome'[i] = "failed"
  BY <1>0, <1>a DEF DeliveryTypeOK
<1>7. \A s \in Reporters : phase'[s] # "idle" => phase[s] # "idle"
  BY <1>0, <1>4
<1>8. \A s \in Reporters : response'[s] # "none" =>
          phase'[s] = "wait" /\ response'[s] = response[s]
  BY <1>0, <1>a, <1>4, <1>5 DEF AnswerInv
<1> QED
  BY <1>0, <1>1, <1>2, <1>3, <1>6, <1>7, <1>8, <1>m, SameRequests

\* Another attempt, or the end of a report.
LEMMA AttemptFailsKeeps ==
    ASSUME DeliveryInv, NEW r \in Reporters, AttemptFails(r)
    PROVE  DeliveryInv'
<1>0. /\ phase[r] \in {"wait", "post"} /\ response' = [response EXCEPT ![r] = "none"]
      /\ UNCHANGED <<polls, report, expired, batches, requests, gauge, counter, applied>>
  BY DEF AttemptFails, serverVars
<1>a. DeliveryTypeOK /\ AnswerInv
  BY DEF DeliveryInv
<1>m. report[r] \in Reports /\ report[r] \in Sent
  BY <1>0, MineType
<1>b. \/ /\ retries[r] < retryCount /\ retries' = [retries EXCEPT ![r] = @ + 1]
         /\ phase' = [phase EXCEPT ![r] = "post"] /\ outcome' = outcome
      \/ /\ phase' = [phase EXCEPT ![r] = "idle"] /\ retries' = retries
         /\ outcome' = [outcome EXCEPT ![report[r]] = "failed"]
  BY DEF AttemptFails, Ends
<1>1. polls' >= polls
  BY <1>0, <1>a, DeliveryAssumption DEF DeliveryTypeOK
<1>c. /\ phase' \in [Reporters -> {"idle", "post", "wait"}]
      /\ retries' \in [Reporters -> 0 .. retryCount]
      /\ outcome' \in [Reports -> {"none", "succeeded", "failed"}]
      /\ response' \in [Reporters -> {"none", "ok", "refused"}]
  <2>1. retries[r] \in 0 .. retryCount
    BY <1>a DEF DeliveryTypeOK
  <2> QED
    BY <1>0, <1>a, <1>b, <1>m, <2>1, DeliveryAssumption DEF DeliveryTypeOK
<1>2. DeliveryTypeOK'
  BY <1>0, <1>c, <1>a DEF DeliveryTypeOK
<1>3. \A s \in Reporters : Attempts(s)' >= Attempts(s)
  <2>1. \A s \in Reporters : retries[s] \in Nat
    BY <1>a, DeliveryAssumption DEF DeliveryTypeOK
  <2>2. \A s \in Reporters : s # r => phase'[s] = phase[s] /\ retries'[s] = retries[s]
    BY <1>a, <1>b DEF DeliveryTypeOK
  <2>3. \/ retries'[r] = retries[r] + 1 /\ phase'[r] = "post"
        \/ retries'[r] = retries[r] /\ phase'[r] = "idle"
    BY <1>a, <1>b DEF DeliveryTypeOK
  <2> QED
    BY <2>1, <2>2, <2>3 DEF Attempts
<1>4. \A s \in Reporters : s # r => phase'[s] = phase[s]
  BY <1>a, <1>b DEF DeliveryTypeOK
<1>5. response'[r] = "none" /\ \A s \in Reporters : s # r => response'[s] = response[s]
  BY <1>0, <1>a DEF DeliveryTypeOK
<1>6. \A i \in Reports : outcome'[i] # outcome[i] => i = report[r] /\ outcome'[i] = "failed"
  BY <1>b, <1>a DEF DeliveryTypeOK
<1>7. \A s \in Reporters : phase'[s] # "idle" => phase[s] # "idle"
  BY <1>0, <1>4
<1>8. \A s \in Reporters : response'[s] # "none" =>
          phase'[s] = "wait" /\ response'[s] = response[s]
  BY <1>a, <1>4, <1>5 DEF AnswerInv
<1> QED
  BY <1>0, <1>1, <1>2, <1>3, <1>6, <1>7, <1>8, <1>m, SameRequests

\* An answer is read: 200 says that the report was applied.
LEMMA ReceiveKeeps ==
    ASSUME DeliveryInv, NEW r \in Reporters, Receive(r)
    PROVE  DeliveryInv'
<1>w. PICK how \in {"succeeded", "failed"} :
          Ends(r, how) /\ (how = "succeeded" => response[r] = "ok")
  BY DEF Receive
<1>0. /\ phase[r] = "wait" /\ response' = [response EXCEPT ![r] = "none"]
      /\ phase' = [phase EXCEPT ![r] = "idle"]
      /\ outcome' = [outcome EXCEPT ![report[r]] = how]
      /\ UNCHANGED <<polls, report, retries, expired, batches, requests,
                     gauge, counter, applied>>
  BY <1>w DEF Receive, Ends, serverVars
<1>a. DeliveryTypeOK /\ AnswerInv
  BY DEF DeliveryInv
<1>m. report[r] \in Reports /\ report[r] \in Sent
  BY <1>0, MineType
<1>h. how \in {"succeeded", "failed"} /\ (how = "succeeded" => applied[report[r]] >= 1)
  BY <1>w, <1>a, <1>0 DEF AnswerInv
<1>1. polls' >= polls
  BY <1>0, <1>a, DeliveryAssumption DEF DeliveryTypeOK
<1>2. DeliveryTypeOK'
  BY <1>0, <1>m, <1>a, <1>h DEF DeliveryTypeOK
<1>3. \A s \in Reporters : Attempts(s)' >= Attempts(s)
  <2>1. \A s \in Reporters : retries[s] \in Nat
    BY <1>a, DeliveryAssumption DEF DeliveryTypeOK
  <2>2. \A s \in Reporters : phase'[s] = "post" => phase[s] = "post"
    BY <1>0, <1>a DEF DeliveryTypeOK
  <2> QED
    BY <1>0, <2>1, <2>2 DEF Attempts
<1>4. \A s \in Reporters : s # r => phase'[s] = phase[s]
  BY <1>0, <1>a DEF DeliveryTypeOK
<1>5. response'[r] = "none" /\ \A s \in Reporters : s # r => response'[s] = response[s]
  BY <1>0, <1>a DEF DeliveryTypeOK
<1>6. \A i \in Reports : outcome'[i] # outcome[i] => i = report[r] /\ outcome'[i] = how
  BY <1>0, <1>a DEF DeliveryTypeOK
<1>7. \A s \in Reporters : phase'[s] # "idle" => phase[s] # "idle"
  BY <1>0, <1>4
<1>8. \A s \in Reporters : response'[s] # "none" =>
          phase'[s] = "wait" /\ response'[s] = response[s]
  BY <1>a, <1>4, <1>5 DEF AnswerInv
<1> QED
  BY <1>0, <1>1, <1>2, <1>3, <1>6, <1>7, <1>8, <1>h, <1>m, SameRequests

\* The 15 s end, or nothing happens at all.
LEMMA ClientTimeoutKeeps ==
    ASSUME DeliveryInv, DeliveryTypeOK',
           UNCHANGED <<polls, phase, report, retries, batches, requests,
                       response, gauge, applied, outcome>>
    PROVE  DeliveryInv'
<1>a. DeliveryTypeOK /\ AnswerInv
  BY DEF DeliveryInv
<1>1. polls' >= polls
  BY <1>a, DeliveryAssumption DEF DeliveryTypeOK
<1>2. \A s \in Reporters : Attempts(s)' = Attempts(s) /\ Attempts(s) \in Nat
  BY CountTypes, DeliveryAssumption DEF Attempts
<1> QED
  BY <1>1, <1>2, <1>a, SameRequests DEF AnswerInv

\* The counts after a step, when the step leaves the reporters' numbers.
LEMMA CountAgain ==
    ASSUME report' = report,
           \A s \in Reporters : report[s] # 0 => report[s] \in Reports,
           \A i \in Reports : applied'[i] + Cardinality(Under(i))' <= retryCount + 1,
           \A s \in Reporters : \A i \in Reports : report[s] # 0 /\ i = report[s] =>
               applied'[i] + Cardinality(Under(i))' <= Attempts(s)'
    PROVE  CountInv'
<1>1. ASSUME NEW s \in Reporters, report'[s] # 0
      PROVE  applied'[report'[s]] + Cardinality({q \in requests' : q.report = report'[s]})
                <= Attempts(s)'
  BY <1>1 DEF Under
<1>2. \A i \in Reports :
         applied'[i] + Cardinality({q \in requests' : q.report = i}) <= retryCount + 1
  BY DEF Under
<1> QED
  BY <1>1, <1>2 DEF CountInv, Under

\* An attempt is sent: it is on its way for the first time.
LEMMA PostKeeps ==
    ASSUME DeliveryInv, NEW r \in Reporters, Post(r)
    PROVE  DeliveryInv'
<1>0. /\ phase[r] = "post" /\ requests' = requests \cup {Mine(r)}
      /\ phase' = [phase EXCEPT ![r] = "wait"]
      /\ UNCHANGED <<polls, report, retries, expired, batches, response,
                     gauge, counter, applied, outcome>>
  BY DEF Post, serverVars
<1>a. /\ DeliveryTypeOK /\ NumberInv /\ OwnerInv /\ RequestInv
      /\ CountInv /\ AnswerInv /\ GaugeInv
  BY DEF DeliveryInv
<1>m. /\ report[r] \in Sent /\ report[r] \in Reports /\ report[r] # 0
      /\ Mine(r) \in Request
      /\ Mine(r).report = report[r] /\ Mine(r).attempt = retries[r]
  BY <1>0, MineType
<1>b. /\ \A q \in requests : q.attempt \in Nat /\ q.report \in Reports
      /\ \A i : Cardinality(Under(i)) \in Nat
      /\ \A i \in Reports : applied[i] \in Nat
      /\ \A s \in Reporters : report[s] # 0 => report[s] \in Reports
      /\ \A s \in Reporters : Attempts(s) \in Nat
  BY CountTypes, DeliveryAssumption
<1>c. retries[r] \in Nat /\ retries[r] <= retryCount /\ Attempts(r) = retries[r]
  BY <1>0, <1>a, DeliveryAssumption DEF DeliveryTypeOK, Attempts
<1>d. Mine(r) \notin requests
  BY <1>a, <1>c, <1>m DEF RequestInv
<1>e. /\ IsFiniteSet(requests')
      /\ \A i : Cardinality(Under(i))' =
            Cardinality(Under(i)) + (IF i = report[r] THEN 1 ELSE 0)
  BY <1>0, <1>a, <1>d, <1>m, UnderAdd DEF RequestInv
<1>f. Sent' = Sent /\ Newest' = Newest
  BY <1>0 DEF Sent, Newest
<1>g. phase'[r] = "wait" /\ \A s \in Reporters : s # r => phase'[s] = phase[s]
  BY <1>0, <1>a DEF DeliveryTypeOK
<1>h. Attempts(r)' = retries[r] + 1 /\ \A s \in Reporters : s # r => Attempts(s)' = Attempts(s)
  BY <1>0, <1>g DEF Attempts
<1>1. DeliveryTypeOK'
  BY <1>0, <1>a, <1>m DEF DeliveryTypeOK
<1>2. NumberInv'
  BY <1>0, <1>a, <1>f DEF NumberInv
<1>3. OwnerInv'
  BY <1>0, <1>a, <1>f, <1>g, <1>m DEF OwnerInv
<1>4. RequestInv'
  <2>1. ASSUME NEW q \in requests', NEW s \in Reporters, report[s] = q.report
        PROVE  q.attempt < Attempts(s)'
    <3>1. CASE q = Mine(r)
      <4>1. s = r
        BY <1>a, <1>m, <2>1, <3>1 DEF OwnerInv
      <4> QED
        BY <1>c, <1>h, <1>m, <3>1, <4>1
    <3>2. CASE q \in requests
      <4>1. q.attempt < Attempts(s)
        BY <1>a, <2>1, <3>2 DEF RequestInv
      <4> QED
        BY <1>b, <1>c, <1>h, <3>2, <4>1
    <3> QED
      BY <1>0, <3>1, <3>2
  <2>2. \A q \in requests' : q.report \in Sent
    BY <1>0, <1>a, <1>m DEF RequestInv
  <2> QED
    BY <1>0, <1>e, <1>f, <2>1, <2>2 DEF RequestInv
<1>5. CountInv'
  <2>1. \A i \in Reports : i # report[r] =>
           applied[i] + Cardinality(Under(i))' <= retryCount + 1
    BY <1>a, <1>b, <1>e DEF CountInv
  <2>2. applied[report[r]] + Cardinality(Under(report[r])) <= retries[r]
    BY <1>a, <1>c, <1>m DEF CountInv
  <2>3. ASSUME NEW i \in Reports, i = report[r]
        PROVE  applied[i] + Cardinality(Under(i))' <= retries[r] + 1
    <3>1. Cardinality(Under(i))' = Cardinality(Under(i)) + 1
      BY <1>e, <2>3
    <3>2. Cardinality(Under(i)) \in Nat /\ applied[i] \in Nat
      BY <1>b
    <3>3. applied[i] + Cardinality(Under(i)) <= retries[r]
      BY <2>2, <2>3
    <3> QED
      BY <1>c, <3>1, <3>2, <3>3
  <2>4. ASSUME NEW s \in Reporters, s # r, NEW i \in Reports, i = report[s], i # 0
        PROVE  applied[i] + Cardinality(Under(i))' <= Attempts(s)'
    <3>1. i # report[r]
      BY <1>a, <2>4 DEF OwnerInv
    <3>2. Cardinality(Under(i))' = Cardinality(Under(i)) /\ Cardinality(Under(i)) \in Nat
      BY <1>b, <1>e, <3>1
    <3>3. applied[i] + Cardinality(Under(i)) <= Attempts(s)
      BY <1>a, <2>4 DEF CountInv
    <3> QED
      BY <1>h, <2>4, <3>2, <3>3
  <2>5. \A i \in Reports : applied[i] + Cardinality(Under(i))' <= retryCount + 1
    <3>1. \A i \in Reports : Cardinality(Under(i))' \in Nat /\ applied[i] \in Nat
      BY <1>b, <1>e
    <3>2. \A i \in Reports : i = report[r] =>
             applied[i] + Cardinality(Under(i))' <= retryCount + 1
      BY <1>c, <2>3, <3>1, DeliveryAssumption
    <3> QED
      BY <2>1, <3>2
  <2>6. \A s \in Reporters : \A i \in Reports : report[s] # 0 /\ i = report[s] =>
           applied[i] + Cardinality(Under(i))' <= Attempts(s)'
    BY <1>h, <2>3, <2>4
  <2> QED
    BY <1>0, <1>b, <2>5, <2>6, CountAgain
<1>6. AnswerInv'
  BY <1>0, <1>a, <1>g DEF AnswerInv
<1>7. GaugeInv'
  BY <1>0, <1>a, <1>f DEF GaugeInv
<1> QED
  BY <1>1, <1>2, <1>3, <1>4, <1>5, <1>6, <1>7 DEF DeliveryInv

\* The server takes a request: what it counts for moves from the network to
\* the store, and the answer goes to the attempt that waits for it.
LEMMA ServeKeeps ==
    ASSUME DeliveryInv, NEW q \in requests, Serve(q)
    PROVE  DeliveryInv'
<1>0. /\ requests' = requests \ {q} /\ gauge' = batches[q.report]
      /\ counter' = counter + batches[q.report]
      /\ applied' = [applied EXCEPT ![q.report] = @ + 1]
      /\ UNCHANGED <<polls, phase, report, retries, expired, batches, outcome>>
  BY DEF Serve, clientVars
<1>r. response' = [r \in Reporters |->
                     IF phase[r] = "wait" /\ Mine(r) = q THEN "ok" ELSE response[r]]
  BY DEF Serve, Answer
<1>a. /\ DeliveryTypeOK /\ NumberInv /\ OwnerInv /\ RequestInv
      /\ CountInv /\ AnswerInv /\ GaugeInv
  BY DEF DeliveryInv
<1>b. /\ q.report \in Reports /\ q.report \in Sent
      /\ \A i : Cardinality(Under(i)) \in Nat
      /\ \A i \in Reports : applied[i] \in Nat /\ batches[i] \in 0 .. MaxPolls
      /\ \A s \in Reporters : report[s] # 0 => report[s] \in Reports
  BY <1>a, CountTypes DEF RequestInv, DeliveryTypeOK
<1>e. /\ IsFiniteSet(requests')
      /\ \A i : Cardinality(Under(i))' =
            Cardinality(Under(i)) - (IF i = q.report THEN 1 ELSE 0)
  BY <1>0, <1>a, UnderRemove DEF RequestInv
<1>f. Sent' = Sent /\ Newest' = Newest /\ \A s \in Reporters : Attempts(s)' = Attempts(s)
  BY <1>0 DEF Sent, Newest, Attempts
<1>g. /\ applied'[q.report] = applied[q.report] + 1
      /\ \A i \in Reports : i # q.report => applied'[i] = applied[i]
  BY <1>0, <1>a, <1>b DEF DeliveryTypeOK
<1>h. \A i \in Reports :
         applied'[i] + Cardinality(Under(i))' = applied[i] + Cardinality(Under(i))
  BY <1>b, <1>e, <1>g
<1>i. applied[q.report] + 1 \in 0 .. retryCount + 1
  <2>1. q \in Under(q.report) /\ IsFiniteSet(Under(q.report))
    BY <1>a, UnderType DEF Under, RequestInv
  <2>2. Cardinality(Under(q.report)) # 0
    BY <2>1, FS_EmptySet
  <2>3. applied[q.report] + Cardinality(Under(q.report)) <= retryCount + 1
    BY <1>a, <1>b DEF CountInv
  <2> QED
    BY <1>b, <2>2, <2>3, DeliveryAssumption
<1>1. DeliveryTypeOK'
  <2>1. counter' \in Nat /\ gauge' \in 0 .. MaxPolls
    BY <1>0, <1>a, <1>b, DeliveryAssumption DEF DeliveryTypeOK
  <2>2. response' \in [Reporters -> {"none", "ok", "refused"}]
    BY <1>a, <1>r DEF DeliveryTypeOK
  <2>3. applied' \in [Reports -> 0 .. retryCount + 1]
    BY <1>0, <1>a, <1>b, <1>i DEF DeliveryTypeOK
  <2> QED
    BY <1>0, <1>a, <2>1, <2>2, <2>3 DEF DeliveryTypeOK
<1>2. NumberInv'
  BY <1>0, <1>a, <1>b, <1>f, <1>g DEF NumberInv
<1>3. OwnerInv'
  BY <1>0, <1>a, <1>f DEF OwnerInv
<1>4. RequestInv'
  BY <1>0, <1>a, <1>e, <1>f DEF RequestInv
<1>5. CountInv'
  <2>1. \A i \in Reports : applied'[i] + Cardinality(Under(i))' <= retryCount + 1
    BY <1>a, <1>h DEF CountInv
  <2>2. \A s \in Reporters : \A i \in Reports : report[s] # 0 /\ i = report[s] =>
           applied'[i] + Cardinality(Under(i))' <= Attempts(s)'
    BY <1>a, <1>f, <1>h DEF CountInv
  <2> QED
    BY <1>0, <1>b, <2>1, <2>2, CountAgain
<1>6. AnswerInv'
  <2>1. \A i \in Reports : applied[i] >= 1 => applied'[i] >= 1
    BY <1>b, <1>g
  <2>2. ASSUME NEW s \in Reporters, response'[s] = "ok"
        PROVE  applied'[report[s]] >= 1
    <3>1. CASE phase[s] = "wait" /\ Mine(s) = q
      <4>1. report[s] = q.report
        BY <3>1, MineType
      <4> QED
        BY <1>b, <1>g, <4>1
    <3>2. CASE ~(phase[s] = "wait" /\ Mine(s) = q)
      <4>1. response[s] = "ok"
        BY <1>r, <2>2, <3>2
      <4>2. report[s] \in Reports /\ applied[report[s]] >= 1
        BY <1>a, <4>1, MineType DEF AnswerInv
      <4> QED
        BY <2>1, <4>2
    <3> QED
      BY <3>1, <3>2
  <2>3. \A s \in Reporters : response'[s] # "none" => phase'[s] = "wait"
    BY <1>0, <1>a, <1>r DEF AnswerInv
  <2>4. \A i \in Reports : outcome'[i] = "succeeded" => applied'[i] >= 1
    BY <1>0, <1>a, <2>1 DEF AnswerInv
  <2> QED
    BY <1>0, <2>2, <2>3, <2>4 DEF AnswerInv
<1>7. GaugeInv'
  BY <1>0, <1>b, <1>f DEF GaugeInv
<1> QED
  BY <1>1, <1>2, <1>3, <1>4, <1>5, <1>6, <1>7 DEF DeliveryInv

LEMMA RefuseKeeps ==
    ASSUME DeliveryInv, NEW q \in requests, Refuse(q)
    PROVE  DeliveryInv'
<1>0. /\ requests' = requests \ {q}
      /\ UNCHANGED <<polls, phase, report, retries, expired, batches, outcome,
                     gauge, counter, applied>>
  BY DEF Refuse, clientVars, serverVars
<1>r. response' = [r \in Reporters |->
                     IF phase[r] = "wait" /\ Mine(r) = q THEN "refused" ELSE response[r]]
  BY DEF Refuse, Answer
<1>a. /\ DeliveryTypeOK /\ NumberInv /\ OwnerInv /\ RequestInv
      /\ CountInv /\ AnswerInv /\ GaugeInv
  BY DEF DeliveryInv
<1>b. /\ \A i : Cardinality(Under(i)) \in Nat
      /\ \A i \in Reports : applied[i] \in Nat
      /\ \A s \in Reporters : report[s] # 0 => report[s] \in Reports
      /\ \A s \in Reporters : Attempts(s) \in Nat
  BY CountTypes, DeliveryAssumption
<1>e. /\ IsFiniteSet(requests')
      /\ \A i : Cardinality(Under(i))' =
            Cardinality(Under(i)) - (IF i = q.report THEN 1 ELSE 0)
  BY <1>0, <1>a, UnderRemove DEF RequestInv
<1>f. Sent' = Sent /\ Newest' = Newest /\ \A s \in Reporters : Attempts(s)' = Attempts(s)
  BY <1>0 DEF Sent, Newest, Attempts
<1>g. \A i : Cardinality(Under(i))' \in Int /\ Cardinality(Under(i))' <= Cardinality(Under(i))
  BY <1>b, <1>e
<1>1. DeliveryTypeOK'
  <2>1. response' \in [Reporters -> {"none", "ok", "refused"}]
    BY <1>a, <1>r DEF DeliveryTypeOK
  <2> QED
    BY <1>0, <1>a, <2>1 DEF DeliveryTypeOK
<1>2. NumberInv'
  BY <1>0, <1>a, <1>f DEF NumberInv
<1>3. OwnerInv'
  BY <1>0, <1>a, <1>f DEF OwnerInv
<1>4. RequestInv'
  BY <1>0, <1>a, <1>e, <1>f DEF RequestInv
<1>5. CountInv'
  <2>1. \A i \in Reports : applied'[i] + Cardinality(Under(i))' <= retryCount + 1
    BY <1>0, <1>a, <1>b, <1>g, DeliveryAssumption DEF CountInv
  <2>2. \A s \in Reporters : \A i \in Reports : report[s] # 0 /\ i = report[s] =>
           applied'[i] + Cardinality(Under(i))' <= Attempts(s)'
    <3>1. \A s \in Reporters : \A i \in Reports : report[s] # 0 /\ i = report[s] =>
             applied[i] + Cardinality(Under(i)) <= Attempts(s)
      BY <1>a DEF CountInv
    <3> QED
      BY <1>0, <1>b, <1>f, <1>g, <3>1
  <2> QED
    BY <1>0, <1>b, <2>1, <2>2, CountAgain
<1>6. AnswerInv'
  BY <1>0, <1>a, <1>r DEF AnswerInv
<1>7. GaugeInv'
  BY <1>0, <1>a, <1>f DEF GaugeInv
<1> QED
  BY <1>1, <1>2, <1>3, <1>4, <1>5, <1>6, <1>7 DEF DeliveryInv

LEMMA DeliveryNextKeeps == DeliveryInv /\ [DeliveryNext]_vars => DeliveryInv'
<1> SUFFICES ASSUME DeliveryInv, [DeliveryNext]_vars PROVE DeliveryInv'
  OBVIOUS
<1>1. CASE Poll
  BY <1>1, PollKeeps
<1>2. ASSUME NEW r \in Reporters, Report(r) \/ ReporterStep(r) \/ ClientTimeout(r)
      PROVE  DeliveryInv'
  <2>1. CASE ClientTimeout(r)
    <3>1. /\ expired' = [expired EXCEPT ![r] = TRUE]
          /\ UNCHANGED <<polls, phase, report, retries, batches, requests,
                         response, gauge, counter, applied, outcome>>
      BY <2>1 DEF ClientTimeout, networkVars, serverVars
    <3>2. DeliveryTypeOK'
      BY <3>1 DEF DeliveryInv, DeliveryTypeOK
    <3> QED
      BY <3>1, <3>2, ClientTimeoutKeeps
  <2> QED
    BY <1>2, <2>1, ReportKeeps, EncodeFailsKeeps, PostKeeps, AttemptFailsKeeps,
       ReceiveKeeps DEF ReporterStep
<1>3. ASSUME NEW q \in requests, Serve(q) \/ Refuse(q) PROVE DeliveryInv'
  BY <1>3, ServeKeeps, RefuseKeeps
<1>4. CASE UNCHANGED vars
  <2>1. UNCHANGED <<polls, phase, report, retries, expired, batches, requests,
                    response, gauge, counter, applied, outcome>>
    BY <1>4 DEF vars, clientVars, networkVars, serverVars
  <2>2. DeliveryTypeOK'
    BY <2>1 DEF DeliveryInv, DeliveryTypeOK
  <2> QED
    BY <2>1, <2>2, ClientTimeoutKeeps
<1> QED
  BY <1>1, <1>2, <1>3, <1>4 DEF DeliveryNext

----------------------------------------------------------------------------
(* What the specification promises.                                        *)

\* In every reachable state of Delivery, for any number of reporters, reports
\* and retries, DeliveryInv holds: which reports there are, what is on its way
\* of each, and what the answers say (reportToURL, RoundTrip).
THEOREM DeliveryInvariant == DeliverySpec => []DeliveryInv
BY DeliveryInitInv, DeliveryNextKeeps, PTL DEF DeliverySpec

\* In every state of the report pipeline the variables have their types: no
\* report is applied more often than its reporter may attempt it, whatever the
\* network and the server do (reporter.go, RoundTrip, UpdateBatch).
THEOREM DeliveryTypes == DeliverySpec => []DeliveryTypeOK
BY DeliveryInvariant, PTL DEF DeliveryInv

\* What the server has applied of a report and what is on its way of it are
\* covered by the attempts of RoundTrip.
THEOREM AppliedAtMostAttemptedAlways == DeliverySpec => []AppliedAtMostAttempted
<1>1. DeliveryInv => AppliedAtMostAttempted
  <2>1. \A i : Under(i) = {q \in requests : q.report = i}
    BY DEF Under
  <2> QED
    BY <2>1 DEF DeliveryInv, CountInv, AppliedAtMostAttempted, Attempts
<1> QED
  BY <1>1, DeliveryInvariant, PTL

\* A report that returned without an error was applied, and one that was sent
\* once was applied once at most.
THEOREM SucceededIsAppliedAlways == DeliverySpec => []SucceededIsApplied
<1>1. ASSUME DeliveryInv, NEW r \in Reporters, phase[r] = "idle", report[r] # 0
      PROVE  /\ outcome[report[r]] = "succeeded" => applied[report[r]] >= 1
             /\ retries[r] = 0 => applied[report[r]] <= 1
  <2>1. /\ report[r] \in Reports /\ applied[report[r]] \in Nat
        /\ Cardinality(Under(report[r])) \in Nat
    BY <1>1, CountTypes
  <2>2. applied[report[r]] + Cardinality(Under(report[r])) <= retries[r] + 1
    BY <1>1 DEF DeliveryInv, CountInv, Attempts
  <2>3. outcome[report[r]] = "succeeded" => applied[report[r]] >= 1
    BY <1>1, <2>1 DEF DeliveryInv, AnswerInv
  <2> QED
    BY <2>1, <2>2, <2>3
<1>2. DeliveryInv => SucceededIsApplied
  BY <1>1 DEF SucceededIsApplied
<1> QED
  BY <1>2, DeliveryInvariant, PTL

\* The gauge of the server goes back only by a request whose reporter waits
\* no more, or waits while another reporter has sent a newer report: the gauge
\* came with a report, and batches do not get older.
LEMMA SetsBackStep ==
    ASSUME DeliveryInv, DeliveryInv', [DeliveryNext]_vars, gauge' < gauge
    PROVE  \E q \in requests \ requests' : \A r \in Reporters :
              phase[r] = "wait" /\ Mine(r) = q =>
                  \E s \in Reporters \ {r} : report[s] > report[r]
<1>a. DeliveryTypeOK /\ NumberInv /\ OwnerInv /\ RequestInv /\ GaugeInv
  BY DEF DeliveryInv
<1>t. /\ gauge \in Nat /\ gauge' \in Nat
      /\ \A i \in Reports : batches[i] \in Nat
      /\ \A r \in Reporters : report[r] \in Nat
  BY <1>a, DeliveryAssumption DEF DeliveryInv, DeliveryTypeOK
<1>1. gauge' # gauge
  BY <1>t
<1>2. PICK q \in requests : Serve(q)
  <2>1. Poll => gauge' = gauge
    BY DEF Poll, serverVars
  <2>2. \A r \in Reporters : Report(r) \/ ClientTimeout(r) => gauge' = gauge
    BY DEF Report, ClientTimeout, serverVars
  <2>3. \A r \in Reporters : ReporterStep(r) => gauge' = gauge
    BY DEF ReporterStep, EncodeFails, Post, AttemptFails, Receive, serverVars
  <2>4. \A q \in requests : Refuse(q) => gauge' = gauge
    BY DEF Refuse, serverVars
  <2>5. UNCHANGED vars => gauge' = gauge
    BY DEF vars, serverVars
  <2> QED
    BY <1>1, <2>1, <2>2, <2>3, <2>4, <2>5 DEF DeliveryNext
<1>3. q \in requests \ requests' /\ gauge' = batches[q.report] /\ q.report \in Sent
  BY <1>2, <1>a DEF Serve, RequestInv
<1>4. PICK j \in Sent : gauge = batches[j]
  BY <1>a, <1>t DEF GaugeInv
<1>5. Sent = 1 .. Newest /\ Newest \in Nat
  BY <1>a DEF NumberInv
<1>6. j > q.report /\ Newest >= j
  <2>1. ~(j <= q.report)
    BY <1>a, <1>t, <1>3, <1>4 DEF NumberInv, Sent
  <2> QED
    BY <1>3, <1>4, <1>5, <2>1
<1>7. PICK s \in Reporters : report[s] = Newest
  BY <1>a, <1>5, <1>4 DEF OwnerInv
<1>8. ASSUME NEW r \in Reporters, phase[r] = "wait", Mine(r) = q
      PROVE  s # r /\ report[s] > report[r]
  <2>1. report[r] = q.report
    BY <1>8, MineType
  <2> QED
    BY <1>3, <1>5, <1>6, <1>7, <2>1
<1> QED
  BY <1>3, <1>8

\* A request that sets a gauge of the server back is one nobody waits for any
\* more, or its reporter waits while another has a newer report: only a report
\* that was overtaken does it (RoundTrip, ReporterPool).
THEOREM OnlyOvertakenSetsBackAlways == DeliverySpec => OnlyOvertakenSetsBack
<1>1. DeliveryInv /\ DeliveryInv' /\ [DeliveryNext]_vars =>
        [gauge' < gauge =>
            \E q \in requests \ requests' : \A r \in Reporters :
                phase[r] = "wait" /\ Mine(r) = q =>
                    \E s \in Reporters \ {r} : report[s] > report[r]]_vars
  BY SetsBackStep
<1> QED
  BY <1>1, DeliveryInvariant, PTL DEF DeliverySpec, OnlyOvertakenSetsBack
=============================================================================
