------------------------ MODULE TraversalStabilityProofs ------------------------
(* Proofs about TraversalStability, for all schedules, subjects and scripts.  *)
EXTENDS DefectDetection, SequenceTheorems, TLAPS

Launched == {"reading", "awaiting", "judging"}

(* What holds while the coordinator waits for one thing or another. *)
Phases ==
    /\ outcome = Null <=> parent # "settled"
    /\ parent \in Launched => Len(results) < Len(Schedules) /\ proc # "none"
    /\ parent \notin {"reading", "awaiting"} => proc \in {"none", "exited"} /\ timer # "armed"
    /\ parent = "launching" => timer = "off"

(* The process has observed a prefix of its order, starting from nothing. *)
Observing ==
    /\ proc # "none" => order \in Range(Schedules)
    /\ ran = SubSeq(order, 1, Len(ran)) /\ Len(ran) =< Len(order)
    /\ \A i \in 1..Len(ran) : obs[order[i]] = Observe(subject, order[i], SubSeq(order, 1, i - 1))
    /\ stdout = "result" => Len(ran) = Len(order)

Collected ==
    \A k \in DOMAIN results : results[k] = Campaign!FreshObservation(Schedules[k])

IInv == TypeOK /\ Phases /\ Observing /\ Collected

-------------------------------------------------------------------------------
(* Schedules are injective sequences of members. *)

(* What the assumption says of one schedule. *)
LEMMA ScheduleFacts ==
    ASSUME NEW o \in Range(Schedules)
    PROVE  /\ o \in Seq(Members)
           /\ \A a, b \in 1..Len(o) : o[a] = o[b] => a = b
           /\ \A m \in Members : \E i \in 1..Len(o) : o[i] = m
           /\ \A s \in Subjects, i \in 1..Len(o) :
                 Observe(s, o[i], SubSeq(o, 1, i - 1)) \in Observations
<1>1. PICK k \in DOMAIN Schedules : o = Schedules[k]
  BY DEF Range
<1>2. o \in Seq(Members) /\ DOMAIN o = 1..Len(o)
  BY <1>1, TraversalAssumption
<1>3. IsInjective(o) /\ ToSet(o) = Members
  BY <1>1, TraversalAssumption
<1>4. \A s \in Subjects, i \in DOMAIN o : Observe(s, o[i], SubSeq(o, 1, i - 1)) \in Observations
  BY <1>1, TraversalAssumption
<1>5. \A a, b \in 1..Len(o) : o[a] = o[b] => a = b
  BY <1>2, <1>3 DEF IsInjective
<1>6. \A m \in Members : \E i \in 1..Len(o) : o[i] = m
  BY <1>2, <1>3 DEF ToSet
<1>7. QED
  BY <1>2, <1>4, <1>5, <1>6

(* The members before a position are those before the member there. *)
LEMMA BeforeIsPrefix ==
    ASSUME NEW o \in Range(Schedules), NEW i \in 1..Len(o)
    PROVE  Campaign!Before(o, o[i]) = SubSeq(o, 1, i - 1)
<1>1. DOMAIN o = 1..Len(o) /\ \A a, b \in 1..Len(o) : o[a] = o[b] => a = b
  BY ScheduleFacts
<1>2. (CHOOSE j \in DOMAIN o : o[j] = o[i]) = i
  BY <1>1
<1>3. QED
  BY <1>2 DEF Campaign!Before

(* A process that has evaluated its whole order holds a fresh observation. *)
LEMMA CompleteIsFresh ==
    ASSUME TypeOK, Observing, proc # "none", Len(ran) = Len(order)
    PROVE  obs = Campaign!FreshObservation(order)
<1>1. order \in Range(Schedules)
  BY DEF Observing
<1>2. ASSUME NEW m \in Members
      PROVE  obs[m] = Observe(subject, m, Campaign!Before(order, m))
  <2>1. PICK i \in 1..Len(order) : order[i] = m
    BY <1>1, ScheduleFacts
  <2>2. obs[order[i]] = Observe(subject, order[i], SubSeq(order, 1, i - 1))
    BY DEF Observing
  <2>3. QED
    BY <1>1, <2>1, <2>2, BeforeIsPrefix
<1>3. obs = [m \in Members |-> obs[m]]
  BY DEF TypeOK
<1>4. QED
  BY <1>2, <1>3 DEF Campaign!FreshObservation

(* A fresh observation is an accepted result. *)
LEMMA FreshIsResult ==
    ASSUME NEW o \in Range(Schedules), subject \in Subjects
    PROVE  Campaign!FreshObservation(o) \in [Members -> Observations]
<1>1. ASSUME NEW m \in Members
      PROVE  Observe(subject, m, Campaign!Before(o, m)) \in Observations
  <2>1. PICK i \in 1..Len(o) : o[i] = m
    BY ScheduleFacts
  <2>2. QED
    BY <2>1, ScheduleFacts, BeforeIsPrefix
<1>2. QED
  BY <1>1 DEF Campaign!FreshObservation

(* The schedule to launch is one of the schedules. *)
LEMMA ScheduledIsFrozen ==
    ASSUME TypeOK, Len(results) < Len(Schedules)
    PROVE  Scheduled \in Range(Schedules)
BY TraversalAssumption DEF TypeOK, Scheduled, Range

(* Null is no outcome of a run. *)
LEMMA VerdictType ==
    ASSUME NEW r
    PROVE  VerdictOf(r) \in Verdicts
BY DEF VerdictOf, Verdicts

-------------------------------------------------------------------------------
(* The invariant *)

LEMMA InitInvariant == Init => IInv
<1>1. SUFFICES ASSUME Init PROVE IInv
  OBVIOUS
<1>2. ran = SubSeq(order, 1, Len(ran)) /\ Len(ran) = 0 /\ Len(order) = 0
  BY <1>1, SubSeqEmpty DEF Init
<1>3. TypeOK
  <2>1. results \in Seq([Members -> Observations]) /\ Len(results) =< Len(Schedules)
    BY <1>1, TraversalAssumption DEF Init
  <2>2. ran \in Seq(Members) /\ obs \in [Members -> Observations \cup {Null}]
    BY <1>1 DEF Init
  <2>3. QED
    BY <1>1, <2>1, <2>2 DEF Init, TypeOK
<1>4. Phases
  BY <1>1, TraversalAssumption DEF Init, Phases, Launched
<1>5. Observing
  BY <1>1, <1>2 DEF Init, Observing
<1>6. Collected
  BY <1>1 DEF Init, Collected
<1>7. QED
  BY <1>3, <1>4, <1>5, <1>6 DEF IInv

(* Settling changes neither the process nor the results. *)
LEMMA SettleInvariant ==
    ASSUME IInv, UNCHANGED results, NEW conclusion \in Failures \cup Verdicts,
           parent \in {"launching", "judging"}, Settle(conclusion)
    PROVE  IInv'
<1>1. TypeOK'
  BY DEF IInv, TypeOK, Settle, launchVars, workerVars
<1>2. Phases'
  BY TraversalAssumption DEF IInv, TypeOK, Phases, Launched, Settle, launchVars, workerVars
<1>3. Observing'
  BY DEF IInv, Observing, Settle, launchVars, workerVars
<1>4. Collected'
  BY DEF IInv, Collected, Settle, Campaign!FreshObservation, Campaign!Before
<1>5. QED
  BY <1>1, <1>2, <1>3, <1>4 DEF IInv

LEMMA LaunchInvariant == IInv /\ Launch => IInv'
<1>1. SUFFICES ASSUME IInv, Launch PROVE IInv'
  OBVIOUS
<1>2. order' \in Range(Schedules)
  BY <1>1, ScheduledIsFrozen DEF IInv, Launch
<1>3. ran' = SubSeq(order', 1, Len(ran')) /\ Len(ran') = 0 /\ Len(order') \in Nat
  BY <1>1, <1>2, SubSeqEmpty, ScheduleFacts DEF Launch
<1>4. TypeOK'
  <2>1. obs' \in [Members -> Observations \cup {Null}] /\ ran' \in Seq(Members)
    BY <1>1 DEF Launch
  <2>2. pidReused' \in BOOLEAN
    BY <1>1 DEF IInv, TypeOK, Launch
  <2>3. QED
    BY <1>1, <1>2, <2>1, <2>2 DEF IInv, TypeOK, Launch, runVars
<1>5. Phases'
  BY <1>1 DEF IInv, TypeOK, Phases, Launched, Launch, runVars
<1>6. Observing'
  BY <1>1, <1>2, <1>3 DEF Observing, Launch
<1>7. Collected'
  BY <1>1 DEF IInv, Collected, Launch, runVars, Campaign!FreshObservation, Campaign!Before
<1>8. QED
  BY <1>4, <1>5, <1>6, <1>7 DEF IInv

LEMMA EvaluateInvariant == IInv /\ Evaluate => IInv'
<1>1. SUFFICES ASSUME IInv, Evaluate PROVE IInv'
  OBVIOUS
<1> DEFINE n == Len(ran) + 1
           m == order[n]
<1>2. /\ order \in Range(Schedules) /\ order' = order /\ subject' = subject
      /\ ran = SubSeq(order, 1, Len(ran)) /\ Len(ran) \in Nat /\ subject \in Subjects
      /\ stdout' = stdout /\ proc = "running" /\ proc' = proc
  BY <1>1 DEF IInv, TypeOK, Observing, Evaluate, launchVars, runVars
<1>3. /\ order \in Seq(Members)
      /\ \A a, b \in 1..Len(order) : order[a] = order[b] => a = b
      /\ \A i \in 1..Len(order) : Observe(subject, order[i], SubSeq(order, 1, i - 1)) \in Observations
  BY <1>2, ScheduleFacts
<1>4. n \in 1..Len(order) /\ m \in Members /\ n - 1 = Len(ran)
  BY <1>1, <1>2, <1>3 DEF Evaluate
<1>5. ran' = SubSeq(order, 1, n) /\ Len(ran') = n
  <2>1. ran' = Append(ran, m) /\ ran \in Seq(Members)
    BY <1>1 DEF Evaluate, IInv, TypeOK
  <2>2. Len(ran') = n
    BY <2>1, <1>4
  <2>3. SubSeq(order, 1, n) = SubSeq(order, 1, n - 1) \o <<order[n]>>
    BY <1>3, <1>4, SubSeqRecursiveSecond
  <2>4. Append(ran, m) = ran \o <<m>>
    BY <2>1, <1>4
  <2>5. QED
    BY <1>2, <1>4, <2>1, <2>2, <2>3, <2>4
<1>6. obs' = [obs EXCEPT ![m] = Observe(subject, m, SubSeq(order, 1, n - 1))]
  BY <1>1, <1>2, <1>4 DEF Evaluate
<1>7. Observe(subject, m, SubSeq(order, 1, n - 1)) \in Observations
  BY <1>3, <1>4
<1> HIDE DEF n, m
<1>8. TypeOK'
  <2>1. ran' \in Seq(Members)
    BY <1>1, <1>4 DEF IInv, TypeOK, Evaluate, n, m
  <2>2. obs' \in [Members -> Observations \cup {Null}]
    BY <1>1, <1>4, <1>6, <1>7 DEF IInv, TypeOK
  <2>3. QED
    BY <1>1, <2>1, <2>2 DEF IInv, TypeOK, Evaluate, runVars, launchVars
<1>9. Phases'
  BY <1>1 DEF IInv, Phases, Launched, Evaluate, runVars, launchVars
<1>10. Observing'
  <2>1. \A i \in 1..n : obs'[order[i]] = Observe(subject, order[i], SubSeq(order, 1, i - 1))
    <3>1. TAKE i \in 1..n
    <3>2. CASE i = n
      BY <1>1, <1>4, <1>6, <3>2 DEF IInv, TypeOK, m
    <3>3. CASE i # n
      <4>1. i \in 1..Len(ran) /\ i \in 1..Len(order) /\ order[i] # m /\ order[i] \in Members
        BY <1>2, <1>3, <1>4, <3>1, <3>3 DEF m
      <4>2. obs[order[i]] = Observe(subject, order[i], SubSeq(order, 1, i - 1))
        BY <1>1, <4>1 DEF IInv, Observing
      <4>3. obs'[order[i]] = obs[order[i]]
        BY <1>1, <1>4, <1>6, <4>1 DEF IInv, TypeOK
      <4>4. QED
        BY <4>2, <4>3
    <3>4. QED
      BY <3>2, <3>3
  <2>2. stdout = "result" => n = Len(order)
    <3>1. Len(ran) < Len(order) /\ Len(order) \in Nat
      BY <1>1, <1>3 DEF Evaluate
    <3>2. stdout # "result"
      BY <1>1, <1>2, <3>1 DEF IInv, Observing
    <3>3. QED
      BY <3>2
  <2>3. QED
    BY <1>2, <1>4, <1>5, <2>1, <2>2 DEF Observing
<1>11. Collected'
  BY <1>1 DEF IInv, Collected, Evaluate, runVars, Campaign!FreshObservation, Campaign!Before
<1>12. QED
  BY <1>8, <1>9, <1>10, <1>11 DEF IInv

LEMMA AcceptInvariant == IInv /\ Accept => IInv' /\ Campaign!ObserveSchedule
<1>1. SUFFICES ASSUME IInv, Accept PROVE IInv' /\ Campaign!ObserveSchedule
  OBVIOUS
<1> DEFINE next == Len(results) + 1
<1>2. /\ timer # "fired" /\ stdout = "result" /\ order = Schedules[next]
      /\ parent = "judging" /\ parent' = "launching"
  BY <1>1 DEF Accept, Judgement, TimedOut, ValidScheduleWorkerResult, Scheduled
<1>3. /\ Len(results) < Len(Schedules) /\ proc \in {"none", "exited"} /\ proc # "none"
      /\ timer = "off" /\ outcome = Null
  BY <1>1, <1>2 DEF IInv, TypeOK, Phases, Launched
<1>4. order \in Range(Schedules) /\ obs = Campaign!FreshObservation(order)
  BY <1>1, <1>2, <1>3, CompleteIsFresh DEF IInv, Observing
<1>5. obs \in [Members -> Observations]
  BY <1>1, <1>4, FreshIsResult DEF IInv, TypeOK
<1>6. /\ results \in Seq([Members -> Observations]) /\ results' = Append(results, obs)
      /\ Len(Schedules) \in Nat
  BY <1>1, TraversalAssumption DEF IInv, TypeOK, Accept
<1>7. Len(results') = next /\ next \in Nat /\ next =< Len(Schedules)
  BY <1>3, <1>5, <1>6
<1>8. TypeOK'
  <2>1. results' \in Seq([Members -> Observations]) /\ Len(results') =< Len(Schedules)
    BY <1>5, <1>6, <1>7
  <2>2. QED
    BY <1>1, <2>1 DEF IInv, TypeOK, Accept, launchVars, workerVars
<1>9. Phases'
  BY <1>1, <1>2, <1>3 DEF IInv, Phases, Launched, Accept, launchVars, workerVars
<1>10. Observing'
  BY <1>1 DEF IInv, Observing, Accept, launchVars, workerVars
<1>11. Collected'
  <2>1. ASSUME NEW k \in DOMAIN results'
        PROVE  results'[k] = Campaign!FreshObservation(Schedules[k])
    <3>1. CASE k = next
      BY <1>2, <1>4, <1>6, <3>1
    <3>2. CASE k # next
      BY <1>1, <1>6, <1>7, <2>1, <3>2 DEF IInv, Collected
    <3>3. QED
      BY <3>1, <3>2
  <2>2. subject' = subject
    BY <1>1 DEF Accept
  <2>3. QED
    BY <2>1, <2>2 DEF Collected, Campaign!FreshObservation, Campaign!Before
<1>12. Campaign!ObserveSchedule
  BY <1>1, <1>2, <1>3, <1>4, <1>6 DEF Campaign!ObserveSchedule, Accept
<1>13. QED
  BY <1>8, <1>9, <1>10, <1>11, <1>12 DEF IInv

(* The steps that move neither the results nor the process's observations. *)
LEMMA QuietInvariant ==
    ASSUME IInv, UNCHANGED <<runVars, launchVars, ran, obs>>, TypeOK', Phases',
           proc # "none", proc' # "none",
           stdout' = "result" => stdout = "result" \/ Len(ran) = Len(order)
    PROVE  IInv'
<1>1. Observing'
  BY DEF IInv, Observing, runVars, launchVars
<1>2. Collected'
  BY DEF IInv, Collected, runVars, Campaign!FreshObservation, Campaign!Before
<1>3. QED
  BY <1>1, <1>2 DEF IInv

LEMMA WaitingInvariant == IInv /\ (ReadStdout \/ AwaitExit \/ TimerFires) => IInv'
<1>1. SUFFICES ASSUME IInv, ReadStdout \/ AwaitExit \/ TimerFires PROVE IInv'
  OBVIOUS
<1>2. UNCHANGED <<runVars, launchVars, workerVars>>
  BY <1>1 DEF ReadStdout, AwaitExit, TimerFires
<1>3. proc # "none"
  BY <1>1 DEF IInv, Phases, Launched, ReadStdout, AwaitExit, TimerFires
<1>4. TypeOK'
  <2>1. /\ parent' \in {"launching", "reading", "awaiting", "judging", "settled"}
        /\ timer' \in {"off", "armed", "fired"} /\ signalled' \in BOOLEAN
    BY <1>1 DEF IInv, TypeOK, ReadStdout, AwaitExit, TimerFires
  <2>2. QED
    BY <1>1, <1>2, <2>1 DEF IInv, TypeOK, runVars, launchVars, workerVars
<1>5. Phases'
  <2>1. CASE ReadStdout
    BY <1>1, <2>1 DEF IInv, Phases, Launched, ReadStdout, runVars, workerVars
  <2>2. CASE AwaitExit
    BY <1>1, <2>2 DEF IInv, Phases, Launched, AwaitExit, runVars, workerVars
  <2>3. CASE TimerFires
    BY <1>1, <2>3 DEF IInv, Phases, Launched, TimerFires, runVars, workerVars
  <2>4. QED
    BY <1>1, <2>1, <2>2, <2>3
<1>6. QED
  BY <1>1, <1>2, <1>3, <1>4, <1>5, QuietInvariant DEF workerVars

LEMMA EndingInvariant ==
    IInv /\ (PrintResult \/ ExitCleanly \/ ExitInFailure \/ DieOfSignal \/ Exited) => IInv'
<1>1. SUFFICES ASSUME IInv, PrintResult \/ ExitCleanly \/ ExitInFailure \/ DieOfSignal \/ Exited PROVE IInv'
  OBVIOUS
<1>2. UNCHANGED <<runVars, launchVars, ran, obs, parent, timer, signalled>>
  BY <1>1 DEF PrintResult, ExitCleanly, ExitInFailure, DieOfSignal, Exited
<1>3. /\ proc \in {"running", "exiting"} /\ proc' \in {"running", "exiting", "exited"}
      /\ code' \in {code, 0, 1} /\ stdout' \in {stdout, "garbage", "result"}
      /\ stdout' = "result" => stdout = "result" \/ Len(ran) = Len(order)
  BY <1>1 DEF PrintResult, ExitCleanly, ExitInFailure, DieOfSignal, Exited
<1>4. TypeOK'
  BY <1>1, <1>2, <1>3 DEF IInv, TypeOK, runVars, launchVars
<1>5. Phases'
  BY <1>1, <1>2, <1>3 DEF IInv, Phases, Launched, runVars
<1>6. QED
  BY <1>1, <1>2, <1>3, <1>4, <1>5, QuietInvariant

LEMMA FailInvariant == IInv /\ (SpawnFails \/ Reject) => IInv' /\ Campaign!Fail
<1>1. SUFFICES ASSUME IInv, SpawnFails \/ Reject PROVE IInv' /\ Campaign!Fail
  OBVIOUS
<1>2. PICK reason \in Failures : Settle(reason)
  BY <1>1 DEF SpawnFails, Reject, Judgement, Failures
<1>3. results' = results /\ parent \in {"launching", "judging"}
  BY <1>1 DEF SpawnFails, Reject
<1>4. IInv'
  BY <1>1, <1>2, <1>3, SettleInvariant
<1>5. Campaign!Fail
  BY <1>1, <1>2, <1>3 DEF Campaign!Fail, Settle, IInv, Phases
<1>6. QED
  BY <1>4, <1>5

(* The campaign draws the same verdict from the same results. *)
LEMMA SameVerdict ==
    ASSUME NEW r
    PROVE  Campaign!VerdictOf(r) = VerdictOf(r)
<1>1. ASSUME NEW k, NEW m
      PROVE  /\ Campaign!ScheduleStability(r, k, m) = ScheduleStability(r, k, m)
             /\ Campaign!SemanticMatch(r, k, m) = SemanticMatch(r, k, m)
  BY DEF ScheduleStability, SemanticMatch, CanonicalMatch, Unresolved, Campaign!ScheduleStability,
         Campaign!SemanticMatch, Campaign!CanonicalMatch, Campaign!Unresolved
<1>2. QED
  BY <1>1 DEF VerdictOf, SomeComparison, IsTraversalStabilityPass, Campaign!VerdictOf,
              Campaign!SomeComparison, Campaign!IsTraversalStabilityPass

LEMMA ConcludeInvariant ==
    IInv /\ Conclude => IInv' /\ (Campaign!Conclude \/ Campaign!Fail)
<1>1. SUFFICES ASSUME IInv, Conclude PROVE IInv' /\ (Campaign!Conclude \/ Campaign!Fail)
  OBVIOUS
<1>2. results' = results /\ parent = "launching" /\ outcome = Null /\ Len(results) = Len(Schedules)
  BY <1>1 DEF Conclude, IInv, Phases
<1>3. Settle("worker_spawn_failure") \/ Settle(VerdictOf(results))
  BY <1>1 DEF Conclude
<1>4. "worker_spawn_failure" \in Failures /\ VerdictOf(results) \in Verdicts
  BY VerdictType DEF Failures
<1>5. IInv'
  BY <1>1, <1>2, <1>3, <1>4, SettleInvariant
<1>6. Campaign!Conclude \/ Campaign!Fail
  BY <1>2, <1>3, <1>4, SameVerdict DEF Campaign!Conclude, Campaign!Fail, Settle
<1>7. QED
  BY <1>5, <1>6

LEMMA StutterInvariant == IInv /\ UNCHANGED vars => IInv'
<1>1. SUFFICES ASSUME IInv, UNCHANGED vars PROVE IInv'
  OBVIOUS
<1>2. TypeOK'
  BY <1>1 DEF IInv, TypeOK, vars, runVars, launchVars, workerVars
<1>3. Phases'
  BY <1>1 DEF IInv, Phases, vars, runVars, launchVars, workerVars
<1>4. Observing'
  BY <1>1 DEF IInv, Observing, vars, runVars, launchVars, workerVars
<1>5. Collected'
  BY <1>1 DEF IInv, Collected, vars, runVars, Campaign!FreshObservation, Campaign!Before
<1>6. QED
  BY <1>2, <1>3, <1>4, <1>5 DEF IInv

(* Every step preserves the invariant and is a step of the campaign or none. *)
LEMMA StepInvariant ==
    IInv /\ [Next]_vars => IInv' /\ [Campaign!CampaignNext]_(Campaign!campaignVars)
<1>1. SUFFICES ASSUME IInv, [Next]_vars
               PROVE  IInv' /\ [Campaign!CampaignNext]_(Campaign!campaignVars)
  OBVIOUS
<1>2. CASE Launch
  BY <1>1, <1>2, LaunchInvariant DEF Launch, runVars, Campaign!campaignVars
<1>3. CASE SpawnFails \/ Reject
  BY <1>1, <1>3, FailInvariant DEF Campaign!CampaignNext
<1>4. CASE ReadStdout \/ AwaitExit \/ TimerFires
  <2>1. UNCHANGED runVars
    BY <1>4 DEF ReadStdout, AwaitExit, TimerFires
  <2>2. QED
    BY <1>1, <1>4, <2>1, WaitingInvariant DEF runVars, Campaign!campaignVars
<1>5. CASE Accept
  BY <1>1, <1>5, AcceptInvariant DEF Campaign!CampaignNext
<1>6. CASE Conclude
  BY <1>1, <1>6, ConcludeInvariant DEF Campaign!CampaignNext
<1>7. CASE Evaluate
  BY <1>1, <1>7, EvaluateInvariant DEF Evaluate, runVars, Campaign!campaignVars
<1>8. CASE PrintResult \/ ExitCleanly \/ ExitInFailure \/ DieOfSignal \/ Exited
  <2>1. UNCHANGED runVars
    BY <1>8 DEF PrintResult, ExitCleanly, ExitInFailure, DieOfSignal, Exited
  <2>2. QED
    BY <1>1, <1>8, <2>1, EndingInvariant DEF runVars, Campaign!campaignVars
<1>9. CASE UNCHANGED vars
  BY <1>1, <1>9, StutterInvariant DEF vars, runVars, Campaign!campaignVars
<1>10. QED
  BY <1>1, <1>2, <1>3, <1>4, <1>5, <1>6, <1>7, <1>8, <1>9
     DEF Next, Coordinator, Worker, Finished

THEOREM Inductive == Spec => []IInv
BY InitInvariant, StepInvariant, PTL DEF Spec

-------------------------------------------------------------------------------
(* Results *)

(* Every variable of coordinator, worker and timer stays within its type. *)
THEOREM TraversalTypeCorrect == Spec => []TypeOK
<1>1. IInv => TypeOK
  BY DEF IInv
<1>2. QED
  BY <1>1, Inductive, PTL

(* When the coordinator has settled, its last worker is gone. *)
THEOREM NoWorkerOutlivesTheRun == Spec => []NoOrphan
<1>1. IInv => NoOrphan
  BY DEF IInv, Phases, NoOrphan
<1>2. QED
  BY <1>1, Inductive, PTL

(* A launch whose timer fired is never accepted and is reported as a timeout. *)
THEOREM TimeoutEndsTheRun == Spec => TimeoutIsFinal
<1>1. ASSUME IInv, [Next]_vars, timer = "fired"
      PROVE  results' = results /\ outcome' \in {outcome, "worker_timeout"}
  <2>1. parent # "launching"
    BY <1>1 DEF IInv, Phases
  <2>2. CASE Accept
    BY <1>1, <2>2 DEF Accept, Judgement, TimedOut
  <2>3. CASE Reject
    BY <1>1, <2>3 DEF Reject, Judgement, TimedOut, Settle
  <2>4. CASE ReadStdout \/ AwaitExit \/ TimerFires \/ Worker \/ UNCHANGED vars
    BY <2>4 DEF ReadStdout, AwaitExit, TimerFires, Worker, Evaluate, PrintResult, ExitCleanly,
               ExitInFailure, DieOfSignal, Exited, vars, runVars
  <2>5. QED
    BY <1>1, <2>1, <2>2, <2>3, <2>4
       DEF Next, Coordinator, Finished, Launch, SpawnFails, Conclude
<1>2. IInv /\ [Next]_vars =>
        [timer = "fired" => results' = results /\ outcome' \in {outcome, "worker_timeout"}]_vars
  BY <1>1
<1>3. QED
  BY <1>2, Inductive, PTL DEF Spec, TimeoutIsFinal

(* Processes, pipes and timers add nothing to what the campaign promises: the *)
(* verdict is that of a subject observed afresh under each schedule.          *)
THEOREM TraversalImplementsCampaign == Spec => ImplementsCampaign
<1>1. Init => Campaign!CampaignInit
  BY DEF Init, Campaign!CampaignInit
<1>2. QED
  BY <1>1, StepInvariant, Inductive, PTL DEF Spec, ImplementsCampaign, Campaign!CampaignSpec

-------------------------------------------------------------------------------
(* What a verdict says of the subject *)

(* Every schedule has been observed when there is a verdict, and the verdict  *)
(* is the one the observations amount to.                                     *)
Concluded ==
    outcome \in Verdicts => Len(results) = Len(Schedules) /\ outcome = VerdictOf(results)

(* A failure is no verdict, nor is there one while the coordinator runs. *)
LEMMA FailureIsNoVerdict == Null \notin Verdicts /\ Failures \cap Verdicts = {}
BY TraversalAssumption DEF Failures, Verdicts

(* A verdict is drawn once, from all the results, and neither changes then. *)
THEOREM VerdictIsDrawnFromAllResults == Spec => []Concluded
<1>1. Init => Concluded
  BY FailureIsNoVerdict DEF Init, Concluded
<1>2. ASSUME Concluded, [Campaign!CampaignNext]_(Campaign!campaignVars)
      PROVE  Concluded'
  <2>1. CASE Campaign!ObserveSchedule
    BY <2>1, FailureIsNoVerdict DEF Campaign!ObserveSchedule, Concluded
  <2>2. CASE Campaign!Fail
    BY <2>2, FailureIsNoVerdict DEF Campaign!Fail, Concluded
  <2>3. CASE Campaign!Conclude
    BY <2>3, SameVerdict DEF Campaign!Conclude, Concluded
  <2>4. CASE UNCHANGED Campaign!campaignVars
    BY <1>2, <2>4 DEF Campaign!campaignVars, Concluded
  <2>5. QED
    BY <1>2, <2>1, <2>2, <2>3, <2>4 DEF Campaign!CampaignNext
<1>3. QED
  BY <1>1, <1>2, StepInvariant, Inductive, PTL DEF Spec

(* Stable is the verdict of results in which every observation is conformant. *)
LEMMA StableMeansConformant ==
    ASSUME NEW r \in Seq([Members -> Observations]), r # << >>
    PROVE  VerdictOf(r) = "stable"
               <=> \A k \in DOMAIN r, m \in Members : r[k][m] = "conformant"
<1>1. 1 \in DOMAIN r /\ DOMAIN r = 1..Len(r) /\ Len(r) \in Nat
  OBVIOUS
<1>2. \A k \in DOMAIN r, m \in Members :
          ScheduleStability(r, k, m) \in {"unresolved", "stable", "history_sensitive"}
  BY DEF ScheduleStability
<1>3. ASSUME NEW k \in DOMAIN r, NEW m \in Members
      PROVE  /\ ScheduleStability(r, k, m) = "stable"
                   <=> r[1][m] # "unresolved" /\ r[k][m] # "unresolved" /\ r[1][m] = r[k][m]
             /\ r[k][m] # "unresolved" =>
                   (SemanticMatch(r, k, m) = TRUE <=> r[k][m] = "conformant")
  <2>1. Unresolved(r, k, m) <=> r[1][m] = "unresolved" \/ r[k][m] = "unresolved"
    BY DEF Unresolved
  <2>2. ~ Unresolved(r, k, m) => (CanonicalMatch(r, k, m) <=> r[1][m] = r[k][m])
    BY DEF CanonicalMatch
  <2>3. r[k][m] # "unresolved" => SemanticMatch(r, k, m) = (r[k][m] = "conformant")
    BY DEF SemanticMatch
  <2>4. QED
    BY <2>1, <2>2, <2>3 DEF ScheduleStability
<1>4. ASSUME VerdictOf(r) = "stable"
      PROVE  \A k \in DOMAIN r, m \in Members : r[k][m] = "conformant"
  BY <1>3, <1>4 DEF VerdictOf, IsTraversalStabilityPass
<1>5. ASSUME \A k \in DOMAIN r, m \in Members : r[k][m] = "conformant"
      PROVE  VerdictOf(r) = "stable"
  <2>1. \A k \in DOMAIN r, m \in Members : ScheduleStability(r, k, m) = "stable"
    BY <1>1, <1>3, <1>5
  <2>2. ~ SomeComparison(r, "unresolved") /\ ~ SomeComparison(r, "history_sensitive")
    BY <2>1 DEF SomeComparison
  <2>3. IsTraversalStabilityPass(r)
    BY <1>3, <1>5, <2>1 DEF IsTraversalStabilityPass
  <2>4. QED
    BY <2>2, <2>3 DEF VerdictOf
<1>6. QED
  BY <1>4, <1>5

(* What the accepted results say, position by position. *)
LEMMA ResultAtPosition ==
    ASSUME IInv, NEW k \in DOMAIN results, NEW i \in 1..Len(Schedules[k])
    PROVE  results[k][Schedules[k][i]]
               = Observe(subject, Schedules[k][i], SubSeq(Schedules[k], 1, i - 1))
<1> DEFINE o == Schedules[k]
<1>1. o \in Range(Schedules)
  BY TraversalAssumption DEF IInv, TypeOK, Range
<1>2. results[k] = Campaign!FreshObservation(o)
  BY DEF IInv, Collected
<1>3. i \in 1..Len(o)
  OBVIOUS
<1> HIDE DEF o
<1>4. o[i] \in Members
  BY <1>1, <1>3, ScheduleFacts
<1>5. Campaign!Before(o, o[i]) = SubSeq(o, 1, i - 1)
  BY <1>1, <1>3, BeforeIsPrefix
<1>6. results[k][o[i]] = Observe(subject, o[i], SubSeq(o, 1, i - 1))
  BY <1>2, <1>4, <1>5 DEF Campaign!FreshObservation
<1>7. QED
  BY <1>6 DEF o

(* The first n results are all conformant exactly when, under each of the     *)
(* first n schedules, every member is observed as conformant given the        *)
(* members before it.                                                         *)
LEMMA StableByPosition ==
    ASSUME IInv, NEW n \in 1..Len(results)
    PROVE  VerdictOf(SubSeq(results, 1, n)) = "stable"
               <=> \A k \in 1..n : \A i \in 1..Len(Schedules[k]) :
                       Observe(subject, Schedules[k][i], SubSeq(Schedules[k], 1, i - 1))
                           = "conformant"
<1> DEFINE r == SubSeq(results, 1, n)
<1>1. results \in Seq([Members -> Observations]) /\ DOMAIN results = 1..Len(results)
  BY DEF IInv, TypeOK
<1>2. /\ r \in Seq([Members -> Observations]) /\ r # << >>
      /\ DOMAIN r = 1..n /\ \A k \in 1..n : r[k] = results[k]
  BY <1>1
<1> HIDE DEF r
<1>3. VerdictOf(r) = "stable" <=> \A k \in DOMAIN r, m \in Members : r[k][m] = "conformant"
  BY <1>2, StableMeansConformant
<1>4. VerdictOf(r) = "stable" <=> \A k \in 1..n, m \in Members : results[k][m] = "conformant"
  BY <1>2, <1>3
<1>5. ASSUME NEW k \in 1..n
      PROVE  (\A m \in Members : results[k][m] = "conformant")
                <=> \A i \in 1..Len(Schedules[k]) :
                       Observe(subject, Schedules[k][i], SubSeq(Schedules[k], 1, i - 1))
                           = "conformant"
  <2>1. k \in DOMAIN results /\ Schedules[k] \in Range(Schedules)
    BY <1>1, <1>5, TraversalAssumption DEF IInv, TypeOK, Range
  <2>2. \A i \in 1..Len(Schedules[k]) : Schedules[k][i] \in Members
    BY <2>1, ScheduleFacts
  <2>3. \A i \in 1..Len(Schedules[k]) :
              results[k][Schedules[k][i]]
                  = Observe(subject, Schedules[k][i], SubSeq(Schedules[k], 1, i - 1))
    BY <2>1, ResultAtPosition
  <2>4. \A m \in Members : \E i \in 1..Len(Schedules[k]) : Schedules[k][i] = m
    BY <2>1, ScheduleFacts
  <2>5. QED
    BY <2>2, <2>3, <2>4
<1>6. QED
  BY <1>4, <1>5 DEF r

(* The coordinator calls a subject stable exactly when every member, under    *)
(* every schedule, is observed as conformant given the members before it.     *)
StableExactlyWhenConformant ==
    outcome \in Verdicts =>
        (outcome = "stable" <=>
            \A k \in DOMAIN Schedules : \A i \in 1..Len(Schedules[k]) :
                Observe(subject, Schedules[k][i], SubSeq(Schedules[k], 1, i - 1)) = "conformant")

(* This holds of every verdict, for all schedules and subjects. *)
THEOREM StableIsConformance == Spec => []StableExactlyWhenConformant
<1>1. IInv /\ Concluded => StableExactlyWhenConformant
  <2>1. SUFFICES ASSUME IInv, Concluded, outcome \in Verdicts
                 PROVE  outcome = "stable" <=>
                          \A k \in DOMAIN Schedules : \A i \in 1..Len(Schedules[k]) :
                            Observe(subject, Schedules[k][i], SubSeq(Schedules[k], 1, i - 1))
                                = "conformant"
    BY DEF StableExactlyWhenConformant
  <2>2. /\ Len(results) = Len(Schedules) /\ outcome = VerdictOf(results)
        /\ Len(Schedules) \in Nat \ {0} /\ DOMAIN Schedules = 1..Len(Schedules)
    BY <2>1, TraversalAssumption DEF Concluded
  <2>3. SubSeq(results, 1, Len(results)) = results
    BY <2>1 DEF IInv, TypeOK
  <2>4. Len(results) \in 1..Len(results)
    BY <2>2
  <2>5. QED
    BY <2>1, <2>2, <2>3, <2>4, StableByPosition
<1>2. QED
  BY <1>1, Inductive, VerdictIsDrawnFromAllResults, PTL

-------------------------------------------------------------------------------
(* Defects *)

(* Among the first n schedules, one triggers the defect. *)
Exposed(d, n) ==
    \E k \in 1..n : \E i \in 1..Len(Schedules[k]) :
        Schedules[k][i] = d.victim /\ Triggered(d, SubSeq(Schedules[k], 1, i - 1))

(* The first n results of a subject with a defect are stable exactly when     *)
(* none of the first n schedules triggers it.                                 *)
LEMMA StableUnlessExposed ==
    ASSUME DefectsUnderTest, IInv, NEW n \in 1..Len(results)
    PROVE  VerdictOf(SubSeq(results, 1, n)) = "stable"
               <=> subject = NoDefect \/ ~ Exposed(subject, n)
<1> DEFINE d == subject
           Seen(k, i) == Observe(d, Schedules[k][i], SubSeq(Schedules[k], 1, i - 1))
           Fires(k, i) == /\ Schedules[k][i] = d.victim
                          /\ Triggered(d, SubSeq(Schedules[k], 1, i - 1))
<1>1. d \in Subjects /\ d \in AllDefects
  BY DEF IInv, TypeOK, DefectsUnderTest
<1>2. n \in Nat /\ \A k \in 1..n : /\ k \in DOMAIN Schedules
                                   /\ DOMAIN Schedules[k] = 1..Len(Schedules[k])
                                   /\ Schedules[k] \in Range(Schedules)
  BY TraversalAssumption DEF IInv, TypeOK, Range
<1>3. ASSUME NEW k \in 1..n, NEW i \in 1..Len(Schedules[k])
      PROVE  Seen(k, i) = (IF Fires(k, i) THEN d.as ELSE "conformant")
  BY <1>1, <1>2 DEF DefectsUnderTest, DefectObserve
<1>4. CASE d = NoDefect
  <2>1. \A k \in 1..n : \A i \in 1..Len(Schedules[k]) : Seen(k, i) = "conformant"
    BY <1>3, <1>4 DEF NoDefect
  <2>2. QED
    BY <1>4, <2>1, StableByPosition
<1>5. CASE d # NoDefect
  <2>1. d.as # "conformant"
    BY <1>1, <1>5, ComparisonAssumption DEF AllDefects, OrderDefects, Defects
  <2>2. \A k \in 1..n : \A i \in 1..Len(Schedules[k]) :
            Seen(k, i) = "conformant" <=> ~ Fires(k, i)
    BY <1>3, <2>1
  <2>3. VerdictOf(SubSeq(results, 1, n)) = "stable"
            <=> \A k \in 1..n : \A i \in 1..Len(Schedules[k]) : Seen(k, i) = "conformant"
    BY StableByPosition
  <2>4. Exposed(d, n) <=> \E k \in 1..n : \E i \in 1..Len(Schedules[k]) : Fires(k, i)
    BY DEF Exposed
  <2> HIDE DEF Seen, Fires
  <2>5. QED
    BY <1>5, <2>2, <2>3, <2>4
<1>6. QED
  BY <1>4, <1>5

(* Schedules that put every two members in both orders trigger every defect   *)
(* that depends on what ran before.                                           *)
LEMMA OrderDefectsAreExposed ==
    ASSUME DefectsUnderTest, NEW n \in 1..Len(Schedules),
           EveryOrderCovered(SubSeq(Schedules, 1, n)),
           NEW d \in OrderDefects, d # NoDefect
    PROVE  Exposed(d, n)
<1> DEFINE s == SubSeq(Schedules, 1, n)
<1>1. /\ n \in Nat /\ DOMAIN s = 1..n /\ \A k \in 1..n : s[k] = Schedules[k]
      /\ \A k \in 1..n : Schedules[k] \in Range(Schedules)
                         /\ DOMAIN Schedules[k] = 1..Len(Schedules[k])
                         /\ Schedules[k] \in Seq(Members)
  BY TraversalAssumption DEF Range
<1>2. /\ d.victim \in Members /\ d.cause \in Members \cup {"always"} /\ d.cause # d.victim
  BY DEF OrderDefects, Defects
<1>3. CASE d.cause = "always"
  <2>1. 1 \in 1..n /\ Schedules[1] \in Range(Schedules)
    BY <1>1
  <2>2. PICK i \in 1..Len(Schedules[1]) : Schedules[1][i] = d.victim
    BY <1>2, <2>1, ScheduleFacts
  <2>3. QED
    BY <1>3, <2>1, <2>2 DEF Exposed, Triggered
<1>4. CASE d.cause \in Members
  <2>1. PICK k \in 1..n : \E j \in 1..Len(Schedules[k]) : \E i \in 1..j - 1 :
            Schedules[k][i] = d.cause /\ Schedules[k][j] = d.victim
    <3>1. PICK k \in DOMAIN s : \E j \in DOMAIN s[k] : \E i \in 1..j - 1 :
              s[k][i] = d.cause /\ s[k][j] = d.victim
      BY <1>2, <1>4 DEF EveryOrderCovered
    <3>2. k \in 1..n /\ s[k] = Schedules[k] /\ DOMAIN Schedules[k] = 1..Len(Schedules[k])
      BY <1>1
    <3> HIDE DEF s
    <3>3. QED
      BY <3>1, <3>2
  <2>2. PICK j \in 1..Len(Schedules[k]) : \E i \in 1..j - 1 :
            Schedules[k][i] = d.cause /\ Schedules[k][j] = d.victim
    BY <2>1
  <2>3. PICK i \in 1..j - 1 : Schedules[k][i] = d.cause /\ Schedules[k][j] = d.victim
    BY <2>2
  <2>4. Schedules[k] \in Seq(Members)
    BY <1>1
  <2>5. /\ i \in DOMAIN SubSeq(Schedules[k], 1, j - 1)
        /\ SubSeq(Schedules[k], 1, j - 1)[i] = d.cause
    BY <2>3, <2>4
  <2>6. d.cause \in Range(SubSeq(Schedules[k], 1, j - 1))
    BY <2>5 DEF Range
  <2>7. QED
    BY <2>3, <2>6 DEF Exposed, Triggered
<1>5. QED
  BY <1>2, <1>3, <1>4

(* Schedules that start with every member trigger every cold-start defect. *)
LEMMA ColdStartDefectsAreExposed ==
    ASSUME FirstPositionCovered(Members, Schedules), NEW d \in Defects({"none"})
    PROVE  Exposed(d, Len(Schedules))
<1>1. d.victim \in Members /\ d.cause = "none"
  BY DEF Defects
<1>2. PICK k \in DOMAIN Schedules : Schedules[k][1] = d.victim
  BY <1>1 DEF FirstPositionCovered
<1>3. k \in 1..Len(Schedules) /\ Schedules[k] \in Range(Schedules) /\ Schedules[k] \in Seq(Members)
  BY TraversalAssumption DEF Range
<1>4. 1 \in 1..Len(Schedules[k])
  BY <1>1, <1>3, ScheduleFacts
<1>5. SubSeq(Schedules[k], 1, 1 - 1) = << >>
  BY <1>3, SubSeqEmpty
<1>6. QED
  BY <1>1, <1>2, <1>3, <1>4, <1>5 DEF Exposed, Triggered

(* The frozen orders: the canonical one and its reverse have every two        *)
(* members in both orders, so any list of schedules that begins with them has. *)
LEMMA CanonicalAndReverseCoverEveryOrder ==
    ASSUME Members = CanonicalMembers, NEW s \in Seq(Seq(Members)), Len(s) >= 2,
           s[1] = CanonicalOrder, s[2] = Reverse(CanonicalOrder)
    PROVE  EveryOrderCovered(s)
<1>1. CanonicalOrder \in Seq(CanonicalMembers) /\ Len(CanonicalOrder) = 10
      /\ DOMAIN CanonicalOrder = 1..10
  BY DEF CanonicalOrder, CanonicalMembers, ToSet
<1>2. \A m \in Members : \E p \in 1..10 : CanonicalOrder[p] = m
  BY <1>1 DEF CanonicalMembers, ToSet
<1> HIDE DEF CanonicalOrder
<1>3. DOMAIN s[2] = 1..10 /\ \A p \in 1..10 : s[2][11 - p] = CanonicalOrder[p]
  BY <1>1 DEF Reverse
<1>4. ASSUME NEW c \in Members, NEW v \in Members, c # v
      PROVE  \E k \in DOMAIN s : \E j \in DOMAIN s[k] :
                 \E i \in 1..j - 1 : s[k][i] = c /\ s[k][j] = v
  <2>1. PICK a \in 1..10, b \in 1..10 : CanonicalOrder[a] = c /\ CanonicalOrder[b] = v
    BY <1>2
  <2>2. 1 \in DOMAIN s /\ 2 \in DOMAIN s /\ a # b
    BY <1>4, <2>1
  <2>3. CASE a < b
    <3>1. a \in 1..b - 1 /\ b \in DOMAIN s[1]
      BY <1>1, <2>1, <2>3
    <3>2. QED
      BY <2>1, <2>2, <3>1
  <2>4. CASE b < a
    <3>1. 11 - a \in 1..(11 - b) - 1 /\ 11 - b \in DOMAIN s[2]
      BY <1>3, <2>1, <2>4
    <3>2. s[2][11 - a] = c /\ s[2][11 - b] = v
      BY <1>3, <2>1
    <3>3. QED
      BY <2>2, <3>1, <3>2
  <2>5. QED
    BY <2>1, <2>2, <2>3, <2>4
<1>5. QED
  BY <1>4 DEF EveryOrderCovered

(* The schedules under test are the twelve of v1. *)
FrozenRun == Members = CanonicalMembers /\ Schedules = FrozenSchedulesV1

(* What they are, one by one. *)
LEMMA FrozenSchedulesByPosition ==
    ASSUME FrozenRun
    PROVE  /\ FirstOfV0 = 5 /\ Len(Schedules) = 12
           /\ Schedules[1] = CanonicalOrder /\ Schedules[2] = Reverse(CanonicalOrder)
           /\ Schedules[3] = MovedFirst("man-hash-diff")
           /\ Schedules[4] = MovedFirst("at-nest-obj")
           /\ Schedules[5] = NonlocalOrder
           /\ \A i \in 1..7 : Schedules[5 + i] = MovedFirst(CanonicalOrder[i + 1])
<1> DEFINE late == [i \in 1..7 |-> MovedFirst(ColdStarts[i])]
<1>1. FirstOfV0 = 5
  BY DEF FirstOfV0, FrozenSchedulesV0
<1>2. Len(late) = 7 /\ DOMAIN late = 1..7
      /\ \A i \in 1..7 : late[i] = MovedFirst(CanonicalOrder[i + 1])
  BY DEF ColdStarts
<1>3. Schedules = FrozenSchedulesV0 \o late
  BY DEF FrozenRun, FrozenSchedulesV1
<1> DEFINE S == {FrozenSchedulesV0[i] : i \in 1..5} \cup {late[i] : i \in 1..7}
<1>4. FrozenSchedulesV0 \in Seq(S) /\ Len(FrozenSchedulesV0) = 5
  BY DEF FrozenSchedulesV0
<1> HIDE DEF late
<1>5. late \in Seq(S)
  <2>1. \A i \in 1..7 : late[i] \in S
    OBVIOUS
  <2> HIDE DEF S
  <2>2. QED
    BY <1>2, <2>1 DEF late
<1> HIDE DEF S
<1> HIDE DEF FrozenSchedulesV0
<1>6. /\ Len(Schedules) = 12
      /\ \A i \in 1..12 : Schedules[i] = IF i =< 5 THEN FrozenSchedulesV0[i] ELSE late[i - 5]
  <2>1. Len(late) = 7
    BY <1>2
  <2>2. ASSUME NEW T, NEW s \in Seq(T), NEW t \in Seq(T), Len(s) = 5, Len(t) = 7
        PROVE  /\ Len(s \o t) = 12
               /\ \A i \in 1..12 : (s \o t)[i] = IF i =< 5 THEN s[i] ELSE t[i - 5]
    <3>1. Len(s) + Len(t) = 12
      BY <2>2
    <3>2. /\ Len(s \o t) = 12
          /\ \A i \in 1..12 : (s \o t)[i] = IF i =< Len(s) THEN s[i] ELSE t[i - Len(s)]
      BY <3>1, ConcatProperties
    <3>3. QED
      BY <2>2, <3>2
  <2>3. QED
    BY <1>3, <1>4, <1>5, <2>1, <2>2
<1>7. \A i \in 1..5 : Schedules[i] = FrozenSchedulesV0[i]
  BY <1>6
<1>8. \A i \in 1..7 : Schedules[5 + i] = MovedFirst(CanonicalOrder[i + 1])
  BY <1>2, <1>6
<1>9. QED
  BY <1>1, <1>6, <1>7, <1>8 DEF FrozenSchedulesV0

(* A member moved to the front is first. *)
LEMMA MovedFirstIsFirst ==
    ASSUME NEW p \in 1..10
    PROVE  MovedFirst(CanonicalOrder[p])[1] = CanonicalOrder[p]
<1> DEFINE id == CanonicalOrder[p]
           q == CHOOSE n \in DOMAIN CanonicalOrder : CanonicalOrder[n] = id
           rest == RemoveAt(CanonicalOrder, q)
<1>1. CanonicalOrder \in Seq(CanonicalMembers) /\ DOMAIN CanonicalOrder = 1..10
      /\ Len(CanonicalOrder) = 10
  BY DEF CanonicalOrder, CanonicalMembers, ToSet
<1> HIDE DEF CanonicalOrder
<1>2. q \in 1..10
  <2>1. \E n \in DOMAIN CanonicalOrder : CanonicalOrder[n] = id
    BY <1>1
  <2> HIDE DEF id
  <2>2. q \in DOMAIN CanonicalOrder
    BY <2>1
  <2> HIDE DEF q
  <2>3. QED
    BY <1>1, <2>2
<1> HIDE DEF q
<1>7. id \in CanonicalMembers
  BY <1>1 DEF CanonicalMembers, ToSet
<1> HIDE DEF id
<1>3. /\ SubSeq(CanonicalOrder, 1, q - 1) \in Seq(CanonicalMembers)
      /\ SubSeq(CanonicalOrder, q + 1, 10) \in Seq(CanonicalMembers)
  <2>1. \A i \in 1..10 : CanonicalOrder[i] \in CanonicalMembers
    BY <1>1 DEF CanonicalMembers, ToSet
  <2>2. q - 1 \in Int /\ q + 1 \in Int /\ 1..q - 1 \subseteq 1..10 /\ q + 1..10 \subseteq 1..10
    BY <1>2
  <2>3. QED
    BY <2>1, <2>2, SubSeqProperties
<1>4. rest \in Seq(CanonicalMembers)
  BY <1>1, <1>3 DEF RemoveAt
<1> HIDE DEF rest
<1>5. (<<id>> \o rest)[1] = id
  BY <1>4, <1>7
<1>6. QED
  BY <1>5 DEF MovedFirst, rest, q, id

(* Every member is the first of some frozen schedule. *)
LEMMA FrozenSchedulesStartWithEveryMember ==
    ASSUME FrozenRun
    PROVE  FirstPositionCovered(Members, Schedules)
<1>1. DOMAIN Schedules = 1..12
  BY FrozenSchedulesByPosition, TraversalAssumption
<1>2. SUFFICES ASSUME NEW p \in 1..10
               PROVE  \E k \in 1..12 : Schedules[k][1] = CanonicalOrder[p]
  BY <1>1 DEF FirstPositionCovered, FrozenRun, CanonicalMembers, CanonicalOrder, ToSet
<1>3. CASE p = 1
  BY <1>3, FrozenSchedulesByPosition
<1>4. CASE p = 9
  <2>1. Schedules[4] = MovedFirst(CanonicalOrder[9])
    BY FrozenSchedulesByPosition DEF CanonicalOrder
  <2>2. QED
    BY <1>4, <2>1, MovedFirstIsFirst
<1>5. CASE p = 10
  <2>1. Schedules[3] = MovedFirst(CanonicalOrder[10])
    BY FrozenSchedulesByPosition DEF CanonicalOrder
  <2>2. QED
    BY <1>5, <2>1, MovedFirstIsFirst
<1>6. CASE p \in 2..8
  <2>1. p - 1 \in 1..7 /\ (p - 1) + 1 = p /\ 5 + (p - 1) \in 1..12
    BY <1>6
  <2>2. Schedules[5 + (p - 1)] = MovedFirst(CanonicalOrder[p])
    BY <2>1, FrozenSchedulesByPosition
  <2>3. QED
    BY <2>1, <2>2, MovedFirstIsFirst
<1>7. QED
  BY <1>2, <1>3, <1>4, <1>5, <1>6

(* Any schedules that put every two members in both orders, and start with    *)
(* every member, tell the subjects with a defect from the one without.        *)
THEOREM CoverageDetectsDefects ==
    ASSUME DefectsUnderTest, EveryOrderCovered(Schedules), FirstPositionCovered(Members, Schedules)
    PROVE  Spec => []DefectsAreDetected
<1>1. IInv /\ Concluded => DefectsAreDetected
  <2>1. SUFFICES ASSUME IInv, Concluded, outcome \in Verdicts
                 PROVE  outcome = "stable" <=> subject = NoDefect
    BY DEF DefectsAreDetected
  <2>2. /\ Len(results) = Len(Schedules) /\ outcome = VerdictOf(results)
        /\ Len(Schedules) \in 1..Len(results) /\ Len(Schedules) \in 1..Len(Schedules)
    BY <2>1, TraversalAssumption DEF Concluded
  <2>3. /\ SubSeq(results, 1, Len(Schedules)) = results
        /\ SubSeq(Schedules, 1, Len(Schedules)) = Schedules
    BY <2>1, <2>2, TraversalAssumption DEF IInv, TypeOK
  <2>4. outcome = "stable" <=> subject = NoDefect \/ ~ Exposed(subject, Len(Schedules))
    BY <2>1, <2>2, <2>3, StableUnlessExposed
  <2>5. subject \in OrderDefects \/ subject \in Defects({"none"})
    BY <2>1 DEF IInv, TypeOK, DefectsUnderTest, AllDefects
  <2>6. subject \in OrderDefects /\ subject # NoDefect => Exposed(subject, Len(Schedules))
    BY <2>2, <2>3, OrderDefectsAreExposed
  <2>7. subject \in Defects({"none"}) => Exposed(subject, Len(Schedules))
    BY ColdStartDefectsAreExposed
  <2>8. QED
    BY <2>4, <2>5, <2>6, <2>7
<1>2. QED
  BY <1>1, Inductive, VerdictIsDrawnFromAllResults, PTL

(* The twelve frozen schedules are of that kind. *)
THEOREM FrozenSchedulesDetectDefects ==
    ASSUME DefectsUnderTest, FrozenRun
    PROVE  Spec => []DefectsAreDetected
<1>1. EveryOrderCovered(Schedules)
  <2>1. /\ Members = CanonicalMembers /\ Schedules \in Seq(Seq(Members)) /\ Len(Schedules) >= 2
        /\ Schedules[1] = CanonicalOrder /\ Schedules[2] = Reverse(CanonicalOrder)
    <3>1. Schedules \in Seq(Seq(Members))
      BY TraversalAssumption
    <3>2. Members = CanonicalMembers
      BY DEF FrozenRun
    <3>3. /\ Len(Schedules) = 12
          /\ Schedules[1] = CanonicalOrder /\ Schedules[2] = Reverse(CanonicalOrder)
      BY FrozenSchedulesByPosition
    <3>4. QED
      BY <3>1, <3>2, <3>3
  <2>2. QED
    BY <2>1, CanonicalAndReverseCoverEveryOrder
<1>2. QED
  BY <1>1, FrozenSchedulesStartWithEveryMember, CoverageDetectsDefects

(* The five of v0 alone tell the subjects with a defect that depends on what  *)
(* ran before from the one without.                                           *)
THEOREM V0DetectsOrderDefects ==
    ASSUME DefectsUnderTest, FrozenRun
    PROVE  Spec => []OrderDefectsAreDetectedByV0
<1> DEFINE v0 == SubSeq(Schedules, 1, 5)
<1>1. FirstOfV0 = 5 /\ Len(Schedules) = 12 /\ Schedules \in Seq(Seq(Members))
  BY FrozenSchedulesByPosition, TraversalAssumption
<1>2. v0 \in Seq(Seq(Members)) /\ Len(v0) = 5 /\ v0[1] = Schedules[1] /\ v0[2] = Schedules[2]
  BY <1>1
<1> HIDE DEF v0
<1>3. EveryOrderCovered(v0)
  <2>1. /\ Members = CanonicalMembers /\ Len(v0) >= 2
        /\ v0[1] = CanonicalOrder /\ v0[2] = Reverse(CanonicalOrder)
    BY <1>2, FrozenSchedulesByPosition DEF FrozenRun
  <2>2. QED
    BY <1>2, <2>1, CanonicalAndReverseCoverEveryOrder
<1>4. IInv /\ Concluded => OrderDefectsAreDetectedByV0
  <2>1. SUFFICES ASSUME IInv, Concluded, outcome \in Verdicts, subject \in OrderDefects
                 PROVE  VerdictOf(SubSeq(results, 1, 5)) = "stable" <=> subject = NoDefect
    BY <1>1 DEF OrderDefectsAreDetectedByV0
  <2>2. Len(results) = Len(Schedules)
    BY <2>1 DEF Concluded
  <2>3. 5 \in 1..Len(results) /\ 5 \in 1..Len(Schedules)
    BY <1>1, <2>2
  <2>4. VerdictOf(SubSeq(results, 1, 5)) = "stable" <=> subject = NoDefect \/ ~ Exposed(subject, 5)
    BY <2>1, <2>3, StableUnlessExposed
  <2>5. subject # NoDefect => Exposed(subject, 5)
    BY <1>3, <2>1, <2>3, OrderDefectsAreExposed DEF v0
  <2>6. QED
    BY <2>4, <2>5
<1>5. QED
  BY <1>4, Inductive, VerdictIsDrawnFromAllResults, PTL

(* A member that answers differently when it is the first in its process, and *)
(* no v0 schedule starts with it, is stable as far as v0 can tell: why v1     *)
(* adds a cold start for each of these.                                       *)
V0MissesColdStart ==
    outcome \in Verdicts /\ subject \in Defects({"none"}) /\ subject.victim \in Range(ColdStarts)
        => VerdictOf(SubSeq(results, 1, FirstOfV0)) = "stable"

(* The schedules v1 adds are needed: v0's verdict is blind to what they find. *)
THEOREM ColdStartsAreNeeded ==
    ASSUME DefectsUnderTest, FrozenRun
    PROVE  Spec => []V0MissesColdStart
<1>1. FirstOfV0 = 5 /\ Len(Schedules) = 12
  BY FrozenSchedulesByPosition
<1>2. ASSUME NEW d \in Defects({"none"}), d.victim \in Range(ColdStarts), NEW k \in 1..5
      PROVE  Schedules[k][1] # d.victim
  <2>1. d.victim \in {CanonicalOrder[p] : p \in 2..8}
    BY <1>2 DEF ColdStarts, Range
  <2>2. CASE k \in {1, 2, 5}
    BY <2>1, <2>2, FrozenSchedulesByPosition DEF CanonicalOrder, NonlocalOrder, Reverse
  <2>3. CASE k = 3
    <3>1. Schedules[3][1] = CanonicalOrder[10]
      BY FrozenSchedulesByPosition, MovedFirstIsFirst DEF CanonicalOrder
    <3>2. QED
      BY <2>1, <2>3, <3>1 DEF CanonicalOrder
  <2>4. CASE k = 4
    <3>1. Schedules[4][1] = CanonicalOrder[9]
      BY FrozenSchedulesByPosition, MovedFirstIsFirst DEF CanonicalOrder
    <3>2. QED
      BY <2>1, <2>4, <3>1 DEF CanonicalOrder
  <2>5. QED
    BY <2>2, <2>3, <2>4
<1>3. ASSUME NEW d \in Defects({"none"}), d.victim \in Range(ColdStarts)
      PROVE  ~ Exposed(d, 5)
  <2>1. SUFFICES ASSUME NEW k \in 1..5, NEW i \in 1..Len(Schedules[k]),
                        Schedules[k][i] = d.victim,
                        Triggered(d, SubSeq(Schedules[k], 1, i - 1))
                 PROVE  FALSE
    BY DEF Exposed
  <2>2. Schedules[k] \in Seq(Members)
    BY <1>1, <2>1, TraversalAssumption
  <2>3. /\ SubSeq(Schedules[k], 1, i - 1) \in Seq(Members)
        /\ Len(SubSeq(Schedules[k], 1, i - 1)) = i - 1
    BY <2>1, <2>2
  <2>4. d.cause = "none" /\ "none" \notin Members
    BY DEF Defects, FrozenRun, CanonicalMembers, CanonicalOrder, ToSet
  <2>5. "none" \notin Range(SubSeq(Schedules[k], 1, i - 1))
    BY <2>3, <2>4 DEF Range
  <2>6. SubSeq(Schedules[k], 1, i - 1) = << >>
    BY <2>1, <2>4, <2>5 DEF Triggered
  <2>7. i = 1
    BY <2>1, <2>3, <2>6
  <2>8. QED
    BY <1>2, <1>3, <2>1, <2>7
<1>4. IInv /\ Concluded => V0MissesColdStart
  <2>1. SUFFICES ASSUME IInv, Concluded, outcome \in Verdicts, subject \in Defects({"none"}),
                        subject.victim \in Range(ColdStarts)
                 PROVE  VerdictOf(SubSeq(results, 1, 5)) = "stable"
    BY <1>1 DEF V0MissesColdStart
  <2>2. Len(results) = Len(Schedules)
    BY <2>1 DEF Concluded
  <2>3. 5 \in 1..Len(results)
    BY <1>1, <2>2
  <2>4. QED
    BY <1>3, <2>1, <2>3, StableUnlessExposed
<1>5. QED
  BY <1>4, Inductive, VerdictIsDrawnFromAllResults, PTL

-------------------------------------------------------------------------------
(* Why a run ends. Its end is a liveness property and is left to TLC; what   *)
(* it rests on are two safety properties, which hold for all schedules.      *)

(* What is left to do: schedules to accept, stages of the coordinator within *)
(* a launch, and what worker and timer may still do in one stage.            *)
SchedulesLeft == Len(Schedules) - Len(results)

StagesLeft ==
    IF parent = "launching" THEN 4
    ELSE IF parent = "reading" THEN 3
    ELSE IF parent = "awaiting" THEN 2
    ELSE IF parent = "judging" THEN 1
    ELSE 0

WorkerLeft ==
    (IF timer = "armed" THEN 1 ELSE 0)
      + (IF proc = "running" THEN 3 + Len(order) - Len(ran) + (IF stdout = "empty" THEN 1 ELSE 0)
         ELSE IF proc = "exiting" THEN 1 ELSE 0)

Descends ==
    \/ SchedulesLeft' < SchedulesLeft
    \/ SchedulesLeft' = SchedulesLeft /\ StagesLeft' < StagesLeft
    \/ SchedulesLeft' = SchedulesLeft /\ StagesLeft' = StagesLeft /\ WorkerLeft' < WorkerLeft

(* The order of a worker is a list of members, of which it has evaluated some. *)
LEMMA OrderType ==
    ASSUME IInv
    PROVE  /\ order \in Seq(Members)
           /\ Len(order) \in Nat /\ Len(ran) \in Nat /\ Len(ran) =< Len(order)
<1>1. order \in Range(Schedules) => order \in Seq(Members)
  BY ScheduleFacts
<1>2. << >> \in Seq(Members)
  OBVIOUS
<1>3. order \in Seq(Members)
  BY <1>1, <1>2 DEF IInv, TypeOK
<1>4. ran \in Seq(Members) /\ Len(ran) =< Len(order)
  BY DEF IInv, TypeOK, Observing
<1>5. QED
  BY <1>3, <1>4

(* There is never less than nothing left. *)
LEMMA MeasureType ==
    ASSUME IInv
    PROVE  SchedulesLeft \in Nat /\ StagesLeft \in Nat /\ WorkerLeft \in Nat
<1>1. SchedulesLeft \in Nat
  BY TraversalAssumption DEF IInv, TypeOK, SchedulesLeft
<1>2. StagesLeft \in Nat
  BY DEF IInv, TypeOK, StagesLeft
<1>3. Len(order) \in Nat /\ Len(ran) \in Nat /\ Len(ran) =< Len(order)
  BY OrderType
<1> DEFINE n == Len(order)
           k == Len(ran)
<1>4. WorkerLeft \in Nat
  <2>1. n - k \in Nat
    BY <1>3
  <2>2. 3 + n - k \in Nat
    BY <1>3
  <2>3. WorkerLeft =
          (IF timer = "armed" THEN 1 ELSE 0)
            + (IF proc = "running" THEN 3 + n - k + (IF stdout = "empty" THEN 1 ELSE 0)
               ELSE IF proc = "exiting" THEN 1 ELSE 0)
    BY DEF WorkerLeft
  <2> HIDE DEF n, k
  <2>4. QED
    BY <2>2, <2>3
<1>5. QED
  BY <1>1, <1>2, <1>4

(* A launch uses up a stage, an accepted result a schedule, and worker and   *)
(* timer only what is left to them within a stage.                           *)
LEMMA StepDescends ==
    ASSUME IInv, Next, vars' # vars
    PROVE  Descends
<1>1. Len(Schedules) \in Nat /\ Len(results) \in Nat
  BY TraversalAssumption DEF IInv, TypeOK
<1>2. Len(order) \in Nat /\ Len(ran) \in Nat /\ Len(ran) =< Len(order)
  BY OrderType
<1>3. CASE Launch \/ ReadStdout \/ AwaitExit
  <2>1. results' = results
    BY <1>3 DEF Launch, ReadStdout, AwaitExit, runVars
  <2>2. CASE Launch
    BY <1>1, <2>1, <2>2 DEF Launch, Descends, SchedulesLeft, StagesLeft
  <2>3. CASE ReadStdout
    BY <1>1, <2>1, <2>3 DEF ReadStdout, Descends, SchedulesLeft, StagesLeft
  <2>4. CASE AwaitExit
    BY <1>1, <2>1, <2>4 DEF AwaitExit, Descends, SchedulesLeft, StagesLeft
  <2>5. QED
    BY <1>3, <2>2, <2>3, <2>4
<1>4. CASE SpawnFails \/ Reject \/ Conclude
  <2>1. results' = results /\ parent \in {"launching", "judging"} /\ parent' = "settled"
    BY <1>4 DEF SpawnFails, Reject, Conclude, Settle
  <2>2. QED
    BY <1>1, <2>1 DEF Descends, SchedulesLeft, StagesLeft
<1>5. CASE Accept
  <2>1. results' = Append(results, obs) /\ results \in Seq([Members -> Observations \cup {Null}])
    BY <1>5 DEF Accept, IInv, TypeOK
  <2>2. Len(results') = Len(results) + 1
    <3>1. obs \in [Members -> Observations \cup {Null}]
      BY DEF IInv, TypeOK
    <3>2. QED
      BY <2>1, <3>1
  <2>3. QED
    BY <1>1, <2>2 DEF Descends, SchedulesLeft
<1>6. ASSUME UNCHANGED <<results, parent>>, WorkerLeft' < WorkerLeft
      PROVE  Descends
  BY <1>6 DEF Descends, SchedulesLeft, StagesLeft
<1>7. CASE TimerFires
  <2>1. timer = "armed" /\ timer' = "fired" /\ UNCHANGED <<results, parent, proc, order, ran, stdout>>
    BY <1>7 DEF TimerFires, runVars, launchVars, workerVars
  <2>2. QED
    BY <1>2, <1>6, <2>1 DEF WorkerLeft
<1>8. CASE Evaluate
  <2>1. /\ proc = "running" /\ Len(ran) < Len(order)
        /\ ran' = Append(ran, order[Len(ran) + 1])
        /\ UNCHANGED <<results, parent, proc, order, timer, stdout>>
    BY <1>8 DEF Evaluate, runVars, launchVars
  <2>2. Len(ran') = Len(ran) + 1
    <3>1. order \in Seq(Members) /\ ran \in Seq(Members)
      BY OrderType DEF IInv, TypeOK
    <3>2. order[Len(ran) + 1] \in Members
      BY <1>2, <2>1, <3>1
    <3>3. QED
      BY <2>1, <3>1, <3>2
  <2>3. QED
    BY <1>2, <1>6, <2>1, <2>2 DEF WorkerLeft
<1>9. CASE PrintResult
  <2>1. /\ proc = "running" /\ stdout = "empty" /\ stdout' \in {"garbage", "result"}
        /\ UNCHANGED <<results, parent, proc, order, ran, timer>>
    BY <1>9 DEF PrintResult, runVars, launchVars
  <2>2. QED
    BY <1>2, <1>6, <2>1 DEF WorkerLeft
<1>10. CASE ExitCleanly \/ ExitInFailure \/ DieOfSignal
  <2>1. /\ proc = "running" /\ proc' = "exiting"
        /\ UNCHANGED <<results, parent, order, ran, timer>>
    BY <1>10 DEF ExitCleanly, ExitInFailure, DieOfSignal, runVars, launchVars
  <2>2. QED
    BY <1>2, <1>6, <2>1 DEF WorkerLeft
<1>11. CASE Exited
  <2>1. /\ proc = "exiting" /\ proc' = "exited"
        /\ UNCHANGED <<results, parent, order, ran, timer, stdout>>
    BY <1>11 DEF Exited, runVars, launchVars
  <2>2. QED
    BY <1>2, <1>6, <2>1 DEF WorkerLeft
<1>12. CASE Finished
  BY <1>12 DEF Finished
<1>13. QED
  BY <1>3, <1>4, <1>5, <1>7, <1>8, <1>9, <1>10, <1>11, <1>12 DEF Next, Coordinator, Worker

(* Every step of coordinator, worker or timer uses up some of what is left,  *)
(* whatever worker the caller points to: no run of                           *)
(* verifyCounterfactualTraversalStability goes on for ever.                  *)
EveryStepDescends ==
    /\ [](SchedulesLeft \in Nat /\ StagesLeft \in Nat /\ WorkerLeft \in Nat)
    /\ [][Descends]_vars

THEOREM NoRunGoesOnForever == Spec => EveryStepDescends
<1>1. IInv => SchedulesLeft \in Nat /\ StagesLeft \in Nat /\ WorkerLeft \in Nat
  BY MeasureType
<1>2. IInv /\ [Next]_vars => [Descends]_vars
  BY StepDescends
<1>3. QED
  BY <1>1, <1>2, Inductive, PTL DEF Spec, EveryStepDescends

(* While the coordinator has not settled somebody owes it a step: itself,    *)
(* the timer, or the system that ends a process. The one exception is a      *)
(* worker that was signalled and ignores it; no worker is waited for that    *)
(* has not had its signal and no timer either.                               *)
Owed ==
    \/ parent \in {"launching", "judging"}
    \/ parent = "reading" /\ proc \in {"exiting", "exited"}
    \/ parent = "awaiting" /\ proc = "exited"
    \/ timer = "armed"
    \/ proc = "running" /\ signalled /\ script # "deaf"
    \/ proc = "exiting"

Ignored == proc = "running" /\ signalled /\ script = "deaf"

SomebodyOwesAStep == outcome = Null => Owed \/ Ignored

(* A running worker has its timer, or was sent the signal when it fired.     *)
Guarded == proc = "running" => timer = "armed" \/ signalled

(* It holds from the launch on, because the timer is armed in the same step. *)
THEOREM CoordinatorIsNeverStranded == Spec => []SomebodyOwesAStep
<1>1. Init => Guarded
  BY DEF Init, Guarded
<1>2. ASSUME IInv, Guarded, [Next]_vars
      PROVE  Guarded'
  <2>1. CASE Launch
    BY <1>2, <2>1 DEF Launch, Guarded
  <2>2. CASE TimerFires
    BY <1>2, <2>2 DEF TimerFires, Guarded, workerVars
  <2>3. CASE AwaitExit
    BY <1>2, <2>3 DEF AwaitExit, Guarded, workerVars
  <2>4. CASE SpawnFails \/ ReadStdout \/ Accept \/ Reject \/ Conclude
    BY <1>2, <2>4 DEF SpawnFails, ReadStdout, Accept, Reject, Conclude, Settle, Guarded, workerVars
  <2>5. CASE Worker
    BY <1>2, <2>5 DEF Worker, Evaluate, PrintResult, ExitCleanly, ExitInFailure, DieOfSignal, Exited, Guarded
  <2>6. CASE Finished \/ UNCHANGED vars
    BY <1>2, <2>6 DEF Finished, vars, Guarded, workerVars
  <2>7. QED
    BY <1>2, <2>1, <2>2, <2>3, <2>4, <2>5, <2>6 DEF Next, Coordinator
<1>3. IInv /\ Guarded => SomebodyOwesAStep
  BY DEF IInv, TypeOK, Phases, Launched, Guarded, SomebodyOwesAStep, Owed, Ignored
<1>4. QED
  BY <1>1, <1>2, <1>3, Inductive, PTL DEF Spec
===============================================================================
