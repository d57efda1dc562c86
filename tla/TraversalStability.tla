--------------------------- MODULE TraversalStability ---------------------------
(***************************************************************************)
(* The traversal-stability coordinator (verifyCounterfactualTraversal-     *)
(* Stability, v0 and v1) and the worker processes it starts one after      *)
(* another, with their standard output, exit code and timer.               *)
(* Verifiers that run in one process may influence one another; a subject  *)
(* is therefore observed given the members evaluated before in the process. *)
(***************************************************************************)
EXTENDS ScheduleComparison, SequencesExt

CONSTANTS
    Schedules,         \* the frozen orders, the canonical one first
    Subjects,          \* the verifiers that may be under test
    Observe(_, _, _),  \* a subject, a member, the members evaluated before it
    Scripts,           \* worker scripts the caller may point to
    DistinctPids       \* v0 refuses a run in which the system reused a pid

Failures == {"worker_spawn_failure", "worker_timeout", "worker_exit_failure",
             "worker_output_missing", "worker_output_malformed", "schedule_identity_mismatch"}

ASSUME TraversalAssumption ==
    /\ Schedules # << >>
    /\ \A k \in DOMAIN Schedules :
          /\ Schedules[k] \in Seq(Members)
          /\ IsInjective(Schedules[k])
          /\ ToSet(Schedules[k]) = Members
          /\ \A s \in Subjects, i \in DOMAIN Schedules[k] :
                Observe(s, Schedules[k][i], SubSeq(Schedules[k], 1, i - 1)) \in Observations
    /\ Schedules \in Seq(Seq(Members))
    /\ Scripts \subseteq {"frozen", "silent", "noisy", "misrouted", "deaf"}
    /\ DistinctPids \in BOOLEAN
    /\ Null \notin Failures \cup Verdicts

VARIABLES
    subject,    \* the verifiers under test
    script,     \* the program every worker runs
    results,    \* accepted results, in the order of the schedules
    pidReused,  \* the system gave a worker the pid of an earlier one
    outcome,    \* verdict or failure, Null while the coordinator runs
    parent,     \* what the coordinator is waiting for
    timer,      \* the timer of the current launch
    proc,       \* the current worker process
    signalled,  \* the worker was sent the terminate signal
    code,       \* its exit code
    order,      \* the order it evaluates
    ran,        \* the members it has evaluated, in order
    obs,        \* what it observed of them
    stdout      \* what it printed

workerVars == <<proc, code, ran, obs, stdout>>
launchVars == <<order, pidReused>>
runVars == <<subject, script, results, outcome>>
vars == <<runVars, launchVars, workerVars, parent, timer, signalled>>

Init ==
    /\ subject \in Subjects /\ script \in Scripts
    /\ results = << >> /\ pidReused = FALSE /\ outcome = Null
    /\ parent = "launching" /\ timer = "off"
    /\ proc = "none" /\ signalled = FALSE /\ code = Null
    /\ order = << >> /\ ran = << >> /\ obs = [m \in Members |-> Null] /\ stdout = "empty"

Scheduled == Schedules[Len(results) + 1]

-------------------------------------------------------------------------------
(* The coordinator *)

(* Mutant: the process of the last launch is used again. *)
LaunchReusingProcess ==
    /\ parent = "launching" /\ Len(results) < Len(Schedules)
    /\ proc' = "running" /\ signalled' = FALSE /\ code' = Null
    /\ obs' = [m \in Members |-> Null] /\ stdout' = "empty"
    /\ order' = Scheduled
    /\ timer' = "armed"
    /\ parent' = "reading"
    /\ UNCHANGED <<runVars, ran, pidReused>>

(* A fresh process: nothing has run in it. *)
Launch ==
    /\ parent = "launching" /\ Len(results) < Len(Schedules)
    /\ proc' = "running" /\ signalled' = FALSE /\ code' = Null
    /\ ran' = << >> /\ obs' = [m \in Members |-> Null] /\ stdout' = "empty"
    /\ IF script = "misrouted" THEN order' \in Range(Schedules) ELSE order' = Scheduled
    /\ pidReused' \in {pidReused} \cup {results # << >>}
    /\ timer' = "armed"
    /\ parent' = "reading"
    /\ UNCHANGED runVars

Settle(conclusion) ==
    /\ outcome' = conclusion
    /\ parent' = "settled"
    /\ UNCHANGED <<subject, script, launchVars, workerVars, timer, signalled>>

SpawnFails ==
    /\ parent = "launching" /\ Len(results) < Len(Schedules)
    /\ Settle("worker_spawn_failure")
    /\ UNCHANGED results

(* The worker's output ends when it starts to exit. *)
ReadStdout ==
    /\ parent = "reading" /\ proc \in {"exiting", "exited"}
    /\ parent' = "awaiting"
    /\ UNCHANGED <<runVars, launchVars, workerVars, timer, signalled>>

(* Mutant: the exit code is read without waiting for it. *)
AwaitNothing ==
    /\ parent = "awaiting"
    /\ parent' = "judging"
    /\ timer' = IF timer = "armed" THEN "off" ELSE timer
    /\ UNCHANGED <<runVars, launchVars, workerVars, signalled>>

AwaitExit ==
    /\ parent = "awaiting" /\ proc = "exited"
    /\ parent' = "judging"
    /\ timer' = IF timer = "armed" THEN "off" ELSE timer
    /\ UNCHANGED <<runVars, launchVars, workerVars, signalled>>

(* Mutant: the timeout is noted and the worker is left running. *)
TimerOnlyNotes ==
    /\ timer = "armed"
    /\ timer' = "fired"
    /\ UNCHANGED <<runVars, launchVars, workerVars, parent, signalled>>

(* It may fire after the worker has exited: then the signal reaches nobody. *)
TimerFires ==
    /\ timer = "armed"
    /\ timer' = "fired"
    /\ signalled' = (proc = "running")
    /\ UNCHANGED <<runVars, launchVars, workerVars, parent>>

(* Mutant: only a worker that did not exit by itself timed out. *)
KilledInTime == timer = "fired" /\ code # 0

TimedOut == timer = "fired"

(* Mutant: the schedule is not compared with the one asked for. *)
AnySchedule == stdout = "result"

ValidScheduleWorkerResult == stdout = "result" /\ order = Scheduled

Judgement ==
    IF TimedOut THEN "worker_timeout"
    ELSE IF code # 0 THEN "worker_exit_failure"
    ELSE IF stdout = "empty" THEN "worker_output_missing"
    ELSE IF stdout = "garbage" THEN "worker_output_malformed"
    ELSE IF ValidScheduleWorkerResult THEN "accepted"
    ELSE "schedule_identity_mismatch"

Accept ==
    /\ parent = "judging" /\ Judgement = "accepted"
    /\ results' = Append(results, obs)
    /\ parent' = "launching"
    /\ UNCHANGED <<subject, script, outcome, launchVars, workerVars, timer, signalled>>

Reject ==
    /\ parent = "judging" /\ Judgement # "accepted"
    /\ Settle(Judgement)
    /\ UNCHANGED results

Conclude ==
    /\ parent = "launching" /\ Len(results) = Len(Schedules)
    /\ IF DistinctPids /\ pidReused THEN Settle("worker_spawn_failure")
       ELSE Settle(VerdictOf(results))
    /\ UNCHANGED results

-------------------------------------------------------------------------------
(* The worker *)

Evaluate ==
    /\ proc = "running" /\ script # "silent" /\ Len(ran) < Len(order)
    /\ LET m == order[Len(ran) + 1] IN
          /\ obs' = [obs EXCEPT ![m] = Observe(subject, m, ran)]
          /\ ran' = Append(ran, m)
    /\ UNCHANGED <<runVars, launchVars, proc, code, stdout, parent, timer, signalled>>

PrintResult ==
    /\ proc = "running" /\ stdout = "empty"
    /\ script # "silent" /\ Len(ran) = Len(order)
    /\ stdout' = IF script = "noisy" THEN "garbage" ELSE "result"
    /\ UNCHANGED <<runVars, launchVars, proc, code, ran, obs, parent, timer, signalled>>

ExitCleanly ==
    /\ proc = "running" /\ (stdout # "empty" \/ script = "silent")
    /\ proc' = "exiting" /\ code' = 0
    /\ UNCHANGED <<runVars, launchVars, ran, obs, stdout, parent, timer, signalled>>

(* The worker reports a failure. *)
ExitInFailure ==
    /\ proc = "running" /\ stdout = "empty"
    /\ proc' = "exiting" /\ code' = 1
    /\ stdout' \in {stdout, "garbage"}
    /\ UNCHANGED <<runVars, launchVars, ran, obs, parent, timer, signalled>>

(* The timer's signal is the one a program may ignore, and a deaf one does.  *)
DieOfSignal ==
    /\ proc = "running" /\ signalled /\ script # "deaf"
    /\ proc' = "exiting" /\ code' = 1
    /\ stdout' \in {stdout, "garbage"}
    /\ UNCHANGED <<runVars, launchVars, ran, obs, parent, timer, signalled>>

(* The system takes the process away. *)
Exited ==
    /\ proc = "exiting"
    /\ proc' = "exited"
    /\ UNCHANGED <<runVars, launchVars, code, ran, obs, stdout, parent, timer, signalled>>

-------------------------------------------------------------------------------

Coordinator == Launch \/ SpawnFails \/ ReadStdout \/ AwaitExit \/ Accept \/ Reject \/ Conclude

Worker == Evaluate \/ PrintResult \/ ExitCleanly \/ ExitInFailure \/ DieOfSignal \/ Exited

Finished == parent = "settled" /\ UNCHANGED vars

Next == Coordinator \/ Worker \/ TimerFires \/ Finished

Spec == Init /\ [][Next]_vars

(* The event loop serves the coordinator and the timer, and the system ends  *)
(* a process that exits, or that was signalled unless it ignores the signal. *)
(* Of a worker nothing is assumed: it may hang, and a deaf one for ever.     *)
FairSpec ==
    /\ Spec
    /\ WF_vars(Coordinator)
    /\ WF_vars(TimerFires)
    /\ WF_vars(DieOfSignal)
    /\ WF_vars(Exited)

-------------------------------------------------------------------------------
(* Properties *)

TypeOK ==
    /\ subject \in Subjects /\ script \in Scripts
    /\ results \in Seq([Members -> Observations]) /\ Len(results) =< Len(Schedules)
    /\ pidReused \in BOOLEAN
    /\ outcome \in Failures \cup Verdicts \cup {Null}
    /\ parent \in {"launching", "reading", "awaiting", "judging", "settled"}
    /\ timer \in {"off", "armed", "fired"}
    /\ proc \in {"none", "running", "exiting", "exited"} /\ signalled \in BOOLEAN
    /\ code \in {0, 1, Null}
    /\ order \in Range(Schedules) \cup {<< >>} /\ ran \in Seq(Members)
    /\ obs \in [Members -> Observations \cup {Null}]
    /\ stdout \in {"empty", "garbage", "result"}

(* The results the coordinator accepts, and the verdict it draws from them,  *)
(* are those of a subject observed under each frozen schedule from a fresh   *)
(* start: no process leaks into the next, no output is taken for another.    *)
Campaign == INSTANCE StabilityCampaign WITH Failures <- Failures

ImplementsCampaign == Campaign!CampaignSpec

(* A launch whose timer fired adds no result and ends the run as a timeout,  *)
(* however complete the output and whatever the exit code.                   *)
TimeoutIsFinal ==
    [][timer = "fired" => /\ results' = results
                          /\ outcome' \in {outcome, "worker_timeout"}]_vars

(* A run that settles, in a verdict or a failure, leaves no worker behind.   *)
NoOrphan == outcome # Null => proc \in {"none", "exited"}

(* The coordinator returns or throws, even when a worker hangs, unless the   *)
(* worker ignores the signal too: no second one follows, and the coordinator *)
(* waits for the end of its output with no limit.                            *)
EventuallySettles == script # "deaf" => <>(outcome # Null)
===============================================================================
