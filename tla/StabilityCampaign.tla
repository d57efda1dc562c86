--------------------------- MODULE StabilityCampaign ----------------------------
(***************************************************************************)
(* What a traversal-stability run promises                                 *)
(* (conformance/counterfactual-traversal-stability-v0/SPEC.md), without    *)
(* processes, pipes or timers: the subject is observed under one schedule  *)
(* after another, each time as if nothing had run before, and the verdict  *)
(* is a function of these observations.  A run may fail, and then says     *)
(* nothing about the subject.                                              *)
(***************************************************************************)
EXTENDS ScheduleComparison

CONSTANTS
    Schedules,         \* the orders of evaluation, the canonical one first
    Failures,          \* reasons to fail
    Observe(_, _, _)   \* a subject, a member, the members evaluated before it

VARIABLES
    subject,   \* the verifiers under test
    results,   \* observations by schedule
    outcome    \* a verdict or a failure, Null while running

campaignVars == <<subject, results, outcome>>

Before(order, m) == SubSeq(order, 1, (CHOOSE i \in DOMAIN order : order[i] = m) - 1)

(* What a process that starts with this schedule observes. *)
FreshObservation(order) == [m \in Members |-> Observe(subject, m, Before(order, m))]

CampaignInit == results = << >> /\ outcome = Null

ObserveSchedule ==
    /\ outcome = Null
    /\ Len(results) < Len(Schedules)
    /\ results' = Append(results, FreshObservation(Schedules[Len(results) + 1]))
    /\ UNCHANGED <<subject, outcome>>

Fail ==
    /\ outcome = Null
    /\ outcome' \in Failures
    /\ UNCHANGED <<subject, results>>

Conclude ==
    /\ outcome = Null
    /\ Len(results) = Len(Schedules)
    /\ outcome' = VerdictOf(results)
    /\ UNCHANGED <<subject, results>>

CampaignNext == ObserveSchedule \/ Fail \/ Conclude

CampaignSpec == CampaignInit /\ [][CampaignNext]_campaignVars
===============================================================================
