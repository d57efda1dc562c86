----------------------------- MODULE DefectDetection -----------------------------
(***************************************************************************)
(* What the frozen schedules are for: exposing verifiers whose answer      *)
(* depends on what ran before them in the process.  The subjects under     *)
(* test have at most one such defect.                                      *)
(***************************************************************************)
EXTENDS TraversalStability, TraversalSchedules

(* A defect makes the victim observed as "as" after "cause" has run in the    *)
(* same process; cause "none" is when nothing has, "always" in any case.      *)
Defects(causes) ==
    [cause : causes, victim : Members, as : Mismatches \cup {"unresolved"}]

NoDefect == [cause |-> "never", victim |-> "none", as |-> "conformant"]

OrderDefects ==
    {d \in Defects(Members \cup {"always"}) : d.cause # d.victim} \cup {NoDefect}

AllDefects == OrderDefects \cup Defects({"none"})

Triggered(d, earlier) ==
    \/ d.cause = "always"
    \/ d.cause = "none" /\ earlier = << >>
    \/ d.cause \in Range(earlier)

DefectObserve(d, m, earlier) ==
    IF m = d.victim /\ Triggered(d, earlier) THEN d.as ELSE "conformant"

(* The subjects are the defects, and are observed as such. *)
DefectsUnderTest ==
    /\ Subjects \subseteq AllDefects
    /\ \A d \in Subjects, k \in DOMAIN Schedules : \A i \in DOMAIN Schedules[k] :
          Observe(d, Schedules[k][i], SubSeq(Schedules[k], 1, i - 1))
              = DefectObserve(d, Schedules[k][i], SubSeq(Schedules[k], 1, i - 1))

(* Every two members occur in both orders in some schedule. *)
EveryOrderCovered(schedules) ==
    \A c, v \in Members :
        c # v => \E k \in DOMAIN schedules : \E j \in DOMAIN schedules[k] :
                     \E i \in 1..j - 1 : schedules[k][i] = c /\ schedules[k][j] = v

FirstOfV0 == Len(FrozenSchedulesV0)

(* A run that reaches a verdict calls the subject stable exactly when it has  *)
(* no defect: the v1 schedules put every pair of members in both orders, and  *)
(* start with every member.                                                   *)
DefectsAreDetected ==
    outcome \in Verdicts => (outcome = "stable" <=> subject = NoDefect)

(* The five schedules of v0, with which those of v1 begin, suffice for every  *)
(* defect that depends on what ran before.                                    *)
OrderDefectsAreDetectedByV0 ==
    outcome \in Verdicts =>
        (subject \in OrderDefects =>
            (VerdictOf(SubSeq(results, 1, FirstOfV0)) = "stable" <=> subject = NoDefect))
===============================================================================
