--------------------------- MODULE ScheduleComparison ---------------------------
(***************************************************************************)
(* The comparison core of traversal stability: a member's observation      *)
(* under a schedule against the one under the canonical schedule, and what *)
(* all comparisons amount to.  An observation is what the comparison tells *)
(* apart: unresolved, conformant, or one of the ways of not conforming.    *)
(***************************************************************************)
EXTENDS Naturals, Sequences

CONSTANTS
    Members,      \* the members of the neighborhood
    Mismatches,   \* observations that differ from the expected one
    Null

Observations == {"conformant", "unresolved"} \cup Mismatches

ASSUME ComparisonAssumption ==
    /\ Null \notin Observations
    /\ {"conformant", "unresolved"} \cap Mismatches = {}

Verdicts == {"stable", "history_sensitive", "execution_unresolved"}

(* A result gives every member's observation; the first is the canonical one. *)
Unresolved(results, k, m) == "unresolved" \in {results[1][m], results[k][m]}

CanonicalMatch(results, k, m) ==
    IF Unresolved(results, k, m) THEN Null ELSE results[1][m] = results[k][m]

SemanticMatch(results, k, m) ==
    IF results[k][m] = "unresolved" THEN Null ELSE results[k][m] = "conformant"

ScheduleStability(results, k, m) ==
    IF Unresolved(results, k, m) THEN "unresolved"
    ELSE IF CanonicalMatch(results, k, m) THEN "stable" ELSE "history_sensitive"

(* Some comparison is of this class. *)
SomeComparison(results, class) ==
    \E k \in DOMAIN results, m \in Members : ScheduleStability(results, k, m) = class

IsTraversalStabilityPass(results) ==
    \A k \in DOMAIN results, m \in Members :
        /\ ScheduleStability(results, k, m) = "stable"
        /\ SemanticMatch(results, k, m) = TRUE

VerdictOf(results) ==
    IF SomeComparison(results, "unresolved") THEN "execution_unresolved"
    ELSE IF SomeComparison(results, "history_sensitive") THEN "history_sensitive"
    ELSE IF IsTraversalStabilityPass(results) THEN "stable" ELSE "history_sensitive"
===============================================================================
