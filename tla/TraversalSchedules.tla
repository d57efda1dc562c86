--------------------------- MODULE TraversalSchedules ---------------------------
(***************************************************************************)
(* The frozen orders in which the ten members of the counterfactual        *)
(* neighborhood are evaluated: five in v0, and those and seven more in v1. *)
(***************************************************************************)
EXTENDS Sequences, SequencesExt

CanonicalOrder ==
    << "observed-not-validated", "missing-required-input", "integrity-mismatch",
       "proof-root-mismatch", "predecessor-unknown", "sequence-gap",
       "checkpoint-root-mismatch", "entry-refs-noncanonical",
       "at-nest-obj", "man-hash-diff" >>

CanonicalMembers == ToSet(CanonicalOrder)

(* Mutant: the first member stays where it was. *)
NothingFirst(first) == CanonicalOrder

(* A member is moved to the front and the others keep their order. *)
MovedFirst(first) ==
    LET position == CHOOSE p \in DOMAIN CanonicalOrder : CanonicalOrder[p] = first
    IN  <<first>> \o RemoveAt(CanonicalOrder, position)

NonlocalOrder ==
    [i \in 1..10 |-> CanonicalOrder[<<1, 2, 4, 7, 3, 8, 5, 6, 9, 10>>[i]]]

(* Mutant: the second schedule is the first one again. *)
SchedulesWithoutReverse ==
    << CanonicalOrder, CanonicalOrder, MovedFirst("man-hash-diff"),
       MovedFirst("at-nest-obj"), NonlocalOrder >>

FrozenSchedulesV0 ==
    << CanonicalOrder, Reverse(CanonicalOrder), MovedFirst("man-hash-diff"),
       MovedFirst("at-nest-obj"), NonlocalOrder >>

(* The members no v0 schedule starts with. *)
ColdStarts == [i \in 1..7 |-> CanonicalOrder[i + 1]]

FrozenSchedulesV1 == FrozenSchedulesV0 \o [i \in 1..7 |-> MovedFirst(ColdStarts[i])]

(* assertExactTenUniqueCanonical, for the members of any neighborhood. *)
ExactlyOnce(members, order) == IsInjective(order) /\ ToSet(order) = members

FirstPositionCovered(members, schedules) ==
    \A id \in members : \E k \in DOMAIN schedules : schedules[k][1] = id
===============================================================================
