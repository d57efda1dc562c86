--------------------------- MODULE FirstFailureWins ---------------------------
(* What an evaluator with ordered checks promises: one decision, taken by    *)
(* the first claim of its input that does not hold, wherever the checks      *)
(* happen to be made and whatever they hand to one another.                  *)
EXTENDS Naturals

CONSTANTS
    Last,             \* number of claims
    Pending,
    Holds(_, _),      \* claim n holds of an input
    Blame(_, _),      \* the decision when claim n is the first that does not
    Acceptance        \* the decision when all hold

VARIABLES input, decision

Init == decision = Pending

(* Positions are tried in their order: a later claim may have no meaning   *)
(* when an earlier one is false.                                           *)
FirstFalse(n) == ~Holds(input, n) /\ \A m \in 1..(n - 1) : Holds(input, m)

Decide ==
    /\ decision = Pending
    /\ decision' # Pending
    /\ decision' = IF \E n \in 1..Last : FirstFalse(n)
                   THEN Blame(input, CHOOSE n \in 1..Last : FirstFalse(n))
                   ELSE Acceptance
    /\ UNCHANGED input

Spec == Init /\ [][Decide]_<<input, decision>>

===============================================================================
