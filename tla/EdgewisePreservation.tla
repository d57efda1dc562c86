------------------------- MODULE EdgewisePreservation -------------------------
(***************************************************************************)
(* What a closed transformation cycle promises                             *)
(* (docs/TRANSFORMATION_STABLE_EVIDENCE_INTEROPERABILITY_V0.md, section 7), *)
(* with no nodes, stages or bookkeeping: a path of recomputed results grows *)
(* one result at a time while every neighbouring pair is preserved, and the *)
(* verdict is a function of that path alone.                                *)
(***************************************************************************)
EXTENDS Naturals, Sequences

CONSTANTS
    Results,            \* recomputed results
    Preserved(_, _),    \* normative and forbidden surfaces agree
    Unmoved(_, _)       \* stability surfaces agree

VARIABLES
    path,       \* the results recomputed so far, in order
    verdict,    \* "pending" until the evaluation ends
    edgeCount,  \* number of edges of the cycle
    strict      \* history sensitivity counts as a violation

vars == <<path, verdict, edgeCount, strict>>

(* A pair of results the profile accepts without ending the evaluation. *)
Acceptable(l, r) == Preserved(l, r) /\ (strict => Unmoved(l, r))

IntactUpTo(n) == \A i \in 1..(n - 1) : Acceptable(path[i], path[i + 1])

StillUpTo(n) == \A i \in 1..(n - 1) : Unmoved(path[i], path[i + 1])

Init ==
    /\ path = << >>
    /\ verdict = "pending"
    /\ edgeCount \in Nat
    /\ strict \in BOOLEAN

(* One more result is recomputed, allowed only while nothing was broken. *)
Observe ==
    /\ verdict = "pending"
    /\ Len(path) =< edgeCount
    /\ IntactUpTo(Len(path))
    /\ \E r \in Results : path' = Append(path, r)
    /\ UNCHANGED <<verdict, edgeCount, strict>>

(* The verdicts the path justifies.  No verdict compares the first result   *)
(* with the last one: restoring the start cannot mend a broken pair.        *)
Justified(v) ==
    CASE v = "violation"         -> ~IntactUpTo(Len(path))
      [] v = "stable"            -> /\ Len(path) = edgeCount + 1
                                    /\ IntactUpTo(Len(path))
                                    /\ StillUpTo(Len(path))
      [] v = "history_sensitive" -> /\ Len(path) = edgeCount + 1
                                    /\ IntactUpTo(Len(path))
                                    /\ ~StillUpTo(Len(path))
      [] v = "out_of_domain"     -> Len(path) \in 1..edgeCount /\ IntactUpTo(Len(path))
      [] v = "unresolved"        -> IntactUpTo(Len(path) - 1)

Decide ==
    /\ verdict = "pending"
    /\ \E v \in {"stable", "history_sensitive", "violation", "out_of_domain", "unresolved"} :
         Justified(v) /\ verdict' = v
    /\ UNCHANGED <<path, edgeCount, strict>>

(* A profile that fails its contract is never evaluated. *)
Refuse ==
    /\ verdict = "pending"
    /\ path = << >>
    /\ verdict' = "refused"
    /\ UNCHANGED <<path, edgeCount, strict>>

Next == Observe \/ Decide \/ Refuse

Spec == Init /\ [][Next]_vars
===============================================================================
