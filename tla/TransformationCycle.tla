-------------------------- MODULE TransformationCycle --------------------------
(***************************************************************************)
(* Closed transformation cycles:                                           *)
(* src/receiptos/challenge/transformation-stability-cycle.ts.              *)
(* evaluateTransformationCycleV0 walks an authenticated sequence of edges; *)
(* preconditions, transforms, recomputation and projections belong to the  *)
(* profile's author and may refuse, report failure or throw.               *)
(***************************************************************************)
EXTENDS Naturals, Sequences, FiniteSets

CONSTANTS
    EdgeIds,     \* edge identifiers a profile may use
    MaxEdges,    \* bound on the number of edges of a profile
    Nodes,       \* the common node domain
    Values,      \* values of one projection
    Recompute,   \* what the profile's recompute reports for each node
    Unresolved,  \* recompute reporting { state: "unresolved" }
    Null         \* an unset value

Results == [normative : Values, stability : Values, forbidden : Values, allowed : Values]

ASSUME CycleAssumption ==
    /\ MaxEdges \in Nat
    /\ Recompute \in [Nodes -> Results \cup {Unresolved}]
    /\ Unresolved \notin Results
    /\ Null \notin Results \cup Nodes \cup EdgeIds

MaybeBoolean == BOOLEAN \cup {Null}

Comparisons == [normative : MaybeBoolean, stability : MaybeBoolean,
                forbidden : MaybeBoolean, allowedChanged : MaybeBoolean]

Policies == {"classify", "violation"}

Profiles == [edgeIds : UNION {[1..n -> EdgeIds] : n \in 0..MaxEdges}, policy : Policies]

VARIABLES
    profile,         \* the profile under evaluation
    pc,              \* the stage the evaluation has reached
    edgeIndex,       \* 1-based index of the edge under evaluation
    startValue,      \* startOutcome.value
    currentNode,     \* the node the next edge applies to
    previousResult,  \* the result recomputed for currentNode
    nextNode,        \* what the edge's transform returned
    nextValue,       \* the result recomputed for nextNode
    edges,           \* edgeResults
    outcome,         \* the result returned to the caller
    visited          \* history: the nodes recomputed successfully, in order

vars == <<profile, pc, edgeIndex, startValue, currentNode, previousResult,
          nextNode, nextValue, edges, outcome, visited>>

EdgeCount == Len(profile.edgeIds)

-------------------------------------------------------------------------------

(* Mutant: edge identifiers may repeat. *)
NonEmptyProfile(p) == p.edgeIds # << >>

ValidProfile(p) ==
    /\ p.edgeIds # << >>
    /\ \A i, j \in DOMAIN p.edgeIds : p.edgeIds[i] = p.edgeIds[j] => i = j

CompareProjections(l, r) ==
    [normative      |-> l.normative = r.normative,
     stability      |-> l.stability = r.stability,
     forbidden      |-> l.forbidden = r.forbidden,
     allowedChanged |-> l.allowed # r.allowed]

NoComparison == [normative |-> Null, stability |-> Null, forbidden |-> Null,
                 allowedChanged |-> Null]

(* Mutant: an edge is judged on its normative surface alone. *)
NormativeEdgeFailure(c) == IF ~c.normative THEN "normative_projection_mismatch" ELSE "none"

(* The surface that makes an edge a violation, "none" when there is none. *)
EdgeFailure(c) ==
    IF ~c.normative THEN "normative_projection_mismatch"
    ELSE IF ~c.forbidden THEN "forbidden_variant_mismatch"
    ELSE IF ~c.stability /\ profile.policy = "violation" THEN "stability_projection_mismatch"
    ELSE "none"

EndpointFailure(c) ==
    IF ~c.normative THEN "endpoint_normative_projection_mismatch"
    ELSE IF ~c.forbidden THEN "endpoint_forbidden_variant_mismatch"
    ELSE IF ~c.stability /\ profile.policy = "violation"
         THEN "endpoint_stability_projection_mismatch"
    ELSE "none"

EdgeResult(class, reason, comparison) ==
    [edge_id |-> profile.edgeIds[edgeIndex], edge_index |-> edgeIndex,
     classification |-> class, reason |-> reason, comparison |-> comparison]

Accepted == {"stable", "history_sensitive"}

EdgesClassified(es, class) == {i \in DOMAIN es : es[i].classification \in class}

(* Mutant: every evaluated edge counts as completed. *)
AggregateAllCompleted(es) ==
    [edge_count |-> EdgeCount, completed_edges |-> Len(es), history_sensitive |-> 0,
     unresolved |-> 0, out_of_domain |-> 0, violation |-> 0]

AggregateEdges(es) ==
    [edge_count        |-> EdgeCount,
     completed_edges   |-> Cardinality(EdgesClassified(es, Accepted)),
     history_sensitive |-> Cardinality(EdgesClassified(es, {"history_sensitive"})),
     unresolved        |-> Cardinality(EdgesClassified(es, {"unresolved"})),
     out_of_domain     |-> Cardinality(EdgesClassified(es, {"out_of_domain"})),
     violation         |-> Cardinality(EdgesClassified(es, {"violation"}))]

Return(class, failedEdgeId, reason, endpoint) ==
    /\ outcome' = [classification |-> class, failed_edge_id |-> failedEdgeId,
                   failure_reason |-> reason, endpoint |-> endpoint,
                   aggregate |-> AggregateEdges(edges')]
    /\ pc' = "done"

(* An edge that ends the evaluation: pushed first, then reported. *)
FailEdge(class, reason, comparison) ==
    /\ edges' = Append(edges, EdgeResult(class, reason, comparison))
    /\ Return(class, profile.edgeIds[edgeIndex], reason, NoComparison)
    /\ UNCHANGED <<profile, edgeIndex, startValue, currentNode, previousResult>>

-------------------------------------------------------------------------------

Init ==
    /\ profile \in Profiles
    /\ pc = "validate"
    /\ edgeIndex = 1
    /\ currentNode \in Nodes
    /\ startValue = Null /\ previousResult = Null
    /\ nextNode = Null /\ nextValue = Null
    /\ edges = << >>
    /\ outcome = Null
    /\ visited = << >>

(* Mutant: a contract error ends the evaluation like a result. *)
RejectAsResult ==
    /\ pc = "validate" /\ ~ValidProfile(profile)
    /\ pc' = "done"
    /\ UNCHANGED <<profile, edgeIndex, startValue, currentNode, previousResult,
                   nextNode, nextValue, edges, outcome, visited>>

RejectProfile ==
    /\ pc = "validate" /\ ~ValidProfile(profile)
    /\ pc' = "rejected"
    /\ UNCHANGED <<profile, edgeIndex, startValue, currentNode, previousResult,
                   nextNode, nextValue, edges, outcome, visited>>

AcceptProfile ==
    /\ pc = "validate" /\ ValidProfile(profile)
    /\ pc' = "start"
    /\ UNCHANGED <<profile, edgeIndex, startValue, currentNode, previousResult,
                   nextNode, nextValue, edges, outcome, visited>>

StartRecompute ==
    /\ pc = "start"
    /\ Recompute[currentNode] # Unresolved
    /\ startValue' = Recompute[currentNode]
    /\ previousResult' = Recompute[currentNode]
    /\ visited' = <<currentNode>>
    /\ pc' = "precondition"
    /\ UNCHANGED <<profile, edgeIndex, currentNode, nextNode, nextValue, edges, outcome>>

(* recompute reports "unresolved", or throws. *)
StartRecomputeFails ==
    /\ pc = "start"
    /\ UNCHANGED <<profile, edgeIndex, startValue, currentNode, previousResult,
                   nextNode, nextValue, edges, visited>>
    /\ \/ Recompute[currentNode] = Unresolved /\ Return("unresolved", Null, "reported", NoComparison)
       \/ Return("unresolved", Null, "start_recompute_failed", NoComparison)

PreconditionHolds ==
    /\ pc = "precondition"
    /\ pc' = "transform"
    /\ UNCHANGED <<profile, edgeIndex, startValue, currentNode, previousResult,
                   nextNode, nextValue, edges, outcome, visited>>

PreconditionRefuses ==
    /\ pc = "precondition"
    /\ \/ FailEdge("out_of_domain", "reported", NoComparison)
       \/ FailEdge("unresolved", "precondition_evaluation_failed", NoComparison)
    /\ UNCHANGED <<nextNode, nextValue, visited>>

Transform ==
    /\ pc = "transform"
    /\ nextNode' \in Nodes
    /\ pc' = "recompute"
    /\ UNCHANGED <<profile, edgeIndex, startValue, currentNode, previousResult,
                   nextValue, edges, outcome, visited>>

TransformThrows ==
    /\ pc = "transform"
    /\ FailEdge("unresolved", "transformation_failed", NoComparison)
    /\ UNCHANGED <<nextNode, nextValue, visited>>

EdgeRecompute ==
    /\ pc = "recompute"
    /\ Recompute[nextNode] # Unresolved
    /\ nextValue' = Recompute[nextNode]
    /\ visited' = Append(visited, nextNode)
    /\ pc' = "compare"
    /\ UNCHANGED <<profile, edgeIndex, startValue, currentNode, previousResult,
                   nextNode, edges, outcome>>

EdgeRecomputeFails ==
    /\ pc = "recompute"
    /\ \/ Recompute[nextNode] = Unresolved /\ FailEdge("unresolved", "reported", NoComparison)
       \/ FailEdge("unresolved", "edge_recompute_failed", NoComparison)
    /\ UNCHANGED <<nextNode, nextValue, visited>>

CompareThrows ==
    /\ pc = "compare"
    /\ FailEdge("unresolved", "projection_comparison_failed", NoComparison)
    /\ UNCHANGED <<nextNode, nextValue, visited>>

EdgeViolates ==
    LET c == CompareProjections(previousResult, nextValue) IN
    /\ pc = "compare"
    /\ EdgeFailure(c) # "none"
    /\ FailEdge("violation", EdgeFailure(c), c)
    /\ UNCHANGED <<nextNode, nextValue, visited>>

(* Mutant: the next edge is compared with the start result. *)
AdvanceNodeOnly == currentNode' = nextNode /\ UNCHANGED previousResult

Advance == currentNode' = nextNode /\ previousResult' = nextValue

EdgePreserves ==
    LET c == CompareProjections(previousResult, nextValue) IN
    /\ pc = "compare"
    /\ EdgeFailure(c) = "none"
    /\ edges' = Append(edges,
                  IF c.stability THEN EdgeResult("stable", Null, c)
                  ELSE EdgeResult("history_sensitive", "stability_projection_mismatch", c))
    /\ Advance
    /\ edgeIndex' = edgeIndex + 1
    /\ pc' = IF edgeIndex < EdgeCount THEN "precondition" ELSE "endpoint"
    /\ UNCHANGED <<profile, startValue, nextNode, nextValue, outcome, visited>>

(* Mutant: ends that agree make the whole cycle stable. *)
EndpointClassOfEnds(c) ==
    IF EndpointFailure(c) # "none" THEN "violation"
    ELSE IF ~c.stability THEN "history_sensitive" ELSE "stable"

(* Endpoint closure: the start result against the last one. *)
EndpointClass(c) ==
    IF EndpointFailure(c) # "none" THEN "violation"
    ELSE IF EdgesClassified(edges, {"history_sensitive"}) # {} \/ ~c.stability
         THEN "history_sensitive" ELSE "stable"

Endpoint ==
    LET c == CompareProjections(startValue, previousResult) IN
    /\ pc = "endpoint"
    /\ UNCHANGED <<profile, edgeIndex, startValue, currentNode, previousResult,
                   nextNode, nextValue, edges, visited>>
    /\ Return(EndpointClass(c), Null,
              IF EndpointFailure(c) = "none" THEN Null ELSE EndpointFailure(c), c)

EndpointThrows ==
    /\ pc = "endpoint"
    /\ UNCHANGED <<profile, edgeIndex, startValue, currentNode, previousResult,
                   nextNode, nextValue, edges, visited>>
    /\ Return("unresolved", Null, "endpoint_projection_comparison_failed", NoComparison)

Next ==
    \/ RejectProfile \/ AcceptProfile
    \/ StartRecompute \/ StartRecomputeFails
    \/ PreconditionHolds \/ PreconditionRefuses
    \/ Transform \/ TransformThrows
    \/ EdgeRecompute \/ EdgeRecomputeFails
    \/ CompareThrows \/ EdgeViolates \/ EdgePreserves
    \/ Endpoint \/ EndpointThrows

Spec == Init /\ [][Next]_vars

-------------------------------------------------------------------------------
(* Properties *)

Classifications == Accepted \cup {"unresolved", "out_of_domain", "violation"}


Reasons == {"reported", "start_recompute_failed", "precondition_evaluation_failed",
            "transformation_failed", "edge_recompute_failed", "projection_comparison_failed",
            "normative_projection_mismatch", "forbidden_variant_mismatch",
            "stability_projection_mismatch", "endpoint_projection_comparison_failed",
            "endpoint_normative_projection_mismatch", "endpoint_forbidden_variant_mismatch",
            "endpoint_stability_projection_mismatch"}

(* The counters and the outcome the caller receives. *)
Aggregates == [edge_count : Nat, completed_edges : Nat, history_sensitive : Nat,
               unresolved : Nat, out_of_domain : Nat, violation : Nat]

Outcomes == [classification : Classifications, failed_edge_id : EdgeIds \cup {Null},
             failure_reason : Reasons \cup {Null}, endpoint : Comparisons,
             aggregate : Aggregates]

ASSUME NullIsNoOutcome == Null \notin Outcomes

EdgeResults == [edge_id : EdgeIds, edge_index : Nat, classification : Classifications,
                reason : Reasons \cup {Null}, comparison : Comparisons]

(* The state of the evaluator is well formed. *)
TypeOK ==
    /\ profile \in [edgeIds : Seq(EdgeIds), policy : Policies]
    /\ pc \in {"validate", "rejected", "start", "precondition", "transform", "recompute",
               "compare", "endpoint", "done"}
    /\ edgeIndex \in Nat \ {0}
    /\ startValue \in Results \cup {Null} /\ previousResult \in Results \cup {Null}
    /\ currentNode \in Nodes /\ nextNode \in Nodes \cup {Null}
    /\ nextValue \in Results \cup {Null}
    /\ edges \in Seq(EdgeResults)
    /\ outcome \in Outcomes \cup {Null}
    /\ (outcome = Null) = (pc # "done")
    /\ visited \in Seq(Nodes)

(* The i-th result the evaluation obtained. *)
Observed(i) == Recompute[visited[i]]

ProtectedAgree(l, r) == l.normative = r.normative /\ l.forbidden = r.forbidden

StabilityAgrees(l, r) == l.stability = r.stability

(* What the profile requires of two neighbouring results. *)
Preserves(l, r) ==
    ProtectedAgree(l, r) /\ (profile.policy = "violation" => StabilityAgrees(l, r))

(* Section 7's non-erasure theorem, on the results actually recomputed: a    *)
(* cycle is accepted only if every edge was walked and every neighbouring    *)
(* pair of results, not merely the two ends, agrees on the protected         *)
(* surfaces; "stable" also means that no stability surface ever moved.       *)
NonErasure ==
    (outcome # Null /\ outcome.classification \in Accepted) =>
        /\ Len(visited) = EdgeCount + 1
        /\ \A i \in 1..EdgeCount : Preserves(Observed(i), Observed(i + 1))
        /\ (outcome.classification = "stable") =
             (\A i \in 1..EdgeCount : StabilityAgrees(Observed(i), Observed(i + 1)))

(* Each edge is applied to the node the previous edge produced, and judged   *)
(* on the results of exactly those two nodes.                                *)
EdgesCompose ==
    /\ pc \in {"precondition", "transform"} => currentNode = visited[edgeIndex]
    /\ \A i \in DOMAIN edges :
          edges[i].comparison # NoComparison =>
             edges[i].comparison = CompareProjections(Observed(i), Observed(i + 1))

(* The endpoint check never decides alone: once every edge was accepted, the *)
(* ends agree on the protected surfaces, and a moved stability surface was   *)
(* already reported by an edge.                                              *)
EndpointIsImplied ==
    pc = "endpoint" =>
        /\ Preserves(startValue, previousResult)
        /\ StabilityAgrees(startValue, previousResult)
             \/ EdgesClassified(edges, {"history_sensitive"}) # {}

(* A failed edge is named by an identifier no other edge of the profile has, *)
(* it is the last edge evaluated, and its classification is the cycle's.     *)
FailureIsLocal ==
    outcome # Null =>
        /\ \A i \in 1..(Len(edges) - 1) : edges[i].classification \in Accepted
        /\ outcome.failed_edge_id # Null =>
             /\ edges[Len(edges)].edge_id = outcome.failed_edge_id
             /\ edges[Len(edges)].classification = outcome.classification
             /\ Cardinality({i \in DOMAIN profile.edgeIds :
                               profile.edgeIds[i] = outcome.failed_edge_id}) = 1

(* The returned counters tell how far the walk went: every evaluated edge is *)
(* counted once, and all edges count as completed only if the walk reached   *)
(* the endpoint comparison.                                                  *)
AggregateTellsHowFar ==
    outcome # Null =>
        LET a == outcome.aggregate IN
        /\ a.completed_edges + a.unresolved + a.out_of_domain + a.violation = Len(edges)
        /\ (a.completed_edges = EdgeCount) =
             (Len(visited) = EdgeCount + 1 /\ outcome.failed_edge_id = Null)

(* Edge results are only ever appended, and none follows a terminal one: no  *)
(* later step rewrites or hides a recorded violation.                        *)
EdgesAreFinal ==
    [][ /\ Len(edges') >= Len(edges)
        /\ \A i \in DOMAIN edges : edges'[i] = edges[i]
        /\ (\E i \in DOMAIN edges : edges[i].classification \notin Accepted)
              => edges' = edges ]_vars

(* The evaluator implements the abstract promise. *)
ObservedPath == [i \in 1..Len(visited) |-> Observed(i)]

ReportedVerdict ==
    IF pc = "rejected" THEN "refused"
    ELSE IF outcome = Null THEN "pending" ELSE outcome.classification

Edgewise == INSTANCE EdgewisePreservation
    WITH path <- ObservedPath, verdict <- ReportedVerdict, edgeCount <- EdgeCount,
         strict <- (profile.policy = "violation"), Preserved <- ProtectedAgree,
         Unmoved <- StabilityAgrees

(* Every behaviour of the evaluator is a behaviour of EdgewisePreservation:  *)
(* the verdict depends on the path up to the first broken pair and never on  *)
(* a comparison of its ends.                                                 *)
ImplementsEdgewise == Edgewise!Spec
===============================================================================
