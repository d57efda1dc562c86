----------------------- MODULE TransformationCycleProofs -----------------------
(* Proofs about TransformationCycle, for every profile, node domain and      *)
(* recomputation.                                                            *)
EXTENDS TransformationCycle, FiniteSetTheorems, TLAPS

OnEdge == {"precondition", "transform", "recompute", "compare"}

Walking == OnEdge \cup {"endpoint"}

(* How far the walk has come, in every stage. *)
Progress ==
    /\ pc \in {"validate", "rejected", "start"} =>
         visited = << >> /\ edges = << >> /\ edgeIndex = 1
    /\ pc \notin {"validate", "rejected"} => ValidProfile(profile)
    /\ pc \in OnEdge => edgeIndex =< EdgeCount
    /\ pc \in Walking => Len(edges) = edgeIndex - 1
    /\ pc \in Walking \ {"compare"} => Len(visited) = edgeIndex
    /\ pc = "compare" => Len(visited) = edgeIndex + 1
    /\ pc = "endpoint" => edgeIndex = EdgeCount + 1
    /\ pc \in {"recompute", "compare"} => nextNode \in Nodes
    /\ pc = "compare" => nextValue \in Results

(* The registers hold what the history says they hold. *)
Registers ==
    /\ \A i \in DOMAIN visited : Observed(i) \in Results
    /\ pc \in Walking =>
         /\ startValue = Observed(1)
         /\ currentNode = visited[edgeIndex]
         /\ previousResult = Observed(edgeIndex)
    /\ pc = "compare" =>
         /\ nextNode = visited[edgeIndex + 1]
         /\ nextValue = Observed(edgeIndex + 1)

(* Edge i was walked, preserved and classified by its own two results. *)
Walked(i) ==
    /\ Preserves(Observed(i), Observed(i + 1))
    /\ edges[i].comparison = CompareProjections(Observed(i), Observed(i + 1))
    /\ edges[i].classification =
         IF StabilityAgrees(Observed(i), Observed(i + 1)) THEN "stable" ELSE "history_sensitive"

(* While the walk goes on every earlier edge was preserved, and so was, by   *)
(* transitivity, the pair of its ends.                                       *)
Unbroken ==
    pc \in Walking =>
        /\ \A i \in 1..(edgeIndex - 1) : Walked(i)
        /\ Preserves(startValue, previousResult)
        /\ \/ StabilityAgrees(startValue, previousResult)
           \/ \E i \in DOMAIN edges : edges[i].classification = "history_sensitive"

IInv ==
    /\ TypeOK /\ Progress /\ Registers /\ Unbroken
    /\ NonErasure /\ EdgesCompose /\ EndpointIsImplied

-------------------------------------------------------------------------------
(* Types of the values a step builds. *)

(* Comparing any two results gives four truth values. *)
LEMMA ComparisonType ==
    ASSUME NEW l, NEW r
    PROVE  CompareProjections(l, r) \in Comparisons
BY DEF CompareProjections, Comparisons, MaybeBoolean

(* The counters of a result are numbers. *)
LEMMA AggregateType ==
    ASSUME NEW es \in Seq(EdgeResults), EdgeCount \in Nat
    PROVE  AggregateEdges(es) \in Aggregates
<1>1. \A class : Cardinality(EdgesClassified(es, class)) \in Nat
  <2>1. IsFiniteSet(DOMAIN es)
    BY FS_Interval
  <2>2. \A class : EdgesClassified(es, class) \in SUBSET DOMAIN es
    BY DEF EdgesClassified
  <2>3. QED
    BY <2>1, <2>2, FS_Subset, FS_CardinalityType
<1>2. QED
  BY <1>1 DEF AggregateEdges, Aggregates

(* Every result the evaluator returns is well formed. *)
LEMMA ReturnType ==
    ASSUME TypeOK, profile' = profile, edges' \in Seq(EdgeResults),
           NEW class \in Classifications, NEW failed \in EdgeIds \cup {Null},
           NEW reason \in Reasons \cup {Null}, NEW endpoint \in Comparisons,
           Return(class, failed, reason, endpoint)
    PROVE  outcome' \in Outcomes /\ pc' = "done" /\ outcome'.classification = class
                /\ outcome' # Null
<1>1. EdgeCount \in Nat /\ EdgeCount' = EdgeCount
  BY DEF TypeOK, EdgeCount
<1>2. AggregateEdges(edges') \in Aggregates
  BY <1>1, AggregateType
<1>3. QED
  BY <1>2, NullIsNoOutcome DEF Return, Outcomes

(* A failing edge adds one well-formed edge result and ends the evaluation. *)
LEMMA FailEdgeType ==
    ASSUME TypeOK, Progress, pc \in OnEdge,
           NEW class \in Classifications, NEW reason \in Reasons, NEW c \in Comparisons,
           FailEdge(class, reason, c)
    PROVE  /\ edges' \in Seq(EdgeResults)
           /\ outcome' \in Outcomes /\ outcome'.classification = class /\ outcome' # Null
           /\ pc' = "done"
<1>1. profile.edgeIds[edgeIndex] \in EdgeIds
  BY DEF TypeOK, Progress, EdgeCount
<1>2. edges' \in Seq(EdgeResults)
  BY <1>1 DEF FailEdge, EdgeResult, EdgeResults, TypeOK
<1>3. NoComparison \in Comparisons
  BY DEF NoComparison, Comparisons, MaybeBoolean
<1>4. QED
  BY <1>1, <1>2, <1>3, ReturnType DEF FailEdge

-------------------------------------------------------------------------------
(* Types and progress are inductive together. *)

LEMMA InitTyped == Init => TypeOK /\ Progress
<1> SUFFICES ASSUME Init PROVE TypeOK /\ Progress
  OBVIOUS
<1>1. profile \in [edgeIds : Seq(EdgeIds), policy : Policies]
  BY CycleAssumption DEF Init, Profiles
<1>2. edges \in Seq(EdgeResults) /\ visited \in Seq(Nodes)
  BY DEF Init
<1>3. QED
  BY <1>1, <1>2, CycleAssumption DEF Init, TypeOK, Progress, OnEdge, Walking

LEMMA NextTyped == TypeOK /\ Progress /\ [Next]_vars => TypeOK' /\ Progress'
<1> SUFFICES ASSUME TypeOK, Progress, [Next]_vars PROVE TypeOK' /\ Progress'
  OBVIOUS
<1> USE DEF EdgeCount
<1>1. CASE RejectProfile
  BY <1>1 DEF RejectProfile, TypeOK, Progress, OnEdge, Walking
<1>2. CASE AcceptProfile
  BY <1>2 DEF AcceptProfile, TypeOK, Progress, OnEdge, Walking, ValidProfile
<1>3. CASE StartRecompute
  <2>1. Recompute[currentNode] \in Results
    BY <1>3, CycleAssumption DEF StartRecompute, TypeOK
  <2>2. EdgeCount >= 1
    BY <1>3 DEF StartRecompute, TypeOK, Progress, ValidProfile
  <2>3. QED
    BY <1>3, <2>1, <2>2 DEF StartRecompute, TypeOK, Progress, OnEdge, Walking
<1>4. CASE StartRecomputeFails
  <2>1. NoComparison \in Comparisons
    BY DEF NoComparison, Comparisons, MaybeBoolean
  <2>2. "unresolved" \in Classifications /\ "reported" \in Reasons
          /\ "start_recompute_failed" \in Reasons
    BY DEF Classifications, Reasons
  <2>3. profile' = profile /\ edges' \in Seq(EdgeResults)
    BY <1>4 DEF StartRecomputeFails, TypeOK
  <2>4. \/ Return("unresolved", Null, "reported", NoComparison)
        \/ Return("unresolved", Null, "start_recompute_failed", NoComparison)
    BY <1>4 DEF StartRecomputeFails
  <2>5. outcome' \in Outcomes /\ pc' = "done" /\ outcome' # Null
    BY <2>1, <2>2, <2>3, <2>4, ReturnType
  <2>6. QED
    BY <1>4, <2>5 DEF StartRecomputeFails, TypeOK, Progress, OnEdge, Walking
<1>5. CASE PreconditionHolds
  BY <1>5 DEF PreconditionHolds, TypeOK, Progress, OnEdge, Walking
<1>6. CASE Transform
  BY <1>6 DEF Transform, TypeOK, Progress, OnEdge, Walking
<1>7. CASE EdgeRecompute
  <2>1. Recompute[nextNode] \in Results /\ nextNode \in Nodes
    BY <1>7, CycleAssumption DEF EdgeRecompute, TypeOK, Progress
  <2>2. QED
    BY <1>7, <2>1 DEF EdgeRecompute, TypeOK, Progress, OnEdge, Walking
<1>8. CASE PreconditionRefuses \/ TransformThrows \/ EdgeRecomputeFails \/ CompareThrows
             \/ EdgeViolates
  <2>1. /\ pc \in OnEdge
        /\ \E class \in Classifications, reason \in Reasons, c \in Comparisons :
              FailEdge(class, reason, c)
        /\ UNCHANGED <<nextNode, nextValue, visited>>
    <3>1. NoComparison \in Comparisons
      BY DEF NoComparison, Comparisons, MaybeBoolean
    <3>2. CASE EdgeViolates
      <4> DEFINE c == CompareProjections(previousResult, nextValue)
      <4>1. "violation" \in Classifications /\ EdgeFailure(c) \in Reasons
        BY <3>2 DEF EdgeViolates, Classifications, EdgeFailure, Reasons
      <4>2. c \in Comparisons
        BY ComparisonType
      <4>3. FailEdge("violation", EdgeFailure(c), c)
        BY <3>2 DEF EdgeViolates
      <4> HIDE DEF c
      <4>4. QED
        BY <3>2, <4>1, <4>2, <4>3 DEF EdgeViolates, OnEdge
    <3>3. CASE ~EdgeViolates
      <4>1. {"unresolved", "out_of_domain"} \subseteq Classifications
        BY DEF Classifications
      <4>2. \E class \in {"unresolved", "out_of_domain"}, reason \in Reasons :
               FailEdge(class, reason, NoComparison)
        BY <1>8, <3>3
        DEF PreconditionRefuses, TransformThrows, EdgeRecomputeFails, CompareThrows, Reasons
      <4>3. QED
        BY <1>8, <3>1, <3>3, <4>1, <4>2
        DEF PreconditionRefuses, TransformThrows, EdgeRecomputeFails, CompareThrows, OnEdge
    <3>4. QED
      BY <3>2, <3>3
  <2>2. PICK class \in Classifications, reason \in Reasons, c \in Comparisons :
           FailEdge(class, reason, c)
    BY <2>1
  <2>3. edges' \in Seq(EdgeResults) /\ outcome' \in Outcomes /\ outcome' # Null /\ pc' = "done"
    BY <2>1, <2>2, FailEdgeType
  <2>4. QED
    BY <2>1, <2>2, <2>3 DEF FailEdge, TypeOK, Progress, OnEdge, Walking
<1>9. CASE EdgePreserves
  <2>1. profile.edgeIds[edgeIndex] \in EdgeIds
    BY <1>9 DEF EdgePreserves, TypeOK, Progress, OnEdge
  <2>2. edges' \in Seq(EdgeResults) /\ Len(edges') = Len(edges) + 1
    BY <1>9, <2>1, ComparisonType
    DEF EdgePreserves, TypeOK, EdgeResult, EdgeResults, Classifications, Accepted, Reasons
  <2>3. nextNode \in Nodes
    BY <1>9 DEF EdgePreserves, TypeOK, Progress
  <2>4. nextValue \in Results
    BY <1>9 DEF EdgePreserves, TypeOK, Progress
  <2>5. QED
    BY <1>9, <2>2, <2>3 DEF EdgePreserves, Advance, TypeOK, Progress, OnEdge, Walking
<1>10. CASE Endpoint \/ EndpointThrows
  <2>1. NoComparison \in Comparisons
    BY DEF NoComparison, Comparisons, MaybeBoolean
  <2>2. /\ outcome' \in Outcomes /\ pc' = "done" /\ outcome' # Null
        /\ UNCHANGED <<profile, edgeIndex, startValue, currentNode, previousResult,
                       nextNode, nextValue, edges, visited>>
    <3>1. CASE Endpoint
      <4>1. EndpointClass(CompareProjections(startValue, previousResult)) \in Classifications
        BY DEF EndpointClass, Classifications, Accepted
      <4>2. EndpointFailure(CompareProjections(startValue, previousResult)) \in Reasons \cup {"none"}
        BY <3>1 DEF Endpoint, EndpointFailure, Reasons
      <4>3. QED
        BY <3>1, <4>1, <4>2, ComparisonType, ReturnType DEF Endpoint, TypeOK, Reasons
    <3>2. CASE EndpointThrows
      <4>1. "unresolved" \in Classifications /\ "endpoint_projection_comparison_failed" \in Reasons
        BY DEF Classifications, Reasons
      <4>2. profile' = profile /\ edges' \in Seq(EdgeResults)
        BY <3>2 DEF EndpointThrows, TypeOK
      <4>3. QED
        BY <3>2, <2>1, <4>1, <4>2, ReturnType DEF EndpointThrows
    <3>3. QED
      BY <1>10, <3>1, <3>2
  <2>3. QED
    BY <1>10, <2>2 DEF Endpoint, EndpointThrows, TypeOK, Progress, OnEdge, Walking
<1>11. CASE UNCHANGED vars
  BY <1>11 DEF vars, TypeOK, Progress, OnEdge, Walking, ValidProfile
<1>12. QED
  BY <1>1, <1>2, <1>3, <1>4, <1>5, <1>6, <1>7, <1>8, <1>9, <1>10, <1>11 DEF Next

(* The evaluator's state is well formed, and its history as long as its      *)
(* stage says.                                                               *)
THEOREM TypeCorrect == Spec => [](TypeOK /\ Progress)
<1>1. Init => TypeOK /\ Progress
  BY InitTyped
<1>2. TypeOK /\ Progress /\ [Next]_vars => TypeOK' /\ Progress'
  BY NextTyped
<1>3. QED
  BY <1>1, <1>2, PTL DEF Spec

-------------------------------------------------------------------------------
(* No cycle is accepted over a broken edge. *)

(* The stages that end the evaluation with a result that accepts nothing. *)
Failing ==
    \/ StartRecomputeFails \/ PreconditionRefuses \/ TransformThrows
    \/ EdgeRecomputeFails \/ CompareThrows \/ EdgeViolates \/ EndpointThrows

(* A failing stage leaves the history alone, records at most one more edge,  *)
(* with the comparison it made or with none, and accepts nothing.            *)
LEMMA FailingStep ==
    ASSUME TypeOK, Progress, Failing
    PROVE  /\ pc' = "done" /\ pc \notin {"validate", "rejected", "done"}
           /\ UNCHANGED <<profile, visited>>
           /\ outcome'.classification \notin Accepted
           /\ \/ edges' = edges
              \/ /\ pc \in OnEdge /\ Len(edges') = edgeIndex
                 /\ \A i \in DOMAIN edges : edges'[i] = edges[i]
                 /\ edges'[edgeIndex].comparison # NoComparison =>
                      /\ pc = "compare"
                      /\ edges'[edgeIndex].comparison
                           = CompareProjections(previousResult, nextValue)
<1>1. CASE StartRecomputeFails \/ EndpointThrows
  BY <1>1 DEF StartRecomputeFails, EndpointThrows, Return, Accepted
<1>2. CASE PreconditionRefuses \/ TransformThrows \/ EdgeRecomputeFails \/ CompareThrows
             \/ EdgeViolates
  <2>1. PICK class \in {"unresolved", "out_of_domain", "violation"}, reason \in Reasons,
             c \in {NoComparison, CompareProjections(previousResult, nextValue)} :
           /\ pc \in OnEdge /\ UNCHANGED visited
           /\ FailEdge(class, reason, c)
           /\ c # NoComparison => pc = "compare"
    <3>1. CASE EdgeViolates
      BY <3>1 DEF EdgeViolates, EdgeFailure, Reasons, OnEdge
    <3>2. CASE ~EdgeViolates
      BY <1>2, <3>2
      DEF PreconditionRefuses, TransformThrows, EdgeRecomputeFails, CompareThrows, Reasons, OnEdge
    <3>3. QED
      BY <3>1, <3>2
  <2>2. edges' = Append(edges, EdgeResult(class, reason, c))
    BY <2>1 DEF FailEdge
  <2>3. Len(edges') = edgeIndex /\ edges'[edgeIndex].comparison = c
          /\ \A i \in DOMAIN edges : edges'[i] = edges[i]
    BY <2>1, <2>2 DEF TypeOK, Progress, Walking, OnEdge, EdgeResult
  <2>4. QED
    BY <2>1, <2>3 DEF FailEdge, Return, Accepted, OnEdge
<1>3. QED
  BY <1>1, <1>2 DEF Failing

(* Recomputing one more node changes no earlier observation. *)
LEMMA HistoryGrows ==
    ASSUME TypeOK, Progress, EdgeRecompute
    PROVE  /\ \A i \in 1..edgeIndex : visited'[i] = visited[i] /\ Observed(i)' = Observed(i)
           /\ visited'[edgeIndex + 1] = nextNode
           /\ Observed(edgeIndex + 1)' = Recompute[nextNode]
           /\ Len(visited') = edgeIndex + 1
BY DEF TypeOK, Progress, EdgeRecompute, Walking, OnEdge, Observed

LEMMA InitInductive == Init => IInv
<1> SUFFICES ASSUME Init PROVE IInv
  OBVIOUS
<1>1. TypeOK /\ Progress
  BY InitTyped
<1>2. Registers /\ Unbroken /\ NonErasure /\ EdgesCompose /\ EndpointIsImplied
  BY DEF Init, Registers, Unbroken, NonErasure, EdgesCompose, EndpointIsImplied, Walking, OnEdge
<1>3. QED
  BY <1>1, <1>2 DEF IInv

LEMMA RegistersStep == IInv /\ [Next]_vars => Registers'
<1> SUFFICES ASSUME IInv, [Next]_vars PROVE Registers'
  OBVIOUS
<1> USE DEF IInv, Registers
<1>1. TypeOK' /\ Progress'
  BY NextTyped
<1>2. CASE RejectProfile \/ AcceptProfile \/ PreconditionHolds \/ UNCHANGED vars
  BY <1>2 DEF RejectProfile, AcceptProfile, PreconditionHolds, vars, Walking, OnEdge, Observed
<1>3. CASE StartRecompute
  BY <1>3, CycleAssumption DEF StartRecompute, Progress, TypeOK, Walking, OnEdge, Observed
<1>4. CASE Failing
  <2>1. pc' = "done" /\ visited' = visited
    BY <1>4, FailingStep
  <2>2. QED
    BY <2>1 DEF Walking, OnEdge, Observed
<1>5. CASE Transform
  BY <1>5 DEF Transform, Walking, OnEdge, Observed
<1>6. CASE EdgeRecompute
  <2>1. Recompute[nextNode] \in Results
    BY <1>6, CycleAssumption DEF EdgeRecompute, TypeOK, Progress
  <2>2. /\ \A i \in 1..edgeIndex : visited'[i] = visited[i] /\ Observed(i)' = Observed(i)
        /\ visited'[edgeIndex + 1] = nextNode
        /\ Observed(edgeIndex + 1)' = Recompute[nextNode]
        /\ Len(visited') = edgeIndex + 1
    BY <1>6, HistoryGrows
  <2>3. DOMAIN visited = 1..edgeIndex /\ DOMAIN visited' = 1..(edgeIndex + 1)
          /\ edgeIndex \in Nat /\ edgeIndex >= 1
    BY <1>1, <1>6, <2>2 DEF EdgeRecompute, TypeOK, Progress, Walking, OnEdge
  <2>4. \A i \in DOMAIN visited' : Observed(i)' \in Results
    <3> TAKE i \in DOMAIN visited'
    <3>1. CASE i \in 1..edgeIndex
      BY <2>2, <2>3, <3>1
    <3>2. CASE i = edgeIndex + 1
      BY <2>1, <2>2, <3>2 DEF Observed
    <3>3. QED
      BY <2>3, <3>1, <3>2
  <2>5. pc' = "compare" /\ nextValue' = Recompute[nextNode]
          /\ UNCHANGED <<edgeIndex, startValue, currentNode, previousResult, nextNode>>
    BY <1>6 DEF EdgeRecompute
  <2>6. pc \in Walking
    BY <1>6 DEF EdgeRecompute, Walking, OnEdge
  <2>7. QED
    BY <2>2, <2>3, <2>4, <2>5, <2>6
<1>7. CASE EdgePreserves
  BY <1>7 DEF EdgePreserves, Advance, TypeOK, Walking, OnEdge, Observed
<1>8. CASE Endpoint
  BY <1>8 DEF Endpoint, Return, Walking, OnEdge, Observed
<1>9. QED
  BY <1>2, <1>3, <1>4, <1>5, <1>6, <1>7, <1>8 DEF Next, Failing

(* While the walk goes on, the ends agree because every pair between them    *)
(* does: the step that extends the walk is the transitivity argument.        *)
LEMMA UnbrokenStep == IInv /\ [Next]_vars => Unbroken'
<1> SUFFICES ASSUME IInv, [Next]_vars PROVE Unbroken'
  OBVIOUS
<1> USE DEF IInv, Unbroken
<1>1. TypeOK' /\ Progress' /\ Registers'
  BY NextTyped, RegistersStep
<1>2. CASE RejectProfile \/ AcceptProfile \/ PreconditionHolds \/ Transform \/ UNCHANGED vars
  BY <1>2 DEF RejectProfile, AcceptProfile, PreconditionHolds, Transform, vars, Walking, OnEdge,
     Walked, Observed, Preserves
<1>3. CASE StartRecompute
  BY <1>3 DEF StartRecompute, Progress, Preserves, ProtectedAgree, StabilityAgrees
<1>4. CASE Failing
  BY <1>4, FailingStep DEF Walking, OnEdge
<1>5. CASE EdgeRecompute
  <2>1. /\ \A i \in 1..edgeIndex : Observed(i)' = Observed(i)
        /\ edgeIndex \in Nat
    BY <1>5, HistoryGrows DEF TypeOK
  <2>2. \A i \in 1..(edgeIndex - 1) : Walked(i)
    BY <1>5 DEF EdgeRecompute, Walking, OnEdge
  <2>3. UNCHANGED <<profile, edgeIndex, edges, startValue, previousResult>>
    BY <1>5 DEF EdgeRecompute
  <2>4. \A i \in 1..(edgeIndex - 1) : Walked(i)'
    <3> TAKE i \in 1..(edgeIndex - 1)
    <3>1. Observed(i)' = Observed(i) /\ Observed(i + 1)' = Observed(i + 1)
      BY <2>1
    <3>2. Walked(i)
      BY <2>2
    <3>3. QED
      BY <2>3, <3>1, <3>2 DEF Walked, Preserves
  <2>5. pc \in Walking
    BY <1>5 DEF EdgeRecompute, Walking, OnEdge
  <2>6. QED
    BY <2>3, <2>4, <2>5 DEF Preserves
<1>6. CASE EdgePreserves
  <2> DEFINE c == CompareProjections(previousResult, nextValue)
  <2>1. /\ edgeIndex \in Nat /\ edgeIndex >= 1 /\ Len(edges) = edgeIndex - 1
        /\ pc \in Walking /\ edgeIndex' = edgeIndex + 1
        /\ UNCHANGED <<profile, startValue, visited>> /\ previousResult' = nextValue
    BY <1>6 DEF EdgePreserves, Advance, TypeOK, Progress, Walking, OnEdge
  <2>2. /\ \A i \in 1..(edgeIndex - 1) : edges'[i] = edges[i]
        /\ Len(edges') = edgeIndex
        /\ edges'[edgeIndex].comparison = c
        /\ edges'[edgeIndex].classification
             = IF c.stability THEN "stable" ELSE "history_sensitive"
    BY <1>6, <2>1 DEF EdgePreserves, EdgeResult, TypeOK
  <2>3. Preserves(previousResult, nextValue)
    BY <1>6 DEF EdgePreserves, EdgeFailure, CompareProjections, Preserves, ProtectedAgree,
       StabilityAgrees
  <2>4. previousResult = Observed(edgeIndex) /\ nextValue = Observed(edgeIndex + 1)
    BY <1>6, <2>1 DEF EdgePreserves, Registers
  <2>5. \A i \in 1..edgeIndex : Walked(i)'
    <3> TAKE i \in 1..edgeIndex
    <3>1. CASE i = edgeIndex
      BY <2>1, <2>2, <2>3, <2>4, <3>1
      DEF Walked, Observed, Preserves, StabilityAgrees, CompareProjections
    <3>2. CASE i \in 1..(edgeIndex - 1)
      BY <2>1, <2>2, <3>2 DEF Walked, Observed, Preserves
    <3>3. QED
      BY <2>1, <3>1, <3>2
  <2>6. Preserves(startValue, nextValue)
    BY <2>1, <2>3 DEF Preserves, ProtectedAgree, StabilityAgrees
  <2>7. \/ StabilityAgrees(startValue, nextValue)
        \/ \E i \in DOMAIN edges' : edges'[i].classification = "history_sensitive"
    <3>1. CASE \E i \in DOMAIN edges : edges[i].classification = "history_sensitive"
      BY <1>1, <2>1, <2>2, <3>1 DEF TypeOK
    <3>2. CASE ~c.stability
      BY <1>1, <2>1, <2>2, <3>2 DEF TypeOK
    <3>3. CASE StabilityAgrees(startValue, previousResult) /\ c.stability
      BY <3>3 DEF StabilityAgrees, CompareProjections
    <3>4. QED
      BY <2>1, <3>1, <3>2, <3>3
  <2>8. QED
    BY <2>1, <2>5, <2>6, <2>7 DEF Preserves
<1>7. CASE Endpoint
  BY <1>7 DEF Endpoint, Return, Walking, OnEdge
<1>8. QED
  BY <1>2, <1>3, <1>4, <1>5, <1>6, <1>7 DEF Next, Failing

LEMMA ComposeStep == IInv /\ [Next]_vars => EdgesCompose'
<1> SUFFICES ASSUME IInv, [Next]_vars PROVE EdgesCompose'
  OBVIOUS
<1> USE DEF IInv, EdgesCompose
<1>1. TypeOK' /\ Progress' /\ Registers' /\ Unbroken'
  BY NextTyped, RegistersStep, UnbrokenStep
<1>2. pc' \in {"precondition", "transform"} => currentNode' = visited'[edgeIndex']
  BY <1>1 DEF Registers, Walking, OnEdge
<1>3. CASE pc' \in Walking
  <2>1. DOMAIN edges' = 1..(edgeIndex' - 1)
    BY <1>1, <1>3 DEF TypeOK, Progress
  <2>2. QED
    BY <1>1, <1>2, <1>3, <2>1 DEF Unbroken, Walked
<1>4. CASE UNCHANGED vars
  BY <1>4 DEF vars, Observed
<1>5. CASE Failing
  <2>1. /\ pc' = "done" /\ UNCHANGED <<profile, visited>>
        /\ \/ edges' = edges
           \/ /\ pc \in OnEdge /\ Len(edges') = edgeIndex
              /\ \A i \in DOMAIN edges : edges'[i] = edges[i]
              /\ edges'[edgeIndex].comparison # NoComparison =>
                   /\ pc = "compare"
                   /\ edges'[edgeIndex].comparison
                        = CompareProjections(previousResult, nextValue)
    BY <1>5, FailingStep
  <2>2. CASE edges' = edges
    BY <1>2, <2>1, <2>2 DEF Observed
  <2>3. CASE edges' # edges
    <3>1. DOMAIN edges' = 1..edgeIndex /\ DOMAIN edges = 1..(edgeIndex - 1)
      BY <1>1, <2>1, <2>3 DEF TypeOK, Progress, Walking
    <3>2. pc = "compare" => previousResult = Observed(edgeIndex)
                              /\ nextValue = Observed(edgeIndex + 1)
      BY DEF Registers, Walking, OnEdge
    <3>3. \A i \in DOMAIN edges' : edges'[i].comparison # NoComparison =>
             edges'[i].comparison = CompareProjections(Observed(i), Observed(i + 1))
      <4> TAKE i \in DOMAIN edges'
      <4>1. CASE i = edgeIndex
        BY <2>1, <2>3, <3>2, <4>1
      <4>2. CASE i \in DOMAIN edges
        BY <2>1, <2>3, <4>2
      <4>3. QED
        BY <3>1, <4>1, <4>2 DEF TypeOK
    <3>4. QED
      BY <1>2, <2>1, <3>3 DEF Observed
  <2>4. QED
    BY <2>2, <2>3
<1>6. CASE Endpoint \/ RejectProfile \/ AcceptProfile
  BY <1>2, <1>6 DEF Endpoint, RejectProfile, AcceptProfile, Observed
<1>7. QED
  <2>1. CASE StartRecompute \/ PreconditionHolds \/ Transform \/ EdgeRecompute \/ EdgePreserves
    BY <1>3, <2>1
    DEF StartRecompute, PreconditionHolds, Transform, EdgeRecompute, EdgePreserves, Walking, OnEdge
  <2>2. QED
    BY <1>4, <1>5, <1>6, <2>1 DEF Next, Failing

LEMMA NonErasureStep == IInv /\ [Next]_vars => NonErasure'
<1> SUFFICES ASSUME IInv, [Next]_vars PROVE NonErasure'
  OBVIOUS
<1> USE DEF IInv
<1>1. TypeOK' /\ Progress'
  BY NextTyped
<1>2. CASE UNCHANGED vars
  BY <1>2 DEF vars, NonErasure, Observed, Preserves, EdgeCount
<1>3. CASE Failing
  BY <1>3, FailingStep DEF NonErasure
<1>4. CASE Endpoint
  <2> DEFINE c == CompareProjections(startValue, previousResult)
  <2>1. /\ pc = "endpoint" /\ UNCHANGED <<profile, edges, visited>>
        /\ outcome'.classification = EndpointClass(c)
    BY <1>4 DEF Endpoint, Return
  <2>2. /\ Len(visited) = EdgeCount + 1 /\ edgeIndex = EdgeCount + 1
        /\ Len(edges) = EdgeCount /\ EdgeCount \in Nat /\ DOMAIN edges = 1..EdgeCount
    BY <2>1 DEF TypeOK, Progress, EdgeCount, Walking, OnEdge
  <2>3. \A i \in 1..EdgeCount : Walked(i)
    BY <2>1, <2>2 DEF Unbroken, Walking
  <2>4. EdgesClassified(edges, {"history_sensitive"}) = {}
          <=> \A i \in 1..EdgeCount : StabilityAgrees(Observed(i), Observed(i + 1))
    BY <2>2, <2>3 DEF EdgesClassified, Walked
  <2>5. c.stability \/ EdgesClassified(edges, {"history_sensitive"}) # {}
    BY <2>1 DEF Unbroken, Walking, EdgesClassified, CompareProjections, StabilityAgrees
  <2>6. EndpointFailure(c) = "none"
    BY <2>1 DEF Unbroken, Walking, EndpointFailure, Preserves, ProtectedAgree, StabilityAgrees,
       CompareProjections
  <2>7. (EndpointClass(c) = "stable")
          <=> \A i \in 1..EdgeCount : StabilityAgrees(Observed(i), Observed(i + 1))
    BY <2>4, <2>5, <2>6 DEF EndpointClass
  <2>8. \A i \in 1..EdgeCount : Preserves(Observed(i), Observed(i + 1))
    BY <2>3 DEF Walked
  <2>9. QED
    BY <2>1, <2>2, <2>7, <2>8 DEF NonErasure, Observed, Preserves, EdgeCount
<1>5. CASE pc' # "done"
  BY <1>1, <1>5 DEF TypeOK, NonErasure
<1>6. QED
  <2>1. CASE RejectProfile \/ AcceptProfile \/ StartRecompute \/ PreconditionHolds
               \/ Transform \/ EdgeRecompute \/ EdgePreserves
    BY <1>5, <2>1 DEF RejectProfile, AcceptProfile, StartRecompute, PreconditionHolds,
       Transform, EdgeRecompute, EdgePreserves
  <2>2. QED
    BY <1>2, <1>3, <1>4, <2>1 DEF Next, Failing

(* The inductive invariant, and the three properties it carries.             *)
THEOREM Inductive == Spec => []IInv
<1>1. Init => IInv
  BY InitInductive
<1>2. IInv /\ [Next]_vars => IInv'
  <2> SUFFICES ASSUME IInv, [Next]_vars PROVE IInv'
    OBVIOUS
  <2>1. TypeOK' /\ Progress' /\ Registers' /\ Unbroken' /\ NonErasure' /\ EdgesCompose'
    BY NextTyped, RegistersStep, UnbrokenStep, NonErasureStep, ComposeStep DEF IInv
  <2>2. EndpointIsImplied'
    BY <2>1 DEF Unbroken, EndpointIsImplied, EdgesClassified, Walking
  <2>3. QED
    BY <2>1, <2>2 DEF IInv
<1>3. QED
  BY <1>1, <1>2, PTL DEF Spec

(* Section 7's theorem: no cycle is accepted unless every neighbouring pair  *)
(* of results it recomputed was preserved.                                   *)
THEOREM CycleNonErasure == Spec => []NonErasure
<1>1. IInv => NonErasure
  BY DEF IInv
<1>2. QED
  BY <1>1, Inductive, PTL

(* Every recorded comparison is that of its own edge's two results.          *)
THEOREM CycleEdgesCompose == Spec => []EdgesCompose
<1>1. IInv => EdgesCompose
  BY DEF IInv
<1>2. QED
  BY <1>1, Inductive, PTL

(* The comparison of the ends follows from those of the edges.               *)
THEOREM CycleEndpointIsImplied == Spec => []EndpointIsImplied
<1>1. IInv => EndpointIsImplied
  BY DEF IInv
<1>2. QED
  BY <1>1, Inductive, PTL

-------------------------------------------------------------------------------
(* Edge results are final, and the evaluator implements the promise.         *)

(* No step rewrites a recorded edge or adds one after a failure.             *)
THEOREM CycleEdgesAreFinal == Spec => EdgesAreFinal
<1> DEFINE Final == /\ Len(edges') >= Len(edges)
                    /\ \A i \in DOMAIN edges : edges'[i] = edges[i]
                    /\ (\E i \in DOMAIN edges : edges[i].classification \notin Accepted)
                          => edges' = edges
<1>1. IInv /\ [Next]_vars => [Final]_vars
  <2> SUFFICES ASSUME IInv, [Next]_vars PROVE Final
    OBVIOUS
  <2>1. CASE edges' = edges
    BY <2>1 DEF IInv, TypeOK
  <2>2. CASE edges' # edges
    <3>1. pc \in OnEdge
      BY <2>2, FailingStep DEF IInv, Next, vars, RejectProfile, AcceptProfile, StartRecompute,
         PreconditionHolds, Transform, EdgeRecompute, EdgePreserves, Endpoint, Failing, OnEdge
    <3>2. \A i \in DOMAIN edges : edges[i].classification \in Accepted
      BY <3>1 DEF IInv, TypeOK, Progress, Unbroken, Walked, Walking, Accepted
    <3>3. \E e : edges' = Append(edges, e)
      BY <2>2 DEF Next, vars, RejectProfile, AcceptProfile, StartRecompute, StartRecomputeFails,
         PreconditionHolds, PreconditionRefuses, Transform, TransformThrows, EdgeRecompute,
         EdgeRecomputeFails, CompareThrows, EdgeViolates, EdgePreserves, Endpoint,
         EndpointThrows, FailEdge
    <3>4. QED
      BY <3>2, <3>3 DEF IInv, TypeOK
  <2>3. QED
    BY <2>1, <2>2
<1>2. QED
  BY <1>1, Inductive, PTL DEF Spec, EdgesAreFinal

(* The abstract path is the observed one, and intact where it was preserved. *)
LEMMA MappedPath ==
    ASSUME TypeOK
    PROVE  /\ Len(ObservedPath) = Len(visited)
           /\ \A n \in 0..Len(visited) :
                 Edgewise!IntactUpTo(n)
                   <=> \A i \in 1..(n - 1) : Preserves(Observed(i), Observed(i + 1))
           /\ \A n \in 0..Len(visited) :
                 Edgewise!StillUpTo(n)
                   <=> \A i \in 1..(n - 1) : StabilityAgrees(Observed(i), Observed(i + 1))
<1>1. Len(ObservedPath) = Len(visited) /\ Len(visited) \in Nat
  BY DEF TypeOK, ObservedPath
<1>2. \A i \in 1..Len(visited) : ObservedPath[i] = Observed(i)
  BY DEF ObservedPath
<1>3. QED
  BY <1>1, <1>2
  DEF Edgewise!IntactUpTo, Edgewise!StillUpTo, Edgewise!Acceptable, Preserves

(* Recomputing one more node extends the abstract path by its result. *)
LEMMA MappedAppend ==
    ASSUME TypeOK, TypeOK', NEW node \in Nodes, visited' = Append(visited, node),
           Recompute[node] \in Results
    PROVE  \E r \in Results : ObservedPath' = Append(ObservedPath, r)
<1>1. /\ Len(visited) \in Nat /\ Len(visited') = Len(visited) + 1
      /\ visited'[Len(visited) + 1] = node
      /\ \A i \in 1..Len(visited) : visited'[i] = visited[i]
  BY DEF TypeOK
<1>2. ObservedPath' = [i \in 1..(Len(visited) + 1) |-> Recompute[visited'[i]]]
  BY <1>1 DEF ObservedPath, Observed
<1>3. ObservedPath' = Append(ObservedPath, Recompute[node])
  BY <1>1, <1>2 DEF ObservedPath, Observed
<1>4. QED
  BY <1>3

LEMMA RefinementInit == Init => Edgewise!Init
<1> SUFFICES ASSUME Init PROVE Edgewise!Init
  OBVIOUS
<1>1. ObservedPath = << >>
  BY DEF Init, ObservedPath
<1>2. ReportedVerdict = "pending"
  BY DEF Init, ReportedVerdict
<1>3. EdgeCount \in Nat
  BY InitTyped DEF TypeOK, EdgeCount
<1>4. QED
  BY <1>1, <1>2, <1>3 DEF Edgewise!Init

LEMMA RefinementStep == IInv /\ [Next]_vars => [Edgewise!Next]_(Edgewise!vars)
<1> SUFFICES ASSUME IInv, [Next]_vars PROVE [Edgewise!Next]_(Edgewise!vars)
  OBVIOUS
<1> USE DEF IInv
<1>1. TypeOK' /\ Progress' /\ Registers'
  BY NextTyped, RegistersStep
<1>2. CASE UNCHANGED vars
  BY <1>2 DEF vars, Edgewise!vars, ObservedPath, Observed, ReportedVerdict, EdgeCount
<1>3. CASE RejectProfile
  <2>1. visited = << >> /\ UNCHANGED <<profile, visited>> /\ pc = "validate" /\ outcome = Null
          /\ pc' = "rejected"
    BY <1>3 DEF RejectProfile, Progress, TypeOK
  <2>2. ObservedPath = << >> /\ ObservedPath' = ObservedPath
    BY <2>1 DEF ObservedPath, Observed
  <2>3. ReportedVerdict = "pending" /\ ReportedVerdict' = "refused"
    BY <2>1 DEF ReportedVerdict
  <2>4. Edgewise!Refuse
    BY <2>1, <2>2, <2>3 DEF Edgewise!Refuse, EdgeCount
  <2>5. QED
    BY <2>4 DEF Edgewise!Next
<1>4. CASE AcceptProfile \/ PreconditionHolds \/ Transform \/ EdgePreserves
  BY <1>4 DEF AcceptProfile, PreconditionHolds, Transform, EdgePreserves, Edgewise!vars,
     ObservedPath, Observed, ReportedVerdict, EdgeCount
<1>5. CASE StartRecompute \/ EdgeRecompute
  <2>1. /\ outcome = Null /\ outcome' = Null /\ pc # "rejected" /\ pc' # "rejected"
        /\ profile' = profile
    BY <1>5 DEF StartRecompute, EdgeRecompute, TypeOK
  <2>2. PICK node \in Nodes : visited' = Append(visited, node) /\ Recompute[node] \in Results
    <3>1. CASE StartRecompute
      <4>1. visited' = Append(visited, currentNode)
        BY <3>1 DEF StartRecompute, Progress
      <4>2. Recompute[currentNode] \in Results /\ currentNode \in Nodes
        BY <3>1, CycleAssumption DEF StartRecompute, TypeOK
      <4>3. QED
        BY <4>1, <4>2
    <3>2. CASE EdgeRecompute
      BY <3>2, CycleAssumption DEF EdgeRecompute, Progress, TypeOK
    <3>3. QED
      BY <1>5, <3>1, <3>2
  <2>3. \E r \in Results : ObservedPath' = Append(ObservedPath, r)
    BY <1>1, <2>2, MappedAppend
  <2>4. Len(visited) =< EdgeCount /\ \A i \in 1..(Len(visited) - 1) :
            Preserves(Observed(i), Observed(i + 1))
    <3>1. CASE StartRecompute
      BY <3>1 DEF StartRecompute, Progress, TypeOK, EdgeCount
    <3>2. CASE EdgeRecompute
      BY <3>2 DEF EdgeRecompute, Progress, Unbroken, Walked, Walking, OnEdge, EdgeCount
    <3>3. QED
      BY <1>5, <3>1, <3>2
  <2>5. Len(ObservedPath) =< EdgeCount /\ Edgewise!IntactUpTo(Len(ObservedPath))
    BY <2>4, MappedPath DEF TypeOK
  <2>6. Edgewise!Observe
    BY <2>1, <2>3, <2>5 DEF Edgewise!Observe, ReportedVerdict, EdgeCount
  <2>7. QED
    BY <2>6 DEF Edgewise!Next
<1>6. CASE Failing \/ Endpoint
  <2>1. /\ pc \notin {"validate", "rejected", "done"} /\ pc' = "done"
        /\ UNCHANGED <<profile, visited>>
    BY <1>6, FailingStep DEF Endpoint, Return
  <2>2. /\ ReportedVerdict = "pending" /\ ReportedVerdict' = outcome'.classification
        /\ UNCHANGED <<ObservedPath, EdgeCount, profile.policy>>
    BY <1>1, <2>1 DEF TypeOK, ReportedVerdict, ObservedPath, Observed, EdgeCount
  <2>3. /\ outcome'.classification
             \in {"stable", "history_sensitive", "violation", "out_of_domain", "unresolved"}
        /\ Edgewise!Justified(outcome'.classification)
    <3> DEFINE Intact(n) == \A i \in 1..(n - 1) : Preserves(Observed(i), Observed(i + 1))
    <3>1. /\ Len(ObservedPath) = Len(visited) /\ Len(visited) \in Nat /\ EdgeCount \in Nat
          /\ \A n \in 0..Len(visited) : Edgewise!IntactUpTo(n) <=> Intact(n)
          /\ \A n \in 0..Len(visited) :
                 Edgewise!StillUpTo(n)
                   <=> \A i \in 1..(n - 1) : StabilityAgrees(Observed(i), Observed(i + 1))
      BY MappedPath DEF TypeOK, EdgeCount
    <3>2. CASE StartRecomputeFails
      <4>1. outcome'.classification = "unresolved" /\ Len(visited) = 0
        BY <3>2 DEF StartRecomputeFails, Return, Progress
      <4>2. QED
        BY <3>1, <4>1 DEF Edgewise!Justified, Edgewise!IntactUpTo
    <3>3. pc \in Walking => edgeIndex \in Nat /\ edgeIndex >= 1 /\ Intact(edgeIndex)
      <4>1. edgeIndex \in Nat /\ edgeIndex >= 1
        BY DEF TypeOK
      <4>2. pc \in Walking => \A i \in 1..(edgeIndex - 1) : Walked(i)
        BY DEF Unbroken
      <4>3. QED
        BY <4>1, <4>2 DEF Walked
    <3>4. CASE PreconditionRefuses
      <4>1. outcome'.classification \in {"out_of_domain", "unresolved"}
        BY <3>4 DEF PreconditionRefuses, FailEdge, Return
      <4>2. Len(visited) = edgeIndex /\ edgeIndex =< EdgeCount /\ pc \in Walking
        BY <3>4 DEF PreconditionRefuses, Progress, Walking, OnEdge
      <4>3. /\ Intact(Len(visited)) /\ Intact(Len(visited) - 1)
            /\ Len(visited) \in 0..Len(visited) /\ Len(visited) - 1 \in 0..Len(visited)
            /\ Len(visited) \in 1..EdgeCount
        BY <3>1, <3>3, <4>2
      <4>4. QED
        BY <3>1, <4>1, <4>3 DEF Edgewise!Justified
    <3>5. CASE TransformThrows \/ EdgeRecomputeFails \/ CompareThrows \/ EndpointThrows
      <4>1. outcome'.classification = "unresolved"
        BY <3>5 DEF TransformThrows, EdgeRecomputeFails, CompareThrows, EndpointThrows,
           FailEdge, Return
      <4>2. pc \in Walking /\ Len(visited) \in {edgeIndex, edgeIndex + 1}
        BY <3>5 DEF TransformThrows, EdgeRecomputeFails, CompareThrows, EndpointThrows,
           Progress, Walking, OnEdge
      <4>3. Intact(Len(visited) - 1) /\ Len(visited) - 1 \in 0..Len(visited)
        BY <3>3, <4>2
      <4>4. QED
        BY <3>1, <4>1, <4>3 DEF Edgewise!Justified
    <3>6. CASE EdgeViolates
      <4>1. outcome'.classification = "violation" /\ pc = "compare"
        BY <3>6 DEF EdgeViolates, FailEdge, Return
      <4>2. ~Preserves(Observed(edgeIndex), Observed(edgeIndex + 1))
        BY <3>6 DEF EdgeViolates, EdgeFailure, CompareProjections, Registers, Walking, OnEdge,
           Preserves, ProtectedAgree, StabilityAgrees
      <4>3. Len(visited) = edgeIndex + 1 /\ pc \in Walking
        BY <4>1 DEF Progress, Walking, OnEdge
      <4>4. ~Intact(Len(visited)) /\ Len(visited) \in 0..Len(visited)
        BY <3>1, <3>3, <4>2, <4>3
      <4>5. QED
        BY <3>1, <4>1, <4>4 DEF Edgewise!Justified
    <3>7. CASE Endpoint
      <4>1. /\ NonErasure' /\ outcome' # Null /\ pc = "endpoint"
        BY <1>1, <2>1, <3>7, NonErasureStep DEF Endpoint, TypeOK
      <4>2. outcome'.classification \in Accepted
        BY <3>7 DEF Endpoint, Return, EndpointClass, EndpointFailure, CompareProjections,
           Unbroken, Walking, Preserves, ProtectedAgree, StabilityAgrees, Accepted
      <4>3. /\ Len(visited) = EdgeCount + 1
            /\ Intact(Len(visited))
            /\ (outcome'.classification = "stable")
                 = (\A i \in 1..EdgeCount : StabilityAgrees(Observed(i), Observed(i + 1)))
        <5>1. /\ Len(visited) = EdgeCount + 1
              /\ \A i \in 1..EdgeCount : Preserves(Observed(i), Observed(i + 1))
              /\ (outcome'.classification = "stable")
                   = (\A i \in 1..EdgeCount : StabilityAgrees(Observed(i), Observed(i + 1)))
          BY <2>1, <4>1, <4>2 DEF NonErasure, Observed, Preserves, EdgeCount
        <5>2. Len(visited) - 1 = EdgeCount
          BY <3>1, <5>1
        <5>3. QED
          BY <5>1, <5>2
      <4>4. /\ Edgewise!IntactUpTo(Len(ObservedPath))
            /\ Edgewise!StillUpTo(Len(ObservedPath))
                  <=> \A i \in 1..EdgeCount : StabilityAgrees(Observed(i), Observed(i + 1))
        <5>1. Len(visited) \in 0..Len(visited) /\ Len(visited) - 1 = EdgeCount
          BY <3>1, <4>3
        <5>2. QED
          BY <3>1, <4>3, <5>1
      <4>5. QED
        BY <3>1, <4>2, <4>3, <4>4 DEF Accepted, Edgewise!Justified
    <3>8. QED
      BY <1>6, <3>2, <3>4, <3>5, <3>6, <3>7 DEF Failing
  <2>4. Edgewise!Decide
    BY <2>2, <2>3 DEF Edgewise!Decide
  <2>5. QED
    BY <2>4 DEF Edgewise!Next
<1>7. QED
  BY <1>2, <1>3, <1>4, <1>5, <1>6 DEF Next, Failing

(* Every behaviour of the evaluator is one the abstract promise allows.      *)
THEOREM CycleImplementsEdgewise == Spec => ImplementsEdgewise
<1>1. Init => Edgewise!Init
  BY RefinementInit
<1>2. IInv /\ [Next]_vars => [Edgewise!Next]_(Edgewise!vars)
  BY RefinementStep
<1>3. QED
  BY <1>1, <1>2, Inductive, PTL DEF Spec, ImplementsEdgewise, Edgewise!Spec

-------------------------------------------------------------------------------
(* A failure names its edge, and the counters add up.                        *)

Refusing == {"unresolved", "out_of_domain", "violation"}

(* The counters of edges none of which ended the evaluation.                 *)
LEMMA CompletedCounts ==
    ASSUME NEW es, NEW n \in Nat, DOMAIN es = 1..n,
           \A i \in 1..n : es[i].classification \in Accepted
    PROVE  /\ AggregateEdges(es).completed_edges = n
           /\ AggregateEdges(es).unresolved = 0
           /\ AggregateEdges(es).out_of_domain = 0
           /\ AggregateEdges(es).violation = 0
<1>1. EdgesClassified(es, Accepted) = 1..n
  BY DEF EdgesClassified
<1>2. /\ EdgesClassified(es, {"unresolved"}) = {}
      /\ EdgesClassified(es, {"out_of_domain"}) = {}
      /\ EdgesClassified(es, {"violation"}) = {}
  BY DEF EdgesClassified, Accepted
<1>3. Cardinality(1..n) = n /\ Cardinality({}) = 0
  BY FS_Interval, FS_EmptySet
<1>4. QED
  BY <1>1, <1>2, <1>3 DEF AggregateEdges

(* The counters when the last edge did.                                      *)
LEMMA FailedCounts ==
    ASSUME NEW es, NEW n \in Nat \ {0}, DOMAIN es = 1..n,
           \A i \in 1..(n - 1) : es[i].classification \in Accepted,
           es[n].classification \in Refusing
    PROVE  /\ AggregateEdges(es).completed_edges = n - 1
           /\ AggregateEdges(es).unresolved \in Nat
           /\ AggregateEdges(es).out_of_domain \in Nat
           /\ AggregateEdges(es).violation \in Nat
           /\ AggregateEdges(es).unresolved + AggregateEdges(es).out_of_domain
                + AggregateEdges(es).violation = 1
<1>1. EdgesClassified(es, Accepted) = 1..(n - 1)
  BY DEF EdgesClassified, Accepted, Refusing
<1>2. \A class \in Refusing :
         EdgesClassified(es, {class}) = IF es[n].classification = class THEN {n} ELSE {}
  BY DEF EdgesClassified, Accepted, Refusing
<1>3. Cardinality(1..(n - 1)) = n - 1
  BY FS_Interval
<1>4. \A class \in Refusing :
         Cardinality(EdgesClassified(es, {class})) = IF es[n].classification = class THEN 1 ELSE 0
  BY <1>2, FS_EmptySet, FS_Singleton
<1>5. /\ AggregateEdges(es).completed_edges = n - 1
      /\ AggregateEdges(es).unresolved = IF es[n].classification = "unresolved" THEN 1 ELSE 0
      /\ AggregateEdges(es).out_of_domain = IF es[n].classification = "out_of_domain" THEN 1 ELSE 0
      /\ AggregateEdges(es).violation = IF es[n].classification = "violation" THEN 1 ELSE 0
  BY <1>1, <1>3, <1>4 DEF AggregateEdges, Refusing
<1>6. QED
  BY <1>5 DEF Refusing

(* A validated profile names each edge once.                                 *)
LEMMA EdgeIdIsUnique ==
    ASSUME ValidProfile(profile), NEW k \in DOMAIN profile.edgeIds
    PROVE  Cardinality({i \in DOMAIN profile.edgeIds :
                          profile.edgeIds[i] = profile.edgeIds[k]}) = 1
<1>1. {i \in DOMAIN profile.edgeIds : profile.edgeIds[i] = profile.edgeIds[k]} = {k}
  BY DEF ValidProfile
<1>2. QED
  BY <1>1, FS_Singleton

(* Until an edge fails, all edges recorded were accepted.                    *)
LEMMA WalkedEdges ==
    ASSUME IInv, pc \in Walking
    PROVE  /\ DOMAIN edges = 1..(edgeIndex - 1)
           /\ \A i \in 1..(edgeIndex - 1) : edges[i].classification \in Accepted
<1>1. DOMAIN edges = 1..(edgeIndex - 1)
  BY DEF IInv, TypeOK, Progress
<1>2. QED
  BY <1>1 DEF IInv, Unbroken, Walked, Accepted

(* The report of a failing edge.                                             *)
LEMMA FailedEdgeReport ==
    ASSUME IInv, pc \in OnEdge, visited' = visited,
           NEW class \in Refusing, NEW reason, NEW c, FailEdge(class, reason, c)
    PROVE  FailureIsLocal' /\ AggregateTellsHowFar'
<1>1. /\ edgeIndex \in Nat \ {0} /\ edgeIndex \in 1..EdgeCount /\ EdgeCount \in Nat
      /\ profile.edgeIds \in Seq(EdgeIds) /\ edges \in Seq(EdgeResults)
      /\ Len(edges) = edgeIndex - 1 /\ ValidProfile(profile) /\ pc \in Walking
  BY DEF IInv, TypeOK, Progress, EdgeCount, OnEdge, Walking
<1>2. \A i \in 1..(edgeIndex - 1) : edges[i].classification \in Accepted
  BY <1>1, WalkedEdges
<1>3. /\ profile' = profile /\ edges' = Append(edges, EdgeResult(class, reason, c))
      /\ outcome'.classification = class
      /\ outcome'.failed_edge_id = profile.edgeIds[edgeIndex]
      /\ outcome'.aggregate = AggregateEdges(edges')
  BY DEF FailEdge, Return
<1>4. /\ Len(edges') = edgeIndex /\ DOMAIN edges' = 1..edgeIndex
      /\ \A i \in 1..(edgeIndex - 1) : edges'[i] = edges[i]
      /\ edges'[edgeIndex] = EdgeResult(class, reason, c)
  BY <1>1, <1>3
<1>5. /\ edges'[edgeIndex].classification = class
      /\ edges'[edgeIndex].edge_id = profile.edgeIds[edgeIndex]
  BY <1>4 DEF EdgeResult
<1>6. edgeIndex \in DOMAIN profile.edgeIds /\ profile.edgeIds[edgeIndex] # Null
  BY <1>1, CycleAssumption DEF EdgeCount
<1>7. FailureIsLocal'
  <2>1. Cardinality({i \in DOMAIN profile.edgeIds :
                       profile.edgeIds[i] = outcome'.failed_edge_id}) = 1
    BY <1>1, <1>3, <1>6, EdgeIdIsUnique
  <2>2. QED
    BY <1>2, <1>3, <1>4, <1>5, <2>1 DEF FailureIsLocal
<1>8. AggregateTellsHowFar'
  <2>. DEFINE a == AggregateEdges(edges')
  <2>1. /\ a.completed_edges = edgeIndex - 1
        /\ a.unresolved + a.out_of_domain + a.violation = 1
    BY <1>1, <1>2, <1>4, <1>5, FailedCounts
  <2>2. a.completed_edges \in Nat /\ a.unresolved \in Nat /\ a.out_of_domain \in Nat
        /\ a.violation \in Nat
    BY <1>1, <1>2, <1>4, <1>5, FailedCounts
  <2>3. EdgeCount' = EdgeCount
    BY <1>3 DEF EdgeCount
  <2>. HIDE DEF a
  <2>4. /\ a.completed_edges + a.unresolved + a.out_of_domain + a.violation = Len(edges')
        /\ a.completed_edges # EdgeCount'
        /\ outcome'.failed_edge_id # Null /\ outcome'.aggregate = a
    BY <1>1, <1>3, <1>4, <1>6, <2>1, <2>2, <2>3 DEF a
  <2>5. QED
    BY <2>4 DEF AggregateTellsHowFar
<1>9. QED
  BY <1>7, <1>8

(* The report of an evaluation that ends on no edge.                         *)
LEMMA OtherReport ==
    ASSUME IInv, NEW class, NEW reason, NEW endpoint, Return(class, Null, reason, endpoint),
           UNCHANGED <<profile, edges, visited>>, pc \in {"start", "endpoint"}
    PROVE  FailureIsLocal' /\ AggregateTellsHowFar'
<1>. DEFINE n == IF pc = "start" THEN 0 ELSE EdgeCount
<1>1. /\ outcome'.failed_edge_id = Null /\ outcome'.aggregate = AggregateEdges(edges)
      /\ EdgeCount' = EdgeCount /\ profile' = profile
  BY DEF Return, EdgeCount
<1>2. EdgeCount \in Nat \ {0}
  <2>1. profile.edgeIds \in Seq(EdgeIds) /\ profile.edgeIds # << >>
    BY DEF IInv, TypeOK, Progress, ValidProfile
  <2>2. QED
    BY <2>1 DEF EdgeCount
<1>3. /\ n \in Nat /\ DOMAIN edges = 1..n /\ Len(edges) = n
      /\ \A i \in 1..n : edges[i].classification \in Accepted
  <2>1. CASE pc = "start"
    BY <2>1 DEF IInv, Progress
  <2>2. CASE pc = "endpoint"
    BY <2>2, <1>2, WalkedEdges DEF IInv, TypeOK, Progress, Walking
  <2>3. QED
    BY <2>1, <2>2
<1>4. (n = EdgeCount) <=> Len(visited) = EdgeCount + 1
  BY <1>2 DEF IInv, TypeOK, Progress, Walking, OnEdge
<1>. HIDE DEF n
<1>5. /\ AggregateEdges(edges).completed_edges = n
      /\ AggregateEdges(edges).unresolved = 0
      /\ AggregateEdges(edges).out_of_domain = 0
      /\ AggregateEdges(edges).violation = 0
  BY <1>3, CompletedCounts
<1>6. FailureIsLocal'
  BY <1>1, <1>3 DEF FailureIsLocal
<1>7. AggregateTellsHowFar'
  BY <1>1, <1>3, <1>4, <1>5 DEF AggregateTellsHowFar
<1>8. QED
  BY <1>6, <1>7

LEMMA ReportsStep ==
    ASSUME IInv, FailureIsLocal, AggregateTellsHowFar, [Next]_vars
    PROVE  FailureIsLocal' /\ AggregateTellsHowFar'
<1>1. TypeOK'
  BY NextTyped DEF IInv
<1>2. CASE UNCHANGED vars
  BY <1>2 DEF vars, FailureIsLocal, AggregateTellsHowFar, EdgeCount
<1>3. CASE PreconditionRefuses \/ TransformThrows \/ EdgeRecomputeFails \/ CompareThrows
             \/ EdgeViolates
  <2>1. PICK class \in Refusing, reason \in Reasons,
             c \in {NoComparison, CompareProjections(previousResult, nextValue)} :
           pc \in OnEdge /\ visited' = visited /\ FailEdge(class, reason, c)
    <3>1. CASE EdgeViolates
      BY <3>1 DEF EdgeViolates, EdgeFailure, Reasons, Refusing, OnEdge
    <3>2. CASE ~EdgeViolates
      BY <1>3, <3>2
      DEF PreconditionRefuses, TransformThrows, EdgeRecomputeFails, CompareThrows, Reasons,
          Refusing, OnEdge
    <3>3. QED
      BY <3>1, <3>2
  <2>2. QED
    BY <2>1, FailedEdgeReport
<1>4. CASE StartRecomputeFails \/ Endpoint \/ EndpointThrows
  <2>1. CASE StartRecomputeFails
    BY <2>1, OtherReport DEF StartRecomputeFails
  <2>2. CASE Endpoint
    BY <2>2, OtherReport DEF Endpoint
  <2>3. CASE EndpointThrows
    BY <2>3, OtherReport DEF EndpointThrows
  <2>4. QED
    BY <1>4, <2>1, <2>2, <2>3
<1>5. CASE pc' # "done"
  BY <1>1, <1>5 DEF TypeOK, FailureIsLocal, AggregateTellsHowFar
<1>6. QED
  <2>1. CASE RejectProfile \/ AcceptProfile \/ StartRecompute \/ PreconditionHolds
               \/ Transform \/ EdgeRecompute \/ EdgePreserves
    BY <1>5, <2>1 DEF RejectProfile, AcceptProfile, StartRecompute, PreconditionHolds,
       Transform, EdgeRecompute, EdgePreserves
  <2>2. QED
    BY <1>2, <1>3, <1>4, <2>1 DEF Next

THEOREM ReportsAreRight == Spec => [](FailureIsLocal /\ AggregateTellsHowFar)
<1>1. Init => FailureIsLocal /\ AggregateTellsHowFar
  BY DEF Init, FailureIsLocal, AggregateTellsHowFar
<1>2. IInv /\ FailureIsLocal /\ AggregateTellsHowFar /\ [Next]_vars
        => (FailureIsLocal /\ AggregateTellsHowFar)'
  BY ReportsStep
<1>3. QED
  BY <1>1, <1>2, Inductive, PTL DEF Spec

(* The edge a result blames is the last one evaluated, the only one of its   *)
(* name, and the first that was not accepted.                                *)
THEOREM CycleFailureIsLocal == Spec => []FailureIsLocal
<1>1. FailureIsLocal /\ AggregateTellsHowFar => FailureIsLocal
  OBVIOUS
<1>2. QED
  BY <1>1, ReportsAreRight, PTL

(* The counters account for every evaluated edge, and all edges count as     *)
(* completed exactly when the walk reached the comparison of the ends.       *)
THEOREM CycleAggregateTellsHowFar == Spec => []AggregateTellsHowFar
<1>1. FailureIsLocal /\ AggregateTellsHowFar => AggregateTellsHowFar
  OBVIOUS
<1>2. QED
  BY <1>1, ReportsAreRight, PTL
===============================================================================
