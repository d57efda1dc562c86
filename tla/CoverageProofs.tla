----------------------------- MODULE CoverageProofs -----------------------------
(* Proofs about CoverageSelectors and CoverageEvaluation, for every coverage *)
(* profile and every pair of artifacts.                                      *)
EXTENDS CoverageEvaluation, Functions, WellFoundedInduction, TLAPS

-------------------------------------------------------------------------------
(* Resolution does not depend on the order of declarations. *)

(* The declarations of an accepted profile. *)
Accepted(ds) ==
    /\ ds \in Seq(Declarations)
    /\ \A i \in DOMAIN ds : ds[i].selector \in Selectors /\ ds[i].selector.side = "none"
    /\ ConflictFree(ds)

(* Every nonempty set of natural numbers has a least member. *)
LEMMA LeastNatural ==
    ASSUME NEW S \in SUBSET Nat, S # {}
    PROVE  \E i \in S : \A j \in S : i =< j
<1> DEFINE R == OpToRel(<, Nat)
<1>1. \A i, j \in Nat : i < j => <<i, j>> \in R
  BY DEF OpToRel
<1>2. IsWellFoundedOn(R, Nat)
  BY NatLessThanWellFounded
<1> HIDE DEF R
<1>3. \E i \in S : \A j \in S : ~(<<j, i>> \in R)
  BY <1>2, WFMin
<1>4. QED
  <2>1. PICK i \in S : \A j \in S : ~(<<j, i>> \in R)
    BY <1>3
  <2>2. \A j \in S : ~(j < i)
    BY <1>1, <2>1
  <2>3. QED
    BY <2>2

(* First picks a member that no member precedes. *)
LEMMA FirstIsLeast ==
    ASSUME NEW S \in SUBSET Nat, S # {}
    PROVE  First(S) \in S /\ \A j \in S : First(S) =< j
BY LeastNatural DEF First

(* Some matching declaration has the longest prefix. *)
LEMMA LongestExists ==
    ASSUME NEW ds, Accepted(ds), NEW path \in Seq(Segments), Matches(ds, path) # {}
    PROVE  LongestMatches(ds, path) # {}
<1> DEFINE slack(i) == Len(path) - Len(ds[i].selector.segments)
           slacks == {slack(i) : i \in Matches(ds, path)}
<1>1. \A i \in Matches(ds, path) : slack(i) \in Nat
  BY DEF Matches, SelectorMatchesPath, Accepted, Selectors
<1>2. slacks \subseteq Nat /\ slacks # {}
  BY <1>1
<1>3. PICK n \in slacks : \A m \in slacks : n =< m
  BY <1>2, LeastNatural
<1>4. PICK i \in Matches(ds, path) : n = slack(i)
  BY <1>3
<1>5. \A j \in Matches(ds, path) : slack(i) =< slack(j)
  BY <1>3, <1>4
<1>6. \A j \in Matches(ds, path) :
         Len(ds[j].selector.segments) =< Len(ds[i].selector.segments)
  BY <1>5 DEF Matches, Accepted, Selectors
<1>7. QED
  BY <1>6 DEF LongestMatches

(* Two equally long wildcards that match one path are the same selector, and *)
(* so are two exact selectors.                                               *)
LEMMA EquallySpecificAgree ==
    ASSUME NEW ds, Accepted(ds), NEW path \in Seq(Segments),
           NEW i \in Matches(ds, path), NEW j \in Matches(ds, path),
           ds[i].selector.wildcard = ds[j].selector.wildcard,
           Len(ds[i].selector.segments) = Len(ds[j].selector.segments)
    PROVE  ds[i].targetClass = ds[j].targetClass
<1>1. i \in DOMAIN ds /\ j \in DOMAIN ds
  BY DEF Matches
<1>2. /\ ds[i].selector \in Selectors /\ ds[j].selector \in Selectors
      /\ ds[i].selector.side = "none" /\ ds[j].selector.side = "none"
  BY <1>1 DEF Accepted
<1>3. ds[i].selector.segments = ds[j].selector.segments
  <2>1. ds[i].selector.segments \in Seq(Segments) /\ ds[j].selector.segments \in Seq(Segments)
    BY <1>2 DEF Selectors
  <2>2. CASE ds[i].selector.wildcard
    <3>1. \A k \in 1..Len(ds[i].selector.segments) :
             ds[i].selector.segments[k] = ds[j].selector.segments[k]
      BY <2>1, <2>2 DEF Matches, SelectorMatchesPath
    <3>2. QED
      BY <2>1, <3>1
  <2>3. CASE ~ds[i].selector.wildcard
    BY <2>3 DEF Matches, SelectorMatchesPath
  <2>4. QED
    BY <2>2, <2>3
<1>4. ds[i].selector = ds[j].selector
  BY <1>2, <1>3 DEF Selectors
<1>5. QED
  BY <1>1, <1>4 DEF Accepted, ConflictFree

(* The declaration that decides is a most specific one. *)
LEMMA WinnerIsMostSpecific ==
    ASSUME NEW ds, Accepted(ds), NEW path \in Seq(Segments), Matches(ds, path) # {}
    PROVE  \E i \in DOMAIN ds : MostSpecific(ds, path, i)
                                  /\ ClassOf(ds, path) = ds[i].targetClass
<1>1. Matches(ds, path) \in SUBSET Nat /\ Matches(ds, path) \subseteq DOMAIN ds
  BY DEF Matches, Accepted
<1>2. CASE ExactMatches(ds, path) # {}
  <2> DEFINE i == First(ExactMatches(ds, path))
  <2>1. ExactMatches(ds, path) \in SUBSET Nat
    BY <1>1 DEF ExactMatches
  <2>2. i \in ExactMatches(ds, path)
    BY <1>2, <2>1, FirstIsLeast
  <2>3. QED
    BY <1>1, <1>2, <2>2 DEF ClassOf, MostSpecific, ExactMatches
<1>3. CASE ExactMatches(ds, path) = {}
  <2> DEFINE i == First(LongestMatches(ds, path))
  <2>1. LongestMatches(ds, path) \in SUBSET Nat /\ LongestMatches(ds, path) # {}
    BY <1>1, LongestExists DEF LongestMatches
  <2>2. i \in LongestMatches(ds, path)
    BY <2>1, FirstIsLeast
  <2>3. QED
    BY <1>1, <1>3, <2>2 DEF ClassOf, MostSpecific, ExactMatches, LongestMatches
<1>4. QED
  BY <1>2, <1>3

(* Under an accepted profile every path has exactly one effective class, the *)
(* one classifyPathV0 computes, in whatever order the declarations come.     *)
THEOREM ClassIsUnique ==
    ASSUME NEW ds, Accepted(ds), NEW path \in Seq(Segments), NEW class
    PROVE  Resolves(ds, path, class) <=> class = ClassOf(ds, path)
<1>1. CASE Matches(ds, path) = {}
  BY <1>1 DEF Resolves, ClassOf, MostSpecific
<1>2. CASE Matches(ds, path) # {}
  <2>1. PICK w \in DOMAIN ds : MostSpecific(ds, path, w) /\ ClassOf(ds, path) = ds[w].targetClass
    BY <1>2, WinnerIsMostSpecific
  <2>2. ASSUME NEW i \in DOMAIN ds, MostSpecific(ds, path, i)
        PROVE  ds[i].targetClass = ds[w].targetClass
    <3>1. i \in Matches(ds, path) /\ w \in Matches(ds, path)
      BY <2>1, <2>2 DEF MostSpecific
    <3>2. /\ ds[i].selector \in Selectors /\ ds[w].selector \in Selectors
      BY DEF Accepted
    <3>3. ds[i].selector.wildcard = ds[w].selector.wildcard
      BY <2>1, <2>2, <3>1, <3>2 DEF MostSpecific, Selectors
    <3>4. Len(ds[i].selector.segments) = Len(ds[w].selector.segments)
      <4>1. CASE ds[w].selector.wildcard
        BY <2>1, <2>2, <3>1, <3>2, <3>3, <4>1 DEF MostSpecific, Selectors
      <4>2. CASE ~ds[w].selector.wildcard
        BY <3>1, <3>3, <4>2 DEF Matches, SelectorMatchesPath
      <4>3. QED
        BY <4>1, <4>2
    <3>5. QED
      BY <3>1, <3>3, <3>4, EquallySpecificAgree
  <2>3. QED
    BY <1>2, <2>1, <2>2 DEF Resolves
<1>3. QED
  BY <1>1, <1>2

-------------------------------------------------------------------------------
(* What the composition keeps invariant. *)

(* Types, and the facts that outlive the profile's validation. *)
Shape ==
    /\ TypeOK
    /\ step \notin {"define", "profile_invalid"} => ValidCoverageProfile(coverage)
    /\ (pc = "returned") = (base # Null)
    /\ pc = "returned" => base \in Classifications
    /\ pc \in {"recompute_source", "recompute_target", "compare"} => target \in Artifacts
    /\ base \in Preserving \cup {"violation"} => target \in Artifacts
    /\ step = "plane" \/ report # Null =>
         pc = "returned" /\ base \in Preserving \cup {"violation"}

(* What a plane that was run has established. *)
Composed ==
    report # Null =>
        /\ step = "done"
        /\ report = [class \in DeclaredClasses \cup {"F"} |-> Mismatches(class)]
        /\ outcome = IF Mismatches("N") \cup Mismatches("F") # {} THEN "violation" ELSE base

CInv == Shape /\ Composed

LEMMA InitShape == Init => CInv
BY CoverageAssumption, NullIsNoClass
DEF Init, FlatInit, CInv, Shape, Composed, TypeOK, Stages, Classifications, Preserving

(* One step of the flat evaluator keeps its registers well formed. *)
LEMMA FlatStep ==
    ASSUME CInv, step = "base", FlatNext
    PROVE  /\ profile' = profile /\ source' = source
           /\ pc # "returned"
           /\ pc' \in Stages /\ target' \in Artifacts \cup {Null}
           /\ base' \in Classifications \cup {Null}
           /\ (pc' = "returned") = (base' # Null)
           /\ pc' = "returned" => base' \in Classifications
           /\ pc' \in {"recompute_source", "recompute_target", "compare"} => target' \in Artifacts
           /\ base' \in Preserving \cup {"violation"} => target' \in Artifacts
<1> USE NullIsNoClass DEF CInv, Shape, TypeOK, Stages, Classifications, Preserving
<1>1. CASE AcceptContract \/ RejectContract \/ Applicable \/ RecomputeSource \/ RecomputeTarget
  BY <1>1 DEF AcceptContract, RejectContract, Applicable, RecomputeSource, RecomputeTarget, Proceed
<1>2. CASE NotApplicable \/ StageFails
  BY <1>2 DEF NotApplicable, StageFails, Classify
<1>3. CASE Transform
  BY <1>3 DEF Transform
<1>4. CASE Compare
  BY <1>4 DEF Compare, Classify, Verdict
<1>5. QED
  BY <1>1, <1>2, <1>3, <1>4 DEF FlatNext

LEMMA NextShape == CInv /\ [Next]_vars => CInv'
<1> SUFFICES ASSUME CInv, [Next]_vars PROVE CInv'
  OBVIOUS
<1> USE DEF CInv
<1>1. CASE UNCHANGED vars
  <2>1. \A class : Mismatches(class)' = Mismatches(class)
    BY <1>1 DEF vars, Mismatches, Universe, ObservedPaths, Atom, LeafAt, Written, NormalizeForPath
  <2>2. Composed'
    BY <1>1, <2>1 DEF vars, Composed
  <2>3. Shape'
    BY <1>1 DEF vars, Shape, TypeOK
  <2>4. QED
    BY <2>2, <2>3
<1>2. CASE RejectCoverageProfile \/ AcceptCoverageProfile
  <2>1. /\ UNCHANGED <<profile, source, pc, target, base, coverage, report, outcome>>
        /\ step = "define" /\ step' \in {"profile_invalid", "base"}
        /\ step' = "base" => ValidCoverageProfile(coverage)
    BY <1>2 DEF RejectCoverageProfile, AcceptCoverageProfile, flatVars
  <2>2. report = Null
    BY <2>1 DEF Composed
  <2>3. QED
    BY <2>1, <2>2 DEF Shape, TypeOK, Composed
<1>3. CASE EvaluateBase
  <2>1. step = "base" /\ FlatNext /\ UNCHANGED <<coverage, step, report, outcome>>
    BY <1>3 DEF EvaluateBase
  <2>2. report = Null
    BY <2>1 DEF Composed
  <2>3. Shape'
    BY <2>1, <2>2, FlatStep DEF Shape, TypeOK
  <2>4. QED
    BY <2>1, <2>2, <2>3 DEF Composed
<1>4. CASE SkipCoverage \/ TransformAgain \/ TransformAgainThrows
  <2>1. /\ UNCHANGED <<profile, source, pc, target, base, coverage, report>>
        /\ step = "base" /\ pc = "returned"
        /\ \/ step' = "done" /\ outcome' = base
           \/ /\ step' = "plane" /\ outcome' = outcome
              /\ base \notin {"out_of_domain", "unresolved"}
    BY <1>4 DEF SkipCoverage, TransformAgain, TransformAgainThrows, Conclude, flatVars
  <2>2. report = Null
    BY <2>1 DEF Composed
  <2>3. base \in Classifications
    BY <2>1 DEF Shape
  <2>4. step' = "plane" => base \in Preserving \cup {"violation"} /\ target \in Artifacts
    BY <2>1, <2>3 DEF Shape, Classifications, Preserving
  <2>5. QED
    BY <2>1, <2>2, <2>3, <2>4, NullIsNoClass DEF Shape, TypeOK, Composed
<1>5. CASE PlaneThrows
  <2>1. /\ UNCHANGED <<profile, source, pc, target, base, coverage, report>>
        /\ step = "plane" /\ step' = "done" /\ outcome' = "unresolved"
    BY <1>5 DEF PlaneThrows, Conclude, flatVars
  <2>2. report = Null
    BY <2>1 DEF Composed
  <2>3. QED
    BY <2>1, <2>2, NullIsNoClass DEF Shape, TypeOK, Composed, Classifications
<1>6. CASE RunPlane
  <2>1. /\ UNCHANGED <<profile, source, pc, target, base, coverage>>
        /\ step = "plane" /\ step' = "done"
        /\ report' = [class \in DeclaredClasses \cup {"F"} |-> Mismatches(class)]
        /\ outcome' = IF Mismatches("N") \cup Mismatches("F") # {} THEN "violation" ELSE base
    BY <1>6 DEF RunPlane, Conclude, flatVars
  <2>2. \A class : Mismatches(class)' = Mismatches(class)
    BY <2>1 DEF Mismatches, Universe, ObservedPaths, Atom, LeafAt, Written, NormalizeForPath
  <2>3. outcome' \in Classifications
    BY <2>1 DEF Shape, Classifications
  <2>4. Composed'
    BY <2>1, <2>2 DEF Composed
  <2>5. Shape'
    BY <2>1, <2>3, NullIsNoClass DEF Shape, TypeOK
  <2>6. QED
    BY <2>4, <2>5
<1>7. QED
  BY <1>1, <1>2, <1>3, <1>4, <1>5, <1>6 DEF Next

THEOREM CoverageInvariant == Spec => []CInv
<1>1. Init => CInv
  BY InitShape
<1>2. CInv /\ [Next]_vars => CInv'
  BY NextShape
<1>3. QED
  BY <1>1, <1>2, PTL DEF Spec

(* The composed evaluation is well typed.                                    *)
THEOREM CoverageTypeCorrect == Spec => []TypeOK
<1>1. CInv => TypeOK
  BY DEF CInv, Shape
<1>2. QED
  BY <1>1, CoverageInvariant, PTL

-------------------------------------------------------------------------------
(* What the verdict means. *)

(* A valid profile's declarations resolve every path to one class. *)
LEMMA ValidProfileResolves ==
    ASSUME coverage \in ProfileInputs, ValidCoverageProfile(coverage)
    PROVE  Accepted(coverage.declarations)
<1> DEFINE ds == coverage.declarations
<1>1. ds \in Seq(Declarations)
  BY CoverageAssumption DEF ProfileInputs
<1>2. \A i \in DOMAIN ds : ds[i].selector \in Selectors \cup {Malformed}
  <2> TAKE i \in DOMAIN ds
  <2>1. ds[i] \in Declarations
    BY <1>1
  <2>2. QED
    BY <2>1 DEF Declarations
<1>3. \A i \in DOMAIN ds : ds[i].selector # Malformed /\ ds[i].selector.side = "none"
  BY DEF ValidCoverageProfile, DeclarationOk
<1>4. QED
  BY <1>1, <1>2, <1>3 DEF Accepted, ValidCoverageProfile

(* Observed paths are paths. *)
LEMMA UniverseIsPaths ==
    ASSUME TypeOK
    PROVE  Universe \subseteq Seq(Segments)
BY CoverageAssumption DEF Universe, ObservedPaths

(* Under an accepted profile every position's path has one effective class.  *)
THEOREM CoverageResolutionIsUnique == Spec => []ResolutionIsUnique
<1>1. CInv => ResolutionIsUnique
  <2> SUFFICES ASSUME CInv, step \notin {"define", "profile_invalid"},
                      NEW i \in DOMAIN WalkOrder, NEW class \in DeclaredClasses \cup {"F"}
               PROVE  Resolves(coverage.declarations, WalkOrder[i], class)
                        = (class = ClassOf(coverage.declarations, WalkOrder[i]))
    BY DEF ResolutionIsUnique
  <2>1. Accepted(coverage.declarations)
    BY ValidProfileResolves DEF CInv, Shape, TypeOK
  <2>2. WalkOrder[i] \in Seq(Segments)
    BY CoverageAssumption
  <2>3. Resolves(coverage.declarations, WalkOrder[i], class)
          <=> class = ClassOf(coverage.declarations, WalkOrder[i])
    BY <2>1, <2>2, ClassIsUnique
  <2>4. QED
    BY <2>3 DEF Resolves
<1>2. QED
  BY <1>1, CoverageInvariant, PTL

(* The composed verdict is the one the order-free resolution defines.        *)
THEOREM CoverageVerdict == Spec => []VerdictFollowsResolution
<1>1. CInv => VerdictFollowsResolution
  <2> SUFFICES ASSUME CInv, report # Null, outcome # Null PROVE VerdictFollowsResolution
    BY DEF VerdictFollowsResolution
  <2> DEFINE ds == coverage.declarations
             differs(path) == Atom(source, path) # Atom(target, path)
  <2>1. step = "done" /\ TypeOK /\ Accepted(ds)
    BY ValidProfileResolves DEF CInv, Shape, TypeOK, Composed
  <2>2. \A path \in Universe, class \in {"N", "F"} :
           Resolves(ds, path, class) <=> class = ClassOf(ds, path)
    BY <2>1, UniverseIsPaths, ClassIsUnique
  <2>3. Mismatches("N") \cup Mismatches("F") # {}
          <=> \E path \in Universe : differs(path)
                 /\ (Resolves(ds, path, "N") \/ Resolves(ds, path, "F"))
    BY <2>2 DEF Mismatches
  <2>4. base \in Preserving \cup {"violation"}
    BY DEF CInv, Shape
  <2>5. outcome = IF Mismatches("N") \cup Mismatches("F") # {} THEN "violation" ELSE base
    BY DEF CInv, Composed
  <2>6. (outcome = "violation") <=>
             \/ base = "violation"
             \/ \E path \in Universe : differs(path)
                   /\ (Resolves(ds, path, "N") \/ Resolves(ds, path, "F"))
    BY <2>3, <2>5
  <2>7. outcome # "violation" => outcome = base
    BY <2>5
  <2>8. QED
    BY <2>6, <2>7 DEF VerdictFollowsResolution
<1>2. QED
  BY <1>1, CoverageInvariant, PTL

(* Where no observed path is named like an inherited property, no difference *)
(* the author did not name survives.                                         *)
THEOREM NoUnnamedDifferenceSurvives ==
    ASSUME InheritedPaths = {}
    PROVE  Spec => []SurvivingDifferenceIsDeclared
<1>1. CInv => SurvivingDifferenceIsDeclared
  <2> SUFFICES ASSUME CInv, report # Null, outcome \in Preserving,
                      NEW path \in Universe, LeafAt(source, path) # LeafAt(target, path),
                      ~ \E z \in coverage.normalizers : z.selector.segments = path
               PROVE  \E i \in DeclarationsFor(path) :
                         LET d == coverage.declarations[i] IN
                         \/ d.targetClass \in {"S", "A"} /\ ~d.selector.wildcard
                         \/ d.targetClass = "S" /\ coverage.policy = "violation"
    BY DEF SurvivingDifferenceIsDeclared
  <2> DEFINE ds == coverage.declarations
  <2>1. TypeOK /\ ValidCoverageProfile(coverage) /\ Accepted(ds) /\ path \in Seq(Segments)
    BY ValidProfileResolves, UniverseIsPaths DEF CInv, Shape, TypeOK, Composed
  <2>2. Atom(source, path) # Atom(target, path)
    BY DEF Atom, NormalizeForPath
  <2>3. ClassOf(ds, path) \notin {"N", "F"}
    <3>1. Mismatches("N") = {} /\ Mismatches("F") = {}
      BY DEF CInv, Composed, Preserving
    <3>2. QED
      BY <2>2, <3>1 DEF Mismatches
  <2>4. Matches(ds, path) # {}
    BY <2>3 DEF ClassOf
  <2>5. PICK i \in DOMAIN ds : MostSpecific(ds, path, i) /\ ClassOf(ds, path) = ds[i].targetClass
    BY <2>1, <2>4, WinnerIsMostSpecific
  <2>6. i \in DeclarationsFor(path) /\ ds[i].targetClass \in DeclaredClasses
    <3>1. ds[i] \in Declarations
      BY <2>1 DEF Accepted
    <3>2. i \in Matches(ds, path)
      BY <2>5 DEF MostSpecific
    <3>3. QED
      BY <3>1, <3>2 DEF DeclarationsFor, Matches, Declarations
  <2>7. ds[i].targetClass \in {"S", "A"}
    BY <2>3, <2>5, <2>6 DEF DeclaredClasses
  <2>8. DeclarationOk(coverage, ds[i])
    BY <2>1 DEF ValidCoverageProfile
  <2>9. QED
    BY <2>6, <2>7, <2>8 DEF DeclarationOk
<1>2. QED
  BY <1>1, CoverageInvariant, PTL

-------------------------------------------------------------------------------
(* When coverage is complete. *)

(* Where no two leaves share a path, what the walk leaves at a path is the    *)
(* leaf of its position.                                                      *)
LEMMA LeafOfPosition ==
    ASSUME IsInjective(WalkOrder), NEW a \in Artifacts, NEW i \in DOMAIN WalkOrder
    PROVE  LeafAt(a, WalkOrder[i]) = a[i]
<1>1. \A j \in DOMAIN WalkOrder : WalkOrder[j] = WalkOrder[i] => j = i
  BY DEF IsInjective
<1>2. CASE a[i] = Absent
  <2>1. Written(a, WalkOrder[i]) = {}
    BY <1>1, <1>2 DEF Written
  <2>2. QED
    BY <1>2, <2>1 DEF LeafAt
<1>3. CASE a[i] # Absent
  <2>1. Written(a, WalkOrder[i]) = {i}
    BY <1>1, <1>3 DEF Written
  <2>2. i =< i
    BY CoverageAssumption
  <2>3. (CHOOSE k \in Written(a, WalkOrder[i]) : \A j \in Written(a, WalkOrder[i]) : j =< k) = i
    BY <2>1, <2>2
  <2>4. QED
    BY <2>1, <2>3 DEF LeafAt
<1>4. QED
  BY <1>2, <1>3

(* The exact reach of "every unclassified observed path falls into F": where  *)
(* no key contains a dot and no path is named like an inherited property, a   *)
(* profile that declares nothing accepts identical artifacts only.            *)
THEOREM UndeclaredIsIdenticalWithoutDottedKeys ==
    ASSUME IsInjective(WalkOrder), InheritedPaths = {}
    PROVE  Spec => []UndeclaredMeansIdentical
<1>1. CInv => UndeclaredMeansIdentical
  <2> SUFFICES ASSUME CInv, report # Null, outcome \in Preserving, coverage.declarations = << >>
               PROVE  source = target
    BY DEF UndeclaredMeansIdentical
  <2>1. TypeOK /\ ValidCoverageProfile(coverage) /\ source \in Artifacts /\ target \in Artifacts
    BY DEF CInv, Shape, TypeOK, Composed
  <2>2. coverage.normalizers = {}
    BY <2>1 DEF ValidCoverageProfile, NormalizerOk
  <2>3. \A path : ClassOf(coverage.declarations, path) = "F"
    BY DEF ClassOf, Matches
  <2>4. Mismatches("F") = {}
    BY DEF CInv, Composed, Preserving
  <2>5. \A path \in Universe : Atom(source, path) = Atom(target, path)
    BY <2>3, <2>4 DEF Mismatches
  <2>6. \A path \in Universe : LeafAt(source, path) = LeafAt(target, path)
    BY <2>2, <2>5 DEF Atom, NormalizeForPath
  <2>7. ASSUME NEW i \in DOMAIN WalkOrder
        PROVE  source[i] = target[i]
    <3>1. LeafAt(source, WalkOrder[i]) = source[i] /\ LeafAt(target, WalkOrder[i]) = target[i]
      BY <2>1, LeafOfPosition
    <3>2. CASE source[i] # Absent \/ target[i] # Absent
      <4>1. WalkOrder[i] \in Universe
        BY <3>2 DEF Universe, ObservedPaths
      <4>2. QED
        BY <2>6, <3>1, <4>1
    <3>3. QED
      BY <3>2
  <2>8. /\ source \in [DOMAIN WalkOrder -> Leaves \cup {Absent}]
        /\ target \in [DOMAIN WalkOrder -> Leaves \cup {Absent}]
    BY <2>1, CoverageAssumption
  <2>9. QED
    BY <2>7, <2>8
<1>2. QED
  BY <1>1, CoverageInvariant, PTL

(* The composition never improves on the evaluator's verdict: it repeats it,  *)
(* escalates a preservation to a violation over a differing path of class N   *)
(* or F, or gives up because a leaf cannot be compared: the only way in which *)
(* a violation the evaluator found can be lost.                               *)
VerdictOnlyWorsens ==
    outcome # Null =>
        \/ outcome = base
        \/ /\ outcome = "violation" /\ base \in Preserving
           /\ Mismatches("N") \cup Mismatches("F") # {}
        \/ outcome = "unresolved" /\ base \in Preserving \cup {"violation"} /\ ~AtomsBuildable

(* This holds of every input, whether or not the plane threw. *)
THEOREM CoverageNeverImproves == Spec => []VerdictOnlyWorsens
<1>1. Init => VerdictOnlyWorsens
  BY DEF Init, VerdictOnlyWorsens
<1>2. ASSUME CInv, CInv', VerdictOnlyWorsens, [Next]_vars
      PROVE  VerdictOnlyWorsens'
  <2>1. UNCHANGED <<source, target, coverage>> => AtomsBuildable' = AtomsBuildable
    BY DEF AtomsBuildable, Universe, ObservedPaths, Atom, LeafAt, Written, NormalizeForPath
  <2>2. UNCHANGED <<source, target, coverage>> =>
            \A class \in {"N", "F"} : Mismatches(class)' = Mismatches(class)
    BY DEF Mismatches, Universe, ObservedPaths, Atom, LeafAt, Written, NormalizeForPath
  <2>3. outcome # Null => step = "done"
    BY <1>2 DEF CInv, Shape, TypeOK
  <2>4. CASE UNCHANGED vars
    BY <1>2, <2>1, <2>2, <2>4 DEF vars, VerdictOnlyWorsens
  <2>5. CASE RejectCoverageProfile \/ AcceptCoverageProfile \/ EvaluateBase \/ TransformAgain
    BY <2>3, <2>5 DEF RejectCoverageProfile, AcceptCoverageProfile, EvaluateBase, TransformAgain,
                      VerdictOnlyWorsens
  <2>6. CASE SkipCoverage \/ TransformAgainThrows
    BY <2>6 DEF SkipCoverage, TransformAgainThrows, Conclude, flatVars, VerdictOnlyWorsens
  <2>7. CASE PlaneThrows
    <3>1. base \in Preserving \cup {"violation"}
      BY <1>2, <2>7 DEF PlaneThrows, CInv, Shape
    <3>2. QED
      BY <2>1, <2>7, <3>1 DEF PlaneThrows, Conclude, flatVars, VerdictOnlyWorsens
  <2>8. CASE RunPlane
    <3>1. base \in Preserving \cup {"violation"} /\ base' = base
      BY <1>2, <2>8 DEF RunPlane, Conclude, flatVars, CInv, Shape
    <3>2. \/ outcome' = base
          \/ outcome' = "violation" /\ Mismatches("N") \cup Mismatches("F") # {}
      BY <2>8 DEF RunPlane, Conclude
    <3>3. Mismatches("N")' = Mismatches("N") /\ Mismatches("F")' = Mismatches("F")
      BY <2>2, <2>8 DEF RunPlane, Conclude, flatVars
    <3>4. QED
      BY <3>1, <3>2, <3>3 DEF VerdictOnlyWorsens, Preserving
  <2>9. QED
    BY <1>2, <2>4, <2>5, <2>6, <2>7, <2>8 DEF Next
<1>3. QED
  BY <1>1, <1>2, CoverageInvariant, PTL DEF Spec
===============================================================================
