--------------------------- MODULE CoverageEvaluation ---------------------------
(***************************************************************************)
(* A transformation judged twice: by its own evaluator, and then by the    *)
(* closed-world coverage plane, which compares the two artifacts path by   *)
(* path (evaluateTransformationStabilityWithCoverageV0).                   *)
(* An artifact is a function from the positions of its leaves, in the      *)
(* order the structural walk meets them, to leaves.  Two positions have    *)
(* the same path when a key contains a dot ({"a.b": 1} and {a: {b: 1}}).   *)
(***************************************************************************)
EXTENDS TransformationStability, CoverageSelectors

CONSTANTS
    CoverageInputs,  \* the coverage profiles an author may write
    WalkOrder,       \* the path of each position, in walk order
    Leaves,          \* leaf values
    Absent,          \* no leaf at this position
    Uncomparable,    \* leaves canonicalIdentityJson throws on
    Normalize,       \* what the authority's normalizer makes of each leaf
    InheritedPaths,  \* paths named like a property every object inherits
    Inherited        \* what applying an inherited property yields

ASSUME CoverageAssumption ==
    /\ CoverageInputs \subseteq ProfileInputs
    /\ WalkOrder \in Seq(Seq(Segments))
    /\ Absent \notin Leaves \cup {Inherited}
    /\ Uncomparable \subseteq Leaves
    /\ Artifacts \subseteq [DOMAIN WalkOrder -> Leaves \cup {Absent}]
    /\ Normalize \in [Leaves -> Leaves]
    /\ Null \notin Artifacts

VARIABLES
    coverage,  \* the coverage profile's declaration
    step,      \* how far the composition has come
    report,    \* differing paths by class, Null unless the plane was run
    outcome    \* the final classification

vars == <<profile, source, pc, target, base, coverage, step, report, outcome>>

-------------------------------------------------------------------------------
(* The coverage plane *)

(* The positions of artifact a whose leaf has this path. *)
Written(a, path) == {i \in DOMAIN WalkOrder : WalkOrder[i] = path /\ a[i] # Absent}

(* The leaf the walk leaves at a path: the last one written there. *)
LeafAt(a, path) ==
    IF Written(a, path) = {} THEN Absent
    ELSE a[CHOOSE i \in Written(a, path) : \A j \in Written(a, path) : j =< i]

ObservedPaths(a) == {WalkOrder[i] : i \in {j \in DOMAIN WalkOrder : a[j] # Absent}}

(* value_normalizers[path]: an own property, or one every object inherits. *)
NormalizeForPath(path, leaf) ==
    IF \E z \in coverage.normalizers : z.selector.segments = path THEN Normalize[leaf]
    ELSE IF path \in InheritedPaths THEN Inherited
    ELSE leaf

Atom(a, path) ==
    IF LeafAt(a, path) = Absent THEN Absent ELSE NormalizeForPath(path, LeafAt(a, path))

Universe == ObservedPaths(source) \cup ObservedPaths(target)

AtomsBuildable ==
    \A path \in Universe : Atom(source, path) \notin Uncomparable
                             /\ Atom(target, path) \notin Uncomparable

(* Mutant: a path only one side has is not compared. *)
MismatchesOnBothSides(class) ==
    {path \in ObservedPaths(source) \cap ObservedPaths(target) :
        ClassOf(coverage.declarations, path) = class /\ Atom(source, path) # Atom(target, path)}

(* The observed paths of one class on which the artifacts differ. *)
Mismatches(class) ==
    {path \in Universe : ClassOf(coverage.declarations, path) = class
                           /\ Atom(source, path) # Atom(target, path)}

-------------------------------------------------------------------------------
(* The composition *)

Init ==
    /\ FlatInit
    /\ coverage \in CoverageInputs
    /\ step = "define"
    /\ report = Null
    /\ outcome = Null

RejectCoverageProfile ==
    /\ step = "define" /\ ~ValidCoverageProfile(coverage)
    /\ step' = "profile_invalid"
    /\ UNCHANGED <<flatVars, coverage, report, outcome>>

AcceptCoverageProfile ==
    /\ step = "define" /\ ValidCoverageProfile(coverage)
    /\ step' = "base"
    /\ UNCHANGED <<flatVars, coverage, report, outcome>>

EvaluateBase ==
    /\ step = "base" /\ FlatNext
    /\ UNCHANGED <<coverage, step, report, outcome>>

Conclude(class) ==
    /\ outcome' = class
    /\ step' = "done"
    /\ UNCHANGED <<flatVars, coverage>>

(* No preservation to escalate. *)
SkipCoverage ==
    /\ step = "base" /\ pc = "returned"
    /\ base \in {"out_of_domain", "unresolved"}
    /\ Conclude(base)
    /\ UNCHANGED report

(* The plane calls transform once more, for the same target. *)
TransformAgain ==
    /\ step = "base" /\ pc = "returned"
    /\ base \notin {"out_of_domain", "unresolved"}
    /\ step' = "plane"
    /\ UNCHANGED <<flatVars, coverage, report, outcome>>

TransformAgainThrows ==
    /\ step = "base" /\ pc = "returned"
    /\ base \notin {"out_of_domain", "unresolved"}
    /\ Conclude(base)
    /\ UNCHANGED report

(* Mutant: a throwing plane leaves the composition unfinished. *)
PlaneFailsSilently ==
    /\ step = "plane" /\ ~AtomsBuildable
    /\ step' = "done"
    /\ UNCHANGED <<flatVars, coverage, report, outcome>>

PlaneThrows ==
    /\ step = "plane" /\ ~AtomsBuildable
    /\ Conclude("unresolved")
    /\ UNCHANGED report

(* A protected or unclassified difference escalates to a violation. *)
RunPlane ==
    /\ step = "plane" /\ AtomsBuildable
    /\ report' = [class \in DeclaredClasses \cup {"F"} |-> Mismatches(class)]
    /\ Conclude(IF Mismatches("N") \cup Mismatches("F") # {} THEN "violation" ELSE base)

Next ==
    \/ RejectCoverageProfile \/ AcceptCoverageProfile
    \/ EvaluateBase
    \/ SkipCoverage \/ TransformAgain \/ TransformAgainThrows
    \/ PlaneThrows \/ RunPlane

Spec == Init /\ [][Next]_vars

-------------------------------------------------------------------------------
(* Properties *)

Preserving == {"stable", "history_sensitive"}

Classifications == Preserving \cup {"violation", "out_of_domain", "unresolved"}

ASSUME NullIsNoClass == Null \notin Classifications

Stages == {"contract", "contract_error", "precondition", "transform", "recompute_source",
           "recompute_target", "compare", "returned"}

(* The evaluator and its composition are well formed. *)
TypeOK ==
    /\ profile \in TransformationProfiles
    /\ source \in Artifacts /\ target \in Artifacts \cup {Null}
    /\ pc \in Stages
    /\ base \in Classifications \cup {Null}
    /\ coverage \in ProfileInputs
    /\ step \in {"define", "profile_invalid", "base", "plane", "done"}
    /\ outcome \in Classifications \cup {Null}
    /\ (step = "done") = (outcome # Null)
    /\ report # Null => DOMAIN report = DeclaredClasses \cup {"F"}

DeclarationsFor(path) ==
    {i \in DOMAIN coverage.declarations :
        SelectorMatchesPath(coverage.declarations[i].selector, path)}

(* No difference survives unless the author named it: whenever a covered     *)
(* transformation is accepted, a path whose leaves differ is declared A or S *)
(* by its exact name, lies under a stability wildcard of a strict profile,   *)
(* or has a declared normalizer.  In particular a path nobody thought of     *)
(* never survives.                                                           *)
SurvivingDifferenceIsDeclared ==
    (report # Null /\ outcome \in Preserving) =>
        \A path \in Universe : LeafAt(source, path) # LeafAt(target, path) =>
            \/ \E i \in DeclarationsFor(path) :
                  LET d == coverage.declarations[i] IN
                  \/ d.targetClass \in {"S", "A"} /\ ~d.selector.wildcard
                  \/ d.targetClass = "S" /\ coverage.policy = "violation"
            \/ \E z \in coverage.normalizers : z.selector.segments = path

(* The composed verdict is the one sections 5, 8 and 9 define, whatever the  *)
(* order of the declarations: a violation exactly when the evaluator found   *)
(* one or an observed difference resolves to N or F, and otherwise the       *)
(* evaluator's own verdict.                                                  *)
VerdictFollowsResolution ==
    (report # Null /\ outcome # Null) =>
        /\ (outcome = "violation") =
             \/ base = "violation"
             \/ \E path \in Universe :
                   /\ Atom(source, path) # Atom(target, path)
                   /\ \/ Resolves(coverage.declarations, path, "N")
                      \/ Resolves(coverage.declarations, path, "F")
        /\ outcome # "violation" => outcome = base

(* Every observed path has exactly one effective class under an accepted     *)
(* profile, the one classifyPathV0 computes.                                 *)
ResolutionIsUnique ==
    step \notin {"define", "profile_invalid"} =>
        \A i \in DOMAIN WalkOrder :
            LET effective == ClassOf(coverage.declarations, WalkOrder[i]) IN
            \A class \in DeclaredClasses \cup {"F"} :
                Resolves(coverage.declarations, WalkOrder[i], class) = (class = effective)

(* A profile that declares nothing accepts identical artifacts only: "any    *)
(* path actually observed on either side ... is mechanically classified,     *)
(* with every unclassified observed path failing closed into F".             *)
UndeclaredMeansIdentical ==
    (report # Null /\ outcome \in Preserving /\ coverage.declarations = << >>) => source = target
===============================================================================
