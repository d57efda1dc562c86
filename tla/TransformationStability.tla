------------------------ MODULE TransformationStability ------------------------
(***************************************************************************)
(* The evaluator of one transformation:                                    *)
(* src/receiptos/challenge/transformation-stability.ts.                    *)
(* Every stage belongs to the profile's author: it may refuse, report a    *)
(* failure or throw.  Artifacts is the domain of sources and targets.      *)
(***************************************************************************)
CONSTANTS
    Artifacts,  \* what the transformation applies to and returns
    Null        \* an unset value

VARIABLES
    profile,    \* the transformation profile: authentic?, stability policy
    source,     \* the artifact under evaluation
    pc,         \* the stage the evaluation has reached
    target,     \* what the first call of transform returned
    base        \* classification of the result

flatVars == <<profile, source, pc, target, base>>

TransformationProfiles == [authentic : BOOLEAN, policy : {"classify", "violation"}]

FlatInit ==
    /\ profile \in TransformationProfiles
    /\ source \in Artifacts
    /\ pc = "contract"
    /\ target = Null
    /\ base = Null

(* The result of the evaluation is returned to the caller. *)
Classify(class) == base' = class /\ pc' = "returned" /\ UNCHANGED <<profile, source>>

Proceed(stage, next) ==
    pc = stage /\ pc' = next /\ UNCHANGED <<profile, source, target, base>>

AcceptContract == profile.authentic /\ Proceed("contract", "precondition")

RejectContract == ~profile.authentic /\ Proceed("contract", "contract_error")

Applicable == Proceed("precondition", "transform")

NotApplicable ==
    /\ pc = "precondition"
    /\ Classify("out_of_domain")
    /\ UNCHANGED target

Transform ==
    /\ pc = "transform"
    /\ target' \in Artifacts
    /\ pc' = "recompute_source"
    /\ UNCHANGED <<profile, source, base>>

RecomputeSource == Proceed("recompute_source", "recompute_target")

RecomputeTarget == Proceed("recompute_target", "compare")

(* A stage throws, or a recomputation reports that it is unresolved. *)
StageFails ==
    /\ pc \in {"precondition", "transform", "recompute_source", "recompute_target", "compare"}
    /\ Classify("unresolved")
    /\ UNCHANGED target

(* What the comparison of the projections makes of a transformation. *)
Verdict(normative, stability, forbidden) ==
    IF ~normative \/ ~forbidden THEN "violation"
    ELSE IF stability THEN "stable"
    ELSE IF profile.policy = "classify" THEN "history_sensitive"
    ELSE "violation"

Compare ==
    /\ pc = "compare"
    /\ \E normative, stability, forbidden \in BOOLEAN :
          Classify(Verdict(normative, stability, forbidden))
    /\ UNCHANGED target

FlatNext ==
    \/ AcceptContract \/ RejectContract
    \/ Applicable \/ NotApplicable
    \/ Transform \/ RecomputeSource \/ RecomputeTarget
    \/ StageFails \/ Compare
===============================================================================
