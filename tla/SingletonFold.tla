----------------------------- MODULE SingletonFold -----------------------------
(***************************************************************************)
(* The recursive singleton fold evaluator, src/receiptos/rsf/: 28 check    *)
(* positions in a fixed order, of which 12 and 14 own no finding. Each     *)
(* position is one step here; what it hands to later positions is a        *)
(* variable. The last argument of Check is the finding the position owns.  *)
(***************************************************************************)
EXTENDS EntryAdmission, Sequences

CONSTANTS
    Inputs,        \* pairs of an evaluation input and a stage input, as records
    Malformed,     \* what a shape check rejects
    Pending,       \* no envelope yet
    Threw,         \* the evaluator threw
    Digest(_)      \* "sha256:" and the hash of the canonical serialization

(* Constant texts (schemas, versions, states, the three declarations and   *)
(* their commitments) are one field "terms" of the object that holds them. *)
AsDeclared == "as_declared"

(* The fields position 28 compares once more, all but the source's own     *)
(* commitment.                                                             *)
ComparisonPlan == {"terms", "aggregate_id", "source_entry_ref", "statement",
                   "result_commitment", "inclusion_set", "inclusion_commitment",
                   "declarations", "breakdown", "breakdown_commitment",
                   "transition_result", "no_stronger_class", "notes"}

(* A candidate that passes the shape check of position 18 has exactly the  *)
(* fields of an aggregate.                                                 *)
HasAggregateShape(c) ==
    /\ DOMAIN c = ComparisonPlan \cup {"source_commitment"}
    /\ c = [f \in DOMAIN c |-> c[f]]
    /\ c.no_stronger_class \in BOOLEAN

ASSUME FoldAssumption ==
    /\ \A i \in Inputs :
         /\ i.options \in Options \cup {Malformed}
         /\ i.evidence \in Evidences \cup {Malformed}
         /\ i.proof \in ProofObjects \cup {Malformed}
         /\ i.stage # Malformed => HasAggregateShape(i.stage.candidate)
    /\ Pending # Threw

VARIABLES
    input,
    position,                \* the check position to run next
    verifiedReceiptRoot,     \* position 8
    expectedProofObjectId,   \* position 10
    sourceEntry,             \* position 12, verified at 13
    sourceCommitment,        \* position 14
    evaluation               \* the envelope returned

vars == <<input, position, verifiedReceiptRoot, expectedProofObjectId,
          sourceEntry, sourceCommitment, evaluation>>

(* The aggregate that follows from an entry.                               *)
Statement(entry) ==
    [ref |-> entry.entry_id, commitment |-> Digest(entry), terms |-> AsDeclared]

InclusionSet(entry) == <<[ref |-> entry.entry_id, commitment |-> Digest(entry)]>>

Breakdown(entry) ==
    [ref |-> entry.entry_id, commitment |-> Digest(entry), terms |-> AsDeclared,
     transition_input |-> Digest(Statement(entry)),
     transition_output |-> Digest(Statement(entry))]

IdentitySeed(entry) ==
    [ref |-> entry.entry_id, commitment |-> Digest(entry),
     semantic_result |-> Digest(Statement(entry)),
     inclusion_set |-> Digest(InclusionSet(entry)),
     breakdown |-> Digest(Breakdown(entry))]

Aggregate(entry, notes) ==
    [terms |-> AsDeclared, aggregate_id |-> Digest(IdentitySeed(entry)),
     source_entry_ref |-> entry.entry_id, source_commitment |-> Digest(entry),
     statement |-> Statement(entry), result_commitment |-> Digest(Statement(entry)),
     inclusion_set |-> InclusionSet(entry),
     inclusion_commitment |-> Digest(InclusionSet(entry)),
     declarations |-> AsDeclared,
     breakdown |-> Breakdown(entry), breakdown_commitment |-> Digest(Breakdown(entry)),
     transition_result |-> "singleton_transition_ok",
     no_stronger_class |-> TRUE, notes |-> notes]

-------------------------------------------------------------------------------

(* Codes that make the envelope say "malformed" (MALFORMED_PREFIX_CODES    *)
(* and the stage's own).                                                   *)
MalformedCodes == {"malformed_evaluation_input", "malformed_source_admission_bundle",
    "malformed_source_entry_construction_options", "malformed_source_evidence",
    "malformed_portable_proof_object", "malformed_source_entry",
    "malformed_fold_policy_declaration", "malformed_comparability_class_declaration",
    "malformed_transition_rule_declaration", "malformed_rsf_stage_input"}

StateOf(code) ==
    IF code = "source_admission_prerequisite_unavailable" THEN "unverifiable"
    ELSE IF code \in MalformedCodes THEN "malformed"
    ELSE "rejected"

Finding(code, n) == [state |-> StateOf(code), code |-> code, position |-> n]
Accepted == [state |-> "accepted", code |-> "none", position |-> 28]

Init ==
    /\ input \in Inputs
    /\ position = 1
    /\ verifiedReceiptRoot = Null
    /\ expectedProofObjectId = Null
    /\ sourceEntry = Null
    /\ sourceCommitment = Null
    /\ evaluation = Pending

(* Run position n: go on if its claim holds, else return its finding.      *)
Check(n, holds, code) ==
    /\ position = n
    /\ evaluation = Pending
    /\ \/ /\ holds
          /\ position' = n + 1
          /\ evaluation' = evaluation
       \/ /\ ~holds
          /\ evaluation' = Finding(code, n)
          /\ position' = position
    /\ UNCHANGED input

Derived == <<verifiedReceiptRoot, expectedProofObjectId, sourceEntry, sourceCommitment>>

(* validateRsfEvaluationInputShape: frame is the first of the containers   *)
(* whose shape is wrong.                                                   *)
CheckInputShape ==
    /\ \/ Check(1, input.frame # "input", "malformed_evaluation_input")
       \/ Check(2, input.frame # "bundle", "malformed_source_admission_bundle")
       \/ Check(3, input.frame # "containers", "malformed_source_admission_bundle")
       \/ Check(4, input.options # Malformed, "malformed_source_entry_construction_options")
    /\ UNCHANGED Derived

CheckSourceEvidence ==
    /\ Check(5, input.evidence # Malformed, "malformed_source_evidence")
    /\ UNCHANGED Derived

CheckPortableProofObject ==
    /\ Check(6, input.proof # Malformed, "malformed_portable_proof_object")
    /\ UNCHANGED Derived

CheckClaimedSourceEntry ==
    /\ Check(7, input.claimed # Malformed, "malformed_source_entry")
    /\ UNCHANGED Derived

RootRecomputes(evidence) ==
    evidence.stored # Null /\ SameRoot(evidence.stored, Recomputed(evidence))

(* Mutant: the root handed on is the stored one.                           *)
HandedOnStored(evidence) == evidence.stored

(* The root later positions compare with is the recomputed one.            *)
HandedOn(evidence) == Recomputed(evidence)

CheckPrerequisitesAndReceiptRoot ==
    /\ Check(8, RootRecomputes(input.evidence),
             IF input.evidence.stored = Null THEN "source_admission_prerequisite_unavailable"
             ELSE "source_receipt_root_mismatch")
    /\ verifiedReceiptRoot' =
          IF RootRecomputes(input.evidence) THEN HandedOn(input.evidence) ELSE Null
    /\ UNCHANGED <<expectedProofObjectId, sourceEntry, sourceCommitment>>

(* Mutants: the capsule's own roots are not compared; the labels are not.  *)
CrossObjectByRoot(proof, root) ==
    /\ SameRoot(proof.receipt_root, root)
    /\ proof.labelled
    /\ proof.verified
CrossObjectByRootsOnly(proof, root) ==
    /\ SameRoot(proof.receipt_root, root)
    /\ SameRoot(proof.stored, root)
    /\ SameRoot(proof.computed, root)

(* Five comparisons with the root just verified.                           *)
CrossObjectConsistent(proof, root) ==
    /\ SameRoot(proof.receipt_root, root)
    /\ SameRoot(proof.stored, root)
    /\ SameRoot(proof.computed, root)
    /\ proof.labelled
    /\ proof.verified

CheckCrossObjectConsistency ==
    /\ Check(9, CrossObjectConsistent(input.proof, verifiedReceiptRoot),
             "cross_object_consistency_mismatch")
    /\ UNCHANGED Derived

IdentityFollows(proof, root) == proof.proof_object_id = DeriveProofObjectId(root)

CheckProofObjectIdentity ==
    /\ Check(10, IdentityFollows(input.proof, verifiedReceiptRoot),
             "proof_object_identity_mismatch")
    /\ expectedProofObjectId' =
          IF IdentityFollows(input.proof, verifiedReceiptRoot)
          THEN DeriveProofObjectId(verifiedReceiptRoot) ELSE Null
    /\ UNCHANGED <<verifiedReceiptRoot, sourceEntry, sourceCommitment>>

CheckProofReference ==
    /\ Check(11, input.proof.proof_ref = DeriveProofRef(expectedProofObjectId),
             "proof_reference_mismatch")
    /\ UNCHANGED Derived

(* Position 12 calls admission as a whole. A rejection is not a finding:   *)
(* the evaluator throws.                                                   *)
ReconstructEntry ==
    /\ position = 12
    /\ evaluation = Pending
    /\ \/ /\ Admits(input.evidence, input.proof)
          /\ sourceEntry' = EntryOf(input.proof, input.options)
          /\ position' = 13
          /\ UNCHANGED evaluation
       \/ /\ ~Admits(input.evidence, input.proof)
          /\ evaluation' = Threw
          /\ UNCHANGED <<position, sourceEntry>>
    /\ UNCHANGED <<input, verifiedReceiptRoot, expectedProofObjectId, sourceCommitment>>

(* Mutant: the entries are compared by identifier.                         *)
SameEntryId(entry, claimed) == entry.entry_id = claimed.entry_id

SameEntry(entry, claimed) == entry = claimed

CheckReconstructedEntry ==
    /\ Check(13, SameEntry(sourceEntry, input.claimed), "reconstructed_source_entry_mismatch")
    /\ UNCHANGED Derived

DeriveSourceCommitment ==
    /\ position = 14
    /\ evaluation = Pending
    /\ position' = 15
    /\ sourceCommitment' = Digest(sourceEntry)
    /\ UNCHANGED <<input, verifiedReceiptRoot, expectedProofObjectId, sourceEntry, evaluation>>

(* The shape checks compare every field with its only value, so that the   *)
(* commitment comparisons behind them cannot fail.                         *)
CheckDeclarations ==
    /\ \/ Check(15, input.policy = AsDeclared, "malformed_fold_policy_declaration")
       \/ Check(16, input.class = AsDeclared, "malformed_comparability_class_declaration")
       \/ Check(17, input.rule = AsDeclared, "malformed_transition_rule_declaration")
    /\ UNCHANGED Derived

-------------------------------------------------------------------------------
(* Positions 18 to 28: the candidate aggregate of the stage input.         *)

Candidate == input.stage.candidate

(* A position that makes two comparisons and owns a code for each.         *)
TwoChecks(n, first, code1, second, code2) ==
    Check(n, first /\ second, IF ~first THEN code1 ELSE code2)

CheckStageAndPolicy ==
    /\ TwoChecks(18, input.stage # Malformed, "malformed_rsf_stage_input",
                 input.stage # Malformed /\ Len(Candidate.inclusion_set) = 1,
                 "singleton_policy_ineligible")
    /\ UNCHANGED Derived

CheckClass ==
    /\ Check(19, Candidate.inclusion_set[1].ref = sourceEntry.entry_id, "singleton_class_ineligible")
    /\ UNCHANGED Derived

CheckInputStatement ==
    /\ TwoChecks(20, input.stage.statement = Statement(sourceEntry), "semantic_statement_mismatch",
                 input.stage.statement_commitment = Digest(Statement(sourceEntry)),
                 "semantic_result_commitment_mismatch")
    /\ UNCHANGED Derived

CheckInclusionSet ==
    /\ TwoChecks(21, Candidate.inclusion_set = InclusionSet(sourceEntry), "inclusion_set_mismatch",
                 Candidate.inclusion_commitment = Digest(InclusionSet(sourceEntry)),
                 "inclusion_set_commitment_mismatch")
    /\ UNCHANGED Derived

CheckSourceIdentityReuse ==
    /\ Check(22, Candidate.aggregate_id # sourceEntry.entry_id, "forbidden_source_identity_reuse")
    /\ UNCHANGED Derived

(* Mutant: the output statement is not compared with a fresh one, only its *)
(* digest with the digest stored for it.                                   *)
OutputIsSelfConsistent(candidate, entry) ==
    candidate.result_commitment = Digest(candidate.statement)

OutputStatementFollows(candidate, entry) ==
    /\ candidate.statement = Statement(entry)
    /\ candidate.result_commitment = Digest(Statement(entry))

CheckOutputStatement ==
    /\ Check(23, OutputStatementFollows(Candidate, sourceEntry),
             "semantic_result_commitment_mismatch")
    /\ UNCHANGED Derived

CheckNoElevation ==
    /\ Check(24, Candidate.no_stronger_class, "no_elevation_invariant_mismatch")
    /\ UNCHANGED Derived

CheckTransitionResult ==
    /\ Check(25, Candidate.transition_result = "singleton_transition_ok", "transition_result_mismatch")
    /\ UNCHANGED Derived

CheckBreakdown ==
    /\ TwoChecks(26, Candidate.breakdown = Breakdown(sourceEntry), "breakdown_mismatch",
                 Candidate.breakdown_commitment = Digest(Breakdown(sourceEntry)),
                 "breakdown_commitment_mismatch")
    /\ UNCHANGED Derived

(* Mutant: the identity is only required to be some digest.                *)
AnyIdentity(candidate, entry) == candidate.aggregate_id # Null

AggregateIdentityFollows(candidate, entry) == candidate.aggregate_id = Digest(IdentitySeed(entry))

CheckAggregateId ==
    /\ Check(27, AggregateIdentityFollows(Candidate, sourceEntry), "aggregate_id_mismatch")
    /\ UNCHANGED Derived

(* Mutant: the last comparison leaves out what earlier positions do not    *)
(* look at.                                                                *)
NothingRemains(candidate, expected) == TRUE

FieldsAgree(candidate, expected) ==
    \A field \in ComparisonPlan : candidate[field] = expected[field]

(* The last position: the source's commitment afresh, then field by field. *)
ValidateAggregate ==
    LET fresh == Digest(sourceEntry)
        expected == Aggregate(sourceEntry, input.notes)
        sourceIsFresh == sourceCommitment = fresh /\ Candidate.source_commitment = fresh
        complete == sourceIsFresh /\ FieldsAgree(Candidate, expected)
    IN  /\ position = 28
        /\ evaluation = Pending
        /\ evaluation' =
              IF complete THEN Accepted
              ELSE IF sourceIsFresh THEN Finding("complete_aggregate_validation_mismatch", 28)
              ELSE Finding("source_entry_content_commitment_mismatch", 28)
        /\ UNCHANGED <<input, position>>
        /\ UNCHANGED Derived

Prefix ==
    \/ CheckInputShape \/ CheckSourceEvidence \/ CheckPortableProofObject
    \/ CheckClaimedSourceEntry \/ CheckPrerequisitesAndReceiptRoot
    \/ CheckCrossObjectConsistency \/ CheckProofObjectIdentity \/ CheckProofReference
    \/ ReconstructEntry \/ CheckReconstructedEntry \/ DeriveSourceCommitment
    \/ CheckDeclarations

Stage ==
    \/ CheckStageAndPolicy \/ CheckClass \/ CheckInputStatement \/ CheckInclusionSet
    \/ CheckSourceIdentityReuse \/ CheckOutputStatement \/ CheckNoElevation
    \/ CheckTransitionResult \/ CheckBreakdown \/ CheckAggregateId \/ ValidateAggregate

Next == Prefix \/ Stage

Spec == Init /\ [][Next]_vars

-------------------------------------------------------------------------------
(* What the evaluation is about, without positions: the entry that         *)
(* admission gives for the bundle, and claims about it.                    *)

TrueEntry(i) == EntryOf(i.proof, i.options)
RootClaim(i) == {i.proof.receipt_root, i.proof.stored, i.proof.computed}

Holds(i, n) ==
    /\ n = 1 => i.frame # "input"
    /\ n = 2 => i.frame # "bundle"
    /\ n = 3 => i.frame # "containers"
    /\ n = 4 => i.options # Malformed
    /\ n = 5 => i.evidence # Malformed
    /\ n = 6 => i.proof # Malformed
    /\ n = 7 => i.claimed # Malformed
    /\ n = 8 => RootRecomputes(i.evidence)
    /\ n = 9 => /\ \A root \in RootClaim(i) : root.of = i.evidence.content
               /\ i.proof.labelled /\ i.proof.verified
    /\ n = 10 => i.proof.proof_object_id = DeriveProofObjectId(Recomputed(i.evidence))
    /\ n = 11 => i.proof.proof_ref = DeriveProofRef(i.proof.proof_object_id)
    /\ n = 12 => Admits(i.evidence, i.proof)
    /\ n = 13 => i.claimed = TrueEntry(i)
    /\ n = 15 => i.policy = AsDeclared
    /\ n = 16 => i.class = AsDeclared
    /\ n = 17 => i.rule = AsDeclared
    /\ n = 18 => i.stage # Malformed /\ Len(i.stage.candidate.inclusion_set) = 1
    /\ n = 19 => i.stage.candidate.inclusion_set[1].ref = TrueEntry(i).entry_id
    /\ n = 20 => /\ i.stage.statement = Statement(TrueEntry(i))
                 /\ i.stage.statement_commitment = Digest(i.stage.statement)
    /\ n = 21 => /\ i.stage.candidate.inclusion_set = InclusionSet(TrueEntry(i))
                 /\ i.stage.candidate.inclusion_commitment = Digest(i.stage.candidate.inclusion_set)
    /\ n = 22 => i.stage.candidate.aggregate_id # TrueEntry(i).entry_id
    /\ n = 23 => /\ i.stage.candidate.statement = i.stage.statement
                 /\ i.stage.candidate.result_commitment = i.stage.statement_commitment
    /\ n = 24 => i.stage.candidate.no_stronger_class
    /\ n = 25 => i.stage.candidate.transition_result = "singleton_transition_ok"
    /\ n = 26 => /\ i.stage.candidate.breakdown = Breakdown(TrueEntry(i))
                 /\ i.stage.candidate.breakdown_commitment = Digest(i.stage.candidate.breakdown)
    /\ n = 27 => i.stage.candidate.aggregate_id = Digest(IdentitySeed(TrueEntry(i)))
    /\ n = 28 => i.stage.candidate = Aggregate(TrueEntry(i), i.notes)

Blame(i, n) ==
    IF n = 12 THEN Threw
    ELSE [position |-> n,
          state |-> IF n = 8 /\ i.evidence.stored = Null THEN "unverifiable"
                    ELSE IF n <= 7 \/ n \in 15..17 \/ (n = 18 /\ i.stage = Malformed)
                    THEN "malformed" ELSE "rejected"]

Decision ==
    IF evaluation \in {Pending, Threw} THEN evaluation
    ELSE [position |-> evaluation.position, state |-> evaluation.state]

Ordered == INSTANCE FirstFailureWins
    WITH Last <- 28, decision <- Decision,
         Acceptance <- [position |-> 28, state |-> "accepted"]

-------------------------------------------------------------------------------
Codes == MalformedCodes \cup {"none", "source_admission_prerequisite_unavailable",
    "source_receipt_root_mismatch", "cross_object_consistency_mismatch",
    "proof_object_identity_mismatch", "proof_reference_mismatch",
    "reconstructed_source_entry_mismatch", "singleton_policy_ineligible",
    "singleton_class_ineligible", "semantic_statement_mismatch",
    "semantic_result_commitment_mismatch", "inclusion_set_mismatch",
    "inclusion_set_commitment_mismatch", "forbidden_source_identity_reuse",
    "no_elevation_invariant_mismatch", "transition_result_mismatch", "breakdown_mismatch",
    "breakdown_commitment_mismatch", "aggregate_id_mismatch",
    "source_entry_content_commitment_mismatch", "complete_aggregate_validation_mismatch"}

States == {"malformed", "unverifiable", "rejected", "accepted"}

ASSUME NoEnvelope ==
    /\ \A e \in [state : States, code : Codes, position : 1..28] : e \notin {Pending, Threw}
    /\ \A d \in [position : 1..28, state : States] : d \notin {Pending, Threw}

(* Types. A value a position establishes is there exactly from the next    *)
(* position on.                                                            *)
TypeOK ==
    /\ position \in 1..28
    /\ verifiedReceiptRoot \in Roots \cup {Null}
    /\ position > 8 => verifiedReceiptRoot # Null
    /\ position > 10 => expectedProofObjectId \in ProofObjectIds
    /\ position > 12 => sourceEntry \in Entries
    /\ evaluation \in {Pending, Threw} \cup [state : States, code : Codes, position : 1..28]

RootAsRecomputed(evidence) == evidence.stored = Null \/ evidence.stored.written = "lower"

(* Everything in the input follows from the evidence: its shapes, the        *)
(* declarations, the entry admission gives, and statement and candidate of   *)
(* that entry, whose identity is not the entry's own name.                   *)
FollowsFromSource(i) ==
    /\ i.frame \notin {"input", "bundle", "containers"}
    /\ Malformed \notin {i.options, i.evidence, i.proof, i.claimed, i.stage}
    /\ RootAsRecomputed(i.evidence) /\ Admits(i.evidence, i.proof)
    /\ i.claimed = TrueEntry(i)
    /\ i.policy = AsDeclared /\ i.class = AsDeclared /\ i.rule = AsDeclared
    /\ i.stage.statement = Statement(TrueEntry(i))
    /\ i.stage.statement_commitment = Digest(Statement(TrueEntry(i)))
    /\ i.stage.candidate = Aggregate(TrueEntry(i), i.notes)
    /\ Digest(IdentitySeed(TrueEntry(i))) # TrueEntry(i).entry_id

(* An accepted aggregate is the only one its source allows, and that one is  *)
(* accepted: the stored root recomputes, admission gives the very entry that *)
(* was claimed, and every object and digest of statement and candidate       *)
(* follows from that entry. A producer who alters one fact and recomputes    *)
(* every digest over it is not accepted (positions 1 to 28 together).        *)
AcceptsExactlyTheDerived ==
    evaluation # Pending => (evaluation = Accepted <=> FollowsFromSource(input))

(* The evaluator repeats by itself, at positions 8 to 11, what admission   *)
(* checks in one call. For evidence that stores its root as recomputation  *)
(* writes it the two agree: one of these positions finds something exactly *)
(* when admission refuses, so position 12 does not throw.                  *)
AgreesWithAdmission ==
    evaluation # Pending /\ position >= 8 /\ RootAsRecomputed(input.evidence) =>
        /\ position \in 8..11 <=> ~Admits(input.evidence, input.proof)
        /\ evaluation # Threw

(* "Those repeated checks cannot fail": position 12 never throws.          *)
(* (source-admission-recomputation.ts:271)                                 *)
AdmissionCannotFail == evaluation # Threw

(* The evaluator decides by the first false claim and, but for position    *)
(* 12, returns the envelope of that position.                              *)
ImplementsFirstFailure == Ordered!Spec

===============================================================================
