--------------------------- MODULE SingletonFoldProofs --------------------------
(* Proofs about SingletonFold, for any set of inputs of the shapes assumed   *)
(* and any digest: nothing is assumed of Digest, not even that it does not   *)
(* collide, because the evaluator compares objects before their digests.     *)
EXTENDS SingletonFold, TLAPS

(* What earlier positions have established when a position runs.             *)
Established ==
    /\ \A m \in 1..(position - 1) : Holds(input, m)
    /\ verifiedReceiptRoot = IF position > 8 THEN Recomputed(input.evidence) ELSE Null
    /\ position > 10 => expectedProofObjectId = DeriveProofObjectId(verifiedReceiptRoot)
    /\ position > 12 => sourceEntry = TrueEntry(input)
    /\ position > 14 => sourceCommitment = Digest(sourceEntry)

(* A decision blames the first claim that does not hold.                     *)
Blames(e, n) ==
    /\ e = Finding(e.code, n)
    /\ e.code \in Codes
    /\ StateOf(e.code) = Blame(input, n).state

Justified ==
    \/ evaluation = Pending
    \/ evaluation = Threw /\ position = 12 /\ ~Holds(input, 12)
    \/ evaluation = Accepted /\ position = 28 /\ Holds(input, 28)
    \/ position # 12 /\ ~Holds(input, position) /\ Blames(evaluation, position)

IInv ==
    /\ input \in Inputs
    /\ position \in 1..28
    /\ Established
    /\ Justified

-------------------------------------------------------------------------------
(* The arms of Holds, one by one. *)

LEMMA HoldsArms ==
    ASSUME NEW i
    PROVE  /\ Holds(i, 1) <=> i.frame # "input"
           /\ Holds(i, 2) <=> i.frame # "bundle"
           /\ Holds(i, 3) <=> i.frame # "containers"
           /\ Holds(i, 4) <=> i.options # Malformed
           /\ Holds(i, 5) <=> i.evidence # Malformed
           /\ Holds(i, 6) <=> i.proof # Malformed
           /\ Holds(i, 7) <=> i.claimed # Malformed
           /\ Holds(i, 8) <=> RootRecomputes(i.evidence)
           /\ Holds(i, 12) <=> Admits(i.evidence, i.proof)
           /\ Holds(i, 28) <=> i.stage.candidate = Aggregate(TrueEntry(i), i.notes)
BY DEF Holds

(* Position n has checked claim n.                                           *)
Checked(n, code) ==
    /\ position = n
    /\ evaluation = Pending
    /\ input' = input
    /\ \/ Holds(input, n) /\ position' = n + 1 /\ evaluation' = Pending
       \/ /\ ~Holds(input, n) /\ position' = n /\ evaluation' = Finding(code, n)
          /\ code \in Codes /\ StateOf(code) = Blame(input, n).state

(* A position that checks its claim keeps the invariant.                     *)
LEMMA CheckKeeps ==
    ASSUME IInv,
           NEW n \in 1..27, n # 12, n # 14,
           NEW code,
           Checked(n, code),
           n = 8 => verifiedReceiptRoot' = IF Holds(input, n) THEN Recomputed(input.evidence)
                                           ELSE Null,
           n # 8 => verifiedReceiptRoot' = verifiedReceiptRoot,
           n = 10 /\ Holds(input, n) =>
               expectedProofObjectId' = DeriveProofObjectId(verifiedReceiptRoot),
           n # 10 => expectedProofObjectId' = expectedProofObjectId,
           sourceEntry' = sourceEntry, sourceCommitment' = sourceCommitment
    PROVE  IInv'
<1>1. position = n /\ evaluation = Pending /\ input' = input
  BY DEF Checked
<1>2. CASE Holds(input, n)
  <2>1. position' = n + 1 /\ evaluation' = Pending
    BY <1>2, <1>1 DEF Checked
  <2>2. \A m \in 1..n : Holds(input, m)
    BY <1>1, <1>2 DEF IInv, Established
  <2>3. (\A m \in 1..(position - 1) : Holds(input, m))'
    BY <2>1, <2>2, <1>1
  <2>4. Established'
    BY <2>1, <2>3, <1>1, <1>2 DEF IInv, Established
  <2>5. QED
    BY <2>1, <2>4, <1>1 DEF IInv, Justified
<1>3. CASE ~Holds(input, n)
  <2>1. position' = n /\ evaluation' = Finding(code, n)
    BY <1>3, <1>1 DEF Checked
  <2>2. (\A m \in 1..(position - 1) : Holds(input, m))'
    BY <2>1, <1>1 DEF IInv, Established
  <2>3. Established'
    BY <2>1, <2>2, <1>1, <1>3 DEF IInv, Established
  <2>4. evaluation'.code = code /\ evaluation'.state = StateOf(code)
    BY <2>1 DEF Finding
  <2>5. Blames(evaluation, position)'
    BY <2>1, <2>4, <1>1, <1>3 DEF Blames, Checked
  <2>6. QED
    BY <2>1, <2>3, <2>5, <1>1, <1>3 DEF IInv, Justified
<1>4. QED
  BY <1>2, <1>3

(* What is known of the input once its shapes have been checked.             *)
LEMMA Shapes ==
    ASSUME IInv, position > 7
    PROVE  /\ input.options \in Options
           /\ input.evidence \in Evidences
           /\ input.proof \in ProofObjects
<1>1. Holds(input, 4) /\ Holds(input, 5) /\ Holds(input, 6)
  BY DEF IInv, Established
<1>2. input.options # Malformed /\ input.evidence # Malformed /\ input.proof # Malformed
  BY <1>1, HoldsArms
<1>3. QED
  BY <1>2, FoldAssumption DEF IInv

LEMMA CodesAreCodes ==
    /\ MalformedCodes \subseteq Codes
    /\ \A code \in MalformedCodes : StateOf(code) = "malformed"
    /\ StateOf("source_admission_prerequisite_unavailable") = "unverifiable"
    /\ \A code \in Codes \ (MalformedCodes \cup {"source_admission_prerequisite_unavailable"}) :
           StateOf(code) = "rejected"
BY DEF Codes, MalformedCodes, StateOf

LEMMA BlameStates ==
    ASSUME NEW n \in 1..28, n # 12, n # 8, n # 18
    PROVE  Blame(input, n).state = IF n <= 7 \/ n \in 15..17 THEN "malformed" ELSE "rejected"
BY DEF Blame

(* Positions 1 to 7: shapes.                                                 *)
LEMMA InputShapeKeeps == ASSUME IInv, CheckInputShape PROVE IInv'
<1>0. /\ verifiedReceiptRoot' = verifiedReceiptRoot
      /\ expectedProofObjectId' = expectedProofObjectId
      /\ sourceEntry' = sourceEntry /\ sourceCommitment' = sourceCommitment
  BY DEF CheckInputShape, Derived
<1>1. CASE Check(1, input.frame # "input", "malformed_evaluation_input")
  <2>1. Checked(1, "malformed_evaluation_input")
    BY <1>1, HoldsArms, CodesAreCodes, BlameStates DEF MalformedCodes, Check, Checked
  <2>2. QED
    BY <1>0, <2>1, CheckKeeps
<1>2. CASE Check(2, input.frame # "bundle", "malformed_source_admission_bundle")
  <2>1. Checked(2, "malformed_source_admission_bundle")
    BY <1>2, HoldsArms, CodesAreCodes, BlameStates DEF MalformedCodes, Check, Checked
  <2>2. QED
    BY <1>0, <2>1, CheckKeeps
<1>3. CASE Check(3, input.frame # "containers", "malformed_source_admission_bundle")
  <2>1. Checked(3, "malformed_source_admission_bundle")
    BY <1>3, HoldsArms, CodesAreCodes, BlameStates DEF MalformedCodes, Check, Checked
  <2>2. QED
    BY <1>0, <2>1, CheckKeeps
<1>4. CASE Check(4, input.options # Malformed, "malformed_source_entry_construction_options")
  <2>1. Checked(4, "malformed_source_entry_construction_options")
    BY <1>4, HoldsArms, CodesAreCodes, BlameStates DEF MalformedCodes, Check, Checked
  <2>2. QED
    BY <1>0, <2>1, CheckKeeps
<1>5. QED
  BY <1>1, <1>2, <1>3, <1>4 DEF CheckInputShape

LEMMA ObjectShapesKeep ==
    ASSUME IInv, CheckSourceEvidence \/ CheckPortableProofObject \/ CheckClaimedSourceEntry
    PROVE  IInv'
<1>1. CASE CheckSourceEvidence
  <2>1. Checked(5, "malformed_source_evidence")
    BY <1>1, HoldsArms, CodesAreCodes, BlameStates
       DEF MalformedCodes, Check, Checked, CheckSourceEvidence
  <2>2. QED
    BY <1>1, <2>1, CheckKeeps DEF CheckSourceEvidence, Derived
<1>2. CASE CheckPortableProofObject
  <2>1. Checked(6, "malformed_portable_proof_object")
    BY <1>2, HoldsArms, CodesAreCodes, BlameStates
       DEF MalformedCodes, Check, Checked, CheckPortableProofObject
  <2>2. QED
    BY <1>2, <2>1, CheckKeeps DEF CheckPortableProofObject, Derived
<1>3. CASE CheckClaimedSourceEntry
  <2>1. Checked(7, "malformed_source_entry")
    BY <1>3, HoldsArms, CodesAreCodes, BlameStates
       DEF MalformedCodes, Check, Checked, CheckClaimedSourceEntry
  <2>2. QED
    BY <1>3, <2>1, CheckKeeps DEF CheckClaimedSourceEntry, Derived
<1>4. QED
  BY <1>1, <1>2, <1>3

(* Positions 8 to 14: admission, step by step and as a whole.                *)
LEMMA ReceiptRootKeeps == ASSUME IInv, CheckPrerequisitesAndReceiptRoot PROVE IInv'
<1> DEFINE code == IF input.evidence.stored = Null
                   THEN "source_admission_prerequisite_unavailable"
                   ELSE "source_receipt_root_mismatch"
<1>1. code \in Codes /\ StateOf(code) = Blame(input, 8).state
  BY DEF Codes, StateOf, MalformedCodes, Blame
<1>2. Checked(8, code)
  BY <1>1, HoldsArms DEF Check, Checked, CheckPrerequisitesAndReceiptRoot
<1>3. verifiedReceiptRoot' = IF Holds(input, 8) THEN Recomputed(input.evidence) ELSE Null
  BY HoldsArms DEF CheckPrerequisitesAndReceiptRoot, HandedOn
<1>4. QED
  BY <1>2, <1>3, CheckKeeps DEF CheckPrerequisitesAndReceiptRoot

LEMMA CrossObjectKeeps == ASSUME IInv, CheckCrossObjectConsistency PROVE IInv'
<1>1. position = 9 /\ verifiedReceiptRoot = Recomputed(input.evidence)
  BY DEF CheckCrossObjectConsistency, Check, IInv, Established
<1>2. CrossObjectConsistent(input.proof, verifiedReceiptRoot) <=> Holds(input, 9)
  BY <1>1 DEF CrossObjectConsistent, SameRoot, Recomputed, Holds, RootClaim
<1>3. Checked(9, "cross_object_consistency_mismatch")
  BY <1>2, CodesAreCodes, BlameStates
     DEF Codes, MalformedCodes, Check, Checked, CheckCrossObjectConsistency
<1>4. QED
  BY <1>3, CheckKeeps DEF CheckCrossObjectConsistency, Derived

LEMMA IdentityKeeps ==
    ASSUME IInv, CheckProofObjectIdentity \/ CheckProofReference PROVE IInv'
<1>1. CASE CheckProofObjectIdentity
  <2>1. position = 10 /\ verifiedReceiptRoot = Recomputed(input.evidence)
    BY <1>1 DEF CheckProofObjectIdentity, Check, IInv, Established
  <2>2. IdentityFollows(input.proof, verifiedReceiptRoot) <=> Holds(input, 10)
    BY <2>1 DEF IdentityFollows, Holds
  <2>3. Checked(10, "proof_object_identity_mismatch")
    BY <1>1, <2>2, CodesAreCodes, BlameStates
       DEF Codes, MalformedCodes, Check, Checked, CheckProofObjectIdentity
  <2>4. QED
    BY <1>1, <2>2, <2>3, CheckKeeps DEF CheckProofObjectIdentity
<1>2. CASE CheckProofReference
  <2>1. /\ position = 11 /\ Holds(input, 10)
        /\ expectedProofObjectId = DeriveProofObjectId(Recomputed(input.evidence))
    BY <1>2 DEF CheckProofReference, Check, IInv, Established
  <2>2. input.proof.proof_object_id = expectedProofObjectId
    BY <2>1 DEF Holds
  <2>3. input.proof.proof_ref = DeriveProofRef(expectedProofObjectId) <=> Holds(input, 11)
    BY <2>2 DEF Holds
  <2>4. Checked(11, "proof_reference_mismatch")
    BY <1>2, <2>3, CodesAreCodes, BlameStates
       DEF Codes, MalformedCodes, Check, Checked, CheckProofReference
  <2>5. QED
    BY <1>2, <2>4, CheckKeeps DEF CheckProofReference, Derived
<1>3. QED
  BY <1>1, <1>2

LEMMA ReconstructKeeps == ASSUME IInv, ReconstructEntry PROVE IInv'
<1>1. position = 12 /\ evaluation = Pending
  BY DEF ReconstructEntry
<1>2. /\ input' = input /\ verifiedReceiptRoot' = verifiedReceiptRoot
      /\ expectedProofObjectId' = expectedProofObjectId
  BY DEF ReconstructEntry
<1>3. CASE Admits(input.evidence, input.proof)
  <2>1. position' = 13 /\ sourceEntry' = TrueEntry(input) /\ evaluation' = Pending
    BY <1>1, <1>3 DEF ReconstructEntry, TrueEntry
  <2>2. \A m \in 1..12 : Holds(input, m)
    BY <1>1, <1>3, HoldsArms DEF IInv, Established
  <2>3. (\A m \in 1..(position - 1) : Holds(input, m))'
    BY <2>1, <2>2, <1>2
  <2>4. Established'
    BY <1>1, <1>2, <2>1, <2>3 DEF IInv, Established
  <2>5. QED
    BY <1>2, <2>1, <2>4 DEF IInv, Justified
<1>4. CASE ~Admits(input.evidence, input.proof)
  <2>1. position' = 12 /\ evaluation' = Threw
    BY <1>1, <1>4 DEF ReconstructEntry
  <2>2. (\A m \in 1..(position - 1) : Holds(input, m))'
    BY <2>1, <1>1, <1>2 DEF IInv, Established
  <2>3. Established'
    BY <1>1, <1>2, <2>1, <2>2 DEF IInv, Established
  <2>4. ~Holds(input', 12)
    BY <1>2, <1>4, HoldsArms
  <2>5. QED
    BY <1>2, <2>1, <2>3, <2>4 DEF IInv, Justified
<1>5. QED
  BY <1>3, <1>4

LEMMA ReconstructedKeeps == ASSUME IInv, CheckReconstructedEntry PROVE IInv'
<1>1. position = 13 /\ sourceEntry = TrueEntry(input)
  BY DEF CheckReconstructedEntry, Check, IInv, Established
<1>2. SameEntry(sourceEntry, input.claimed) <=> Holds(input, 13)
  BY <1>1 DEF SameEntry, Holds
<1>3. Checked(13, "reconstructed_source_entry_mismatch")
  BY <1>2, CodesAreCodes, BlameStates
     DEF Codes, MalformedCodes, Check, Checked, CheckReconstructedEntry
<1>4. QED
  BY <1>3, CheckKeeps DEF CheckReconstructedEntry, Derived

LEMMA CommitmentKeeps == ASSUME IInv, DeriveSourceCommitment PROVE IInv'
<1>1. /\ position = 14 /\ position' = 15 /\ sourceCommitment' = Digest(sourceEntry)
      /\ input' = input /\ verifiedReceiptRoot' = verifiedReceiptRoot
      /\ expectedProofObjectId' = expectedProofObjectId /\ sourceEntry' = sourceEntry
      /\ evaluation' = Pending
  BY DEF DeriveSourceCommitment
<1>2. Holds(input, 14)
  BY DEF Holds
<1>3. (\A m \in 1..(position - 1) : Holds(input, m))'
  BY <1>1, <1>2 DEF IInv, Established
<1>4. Established'
  BY <1>1, <1>3 DEF IInv, Established
<1>5. QED
  BY <1>1, <1>4 DEF IInv, Justified

(* Positions 15 to 17: declarations.                                         *)
LEMMA DeclarationsKeep == ASSUME IInv, CheckDeclarations PROVE IInv'
<1>0. /\ verifiedReceiptRoot' = verifiedReceiptRoot
      /\ expectedProofObjectId' = expectedProofObjectId
      /\ sourceEntry' = sourceEntry /\ sourceCommitment' = sourceCommitment
  BY DEF CheckDeclarations, Derived
<1>1. CASE Check(15, input.policy = AsDeclared, "malformed_fold_policy_declaration")
  <2>1. input.policy = AsDeclared <=> Holds(input, 15)
    BY DEF Holds
  <2>2. Checked(15, "malformed_fold_policy_declaration")
    BY <1>1, <2>1, CodesAreCodes, BlameStates DEF MalformedCodes, Check, Checked
  <2>3. QED
    BY <1>0, <2>2, CheckKeeps
<1>2. CASE Check(16, input.class = AsDeclared, "malformed_comparability_class_declaration")
  <2>1. input.class = AsDeclared <=> Holds(input, 16)
    BY DEF Holds
  <2>2. Checked(16, "malformed_comparability_class_declaration")
    BY <1>2, <2>1, CodesAreCodes, BlameStates DEF MalformedCodes, Check, Checked
  <2>3. QED
    BY <1>0, <2>2, CheckKeeps
<1>3. CASE Check(17, input.rule = AsDeclared, "malformed_transition_rule_declaration")
  <2>1. input.rule = AsDeclared <=> Holds(input, 17)
    BY DEF Holds
  <2>2. Checked(17, "malformed_transition_rule_declaration")
    BY <1>3, <2>1, CodesAreCodes, BlameStates DEF MalformedCodes, Check, Checked
  <2>3. QED
    BY <1>0, <2>2, CheckKeeps
<1>4. QED
  BY <1>1, <1>2, <1>3 DEF CheckDeclarations

-------------------------------------------------------------------------------
(* Positions 18 to 28: the candidate, against the entry admission gave.      *)

LEMMA StageKeeps ==
    ASSUME IInv, NEW n \in 18..27, NEW code, Checked(n, code), UNCHANGED Derived
    PROVE  IInv'
BY CheckKeeps DEF Derived

LEMMA StageAndPolicyKeep == ASSUME IInv, CheckStageAndPolicy PROVE IInv'
<1> DEFINE shaped == input.stage # Malformed
           code == IF ~shaped THEN "malformed_rsf_stage_input" ELSE "singleton_policy_ineligible"
<1>1. code \in Codes /\ StateOf(code) = Blame(input, 18).state
  BY DEF Codes, StateOf, MalformedCodes, Blame
<1>2. (shaped /\ (shaped /\ Len(Candidate.inclusion_set) = 1)) <=> Holds(input, 18)
  BY DEF Holds, Candidate
<1>3. Checked(18, code)
  BY <1>1, <1>2 DEF Check, Checked, TwoChecks, CheckStageAndPolicy
<1>4. QED
  BY <1>3, StageKeeps DEF CheckStageAndPolicy

LEMMA ClassKeeps == ASSUME IInv, CheckClass PROVE IInv'
<1>1. position = 19 /\ sourceEntry = TrueEntry(input)
  BY DEF CheckClass, Check, IInv, Established
<1>2. Candidate.inclusion_set[1].ref = sourceEntry.entry_id <=> Holds(input, 19)
  BY <1>1 DEF Holds, Candidate
<1>3. Checked(19, "singleton_class_ineligible")
  BY <1>2, CodesAreCodes, BlameStates DEF Codes, MalformedCodes, Check, Checked, CheckClass
<1>4. QED
  BY <1>3, StageKeeps DEF CheckClass

LEMMA InputStatementKeeps == ASSUME IInv, CheckInputStatement PROVE IInv'
<1> DEFINE first == input.stage.statement = Statement(sourceEntry)
           second == input.stage.statement_commitment = Digest(Statement(sourceEntry))
           code == IF ~first THEN "semantic_statement_mismatch"
                   ELSE "semantic_result_commitment_mismatch"
<1>1. position = 20 /\ sourceEntry = TrueEntry(input)
  BY DEF CheckInputStatement, TwoChecks, Check, IInv, Established
<1>2. (first /\ second) <=> Holds(input, 20)
  BY <1>1 DEF Holds
<1>3. code \in Codes /\ StateOf(code) = Blame(input, 20).state
  BY CodesAreCodes, BlameStates DEF Codes, MalformedCodes
<1>4. Checked(20, code)
  BY <1>2, <1>3 DEF TwoChecks, Check, Checked, CheckInputStatement
<1>5. QED
  BY <1>4, StageKeeps DEF CheckInputStatement

LEMMA InclusionSetKeeps == ASSUME IInv, CheckInclusionSet PROVE IInv'
<1> DEFINE first == Candidate.inclusion_set = InclusionSet(sourceEntry)
           second == Candidate.inclusion_commitment = Digest(InclusionSet(sourceEntry))
           code == IF ~first THEN "inclusion_set_mismatch"
                   ELSE "inclusion_set_commitment_mismatch"
<1>1. position = 21 /\ sourceEntry = TrueEntry(input)
  BY DEF CheckInclusionSet, TwoChecks, Check, IInv, Established
<1>2. (first /\ second) <=> Holds(input, 21)
  BY <1>1 DEF Holds, Candidate
<1>3. code \in Codes /\ StateOf(code) = Blame(input, 21).state
  BY CodesAreCodes, BlameStates DEF Codes, MalformedCodes
<1>4. Checked(21, code)
  BY <1>2, <1>3 DEF TwoChecks, Check, Checked, CheckInclusionSet
<1>5. QED
  BY <1>4, StageKeeps DEF CheckInclusionSet

LEMMA OutputKeeps ==
    ASSUME IInv, CheckSourceIdentityReuse \/ CheckOutputStatement PROVE IInv'
<1>1. CASE CheckSourceIdentityReuse
  <2>1. position = 22 /\ sourceEntry = TrueEntry(input)
    BY <1>1 DEF CheckSourceIdentityReuse, Check, IInv, Established
  <2>2. Candidate.aggregate_id # sourceEntry.entry_id <=> Holds(input, 22)
    BY <2>1 DEF Holds, Candidate
  <2>3. Checked(22, "forbidden_source_identity_reuse")
    BY <1>1, <2>2, CodesAreCodes, BlameStates
       DEF Codes, MalformedCodes, Check, Checked, CheckSourceIdentityReuse
  <2>4. QED
    BY <1>1, <2>3, StageKeeps DEF CheckSourceIdentityReuse
<1>2. CASE CheckOutputStatement
  <2>1. position = 23 /\ sourceEntry = TrueEntry(input) /\ Holds(input, 20)
    BY <1>2 DEF CheckOutputStatement, Check, IInv, Established
  <2>2. /\ input.stage.statement = Statement(sourceEntry)
        /\ input.stage.statement_commitment = Digest(Statement(sourceEntry))
    BY <2>1 DEF Holds
  <2>3. OutputStatementFollows(Candidate, sourceEntry) <=> Holds(input, 23)
    BY <2>2 DEF Holds, OutputStatementFollows, Candidate
  <2>4. Checked(23, "semantic_result_commitment_mismatch")
    BY <1>2, <2>3, CodesAreCodes, BlameStates
       DEF Codes, MalformedCodes, Check, Checked, CheckOutputStatement
  <2>5. QED
    BY <1>2, <2>4, StageKeeps DEF CheckOutputStatement
<1>3. QED
  BY <1>1, <1>2

LEMMA LimitsKeep ==
    ASSUME IInv, CheckNoElevation \/ CheckTransitionResult PROVE IInv'
<1>1. CASE CheckNoElevation
  <2>1. Candidate.no_stronger_class <=> Holds(input, 24)
    BY DEF Holds, Candidate
  <2>2. Checked(24, "no_elevation_invariant_mismatch")
    BY <1>1, <2>1, CodesAreCodes, BlameStates
       DEF Codes, MalformedCodes, Check, Checked, CheckNoElevation
  <2>3. QED
    BY <1>1, <2>2, StageKeeps DEF CheckNoElevation
<1>2. CASE CheckTransitionResult
  <2>1. Candidate.transition_result = "singleton_transition_ok" <=> Holds(input, 25)
    BY DEF Holds, Candidate
  <2>2. Checked(25, "transition_result_mismatch")
    BY <1>2, <2>1, CodesAreCodes, BlameStates
       DEF Codes, MalformedCodes, Check, Checked, CheckTransitionResult
  <2>3. QED
    BY <1>2, <2>2, StageKeeps DEF CheckTransitionResult
<1>3. QED
  BY <1>1, <1>2

LEMMA BreakdownKeeps == ASSUME IInv, CheckBreakdown PROVE IInv'
<1> DEFINE first == Candidate.breakdown = Breakdown(sourceEntry)
           second == Candidate.breakdown_commitment = Digest(Breakdown(sourceEntry))
           code == IF ~first THEN "breakdown_mismatch" ELSE "breakdown_commitment_mismatch"
<1>1. position = 26 /\ sourceEntry = TrueEntry(input)
  BY DEF CheckBreakdown, TwoChecks, Check, IInv, Established
<1>2. (first /\ second) <=> Holds(input, 26)
  BY <1>1 DEF Holds, Candidate
<1>3. code \in Codes /\ StateOf(code) = Blame(input, 26).state
  BY CodesAreCodes, BlameStates DEF Codes, MalformedCodes
<1>4. Checked(26, code)
  BY <1>2, <1>3 DEF TwoChecks, Check, Checked, CheckBreakdown
<1>5. QED
  BY <1>4, StageKeeps DEF CheckBreakdown

LEMMA AggregateIdKeeps == ASSUME IInv, CheckAggregateId PROVE IInv'
<1>1. position = 27 /\ sourceEntry = TrueEntry(input)
  BY DEF CheckAggregateId, Check, IInv, Established
<1>2. AggregateIdentityFollows(Candidate, sourceEntry) <=> Holds(input, 27)
  BY <1>1 DEF Holds, AggregateIdentityFollows, Candidate
<1>3. Checked(27, "aggregate_id_mismatch")
  BY <1>2, CodesAreCodes, BlameStates DEF Codes, MalformedCodes, Check, Checked, CheckAggregateId
<1>4. QED
  BY <1>3, StageKeeps DEF CheckAggregateId

(* The comparison of position 28, field by field, is equality of candidates. *)
LEMMA FieldsMakeTheAggregate ==
    ASSUME NEW candidate, HasAggregateShape(candidate), NEW entry, NEW notes
    PROVE  candidate = Aggregate(entry, notes)
           <=> /\ candidate.source_commitment = Digest(entry)
               /\ FieldsAgree(candidate, Aggregate(entry, notes))
<1> DEFINE agg == Aggregate(entry, notes)
           fields == ComparisonPlan \cup {"source_commitment"}
<1>1. DOMAIN agg = fields
  BY DEF Aggregate, ComparisonPlan
<1>2. agg.source_commitment = Digest(entry)
  BY DEF Aggregate
<1>3. agg = [f \in fields |-> agg[f]]
  BY <1>1 DEF Aggregate
<1>4. candidate = [f \in fields |-> candidate[f]]
  BY DEF HasAggregateShape
<1> HIDE DEF agg
<1>5. ASSUME candidate.source_commitment = Digest(entry), FieldsAgree(candidate, agg)
      PROVE  candidate = agg
  <2>1. \A f \in fields : candidate[f] = agg[f]
    BY <1>2, <1>5 DEF FieldsAgree
  <2>2. [f \in fields |-> candidate[f]] = [f \in fields |-> agg[f]]
    BY <2>1
  <2>3. QED
    BY <2>2, <1>3, <1>4
<1>6. ASSUME candidate = agg
      PROVE  candidate.source_commitment = Digest(entry) /\ FieldsAgree(candidate, agg)
  BY <1>2, <1>6 DEF FieldsAgree
<1>7. QED
  BY <1>5, <1>6 DEF agg

LEMMA ValidateKeeps == ASSUME IInv, ValidateAggregate PROVE IInv'
<1> DEFINE complete == /\ sourceCommitment = Digest(sourceEntry)
                       /\ Candidate.source_commitment = Digest(sourceEntry)
                       /\ FieldsAgree(Candidate, Aggregate(sourceEntry, input.notes))
<1>1. /\ position = 28 /\ position' = 28 /\ evaluation = Pending /\ input' = input
      /\ UNCHANGED Derived
  BY DEF ValidateAggregate
<1>2. /\ sourceEntry = TrueEntry(input) /\ sourceCommitment = Digest(sourceEntry)
      /\ Holds(input, 18)
  BY <1>1 DEF IInv, Established
<1>3. HasAggregateShape(Candidate)
  BY <1>2, FoldAssumption DEF IInv, Holds, Candidate
<1>4. complete <=> Holds(input, 28)
  BY <1>2, <1>3, FieldsMakeTheAggregate, HoldsArms DEF Candidate
<1>5. (\A m \in 1..(position - 1) : Holds(input, m))'
  BY <1>1 DEF IInv, Established
<1>6. Established'
  BY <1>1, <1>5 DEF IInv, Established, Derived
<1>7. CASE complete
  <2>1. evaluation' = Accepted
    BY <1>7, <1>2 DEF ValidateAggregate
  <2>2. QED
    BY <1>1, <1>4, <1>6, <1>7, <2>1 DEF IInv, Justified
<1>8. CASE ~complete
  <2>1. PICK code \in {"complete_aggregate_validation_mismatch",
                       "source_entry_content_commitment_mismatch"} :
          evaluation' = Finding(code, 28)
    BY <1>8 DEF ValidateAggregate
  <2>2. code \in Codes /\ StateOf(code) = Blame(input, 28).state
    BY CodesAreCodes, BlameStates DEF Codes, MalformedCodes
  <2>3. evaluation'.code = code
    BY <2>1 DEF Finding
  <2>4. Blames(evaluation, position)'
    BY <1>1, <2>1, <2>2, <2>3 DEF Blames
  <2>5. QED
    BY <1>1, <1>4, <1>6, <1>8, <2>4 DEF IInv, Justified
<1>9. QED
  BY <1>7, <1>8

-------------------------------------------------------------------------------
(* The invariant holds of every behaviour.                                   *)

LEMMA InitEstablishes == Init => IInv
BY DEF Init, IInv, Established, Justified

LEMMA StepKeeps == IInv /\ [Next]_vars => IInv'
<1>1. ASSUME IInv, Prefix PROVE IInv'
  BY <1>1, InputShapeKeeps, ObjectShapesKeep, ReceiptRootKeeps, CrossObjectKeeps,
     IdentityKeeps, ReconstructKeeps, ReconstructedKeeps, CommitmentKeeps, DeclarationsKeep
     DEF Prefix
<1>2. ASSUME IInv, Stage PROVE IInv'
  BY <1>2, StageAndPolicyKeep, ClassKeeps, InputStatementKeeps, InclusionSetKeeps,
     OutputKeeps, LimitsKeep, BreakdownKeeps, AggregateIdKeeps, ValidateKeeps DEF Stage
<1>3. ASSUME IInv, UNCHANGED vars PROVE IInv'
  <2>1. /\ input' = input /\ position' = position /\ evaluation' = evaluation
        /\ verifiedReceiptRoot' = verifiedReceiptRoot
        /\ expectedProofObjectId' = expectedProofObjectId
        /\ sourceEntry' = sourceEntry /\ sourceCommitment' = sourceCommitment
    BY <1>3 DEF vars
  <2>2. Established'
    BY <1>3, <2>1 DEF IInv, Established
  <2>3. Justified'
    BY <1>3, <2>1 DEF IInv, Justified, Blames
  <2>4. QED
    BY <1>3, <2>1, <2>2, <2>3 DEF IInv
<1>4. QED
  BY <1>1, <1>2, <1>3 DEF Next

(* What every position has established of what it hands on, and that a       *)
(* decision is the one the first false claim asks for (all 28 positions).    *)
THEOREM FoldInvariant == Spec => []IInv
BY InitEstablishes, StepKeeps, PTL DEF Spec

LEMMA StatesOfCodes == \A code \in Codes : StateOf(code) \in States \ {"accepted"}
BY CodesAreCodes DEF States

LEMMA TypeFollows == IInv => TypeOK
<1> SUFFICES ASSUME IInv PROVE TypeOK
  OBVIOUS
<1>1. position \in 1..28
  BY DEF IInv
<1>2. position > 7 => input.options \in Options /\ input.evidence \in Evidences
                      /\ input.proof \in ProofObjects
  BY Shapes
<1>3. position > 8 => Recomputed(input.evidence) \in Roots
  BY <1>1, <1>2 DEF Evidences, Recomputed, Roots
<1>4. position > 8 => verifiedReceiptRoot \in Roots
  BY <1>1, <1>3 DEF IInv, Established
<1>5. position <= 8 => verifiedReceiptRoot = Null
  BY <1>1 DEF IInv, Established
<1>6. position > 10 => expectedProofObjectId \in ProofObjectIds
  BY <1>1, <1>4 DEF IInv, Established, DeriveProofObjectId, ProofObjectIds
<1>7. ASSUME position > 12 PROVE sourceEntry \in Entries
  <2>1. input.options \in Options /\ input.proof \in ProofObjects
    BY <1>1, <1>2, <1>7
  <2>2. sourceEntry = EntryOf(input.proof, input.options)
    BY <1>7 DEF IInv, Established, TrueEntry
  <2>3. /\ input.proof.receipt_root \in Roots /\ input.proof.proof_ref \in ProofRefs
        /\ input.proof.proof_object_id \in ProofObjectIds
        /\ input.proof.source_evidence_ref \in Refs
    BY <2>1 DEF ProofObjects
  <2>4. /\ input.options.entry_id \in Refs \cup {Null}
        /\ input.options.created_from \in Refs \cup {Null}
        /\ input.options.details \in Refs
    BY <2>1 DEF Options
  <2>5. (IF input.options.entry_id = Null THEN [entry |-> input.proof.proof_object_id]
         ELSE input.options.entry_id) \in EntryIds
    BY <2>3, <2>4 DEF EntryIds
  <2>6. (IF input.options.created_from = Null THEN input.proof.source_evidence_ref
         ELSE input.options.created_from) \in Refs
    BY <2>3, <2>4
  <2>7. QED
    BY <2>2, <2>3, <2>4, <2>5, <2>6 DEF EntryOf, Entries
<1>8. evaluation \in {Pending, Threw} \cup [state : States, code : Codes, position : 1..28]
  <2>1. Accepted \in [state : States, code : Codes, position : 1..28]
    BY DEF Accepted, States, Codes
  <2>2. Blames(evaluation, position) =>
            evaluation \in [state : States, code : Codes, position : 1..28]
    BY <1>1, StatesOfCodes DEF Blames, Finding
  <2>3. QED
    BY <2>1, <2>2 DEF IInv, Justified
<1>9. QED
  BY <1>1, <1>4, <1>5, <1>6, <1>7, <1>8, AdmissionAssumption DEF TypeOK

(* Types, and that what a position establishes is there from the next        *)
(* position on (evaluateCompleteRsf).                                        *)
THEOREM FoldTypeCorrect == Spec => []TypeOK
BY FoldInvariant, TypeFollows, PTL

LEMMA AcceptedMeansAll ==
    ASSUME IInv, evaluation = Accepted
    PROVE  \A n \in 1..28 : Holds(input, n)
<1>1. Accepted \in [state : States, code : Codes, position : 1..28]
  BY DEF Accepted, States, Codes
<1>2. evaluation \notin {Pending, Threw}
  BY <1>1, NoEnvelope
<1>3. ~Blames(evaluation, position)
  <2>1. evaluation.state = "accepted"
    BY DEF Accepted
  <2>2. Finding(evaluation.code, position).state = StateOf(evaluation.code)
    BY DEF Finding
  <2>3. QED
    BY <2>1, <2>2, StatesOfCodes DEF Blames
<1>4. QED
  BY <1>2, <1>3 DEF IInv, Justified, Established

(* Positions 8 to 11 together say what admission says.                       *)
LEMMA SameVerdictAsAdmission ==
    ASSUME NEW i, i.evidence \in Evidences, i.proof \in ProofObjects,
           RootAsRecomputed(i.evidence)
    PROVE  (\A n \in 8..11 : Holds(i, n)) <=> Admits(i.evidence, i.proof)
<1>1. (\A n \in 8..11 : Holds(i, n))
      <=> Holds(i, 8) /\ Holds(i, 9) /\ Holds(i, 10) /\ Holds(i, 11)
  <2>1. 8..11 = {8, 9, 10, 11}
    OBVIOUS
  <2>2. QED
    BY <2>1
<1>2. CASE i.evidence.stored = Null
  BY <1>1, <1>2, HoldsArms DEF RootRecomputes, Admits, Rejection
<1>3. CASE i.evidence.stored # Null
  <2>1. i.evidence.stored \in Roots /\ i.evidence.stored.written = "lower"
    BY <1>3 DEF Evidences, RootAsRecomputed
  <2>2. i.evidence.stored = [of |-> i.evidence.stored.of, written |-> "lower"]
    BY <2>1 DEF Roots
  <2>3. Holds(i, 8) <=> i.evidence.stored = Recomputed(i.evidence)
    BY <1>3, <2>2, HoldsArms DEF RootRecomputes, SameRoot, Recomputed
  <2>4. ~Holds(i, 8) => ~Admits(i.evidence, i.proof)
    BY <1>3, HoldsArms DEF RootRecomputes, Admits, Rejection
  <2>5. ASSUME Holds(i, 8)
        PROVE  Holds(i, 9) /\ Holds(i, 10) /\ Holds(i, 11) <=> Admits(i.evidence, i.proof)
    <3>1. i.evidence.stored = Recomputed(i.evidence)
      BY <2>3, <2>5
    <3>2. Holds(i, 9) <=> /\ i.proof.receipt_root.of = i.evidence.content
                          /\ i.proof.stored.of = i.evidence.content
                          /\ i.proof.computed.of = i.evidence.content
                          /\ i.proof.labelled /\ i.proof.verified
      BY DEF Holds, RootClaim
    <3>3. Holds(i, 10) <=> i.proof.proof_object_id = DeriveProofObjectId(Recomputed(i.evidence))
      BY DEF Holds
    <3>4. Holds(i, 11) <=> i.proof.proof_ref = DeriveProofRef(i.proof.proof_object_id)
      BY DEF Holds
    <3>5. Recomputed(i.evidence).of = i.evidence.content
      BY DEF Recomputed
    <3>6. QED
      BY <1>3, <3>1, <3>2, <3>3, <3>4, <3>5 DEF Admits, Rejection, SameRoot
  <2>6. QED
    BY <1>1, <2>4, <2>5
<1>4. QED
  BY <1>2, <1>3

(* Only a refusal of admission makes the evaluator throw.                    *)
LEMMA ThrewMeansRefused ==
    ASSUME IInv, evaluation = Threw
    PROVE  position = 12 /\ ~Admits(input.evidence, input.proof)
<1>1. Accepted \in [state : States, code : Codes, position : 1..28]
  BY DEF Accepted, States, Codes
<1>2. Blames(evaluation, position) =>
          evaluation \in [state : States, code : Codes, position : 1..28]
  BY StatesOfCodes DEF Blames, Finding, IInv
<1>3. evaluation # Pending /\ evaluation # Accepted /\ ~Blames(evaluation, position)
  BY <1>1, <1>2, NoEnvelope, FoldAssumption
<1>4. QED
  BY <1>3, HoldsArms DEF IInv, Justified

LEMMA AgreementFollows == IInv => AgreesWithAdmission
<1> SUFFICES ASSUME IInv, evaluation # Pending, position >= 8, RootAsRecomputed(input.evidence)
             PROVE  /\ position \in 8..11 <=> ~Admits(input.evidence, input.proof)
                    /\ evaluation # Threw
  BY DEF AgreesWithAdmission
<1>1. position \in 1..28
  BY DEF IInv
<1>2. (\A n \in 8..11 : Holds(input, n)) <=> Admits(input.evidence, input.proof)
  BY <1>1, Shapes, SameVerdictAsAdmission
<1>3. CASE position \in 8..11
  <2>1. ~Holds(input, position) /\ Blames(evaluation, position)
    BY <1>3 DEF IInv, Justified
  <2>2. evaluation # Threw
    BY <1>3, ThrewMeansRefused
  <2>3. QED
    BY <1>2, <1>3, <2>1, <2>2
<1>4. CASE position \notin 8..11
  <2>1. \A n \in 8..11 : Holds(input, n)
    BY <1>1, <1>4 DEF IInv, Established
  <2>2. Admits(input.evidence, input.proof)
    BY <1>2, <2>1
  <2>3. QED
    BY <1>4, <2>2, ThrewMeansRefused
<1>5. QED
  BY <1>3, <1>4

(* The two decide alike wherever they can (positions 8 to 12).               *)
THEOREM EvaluatorAgreesWithAdmission == Spec => []AgreesWithAdmission
BY FoldInvariant, AgreementFollows, PTL

-------------------------------------------------------------------------------
(* Refinement of FirstFailureWins.                                           *)

LEMMA OnlyWhilePending == Next => evaluation = Pending /\ input' = input
<1>1. Prefix => evaluation = Pending /\ input' = input
  BY DEF Prefix, CheckInputShape, CheckSourceEvidence, CheckPortableProofObject,
     CheckClaimedSourceEntry, CheckPrerequisitesAndReceiptRoot, CheckCrossObjectConsistency,
     CheckProofObjectIdentity, CheckProofReference, ReconstructEntry,
     CheckReconstructedEntry, DeriveSourceCommitment, CheckDeclarations, Check
<1>2. Stage => evaluation = Pending /\ input' = input
  BY DEF Stage, CheckStageAndPolicy, CheckClass, CheckInputStatement, CheckInclusionSet,
     CheckSourceIdentityReuse, CheckOutputStatement, CheckNoElevation,
     CheckTransitionResult, CheckBreakdown, CheckAggregateId, ValidateAggregate, TwoChecks, Check
<1>3. QED
  BY <1>1, <1>2 DEF Next

(* The decision the first false claim asks for, if there is one.             *)
DecisionIsDue ==
    /\ Decision # Pending
    /\ \/ /\ \A n \in 1..28 : Holds(input, n)
          /\ Decision = [position |-> 28, state |-> "accepted"]
       \/ /\ Ordered!FirstFalse(position)
          /\ Decision = Blame(input, position)

LEMMA DecisionOfInvariant == IInv /\ evaluation # Pending => DecisionIsDue
<1> SUFFICES ASSUME IInv, evaluation # Pending PROVE DecisionIsDue
  OBVIOUS
<1> USE DEF DecisionIsDue
<1>1. position \in 1..28 /\ \A m \in 1..(position - 1) : Holds(input, m)
  BY DEF IInv, Established
<1>2. CASE evaluation = Threw
  <2>1. position = 12 /\ ~Holds(input, 12)
    BY <1>2, ThrewMeansRefused, HoldsArms
  <2>2. Decision = Threw /\ Blame(input, 12) = Threw
    BY <1>2 DEF Decision, Blame
  <2>3. QED
    BY <1>1, <2>1, <2>2, FoldAssumption DEF Ordered!FirstFalse
<1>3. CASE evaluation = Accepted
  <2>1. Accepted \in [state : States, code : Codes, position : 1..28]
    BY DEF Accepted, States, Codes
  <2>2. Decision = [position |-> 28, state |-> "accepted"]
    BY <1>3, <2>1, NoEnvelope DEF Decision, Accepted
  <2>3. [position |-> 28, state |-> "accepted"] \in [position : 1..28, state : States]
    BY DEF States
  <2>4. QED
    BY <1>3, <2>2, <2>3, AcceptedMeansAll, NoEnvelope
<1>4. CASE evaluation # Threw /\ evaluation # Accepted
  <2>1. position # 12 /\ ~Holds(input, position) /\ Blames(evaluation, position)
    BY <1>4 DEF IInv, Justified
  <2>2. evaluation.position = position /\ evaluation.state = Blame(input, position).state
    BY <2>1 DEF Blames, Finding
  <2>3. Decision = [position |-> position, state |-> Blame(input, position).state]
    BY <1>4, <2>2 DEF Decision
  <2>4. Blame(input, position) = [position |-> position, state |-> Blame(input, position).state]
    BY <2>1 DEF Blame
  <2>5. Blame(input, position).state \in States
    BY <2>1 DEF Blame, States
  <2>6. Decision \in [position : 1..28, state : States]
    BY <1>1, <2>3, <2>5
  <2>7. QED
    BY <1>1, <2>1, <2>3, <2>4, <2>6, NoEnvelope DEF Ordered!FirstFalse
<1>5. QED
  BY <1>2, <1>3, <1>4

LEMMA FirstFalseIsOne ==
    ASSUME NEW n \in 1..28, NEW m \in 1..28, Ordered!FirstFalse(n), Ordered!FirstFalse(m)
    PROVE  n = m
<1>1. ~(n < m)
  BY DEF Ordered!FirstFalse
<1>2. ~(m < n)
  BY DEF Ordered!FirstFalse
<1>3. QED
  BY <1>1, <1>2

LEMMA DecideFollows ==
    ASSUME position' \in 1..28, DecisionIsDue',
           evaluation = Pending, evaluation' # Pending, input' = input
    PROVE  Ordered!Decide
<1> DEFINE p == position'
           d == Decision'
           choice == IF \E n \in 1..28 : Ordered!FirstFalse(n)
                     THEN Blame(input, CHOOSE n \in 1..28 : Ordered!FirstFalse(n))
                     ELSE [position |-> 28, state |-> "accepted"]
<1>1. Decision = Pending /\ d # Pending
  BY DEF Decision, DecisionIsDue
<1>2. CASE (\A n \in 1..28 : Holds(input, n)) /\ d = [position |-> 28, state |-> "accepted"]
  <2>1. ~ \E n \in 1..28 : Ordered!FirstFalse(n)
    BY <1>2 DEF Ordered!FirstFalse
  <2>2. d = choice
    BY <1>2, <2>1
  <2>3. QED
    BY <1>1, <2>2 DEF Ordered!Decide
<1>3. CASE Ordered!FirstFalse(p) /\ d = Blame(input, p)
  <2>1. \A n \in 1..28 : Ordered!FirstFalse(n) => n = p
    BY <1>3, FirstFalseIsOne
  <2>2. \E n \in 1..28 : Ordered!FirstFalse(n)
    BY <1>3
  <2>3. (CHOOSE n \in 1..28 : Ordered!FirstFalse(n)) = p
    BY <2>1, <2>2
  <2>4. d = choice
    BY <1>3, <2>2, <2>3
  <2>5. QED
    BY <1>1, <2>4 DEF Ordered!Decide
<1>4. QED
  <2>1. \/ (\A n \in 1..28 : Holds(input, n)) /\ d = [position |-> 28, state |-> "accepted"]
        \/ Ordered!FirstFalse(p) /\ d = Blame(input, p)
    BY DEF DecisionIsDue, Ordered!FirstFalse
  <2>2. QED
    BY <1>2, <1>3, <2>1

(* The 28 positions, with what they hand to one another, decide by the first *)
(* claim that does not hold (evaluateCompleteRsf).                           *)
THEOREM FoldImplementsFirstFailure == Spec => ImplementsFirstFailure
<1> DEFINE Due == position \in 1..28 /\ (evaluation # Pending => DecisionIsDue)
<1>1. Init => Ordered!Init
  BY DEF Init, Ordered!Init, Decision
<1>2. IInv => Due
  BY DecisionOfInvariant DEF IInv
<1>3. ASSUME Due', [Next]_vars
      PROVE  [Ordered!Decide]_<<input, Decision>>
  <2>1. CASE evaluation' = evaluation /\ input' = input
    BY <2>1 DEF Decision
  <2>2. CASE Next /\ evaluation' # evaluation
    BY <1>3, <2>2, OnlyWhilePending, DecideFollows
  <2>3. QED
    BY <1>3, <2>1, <2>2, OnlyWhilePending DEF vars
<1>4. Spec => []Due
  BY <1>2, FoldInvariant, PTL
<1> HIDE DEF Due
<1>5. QED
  BY <1>1, <1>3, <1>4, PTL DEF Spec, ImplementsFirstFailure, Ordered!Spec

-------------------------------------------------------------------------------
(* Which inputs throw, and which are accepted.                               *)

(* Whether position 12 throws is decided by the writing of the stored root   *)
(* alone: an evaluation that gets past it had evidence whose root is stored  *)
(* as recomputation writes it, and one that throws there had not.            *)
WritingDecidesPosition12 ==
    /\ evaluation = Threw => ~RootAsRecomputed(input.evidence)
    /\ position > 12 => RootAsRecomputed(input.evidence)

(* Position 10 compares the identity with the one derived from the           *)
(* recomputed root, admission with the one derived from the stored root.     *)
LEMMA TwoIdentitiesOneWriting ==
    ASSUME NEW i, Holds(i, 10), Holds(i, 12)
    PROVE  RootAsRecomputed(i.evidence)
<1>1. /\ i.proof.proof_object_id = DeriveProofObjectId(Recomputed(i.evidence))
      /\ Admits(i.evidence, i.proof)
  BY HoldsArms DEF Holds
<1>2. i.proof.proof_object_id = DeriveProofObjectId(i.evidence.stored)
  BY <1>1 DEF Admits, Rejection
<1>3. \A r : DeriveProofObjectId(r).proofobj = r
  BY DEF DeriveProofObjectId
<1>4. i.evidence.stored = Recomputed(i.evidence)
  BY <1>1, <1>2, <1>3
<1>5. QED
  BY <1>4 DEF RootAsRecomputed, Recomputed

(* Whatever the inputs, position 12 throws only for evidence whose root is   *)
(* stored in another writing, and lets no such evidence pass.                *)
THEOREM OnlyTheWritingMakesItThrow == Spec => []WritingDecidesPosition12
<1>1. ASSUME IInv, evaluation = Threw
      PROVE  ~RootAsRecomputed(input.evidence)
  <2>1. evaluation # Pending /\ position >= 8
    BY <1>1, ThrewMeansRefused, FoldAssumption
  <2>2. QED
    BY <1>1, <2>1, AgreementFollows DEF AgreesWithAdmission
<1>2. ASSUME IInv, position > 12
      PROVE  RootAsRecomputed(input.evidence)
  <2>1. position \in 1..28
    BY <1>2 DEF IInv
  <2>2. Holds(input, 10) /\ Holds(input, 12)
    BY <1>2, <2>1 DEF IInv, Established
  <2>3. QED
    BY <2>2, TwoIdentitiesOneWriting
<1>3. QED
  BY <1>1, <1>2, FoldInvariant, PTL DEF WritingDecidesPosition12

(* So the comment at position 12 is right of all evidence that stores its    *)
(* root as recomputation writes it.                                          *)
THEOREM AdmissionCannotFailAsRecomputed ==
    ASSUME \A i \in Inputs : i.evidence # Malformed => RootAsRecomputed(i.evidence)
    PROVE  Spec => []AdmissionCannotFail
<1>1. IInv => AdmissionCannotFail
  <2>1. SUFFICES ASSUME IInv, evaluation = Threw PROVE FALSE
    BY DEF AdmissionCannotFail
  <2>2. position = 12
    BY <2>1, ThrewMeansRefused
  <2>3. input \in Inputs /\ input.evidence # Malformed
    BY <2>1, <2>2, HoldsArms DEF IInv, Established
  <2>4. RootAsRecomputed(input.evidence)
    BY <2>3
  <2>5. evaluation # Pending
    BY <2>1, FoldAssumption
  <2>6. QED
    BY <2>1, <2>2, <2>4, <2>5, AgreementFollows DEF AgreesWithAdmission
<1>2. QED
  BY <1>1, FoldInvariant, PTL

(* What follows from its source satisfies every claim.                       *)
LEMMA DerivedHolds ==
    ASSUME NEW i \in Inputs, FollowsFromSource(i)
    PROVE  \A n \in 1..28 : Holds(i, n)
<1> DEFINE e == TrueEntry(i)
           c == i.stage.candidate
<1>1. i.evidence \in Evidences /\ i.proof \in ProofObjects
  BY FoldAssumption DEF FollowsFromSource
<1>2. \A n \in 8..11 : Holds(i, n)
  BY <1>1, SameVerdictAsAdmission DEF FollowsFromSource
<1>3. \A n \in 1..7 : Holds(i, n)
  BY DEF FollowsFromSource, Holds
<1>4. \A n \in 12..17 : Holds(i, n)
  BY DEF FollowsFromSource, Holds
<1>5. /\ c.aggregate_id = Digest(IdentitySeed(e)) /\ c.statement = Statement(e)
      /\ c.result_commitment = Digest(Statement(e)) /\ c.inclusion_set = InclusionSet(e)
      /\ c.inclusion_commitment = Digest(InclusionSet(e)) /\ c.breakdown = Breakdown(e)
      /\ c.breakdown_commitment = Digest(Breakdown(e))
      /\ c.transition_result = "singleton_transition_ok" /\ c.no_stronger_class = TRUE
      /\ c = Aggregate(e, i.notes)
  BY DEF FollowsFromSource, Aggregate
<1>6. Len(c.inclusion_set) = 1 /\ c.inclusion_set[1].ref = e.entry_id
  BY <1>5 DEF InclusionSet
<1>7. /\ i.stage # Malformed /\ i.stage.statement = Statement(e)
      /\ i.stage.statement_commitment = Digest(Statement(e))
      /\ Digest(IdentitySeed(e)) # e.entry_id
  BY DEF FollowsFromSource
<1> HIDE DEF e, c
<1>8. \A n \in 18..28 : Holds(i, n)
  BY <1>5, <1>6, <1>7 DEF Holds, e, c
<1>9. QED
  BY <1>2, <1>3, <1>4, <1>8

(* The evaluator is sound and complete: it accepts exactly the aggregates    *)
(* that follow from their source (positions 1 to 28).                        *)
THEOREM ExactlyTheDerivedIsAccepted == Spec => []AcceptsExactlyTheDerived
<1>1. ASSUME IInv, evaluation = Accepted
      PROVE  FollowsFromSource(input)
  <2>1. \A n \in 1..28 : Holds(input, n)
    BY <1>1, AcceptedMeansAll
  <2>2. /\ \A n \in 1..7 : Holds(input, n)
        /\ Holds(input, 10) /\ Holds(input, 12) /\ Holds(input, 13) /\ Holds(input, 15)
        /\ Holds(input, 16) /\ Holds(input, 17) /\ Holds(input, 18) /\ Holds(input, 20)
        /\ Holds(input, 22) /\ Holds(input, 27) /\ Holds(input, 28)
    BY <2>1
  <2>3. /\ input.frame \notin {"input", "bundle", "containers"}
        /\ Malformed \notin {input.options, input.evidence, input.proof, input.claimed}
    BY <2>2, HoldsArms
  <2>4. RootAsRecomputed(input.evidence) /\ Admits(input.evidence, input.proof)
    BY <2>2, TwoIdentitiesOneWriting, HoldsArms
  <2>5. /\ input.claimed = TrueEntry(input) /\ input.policy = AsDeclared
        /\ input.class = AsDeclared /\ input.rule = AsDeclared /\ input.stage # Malformed
    BY <2>2 DEF Holds
  <2>6. /\ input.stage.statement = Statement(TrueEntry(input))
        /\ input.stage.statement_commitment = Digest(Statement(TrueEntry(input)))
        /\ input.stage.candidate = Aggregate(TrueEntry(input), input.notes)
        /\ Digest(IdentitySeed(TrueEntry(input))) # TrueEntry(input).entry_id
    BY <2>2 DEF Holds
  <2>7. QED
    BY <2>3, <2>4, <2>5, <2>6 DEF FollowsFromSource
<1>2. ASSUME IInv, evaluation # Pending, FollowsFromSource(input)
      PROVE  evaluation = Accepted
  <2>1. \A n \in 1..28 : Holds(input, n)
    BY <1>2, DerivedHolds DEF IInv
  <2>2. position \in 1..28 /\ Holds(input, 12)
    BY <1>2, <2>1 DEF IInv
  <2>3. QED
    BY <1>2, <2>1, <2>2 DEF IInv, Justified
<1>3. QED
  BY <1>1, <1>2, FoldInvariant, PTL DEF AcceptsExactlyTheDerived

-------------------------------------------------------------------------------
(* What admission makes of writings: roots are compared without case,        *)
(* identities are derived from the root as it is written.                    *)

LEMMA AdmissionSays ==
    ASSUME NEW e \in Evidences, NEW p, Admits(e, p)
    PROVE  /\ e.stored \in Roots /\ e.stored.of = e.content
           /\ p.receipt_root.of = e.content
           /\ p.proof_object_id = DeriveProofObjectId(e.stored)
           /\ p.proof_ref = DeriveProofRef(p.proof_object_id)
<1>1. /\ e.stored # Null
      /\ SameRoot(e.stored, Recomputed(e)) /\ SameRoot(p.receipt_root, e.stored)
      /\ p.proof_object_id = DeriveProofObjectId(e.stored)
      /\ p.proof_ref = DeriveProofRef(DeriveProofObjectId(e.stored))
  BY DEF Admits, Rejection
<1>2. QED
  BY <1>1 DEF Evidences, SameRoot, Recomputed

(* The object createPortableProofObjectV0 makes of evidence is admitted with *)
(* it exactly when the evidence stores its root as recomputation writes it;  *)
(* in another writing the creator itself labels it unequal.                  *)
THEOREM CreatedIsAdmittedAsRecomputed ==
    ASSUME NEW e \in Evidences, e.stored # Null, NEW ref
    PROVE  Admits(e, CreatePortableProofObject(e, ref)) <=> e.stored = Recomputed(e)
<1> DEFINE p == CreatePortableProofObject(e, ref)
<1>1. /\ p.receipt_root = e.stored /\ p.stored = e.stored /\ p.computed = Recomputed(e)
      /\ p.proof_object_id = DeriveProofObjectId(e.stored)
      /\ p.proof_ref = DeriveProofRef(DeriveProofObjectId(e.stored))
      /\ p.verified = SameRoot(e.stored, Recomputed(e))
      /\ p.labelled = (SameRoot(e.stored, Recomputed(e)) /\ e.stored = Recomputed(e))
  BY DEF CreatePortableProofObject
<1> HIDE DEF p
<1>2. ASSUME e.stored = Recomputed(e)
      PROVE  Admits(e, p)
  BY <1>1, <1>2 DEF Admits, Rejection, SameRoot
<1>3. ASSUME Admits(e, p)
      PROVE  e.stored = Recomputed(e)
  <2>1. p.labelled
    BY <1>3 DEF Admits, Rejection
  <2>2. QED
    BY <1>1, <2>1
<1>4. QED
  BY <1>2, <1>3 DEF p

(* Two admitted proof objects under one root, in whatever writing, vouch for *)
(* the same content; but they have one identity and one reference only if    *)
(* their evidence stores the root in the same writing.                       *)
THEOREM OneContentOneIdentityPerWriting ==
    ASSUME NEW e \in Evidences, NEW f \in Evidences,
           NEW p \in ProofObjects, NEW q \in ProofObjects, Admits(e, p), Admits(f, q),
           SameRoot(p.receipt_root, q.receipt_root)
    PROVE  /\ e.content = f.content
           /\ p.proof_object_id = q.proof_object_id <=> e.stored = f.stored
           /\ p.proof_ref = q.proof_ref <=> e.stored = f.stored
<1>1. /\ e.stored.of = e.content /\ p.receipt_root.of = e.content
      /\ f.stored.of = f.content /\ q.receipt_root.of = f.content
  BY AdmissionSays
<1>2. /\ p.proof_object_id = DeriveProofObjectId(e.stored)
      /\ q.proof_object_id = DeriveProofObjectId(f.stored)
      /\ p.proof_ref = DeriveProofRef(p.proof_object_id)
      /\ q.proof_ref = DeriveProofRef(q.proof_object_id)
  BY AdmissionSays
<1>3. /\ \A r : DeriveProofObjectId(r).proofobj = r
      /\ \A id : DeriveProofRef(id).portable_proof_object = id
  BY DEF DeriveProofObjectId, DeriveProofRef
<1>4. e.content = f.content
  BY <1>1 DEF SameRoot
<1>5. p.proof_object_id = q.proof_object_id <=> e.stored = f.stored
  BY <1>2, <1>3
<1>6. p.proof_ref = q.proof_ref <=> p.proof_object_id = q.proof_object_id
  BY <1>2, <1>3
<1>7. QED
  BY <1>4, <1>5, <1>6
===============================================================================
