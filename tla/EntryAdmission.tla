---------------------------- MODULE EntryAdmission ----------------------------
(***************************************************************************)
(* Portable proof objects and the admission of chronicle entries:          *)
(* src/receiptos/capsule/portable-proof-object-v0.ts,                      *)
(* evidence-capsule-v0.ts and tryCreateChronicleEntryV0 in                 *)
(* chronicle-portfolio-v0.ts. An admitted entry rests on a receipt root    *)
(* recomputed from the evidence, never on what an object says of itself.   *)
(***************************************************************************)
EXTENDS Naturals

CONSTANTS
    Contents,      \* what a receipt root is computed from: evidence without its anchor
    Refs,          \* references and names a caller may pass
    Null           \* no stored root; an option left out

(* A root is a hash and the way its digits are written: recomputation      *)
(* writes "lower", and "upper" is any other writing of the same digits.    *)
Roots == [of : Contents, written : {"lower", "upper"}]

ASSUME AdmissionAssumption == Null \notin Roots /\ Null \notin Refs

Recomputed(evidence) == [of |-> evidence.content, written |-> "lower"]

(* r.toLowerCase() === s.toLowerCase()                                     *)
SameRoot(r, s) == r.of = s.of

DeriveProofObjectId(root) == [proofobj |-> root]
DeriveProofRef(id) == [portable_proof_object |-> id]

ProofObjectIds == [proofobj : Roots]
ProofRefs == [portable_proof_object : ProofObjectIds]

(* labelled: the capsule says match = true and status = "verified";        *)
(* verified: its verifier_result says ok = true and status = "verified".   *)
Evidences == [content : Contents, stored : Roots \cup {Null}]
ProofObjects == [receipt_root : Roots, proof_object_id : ProofObjectIds,
                 proof_ref : ProofRefs, stored : Roots, computed : Roots,
                 labelled : BOOLEAN, verified : BOOLEAN, source_evidence_ref : Refs]

(* details: the references to capsule and provenance, labels and notes.    *)
Options == [entry_id : Refs \cup {Null}, created_from : Refs \cup {Null}, details : Refs]
EntryIds == Refs \cup [entry : ProofObjectIds]
Entries == [entry_id : EntryIds, receipt_root : Roots, proof_object_ref : ProofRefs,
            created_from : Refs, details : Refs]

-------------------------------------------------------------------------------

(* createPortableProofObjectV0, of evidence with a stored root: match      *)
(* compares the writing of the two roots, the verifier does not.           *)
CreatePortableProofObject(evidence, ref) ==
    LET verified == SameRoot(evidence.stored, Recomputed(evidence))
        id == DeriveProofObjectId(evidence.stored)
    IN  [receipt_root |-> evidence.stored, proof_object_id |-> id,
         proof_ref |-> DeriveProofRef(id),
         stored |-> evidence.stored, computed |-> Recomputed(evidence),
         labelled |-> verified /\ evidence.stored = Recomputed(evidence),
         verified |-> verified, source_evidence_ref |-> ref]

(* Mutant: the labels are believed, and no root is recomputed.             *)
RejectionByLabels(evidence, proof) ==
    IF evidence.stored = Null THEN "evidence_root_missing"
    ELSE IF ~SameRoot(proof.receipt_root, evidence.stored) THEN "proof_root_mismatch"
    ELSE IF ~proof.labelled THEN "capsule_label_inconsistent"
    ELSE IF ~proof.verified THEN "verifier_result_inconsistent"
    ELSE IF proof.proof_object_id # DeriveProofObjectId(evidence.stored) THEN "proof_object_id_invalid"
    ELSE IF proof.proof_ref # DeriveProofRef(proof.proof_object_id) THEN "proof_ref_invalid"
    ELSE "admitted"

(* The nine checks of admission; the first that fails gives the reason.    *)
Rejection(evidence, proof) ==
    IF evidence.stored = Null THEN "evidence_root_missing"
    ELSE IF ~SameRoot(evidence.stored, Recomputed(evidence)) THEN "evidence_root_mismatch"
    ELSE IF ~SameRoot(proof.receipt_root, evidence.stored) THEN "proof_root_mismatch"
    ELSE IF ~SameRoot(proof.stored, evidence.stored) THEN "capsule_stored_mismatch"
    ELSE IF ~SameRoot(proof.computed, Recomputed(evidence)) THEN "capsule_computed_mismatch"
    ELSE IF ~proof.labelled THEN "capsule_label_inconsistent"
    ELSE IF ~proof.verified THEN "verifier_result_inconsistent"
    ELSE IF proof.proof_object_id # DeriveProofObjectId(evidence.stored) THEN "proof_object_id_invalid"
    ELSE IF proof.proof_ref # DeriveProofRef(DeriveProofObjectId(evidence.stored)) THEN "proof_ref_invalid"
    ELSE "admitted"

Admits(evidence, proof) == Rejection(evidence, proof) = "admitted"

(* Mutant: an option left out stays null, whatever the proof object says.  *)
EntryOfOptions(proof, options) ==
    [entry_id |-> IF options.entry_id = Null THEN [entry |-> proof.proof_object_id]
                  ELSE options.entry_id,
     receipt_root |-> proof.receipt_root, proof_object_ref |-> proof.proof_ref,
     created_from |-> options.created_from, details |-> options.details]

(* The entry of an admitted proof object.                                  *)
EntryOf(proof, options) ==
    [entry_id |-> IF options.entry_id = Null THEN [entry |-> proof.proof_object_id]
                  ELSE options.entry_id,
     receipt_root |-> proof.receipt_root,
     proof_object_ref |-> proof.proof_ref,
     created_from |-> IF options.created_from = Null THEN proof.source_evidence_ref
                      ELSE options.created_from,
     details |-> options.details]

===============================================================================
