---------------------------- MODULE MCSingletonFold ----------------------------
(***************************************************************************)
(* A small instance of SingletonFold: bundles in which roots, identifiers, *)
(* references and labels are combined freely, bundles and stage inputs     *)
(* with at most two deviations from genuine ones, and candidates whose     *)
(* producer recomputed every digest after deviating.                       *)
(***************************************************************************)
EXTENDS SingletonFold

CONSTANTS Nothing, Junk, name

MCDigest(x) == [sha256 |-> x]
JunkDigest == MCDigest(Junk)

MCContents == {"session", "other_session"}
MCRefs == {name, JunkDigest}

Root(of, written) == [of |-> of, written |-> written]
GenuineEvidence == [content |-> "session", stored |-> Root("session", "lower")]
GenuineProof == CreatePortableProofObject(GenuineEvidence, name)
PlainOptions == [entry_id |-> Nothing, created_from |-> Nothing, details |-> name]

(* A stage input for a candidate whose statement is the one of entry.      *)
StageFor(entry, candidate) ==
    [statement |-> Statement(entry), statement_commitment |-> Digest(Statement(entry)),
     candidate |-> candidate]

Bundle(evidence, proof, options) ==
    LET entry == EntryOf(proof, options)
    IN  [frame |-> "ok", options |-> options, evidence |-> evidence, proof |-> proof,
         claimed |-> entry, policy |-> AsDeclared, class |-> AsDeclared, rule |-> AsDeclared,
         notes |-> Nothing, stage |-> StageFor(entry, Aggregate(entry, Nothing))]

SomeRoots == {Root("session", "lower"), Root("session", "upper"), Root("other_session", "lower")}
LowerRoots == {r \in SomeRoots : r.written = "lower"}

AdmissionInputs ==
    {Bundle([content |-> "session", stored |-> stored], proof, PlainOptions) :
        stored \in SomeRoots \cup {Nothing},
        proof \in [receipt_root : SomeRoots,
                   proof_object_id : {DeriveProofObjectId(r) : r \in SomeRoots},
                   proof_ref : {DeriveProofRef(DeriveProofObjectId(r)) : r \in SomeRoots},
                   stored : LowerRoots, computed : LowerRoots,
                   labelled : BOOLEAN, verified : BOOLEAN, source_evidence_ref : {name}]}

(* At most two of the replacements.                                        *)
Deviating(record, replacements) ==
    {record} \cup
    {[record EXCEPT ![d[1]] = d[2]] : d \in replacements} \cup
    {[record EXCEPT ![pair[1][1]] = pair[1][2], ![pair[2][1]] = pair[2][2]] :
        pair \in replacements \X replacements}

Genuine == Bundle(GenuineEvidence, GenuineProof, PlainOptions)

BundleDeviations ==
    {<<"frame", f>> : f \in {"input", "bundle", "containers"}} \cup
    {<<part, Malformed>> : part \in {"options", "evidence", "proof", "claimed", "stage"}} \cup
    {<<part, "other_terms">> : part \in {"policy", "class", "rule"}} \cup
    {<<"options", [PlainOptions EXCEPT !.created_from = JunkDigest]>>,
     <<"claimed", [Genuine.claimed EXCEPT !.details = JunkDigest]>>,
     <<"evidence", [GenuineEvidence EXCEPT !.stored = Nothing]>>,
     <<"notes", name>>}

BundleInputs == Deviating(Genuine, BundleDeviations)

(* The candidate with its commitments recomputed over what it now says.    *)
Resealed(c) ==
    LET result == Digest(c.statement)
        inclusion == Digest(c.inclusion_set)
        breakdown == Digest(c.breakdown)
    IN  [c EXCEPT !.result_commitment = result, !.inclusion_commitment = inclusion,
                  !.breakdown_commitment = breakdown,
                  !.aggregate_id = Digest([ref |-> c.source_entry_ref,
                                           commitment |-> c.source_commitment,
                                           semantic_result |-> result,
                                           inclusion_set |-> inclusion,
                                           breakdown |-> breakdown])]

CandidateDeviations(entry) ==
    LET member == InclusionSet(entry)[1]
    IN  {<<field, JunkDigest>> : field \in {"aggregate_id", "source_entry_ref",
            "source_commitment", "result_commitment", "inclusion_commitment",
            "breakdown_commitment"}} \cup
        {<<field, "other_terms">> : field \in {"terms", "declarations", "transition_result"}} \cup
        {<<"statement", [Statement(entry) EXCEPT !.terms = "other_terms"]>>,
         <<"statement", [Statement(entry) EXCEPT !.ref = JunkDigest]>>,
         <<"breakdown", [Breakdown(entry) EXCEPT !.terms = "other_terms"]>>,
         <<"breakdown", [Breakdown(entry) EXCEPT !.transition_output = JunkDigest]>>,
         <<"inclusion_set", << >> >>, <<"inclusion_set", <<member, member>> >>,
         <<"inclusion_set", <<[member EXCEPT !.ref = JunkDigest]>> >>,
         <<"inclusion_set", <<[member EXCEPT !.commitment = JunkDigest]>> >>,
         <<"no_stronger_class", FALSE>>, <<"notes", name>>}

(* entry_id may be chosen by the caller, even as a text that looks like a  *)
(* digest; the aggregate may be derived from another entry.                *)
StageInputs ==
    UNION {
        LET bundle == Bundle(GenuineEvidence, GenuineProof,
                             [PlainOptions EXCEPT !.entry_id = id])
            entry == bundle.claimed
            about == {entry, [entry EXCEPT !.details = JunkDigest]}
            candidates == UNION {Deviating(Aggregate(e, Nothing), CandidateDeviations(e)) : e \in about}
            statements == {<<"statement", Statement([entry EXCEPT !.details = JunkDigest])>>,
                           <<"statement_commitment", JunkDigest>>}
        IN  {[bundle EXCEPT !.stage = StageFor(entry, c)] :
                c \in candidates \cup {Resealed(c) : c \in candidates}} \cup
            {[bundle EXCEPT !.stage = s] : s \in Deviating(bundle.stage, statements)}
        : id \in {Nothing, JunkDigest}}

MCInputs == AdmissionInputs \cup BundleInputs \cup StageInputs

===============================================================================
