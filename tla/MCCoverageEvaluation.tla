-------------------------- MODULE MCCoverageEvaluation --------------------------
(* CoverageEvaluation on artifacts of two leaves, with profiles of at most   *)
(* MaxDeclarations declarations over a few selectors.                        *)
EXTENDS CoverageEvaluation

CONSTANTS MaxDeclarations, Bad

(* {a: {b: _}, c: _} *)
MCWalkOrder == << <<"a", "b">>, <<"c">> >>

(* {a: {b: _}, "a.b": _}: the dotted key comes second in sorted order. *)
MCDottedKey == << <<"a", "b">>, <<"a", "b">> >>

MCArtifacts == [DOMAIN WalkOrder -> Leaves \cup {Absent}]

(* Any two comparable leaves are equivalent to the normalizer. *)
MCNormalize == [leaf \in Leaves |-> IF leaf = Bad THEN Bad ELSE 0]

Exactly(side, path) == [side |-> side, segments |-> path, wildcard |-> FALSE]

Under(path) == [side |-> "none", segments |-> path, wildcard |-> TRUE]

MCSelectors == {Exactly("none", <<"a", "b">>), Under(<<"a">>), Under(<< >>),
                Exactly("source", <<"a", "b">>), Malformed}

MCDeclarations == [selector : MCSelectors, targetClass : DeclaredClasses]

MCNormalizers == {[selector |-> Exactly("none", <<"a", "b">>), id |-> "authentic"],
                  [selector |-> Under(<<"a">>), id |-> "authentic"],
                  [selector |-> Exactly("none", <<"a", "b">>), id |-> "unknown"]}

(* Two declarations come without normalizers, or with a good one.            *)
NormalizersFor(n) == {z \in MCNormalizers : n < 2 \/ (z.id = "authentic" /\ ~z.selector.wildcard)}

MCProfileInputs ==
    UNION {[same_type : BOOLEAN, policy : Policies,
            declarations : [1..n -> MCDeclarations],
            normalizers : {{}} \cup {{z} : z \in NormalizersFor(n)}] : n \in 0..MaxDeclarations}
===============================================================================
