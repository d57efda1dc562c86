---------------------------- MODULE MCChronicleAudit ----------------------------
(***************************************************************************)
(* Small instances of ChronicleAudit. A digest is modelled by what it was  *)
(* computed from; roots reach three checkpoints deep.                      *)
(***************************************************************************)
EXTENDS ChronicleAudit

CONSTANT Nothing

MCDigest(contents) == <<contents>>
MCPreimage(root) == root[1]

Permuted == Permutations(Auditors)

MCSchemas == {"v0", "other"}
MCLabels == {"chronicle"}
MCEntryLists == {<<1, 2>>, <<2, 1>>}
Sorted == {<<1, 2>>}

RootsOf(schemas, lists, previous, numbers) ==
    {MCDigest(c) : c \in [schema : schemas, label : MCLabels, entry_refs : lists,
                          prev_checkpoint : previous, sequence : numbers]}
RootsOver(lists, previous, numbers) == RootsOf({"v0"}, lists, previous, numbers)

(* Beside well-formed chains: a genesis over a reordered list, a checkpoint *)
(* without predecessor numbered one, a checkpoint with one numbered zero,  *)
(* and one that names another schema, over a genesis that does not.        *)
MCRoots ==
    LET positive == {n \in Sequences : n > 0}
        genesis == RootsOver(Sorted, {Nothing}, {0})
        orphan == RootsOver(Sorted, {Nothing}, {1})
        foreign == RootsOf({"other"}, Sorted, genesis, {1})
        second == RootsOver(Sorted, genesis, positive)
    IN  RootsOver(MCEntryLists, {Nothing}, {0}) \cup orphan
            \cup RootsOver(Sorted, genesis, positive)
            \cup RootsOver(Sorted, genesis, {0})
            \cup RootsOver(Sorted, orphan, {2})
            \cup RootsOver(Sorted, second, {2})
            \cup foreign

===============================================================================
