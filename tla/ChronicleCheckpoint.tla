-------------------------- MODULE ChronicleCheckpoint --------------------------
(***************************************************************************)
(* Checkpoints of a chronicle and their pairwise continuity:               *)
(* src/receiptos/capsule/chronicle-portfolio-v0.ts and                     *)
(* src/receiptos/capsule/chronicle-checkpoint-continuity-v0.ts.            *)
(* A checkpoint commits to a list of entries and, through the root of its  *)
(* predecessor, to everything before it.                                   *)
(***************************************************************************)
EXTENDS Integers, Sequences, TLC

CONSTANTS
    Schemas,      \* what a checkpoint may call its schema
    CheckpointSchema, \* CHRONICLE_CHECKPOINT_VERSION_V0
    Labels,       \* checkpoint_id and collection_ref together: committed to, never read
    EntryLists,   \* lists of entry references; references are numbers, in code-unit order
    Sequences,    \* sequence numbers a stored checkpoint may carry
    ExactLimit,   \* 2^53 in the code: the integers up to it are exact
    Roots,        \* checkpoint roots
    Null,         \* prev_checkpoint = null, or no checkpoint at all
    Digest(_),    \* "sha256:" and the hash of the canonical serialization
    Preimage(_)   \* what a digest was computed from

SortEntryRefs(refs) == SortSeq(refs, <)

Contents == [schema : Schemas, label : Labels, entry_refs : EntryLists,
             prev_checkpoint : Roots \cup {Null}, sequence : Sequences]

(* Digests do not collide: a digest determines what it was computed from.  *)
ASSUME CheckpointAssumption ==
    /\ ExactLimit \in Nat
    /\ Sequences \subseteq Int
    /\ CheckpointSchema \in Schemas
    /\ \A refs \in EntryLists : SortEntryRefs(refs) \in EntryLists
    /\ \A c \in Contents : Preimage(Digest(c)) = c
    /\ Null \notin Roots

Checkpoints == [schema : Schemas, label : Labels, entry_refs : EntryLists,
                prev_checkpoint : Roots \cup {Null}, sequence : Sequences,
                checkpoint_root : Roots]

ASSUME NullIsNoCheckpoint == Null \notin Checkpoints

ContentsOf(c) == [schema |-> c.schema, label |-> c.label, entry_refs |-> c.entry_refs,
                  prev_checkpoint |-> c.prev_checkpoint, sequence |-> c.sequence]

WithRoot(c, root) == [schema |-> c.schema, label |-> c.label, entry_refs |-> c.entry_refs,
                      prev_checkpoint |-> c.prev_checkpoint, sequence |-> c.sequence,
                      checkpoint_root |-> root]

-------------------------------------------------------------------------------

(* A sequence number is a natural number, zero exactly for a checkpoint    *)
(* without predecessor.                                                    *)
ShapeIsValid(c) ==
    /\ c.sequence \in Nat
    /\ c.sequence = 0 <=> c.prev_checkpoint = Null

(* Creation sorts the entries and pins the schema; verification and         *)
(* continuity ask for the order and leave the schema alone.                *)
CreateCheckpoint(c) ==
    LET made == [c EXCEPT !.schema = CheckpointSchema, !.entry_refs = SortEntryRefs(@)]
    IN  WithRoot(made, Digest(made))

(* Mutants: the root is recomputed over the sorted list, whatever order is *)
(* stored; the stored order is not looked at; the root is not recomputed.  *)
VerifiesAfterSorting(c) ==
    c.checkpoint_root = Digest([ContentsOf(c) EXCEPT !.entry_refs = SortEntryRefs(@)])
VerifiesInAnyOrder(c) == c.checkpoint_root = Digest(ContentsOf(c))
VerifiesOrderOnly(c) == c.entry_refs = SortEntryRefs(c.entry_refs)

Verifies(c) ==
    /\ c.checkpoint_root = Digest(ContentsOf(c))
    /\ c.entry_refs = SortEntryRefs(c.entry_refs)

(* n - 1 in double precision, of a number that is one. Above ExactLimit    *)
(* only even numbers are doubles, and a tie goes to the even significand;  *)
(* from twice the limit on, n - 1 rounds to n.                             *)
MinusOne(n) ==
    IF n <= ExactLimit THEN n - 1
    ELSE IF n < 2 * ExactLimit /\ (n \div 2) % 2 = 1 THEN n - 2
    ELSE n

(* Mutant: a gap counts as a direct successor.                             *)
SequenceRelationWithGaps(current, predecessor) ==
    IF predecessor.sequence <= MinusOne(current.sequence) THEN "direct_successor"
    ELSE IF predecessor.sequence = current.sequence THEN "predecessor_same_sequence"
    ELSE "predecessor_higher_sequence"

SequenceRelation(current, predecessor) ==
    IF predecessor.sequence = MinusOne(current.sequence) THEN "direct_successor"
    ELSE IF predecessor.sequence < MinusOne(current.sequence) THEN "sequence_gap"
    ELSE IF predecessor.sequence = current.sequence THEN "predecessor_same_sequence"
    ELSE "predecessor_higher_sequence"

(* The reason code of a continuity evaluation; the first failure wins.     *)
Continuity(current, predecessor) ==
    IF ~ShapeIsValid(current) THEN "current_shape_malformed"
    ELSE IF ~Verifies(current) THEN "current_local_verifier_failed"
    ELSE IF current.sequence = 0 THEN "genesis"
    ELSE IF predecessor = Null THEN "predecessor_unknown"
    ELSE IF ~ShapeIsValid(predecessor) THEN "predecessor_shape_malformed"
    ELSE IF ~Verifies(predecessor) THEN "predecessor_local_verifier_failed"
    ELSE IF current.prev_checkpoint # predecessor.checkpoint_root THEN "predecessor_ref_mismatch"
    ELSE SequenceRelation(current, predecessor)

CurrentIsUnusable == {"current_shape_malformed", "current_local_verifier_failed"}

===============================================================================
