----------------------------- MODULE ChronicleAudit -----------------------------
(***************************************************************************)
(* Consumers that follow a chronicle back from the checkpoint a decision   *)
(* was taken at, through a store they do not control: between any two      *)
(* steps a stored checkpoint may be lost, edited or recomputed. All they   *)
(* rely on is the root in the decision's as_of and the continuity          *)
(* evaluation of src/receiptos/capsule/chronicle-checkpoint-continuity-v0.ts. *)
(***************************************************************************)
EXTENDS ChronicleCheckpoint, FiniteSets

CONSTANTS
    Auditors,
    MaxStored    \* bound on the checkpoints stored at any time

ASSUME AuditAssumption == MaxStored \in Nat

VARIABLES
    store,    \* the checkpoints an auditor can be given
    asOf,     \* the root each auditor starts from
    current,  \* the checkpoint each auditor evaluates next
    walk,     \* the checkpoints each has found valid, newest first
    closed    \* has it reached the genesis checkpoint?

vars == <<store, asOf, current, walk, closed>>

audits == <<asOf, current, walk, closed>>

-------------------------------------------------------------------------------

Init ==
    /\ store = {}
    /\ asOf = [a \in Auditors |-> Null]
    /\ current = [a \in Auditors |-> Null]
    /\ walk = [a \in Auditors |-> << >>]
    /\ closed = [a \in Auditors |-> FALSE]

Put(new) ==
    /\ new \in Checkpoints
    /\ Cardinality(store \cup {new}) <= MaxStored
    /\ store' = store \cup {new}
    /\ UNCHANGED audits

(* createChronicleCheckpointV0 over any input it does not refuse; a        *)
(* predecessor is any root its caller has seen.                            *)
Create(c) ==
    /\ ShapeIsValid(c)
    /\ Put(CreateCheckpoint(c))

Lose(c) ==
    /\ store' = store \ {c}
    /\ UNCHANGED audits

(* Whoever holds the store changes a field, and keeps the root or          *)
(* recomputes it over what is now stored. Once the root is stale, further  *)
(* edits change nothing: it does not verify.                               *)
Variants(c) ==
    {[c EXCEPT !.entry_refs = refs] : refs \in EntryLists}
        \cup {[c EXCEPT !.sequence = n] : n \in Sequences}
        \cup {[c EXCEPT !.prev_checkpoint = Null]}
        \cup {[c EXCEPT !.schema = schema] : schema \in Schemas}

Alter(c) ==
    /\ c.checkpoint_root = Digest(ContentsOf(c))
    /\ \E v \in Variants(c) :
          \/ Put(v)
          \/ Put(WithRoot(v, Digest(ContentsOf(v))))

-------------------------------------------------------------------------------

Pin(a, c) ==
    /\ asOf[a] = Null
    /\ asOf' = [asOf EXCEPT ![a] = c.checkpoint_root]
    /\ UNCHANGED <<store, current, walk, closed>>

Resolve(a, c) ==
    /\ asOf[a] # Null /\ current[a] = Null
    /\ c.checkpoint_root = asOf[a]
    /\ current' = [current EXCEPT ![a] = c]
    /\ UNCHANGED <<store, asOf, walk, closed>>

(* Mutant: the candidate, which a genesis evaluation ignores, is recorded.  *)
RecordCandidate(a, candidate) ==
    /\ Continuity(current[a], candidate) = "genesis"
    /\ walk' = [walk EXCEPT ![a] = Append(@, candidate)]
    /\ closed' = [closed EXCEPT ![a] = TRUE]
    /\ UNCHANGED current

ReachGenesis(a, candidate) ==
    /\ Continuity(current[a], candidate) = "genesis"
    /\ walk' = [walk EXCEPT ![a] = Append(@, current[a])]
    /\ closed' = [closed EXCEPT ![a] = TRUE]
    /\ UNCHANGED current

StepBack(a, candidate) ==
    /\ Continuity(current[a], candidate) = "direct_successor"
    /\ walk' = [walk EXCEPT ![a] = Append(@, current[a])]
    /\ current' = [current EXCEPT ![a] = candidate]
    /\ UNCHANGED closed

(* Another checkpoint may be stored under the same root.                   *)
Discard(a, candidate) ==
    /\ Continuity(current[a], candidate) \in CurrentIsUnusable
    /\ current' = [current EXCEPT ![a] = Null]
    /\ UNCHANGED <<walk, closed>>

(* Under any other reason code the auditor keeps its place and waits for   *)
(* another candidate.                                                      *)
Evaluate(a, candidate) ==
    /\ current[a] # Null /\ ~closed[a]
    /\ \/ ReachGenesis(a, candidate)
       \/ StepBack(a, candidate)
       \/ Discard(a, candidate)
    /\ UNCHANGED <<store, asOf>>

SeenRoots == {c.checkpoint_root : c \in store}

Next ==
    \/ \E c \in [schema : {CheckpointSchema}, label : Labels, entry_refs : EntryLists,
                 prev_checkpoint : SeenRoots \cup {Null}, sequence : Sequences] : Create(c)
    \/ \E c \in store : Lose(c) \/ Alter(c)
    \/ \E a \in Auditors :
          \/ \E c \in store : Pin(a, c) \/ Resolve(a, c)
          \/ \E candidate \in store \cup {Null} : Evaluate(a, candidate)

Spec == Init /\ [][Next]_vars

-------------------------------------------------------------------------------

TypeOK ==
    /\ store \subseteq Checkpoints
    /\ asOf \in [Auditors -> Roots \cup {Null}]
    /\ current \in [Auditors -> Checkpoints \cup {Null}]
    /\ walk \in [Auditors -> Seq(Checkpoints)]
    /\ closed \in [Auditors -> BOOLEAN]

(* Two auditors that start from the same root find the same history, as    *)
(* far as both have got, whatever happens to the store between their       *)
(* evaluations.                                                            *)
SameHistory ==
    \A a, b \in Auditors : asOf[a] = asOf[b] =>
        \A i \in DOMAIN walk[a] \cap DOMAIN walk[b] : walk[a][i] = walk[b][i]

(* An audit that reaches the genesis checkpoint has seen every sequence    *)
(* number exactly once, none skipped and none repeated, as long as the     *)
(* numbers are exact.                                                      *)
HistoryIsComplete ==
    \A a \in Auditors :
        closed[a] /\ walk[a][1].sequence <= ExactLimit =>
            /\ Len(walk[a]) = walk[a][1].sequence + 1
            /\ \A i \in DOMAIN walk[a] : walk[a][i].sequence = Len(walk[a]) - i

(* What continuity accepts is what createChronicleCheckpointV0 makes of the *)
(* same fields, except for the schema: creation pins it, nobody compares   *)
(* it, and a recomputed checkpoint that names another one is accepted      *)
(* although it cannot be created. The shape rules and the canonical order, *)
(* which are written down separately in creation, verification and         *)
(* continuity, have not drifted apart.                                     *)
AcceptedWasCreatable ==
    \A a \in Auditors : \A i \in DOMAIN walk[a] :
        LET c == walk[a][i]
            made == CreateCheckpoint(ContentsOf(c))
        IN  /\ ShapeIsValid(c)
            /\ c = made <=> c.schema = CheckpointSchema
            /\ c = WithRoot([made EXCEPT !.schema = c.schema], Digest(ContentsOf(c)))

Accepted == UNION {{walk[a][i] : i \in DOMAIN walk[a]} : a \in Auditors}

History == INSTANCE WriteOnceHistory WITH known <- Accepted

(* Over all audits, the checkpoint a root names never changes once it has  *)
(* been accepted by any of them: the chain behaves as a write-once         *)
(* register without anyone keeping one.                                    *)
ImplementsHistory == History!Spec
===============================================================================
