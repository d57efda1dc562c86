-------------------------- MODULE ChronicleAuditProofs --------------------------
(* Proofs about ChronicleAudit, for any number of auditors, any store and    *)
(* any digest that does not collide.                                         *)
EXTENDS ChronicleAudit, SequenceTheorems, TLAPS

Sound(c) == ShapeIsValid(c) /\ Verifies(c)

(* p is what continuity calls the direct predecessor of c. *)
Precedes(p, c) ==
    /\ c.sequence # 0
    /\ c.prev_checkpoint = p.checkpoint_root
    /\ p.sequence = MinusOne(c.sequence)

(* An auditor starts at its root, and its walk is a chain; the checkpoint it *)
(* evaluates next continues that chain.                                      *)
Chained(a) ==
    /\ walk[a] = << >> =>
         /\ ~closed[a]
         /\ current[a] # Null => asOf[a] # Null /\ current[a].checkpoint_root = asOf[a]
    /\ walk[a] # << >> => asOf[a] # Null /\ walk[a][1].checkpoint_root = asOf[a]
    /\ \A i \in DOMAIN walk[a] : Sound(walk[a][i])
    /\ \A i \in DOMAIN walk[a] :
         i + 1 \in DOMAIN walk[a] => Precedes(walk[a][i + 1], walk[a][i])
    /\ walk[a] # << >> /\ ~closed[a] =>
         /\ current[a] \in Checkpoints /\ Sound(current[a])
         /\ Precedes(current[a], walk[a][Len(walk[a])])
    /\ closed[a] => walk[a][Len(walk[a])].sequence = 0

(* While the numbers are exact they count down by one.                       *)
Counted(a) ==
    walk[a] # << >> /\ walk[a][1].sequence <= ExactLimit =>
        /\ \A i \in DOMAIN walk[a] : walk[a][i].sequence = walk[a][1].sequence - i + 1
        /\ ~closed[a] => current[a].sequence = walk[a][1].sequence - Len(walk[a])

Chains == \A a \in Auditors : Chained(a) /\ Counted(a)

IInv == TypeOK /\ Chains /\ SameHistory

-------------------------------------------------------------------------------
(* Checkpoints that verify are determined by their roots. *)

LEMMA ContentsType ==
    ASSUME NEW c \in Checkpoints
    PROVE  ContentsOf(c) \in Contents
BY DEF Checkpoints, Contents, ContentsOf

LEMMA RootDeterminesCheckpoint ==
    ASSUME NEW c \in Checkpoints, NEW d \in Checkpoints,
           Sound(c), Sound(d), c.checkpoint_root = d.checkpoint_root
    PROVE  c = d
<1>1. Digest(ContentsOf(c)) = Digest(ContentsOf(d))
  BY DEF Sound, Verifies
<1>2. Preimage(Digest(ContentsOf(c))) = ContentsOf(c)
  BY ContentsType, CheckpointAssumption
<1>3. Preimage(Digest(ContentsOf(d))) = ContentsOf(d)
  BY ContentsType, CheckpointAssumption
<1>4. ContentsOf(c) = ContentsOf(d)
  BY <1>1, <1>2, <1>3
<1>5. /\ c.schema = d.schema
      /\ c.label = d.label
      /\ c.entry_refs = d.entry_refs
      /\ c.prev_checkpoint = d.prev_checkpoint
      /\ c.sequence = d.sequence
  BY <1>4 DEF ContentsOf
<1>6. QED
  BY <1>5 DEF Checkpoints

(* What verifies has the fields creation gives it, except perhaps the schema. *)
LEMMA SoundIsCreatable ==
    ASSUME NEW c \in Checkpoints, Sound(c)
    PROVE  /\ c = CreateCheckpoint(ContentsOf(c)) <=> c.schema = CheckpointSchema
           /\ c = WithRoot([CreateCheckpoint(ContentsOf(c)) EXCEPT !.schema = c.schema],
                           Digest(ContentsOf(c)))
<1> DEFINE made == [ContentsOf(c) EXCEPT !.schema = CheckpointSchema,
                                         !.entry_refs = SortEntryRefs(@)]
           created == WithRoot(made, Digest(made))
<1>1. c.checkpoint_root = Digest(ContentsOf(c)) /\ c.entry_refs = SortEntryRefs(c.entry_refs)
  BY DEF Sound, Verifies
<1>2. CreateCheckpoint(ContentsOf(c)) = created
  BY DEF CreateCheckpoint
<1>3. /\ created.schema = CheckpointSchema
      /\ WithRoot([created EXCEPT !.schema = c.schema], Digest(ContentsOf(c)))
           = WithRoot(c, c.checkpoint_root)
  BY <1>1 DEF WithRoot, ContentsOf
<1>4. WithRoot(c, c.checkpoint_root) = c
  BY DEF WithRoot, Checkpoints
<1>5. ASSUME c.schema = CheckpointSchema PROVE c = created
  <2>1. made = ContentsOf(c)
    <3>1. ContentsOf(c).entry_refs = c.entry_refs
      BY DEF ContentsOf
    <3>2. made = [ContentsOf(c) EXCEPT !.schema = c.schema, !.entry_refs = c.entry_refs]
      BY <1>1, <1>5, <3>1
    <3>. HIDE DEF made
    <3>. QED BY <3>2 DEF ContentsOf
  <2>2. WithRoot(ContentsOf(c), Digest(ContentsOf(c))) = WithRoot(c, c.checkpoint_root)
    BY <1>1 DEF WithRoot, ContentsOf
  <2>. QED BY <1>4, <2>1, <2>2
<1>6. QED
  BY <1>2, <1>3, <1>4, <1>5

(* Exact numbers count down exactly. *)
LEMMA MinusOneIsExact ==
    ASSUME NEW n \in Int, n <= ExactLimit
    PROVE  MinusOne(n) = n - 1
BY CheckpointAssumption DEF MinusOne

(* What the reason codes an auditor acts on say. *)
LEMMA ReasonCodes ==
    ASSUME NEW c \in Checkpoints, NEW p \in Checkpoints \cup {Null}
    PROVE  /\ Continuity(c, p) = "genesis" => Sound(c) /\ c.sequence = 0
           /\ Continuity(c, p) = "direct_successor" =>
                Sound(c) /\ p \in Checkpoints /\ Sound(p) /\ Precedes(p, c)
           /\ Continuity(c, p) \in CurrentIsUnusable => ~Sound(c)
<1>1. SequenceRelation(c, p) \in {"direct_successor", "sequence_gap",
            "predecessor_same_sequence", "predecessor_higher_sequence"}
  BY DEF SequenceRelation
<1>2. SequenceRelation(c, p) = "direct_successor" => p.sequence = MinusOne(c.sequence)
  BY DEF SequenceRelation
<1>3. QED
  BY <1>1, <1>2 DEF Continuity, Sound, Precedes, CurrentIsUnusable

-------------------------------------------------------------------------------
(* Every step changes the store, or one auditor. *)

StoreStep == store' \subseteq Checkpoints /\ UNCHANGED audits

LEMMA StepKinds ==
    ASSUME TypeOK, [Next]_vars
    PROVE  \/ StoreStep
           \/ \E a \in Auditors, c \in Checkpoints : Pin(a, c) \/ Resolve(a, c)
           \/ \E a \in Auditors, p \in Checkpoints \cup {Null} : Evaluate(a, p)
<1>1. \A new : Put(new) => StoreStep
  BY DEF Put, StoreStep, TypeOK
<1>2. CASE \E c \in [schema : {CheckpointSchema}, label : Labels, entry_refs : EntryLists,
                     prev_checkpoint : SeenRoots \cup {Null}, sequence : Sequences] : Create(c)
  BY <1>1, <1>2 DEF Create
<1>3. CASE \E c \in store : Lose(c)
  BY <1>3 DEF Lose, StoreStep, TypeOK
<1>4. CASE \E c \in store : Alter(c)
  BY <1>1, <1>4 DEF Alter
<1>5. CASE \E a \in Auditors : \E c \in store : Pin(a, c) \/ Resolve(a, c)
  BY <1>5 DEF TypeOK
<1>6. CASE \E a \in Auditors : \E p \in store \cup {Null} : Evaluate(a, p)
  BY <1>6 DEF TypeOK
<1>7. CASE UNCHANGED vars
  BY <1>7 DEF vars, audits, StoreStep, TypeOK
<1>8. QED
  BY <1>2, <1>3, <1>4, <1>5, <1>6, <1>7 DEF Next

(* Appending to one walk.                                                    *)
LEMMA Extended ==
    ASSUME NEW s \in Seq(Checkpoints), NEW c \in Checkpoints
    PROVE  /\ Append(s, c) \in Seq(Checkpoints) /\ Append(s, c) # << >>
           /\ Len(s) \in Nat /\ Len(Append(s, c)) = Len(s) + 1
           /\ DOMAIN s = 1..Len(s) /\ DOMAIN Append(s, c) = 1..(Len(s) + 1)
           /\ \A i \in DOMAIN s : Append(s, c)[i] = s[i] /\ s[i] \in Checkpoints
           /\ Append(s, c)[Len(s) + 1] = c
           /\ s = << >> <=> Len(s) = 0
OBVIOUS

(* The auditors' own steps keep the types.                                   *)
LEMMA TypeInvariance ==
    ASSUME TypeOK, [Next]_vars
    PROVE  TypeOK'
<1>1. CASE StoreStep
  BY <1>1 DEF StoreStep, TypeOK, audits
<1>2. ASSUME NEW a \in Auditors, NEW c \in Checkpoints, Pin(a, c)
      PROVE  TypeOK'
  <2>1. c.checkpoint_root \in Roots
    BY DEF Checkpoints
  <2>2. QED
    BY <1>2, <2>1 DEF Pin, TypeOK
<1>3. ASSUME NEW a \in Auditors, NEW c \in Checkpoints, Resolve(a, c)
      PROVE  TypeOK'
  BY <1>3 DEF Resolve, TypeOK
<1>4. ASSUME NEW a \in Auditors, NEW p \in Checkpoints \cup {Null}, Evaluate(a, p)
      PROVE  TypeOK'
  <2>1. current[a] \in Checkpoints /\ walk[a] \in Seq(Checkpoints)
    BY <1>4 DEF Evaluate, TypeOK
  <2>2. Append(walk[a], current[a]) \in Seq(Checkpoints)
    BY <2>1
  <2>3. CASE ReachGenesis(a, p)
    BY <1>4, <2>2, <2>3 DEF Evaluate, ReachGenesis, TypeOK
  <2>4. CASE StepBack(a, p)
    BY <1>4, <2>2, <2>4 DEF Evaluate, StepBack, TypeOK
  <2>5. CASE Discard(a, p)
    BY <1>4, <2>5 DEF Evaluate, Discard, TypeOK
  <2>6. QED
    BY <1>4, <2>3, <2>4, <2>5 DEF Evaluate
<1>5. QED
  BY <1>1, <1>2, <1>3, <1>4, StepKinds

(* An auditor to whom nothing happens.                                       *)
LEMMA Undisturbed ==
    ASSUME NEW a, Chained(a), Counted(a),
           asOf'[a] = asOf[a], current'[a] = current[a],
           walk'[a] = walk[a], closed'[a] = closed[a]
    PROVE  Chained(a)' /\ Counted(a)'
BY DEF Chained, Counted

(* One step of a walk: the evaluated checkpoint is the last one's            *)
(* predecessor, or the one the walk starts from.                             *)
LEMMA WalkGrows ==
    ASSUME TypeOK, NEW a \in Auditors, Chained(a), Counted(a),
           current[a] \in Checkpoints, ~closed[a], Sound(current[a]),
           walk'[a] = Append(walk[a], current[a]), asOf' = asOf,
           \/ closed'[a] /\ current[a].sequence = 0
           \/ /\ ~closed'[a] /\ current'[a] \in Checkpoints /\ Sound(current'[a])
              /\ Precedes(current'[a], current[a])
    PROVE  Chained(a)' /\ Counted(a)'
<1> DEFINE s == walk[a]
           c == current[a]
           n == Len(s)
<1>0. s \in Seq(Checkpoints) /\ c \in Checkpoints
  BY DEF TypeOK
<1>1. /\ walk'[a] # << >> /\ n \in Nat /\ Len(walk'[a]) = n + 1
      /\ DOMAIN s = 1..n /\ DOMAIN walk'[a] = 1..(n + 1)
      /\ \A i \in 1..n : walk'[a][i] = s[i] /\ s[i] \in Checkpoints
      /\ walk'[a][n + 1] = c
      /\ s = << >> <=> n = 0
  BY <1>0, Extended
<1>2. asOf'[a] # Null /\ walk'[a][1].checkpoint_root = asOf'[a]
  <2>1. CASE n = 0
    BY <1>1, <2>1, NullIsNoCheckpoint DEF Chained
  <2>2. CASE n # 0
    BY <1>1, <2>2 DEF Chained
  <2>3. QED
    BY <2>1, <2>2
<1>3. \A i \in DOMAIN walk'[a] : Sound(walk'[a][i])
  BY <1>1 DEF Chained
<1>4. n # 0 => Precedes(c, s[n])
  BY <1>1 DEF Chained
<1>5. \A i \in DOMAIN walk'[a] :
        i + 1 \in DOMAIN walk'[a] => Precedes(walk'[a][i + 1], walk'[a][i])
  <2> SUFFICES ASSUME NEW i \in 1..(n + 1), i + 1 \in 1..(n + 1)
               PROVE  Precedes(walk'[a][i + 1], walk'[a][i])
    BY <1>1
  <2>1. CASE i = n
    BY <1>1, <1>4, <2>1
  <2>2. CASE i # n
    <3>1. i \in 1..n /\ i + 1 \in 1..n
      BY <1>1, <2>2
    <3>2. Precedes(s[i + 1], s[i])
      BY <1>1, <3>1 DEF Chained
    <3>3. QED
      BY <1>1, <3>1, <3>2
  <2>3. QED
    BY <2>1, <2>2
<1>6. Chained(a)'
  BY <1>1, <1>2, <1>3, <1>5 DEF Chained, Sound, ShapeIsValid, Verifies, Precedes
<1>7. Counted(a)'
  <2> SUFFICES ASSUME walk'[a][1].sequence <= ExactLimit
               PROVE  /\ \A i \in 1..(n + 1) :
                           walk'[a][i].sequence = walk'[a][1].sequence - i + 1
                      /\ ~closed'[a] => current'[a].sequence = walk'[a][1].sequence - (n + 1)
    BY <1>1 DEF Counted
  <2>1. \A i \in 1..(n + 1) : walk'[a][i].sequence \in Nat
    BY <1>1, <1>3 DEF Sound, ShapeIsValid
  <2>2. c.sequence = walk'[a][1].sequence - n
    <3>1. CASE n = 0
      BY <1>1, <2>1, <3>1
    <3>2. CASE n # 0
      BY <1>1, <3>2 DEF Counted
    <3>3. QED
      BY <3>1, <3>2
  <2>3. \A i \in 1..n : walk'[a][i].sequence = walk'[a][1].sequence - i + 1
    BY <1>1 DEF Counted
  <2>4. \A i \in 1..(n + 1) : walk'[a][i].sequence = walk'[a][1].sequence - i + 1
    BY <1>1, <2>1, <2>2, <2>3
  <2>5. c.sequence \in Nat /\ c.sequence <= ExactLimit
    BY <1>1, <2>1, <2>2, CheckpointAssumption
  <2>6. ~closed'[a] => current'[a].sequence = c.sequence - 1
    BY <2>5, MinusOneIsExact DEF Precedes
  <2>7. QED
    BY <1>1, <2>1, <2>2, <2>4, <2>6
<1>8. QED
  BY <1>6, <1>7

(* What one evaluation does, for the auditor and for the others.             *)
LEMMA EvaluationStep ==
    ASSUME TypeOK, Chains, NEW a \in Auditors, NEW p \in Checkpoints \cup {Null}, Evaluate(a, p)
    PROVE  /\ asOf' = asOf /\ current[a] \in Checkpoints /\ ~closed[a]
           /\ \A b \in Auditors \ {a} :
                current'[b] = current[b] /\ walk'[b] = walk[b] /\ closed'[b] = closed[b]
           /\ \/ /\ Sound(current[a]) /\ walk'[a] = Append(walk[a], current[a])
                 /\ \/ closed'[a] /\ current[a].sequence = 0
                    \/ /\ ~closed'[a] /\ current'[a] \in Checkpoints /\ Sound(current'[a])
                       /\ Precedes(current'[a], current[a])
              \/ walk' = walk /\ closed' = closed /\ current'[a] = Null /\ walk[a] = << >>
<1>1. asOf' = asOf /\ current[a] \in Checkpoints /\ ~closed[a]
  BY DEF Evaluate, TypeOK
<1>2. CASE ReachGenesis(a, p)
  BY <1>1, <1>2, ReasonCodes DEF ReachGenesis, TypeOK
<1>3. CASE StepBack(a, p)
  BY <1>1, <1>3, ReasonCodes DEF StepBack, TypeOK
<1>4. CASE Discard(a, p)
  <2>1. ~Sound(current[a])
    BY <1>1, <1>4, ReasonCodes DEF Discard
  <2>2. walk[a] = << >>
    BY <1>1, <2>1 DEF Chains, Chained
  <2>3. QED
    BY <1>1, <1>4, <2>2 DEF Discard, TypeOK
<1>5. QED
  BY <1>2, <1>3, <1>4 DEF Evaluate

LEMMA ChainsInvariance ==
    ASSUME TypeOK, Chains, [Next]_vars
    PROVE  Chains'
<1> SUFFICES ASSUME NEW b \in Auditors
             PROVE  Chained(b)' /\ Counted(b)'
  BY DEF Chains
<1>0. Chained(b) /\ Counted(b)
  BY DEF Chains
<1>1. CASE StoreStep
  BY <1>0, <1>1, Undisturbed DEF StoreStep, audits
<1>2. ASSUME NEW a \in Auditors, NEW c \in Checkpoints, Pin(a, c)
      PROVE  Chained(b)' /\ Counted(b)'
  <2>1. CASE b = a
    <3>1. walk[a] = << >> /\ current[a] = Null
      BY <1>0, <1>2, <2>1 DEF Pin, Chained
    <3>2. QED
      BY <1>0, <1>2, <2>1, <3>1 DEF Pin, Chained, Counted, TypeOK
  <2>2. CASE b # a
    BY <1>0, <1>2, <2>2, Undisturbed DEF Pin, TypeOK
  <2>3. QED
    BY <2>1, <2>2
<1>3. ASSUME NEW a \in Auditors, NEW c \in Checkpoints, Resolve(a, c)
      PROVE  Chained(b)' /\ Counted(b)'
  <2>1. CASE b = a
    <3>1. walk[a] # << >> => closed[a]
      BY <1>0, <1>3, <2>1, NullIsNoCheckpoint DEF Resolve, Chained
    <3>2. /\ walk' = walk /\ closed' = closed /\ asOf' = asOf
          /\ current'[a] = c /\ asOf[a] # Null /\ c.checkpoint_root = asOf[a]
      BY <1>3 DEF Resolve, TypeOK
    <3>3. QED
      BY <1>0, <2>1, <3>1, <3>2 DEF Chained, Counted
  <2>2. CASE b # a
    BY <1>0, <1>3, <2>2, Undisturbed DEF Resolve, TypeOK
  <2>3. QED
    BY <2>1, <2>2
<1>4. ASSUME NEW a \in Auditors, NEW p \in Checkpoints \cup {Null}, Evaluate(a, p)
      PROVE  Chained(b)' /\ Counted(b)'
  <2>1. CASE b = a /\ Sound(current[a]) /\ walk'[a] = Append(walk[a], current[a])
    BY <1>0, <1>4, <2>1, EvaluationStep, WalkGrows
  <2>2. CASE b = a /\ walk' = walk /\ closed' = closed /\ current'[a] = Null /\ walk[a] = << >>
    BY <1>0, <1>4, <2>2, EvaluationStep DEF Chained, Counted
  <2>3. CASE b # a
    BY <1>0, <1>4, <2>3, EvaluationStep, Undisturbed
  <2>4. QED
    BY <1>4, <2>1, <2>2, <2>3, EvaluationStep
<1>5. QED
  BY <1>1, <1>2, <1>3, <1>4, StepKinds

(* Where two walks from one root both stand, they hold one checkpoint: the   *)
(* root it was looked up by is fixed by the position before.                 *)
LEMMA SameHistoryInvariance ==
    ASSUME TypeOK, Chains, SameHistory, [Next]_vars, TypeOK', Chains'
    PROVE  SameHistory'
<1>1. CASE StoreStep
  BY <1>1 DEF StoreStep, audits, SameHistory
<1>2. ASSUME NEW a \in Auditors, NEW c \in Checkpoints, Pin(a, c)
      PROVE  SameHistory'
  <2>1. walk' = walk /\ walk[a] = << >> /\ \A b \in Auditors \ {a} : asOf'[b] = asOf[b]
    BY <1>2 DEF Pin, TypeOK, Chains, Chained
  <2>2. QED
    BY <2>1 DEF SameHistory
<1>3. ASSUME NEW a \in Auditors, NEW c \in Checkpoints, Resolve(a, c)
      PROVE  SameHistory'
  BY <1>3 DEF Resolve, SameHistory
<1>4. ASSUME NEW a \in Auditors, NEW p \in Checkpoints \cup {Null}, Evaluate(a, p)
      PROVE  SameHistory'
  <2>1. CASE walk' = walk
    BY <1>4, <2>1, EvaluationStep DEF SameHistory
  <2>2. CASE walk'[a] = Append(walk[a], current[a])
    <3> DEFINE n == Len(walk[a])
    <3>1. /\ asOf' = asOf /\ current[a] \in Checkpoints
          /\ \A b \in Auditors \ {a} : walk'[b] = walk[b]
      BY <1>4, EvaluationStep
    <3>2. /\ n \in Nat /\ DOMAIN walk[a] = 1..n /\ DOMAIN walk'[a] = 1..(n + 1)
          /\ \A i \in 1..n : walk'[a][i] = walk[a][i]
          /\ walk'[a][n + 1] = current[a]
      BY <2>2, <3>1, Extended DEF TypeOK
    <3>3. ASSUME NEW b \in Auditors \ {a}, asOf[b] = asOf[a], n + 1 \in DOMAIN walk[b]
          PROVE  walk[b][n + 1] = current[a]
      <4>1. walk[b] \in Seq(Checkpoints) /\ DOMAIN walk[b] = 1..Len(walk[b])
        BY DEF TypeOK
      <4>2. walk[b][n + 1] \in Checkpoints /\ Sound(walk[b][n + 1])
        BY <3>3, <4>1 DEF Chains, Chained
      <4>3. Sound(current[a])
        BY <3>1, <3>2 DEF Chains, Chained
      <4>4. walk[b][n + 1].checkpoint_root = walk'[a][n + 1].checkpoint_root
        <5>1. CASE n = 0
          <6>1. walk[b][1].checkpoint_root = asOf[b]
            BY <3>3, <4>1, <5>1 DEF Chains, Chained
          <6>2. walk'[a] # << >>
            BY <3>2
          <6>3. walk'[a][1].checkpoint_root = asOf'[a]
            BY <6>2 DEF Chains, Chained
          <6>4. QED
            BY <3>1, <3>3, <5>1, <6>1, <6>3
        <5>2. CASE n # 0
          <6>1. n \in 1..n /\ n \in DOMAIN walk[b]
            BY <3>2, <3>3, <4>1, <5>2
          <6>2. walk[b][n] = walk[a][n]
            BY <3>2, <3>3, <6>1 DEF SameHistory
          <6>3. Precedes(walk[b][n + 1], walk[b][n])
            BY <3>3, <6>1 DEF Chains, Chained
          <6>4. Precedes(walk'[a][n + 1], walk'[a][n])
            <7>1. n \in DOMAIN walk'[a] /\ n + 1 \in DOMAIN walk'[a] /\ Chained(a)'
              BY <3>2, <6>1 DEF Chains
            <7>2. QED
              BY <7>1 DEF Chained
          <6>5. QED
            BY <3>2, <6>1, <6>2, <6>3, <6>4 DEF Precedes
        <5>3. QED
          BY <5>1, <5>2
      <4>5. QED
        BY <3>1, <3>2, <4>2, <4>3, <4>4, RootDeterminesCheckpoint
    <3>4. ASSUME NEW b \in Auditors \ {a}, asOf[b] = asOf[a],
                 NEW i \in DOMAIN walk'[a] \cap DOMAIN walk[b]
          PROVE  walk'[a][i] = walk[b][i]
      <4>1. CASE i = n + 1
        BY <3>2, <3>3, <3>4, <4>1
      <4>2. CASE i \in 1..n
        BY <3>2, <3>4, <4>2 DEF SameHistory
      <4>3. QED
        BY <3>2, <3>4, <4>1, <4>2
    <3>5. QED
      BY <3>1, <3>4 DEF SameHistory
  <2>3. QED
    BY <1>4, <2>1, <2>2, EvaluationStep
<1>5. QED
  BY <1>1, <1>2, <1>3, <1>4, StepKinds

-------------------------------------------------------------------------------

LEMMA InvariantHolds == Spec => []IInv
<1>1. Init => IInv
  <2> SUFFICES ASSUME Init
               PROVE  IInv
    OBVIOUS
  <2>1. TypeOK
    BY DEF Init, TypeOK
  <2>2. \A a \in Auditors : walk[a] = << >> /\ ~closed[a] /\ current[a] = Null
    BY DEF Init
  <2>3. Chains /\ SameHistory
    BY <2>2 DEF Chains, Chained, Counted, SameHistory
  <2>4. QED
    BY <2>1, <2>3 DEF IInv
<1>2. IInv /\ [Next]_vars => IInv'
  BY TypeInvariance, ChainsInvariance, SameHistoryInvariance DEF IInv
<1>3. QED
  BY <1>1, <1>2, PTL DEF Spec

(* The store holds checkpoints, and every walk is a list of them.            *)
THEOREM ChronicleTypeCorrect == Spec => []TypeOK
<1>1. IInv => TypeOK
  BY DEF IInv
<1>2. QED
  BY <1>1, InvariantHolds, PTL

(* Whatever is done to the store, a root has one history: two auditors that  *)
(* start from it accept the same checkpoints.                                *)
THEOREM OneHistoryPerRoot == Spec => []SameHistory
<1>1. IInv => SameHistory
  BY DEF IInv
<1>2. QED
  BY <1>1, InvariantHolds, PTL

(* A chain of pairwise valid steps down to genesis misses nothing, as long   *)
(* as it starts from a number that is exact.                                 *)
THEOREM AuditedHistoryIsComplete == Spec => []HistoryIsComplete
<1>1. IInv => HistoryIsComplete
  <2> SUFFICES ASSUME IInv, NEW a \in Auditors, closed[a], walk[a][1].sequence <= ExactLimit
               PROVE  /\ Len(walk[a]) = walk[a][1].sequence + 1
                      /\ \A i \in DOMAIN walk[a] : walk[a][i].sequence = Len(walk[a]) - i
    BY DEF HistoryIsComplete
  <2> DEFINE n == Len(walk[a])
  <2>1. Chained(a) /\ Counted(a)
    BY DEF IInv, Chains
  <2>2. n \in Nat /\ DOMAIN walk[a] = 1..n /\ (walk[a] = << >> <=> n = 0)
    BY DEF IInv, TypeOK
  <2>3. walk[a] # << >> /\ walk[a][n].sequence = 0
    BY <2>1 DEF Chained
  <2>4. \A i \in 1..n : walk[a][i].sequence = walk[a][1].sequence - i + 1
    BY <2>1, <2>2, <2>3 DEF Counted
  <2>5. n \in 1..n /\ 1 \in 1..n
    BY <2>2, <2>3
  <2>6. walk[a][1].sequence \in Nat
    BY <2>1, <2>2, <2>5 DEF Chained, Sound, ShapeIsValid
  <2>7. 0 = walk[a][1].sequence - n + 1
    BY <2>3, <2>4, <2>5
  <2>8. QED
    BY <2>2, <2>4, <2>6, <2>7
<1>2. QED
  BY <1>1, InvariantHolds, PTL

(* Creation, verification and continuity agree on what a checkpoint is, but  *)
(* for the schema it names.                                                  *)
THEOREM AcceptedCheckpointsAreCreatable == Spec => []AcceptedWasCreatable
<1>1. IInv => AcceptedWasCreatable
  <2> SUFFICES ASSUME IInv, NEW a \in Auditors, NEW i \in DOMAIN walk[a]
               PROVE  LET c == walk[a][i]
                          made == CreateCheckpoint(ContentsOf(c))
                      IN  /\ ShapeIsValid(c)
                          /\ c = made <=> c.schema = CheckpointSchema
                          /\ c = WithRoot([made EXCEPT !.schema = c.schema], Digest(ContentsOf(c)))
    BY DEF AcceptedWasCreatable
  <2>1. walk[a][i] \in Checkpoints
    BY DEF IInv, TypeOK
  <2>2. Sound(walk[a][i])
    BY DEF IInv, Chains, Chained
  <2>3. QED
    BY <2>1, <2>2, SoundIsCreatable DEF Sound
<1>2. QED
  BY <1>1, InvariantHolds, PTL

-------------------------------------------------------------------------------
(* The chain as a write-once register.                                       *)

LEMMA AcceptedGrows ==
    ASSUME IInv, NEW a \in Auditors, current[a] \in Checkpoints,
           walk'[a] = Append(walk[a], current[a]),
           \A b \in Auditors \ {a} : walk'[b] = walk[b]
    PROVE  Accepted' = Accepted \cup {current[a]}
<1> DEFINE At(w) == {w[i] : i \in DOMAIN w}
<1>1. At(Append(walk[a], current[a])) = At(walk[a]) \cup {current[a]}
  <2> DEFINE s == walk[a]
             t == Append(s, current[a])
  <2>1. s \in Seq(Checkpoints)
    BY DEF IInv, TypeOK
  <2>2. /\ Len(s) \in Nat /\ DOMAIN s = 1..Len(s) /\ DOMAIN t = 1..(Len(s) + 1)
        /\ t[Len(s) + 1] = current[a] /\ \A i \in DOMAIN s : t[i] = s[i]
    BY <2>1, Extended
  <2> HIDE DEF s, t
  <2>3. DOMAIN t = DOMAIN s \cup {Len(s) + 1}
    BY <2>2
  <2>4. At(t) = At(s) \cup {current[a]}
    BY <2>2, <2>3
  <2>5. QED
    BY <2>4 DEF s, t
<1>2. At(walk'[a]) = At(walk[a]) \cup {current[a]}
  BY <1>1
<1>3. \A b \in Auditors \ {a} : At(walk'[b]) = At(walk[b])
  OBVIOUS
<1>4. Accepted = UNION {At(walk[b]) : b \in Auditors}
  BY DEF Accepted
<1>5. Accepted' = UNION {At(walk'[b]) : b \in Auditors}
  BY DEF Accepted
<1> HIDE DEF At
<1>6. QED
  BY <1>2, <1>3, <1>4, <1>5

(* Every accepted checkpoint is the only one accepted for its root, and      *)
(* stays accepted: the audits implement the write-once register.             *)
THEOREM ChronicleImplementsHistory == Spec => ImplementsHistory
<1>1. Init => History!Init
  BY DEF Init, History!Init, Accepted
<1>2. IInv /\ [Next]_vars => [History!Next]_Accepted
  <2> SUFFICES ASSUME IInv, [Next]_vars
               PROVE  History!Next \/ Accepted' = Accepted
    OBVIOUS
  <2>1. CASE walk' = walk
    BY <2>1 DEF Accepted
  <2>2. CASE \E a \in Auditors : /\ current[a] \in Checkpoints /\ Sound(current[a])
                                 /\ walk'[a] = Append(walk[a], current[a])
                                 /\ \A b \in Auditors \ {a} : walk'[b] = walk[b]
    <3>1. PICK a \in Auditors : /\ current[a] \in Checkpoints /\ Sound(current[a])
                               /\ walk'[a] = Append(walk[a], current[a])
                               /\ \A b \in Auditors \ {a} : walk'[b] = walk[b]
      BY <2>2
    <3>2. Accepted' = Accepted \cup {current[a]}
      BY <3>1, AcceptedGrows
    <3>3. CASE current[a] \in Accepted
      BY <3>2, <3>3
    <3>4. CASE current[a] \notin Accepted
      <4>1. \A k \in Accepted : k \in Checkpoints /\ Sound(k)
        BY DEF Accepted, IInv, TypeOK, Chains, Chained
      <4>2. \A k \in Accepted : k.checkpoint_root # current[a].checkpoint_root
        BY <3>1, <3>4, <4>1, RootDeterminesCheckpoint
      <4>3. History!Learn(current[a])
        BY <3>2, <4>2 DEF History!Learn
      <4>4. current[a] \in Accepted' \cap Checkpoints
        BY <3>1, <3>2
      <4>5. QED
        BY <4>3, <4>4 DEF History!Next
    <3>5. QED
      BY <3>3, <3>4
  <2>3. QED
    <3>1. CASE \E a \in Auditors, p \in Checkpoints \cup {Null} : Evaluate(a, p)
      BY <2>1, <2>2, <3>1, EvaluationStep DEF IInv
    <3>2. CASE ~ \E a \in Auditors, p \in Checkpoints \cup {Null} : Evaluate(a, p)
      <4>1. walk' = walk
        BY <3>2, StepKinds DEF IInv, StoreStep, audits, Pin, Resolve
      <4>2. QED
        BY <2>1, <4>1
    <3>3. QED
      BY <3>1, <3>2
<1>3. QED
  BY <1>1, <1>2, InvariantHolds, PTL DEF Spec, ImplementsHistory, History!Spec

-------------------------------------------------------------------------------
(* How far one audit may be trusted for another. *)

(* Audits from one root that both reach genesis hold the same list, and one  *)
(* that has not got there is not ahead of one that has.                      *)
ClosedAuditsAgree ==
    \A a, b \in Auditors : asOf[a] = asOf[b] /\ closed[a] =>
        /\ Len(walk[b]) =< Len(walk[a])
        /\ closed[b] => walk[b] = walk[a]

(* An auditor that reaches genesis ends where every other auditor of that    *)
(* root must end, whatever was done to the store between them. Unlike the    *)
(* completeness of a history this holds for inexact numbers as well.         *)
THEOREM OneAuditSpeaksForAll == Spec => []ClosedAuditsAgree
<1>1. ASSUME IInv, NEW a \in Auditors, NEW b \in Auditors, asOf[a] = asOf[b], closed[a]
      PROVE  Len(walk[b]) =< Len(walk[a])
  <2> DEFINE n == Len(walk[a])
  <2>1. /\ walk[a] \in Seq(Checkpoints) /\ walk[b] \in Seq(Checkpoints)
        /\ closed[a] \in BOOLEAN
    BY <1>1 DEF IInv, TypeOK
  <2>2. Chained(a) /\ Chained(b)
    BY <1>1 DEF IInv, Chains
  <2>3. walk[a] # << >> /\ walk[a][n].sequence = 0
    BY <1>1, <2>2 DEF Chained
  <2>4. n \in DOMAIN walk[a] /\ n \in Nat
    BY <2>1, <2>3
  <2>5. SUFFICES ASSUME n + 1 \in DOMAIN walk[b]
                 PROVE  FALSE
    BY <2>1, <2>4
  <2>6. n \in DOMAIN walk[b]
    BY <2>1, <2>4, <2>5
  <2>7. walk[b][n] = walk[a][n]
    BY <1>1, <2>4, <2>6 DEF IInv, SameHistory
  <2>8. walk[b][n].sequence # 0
    BY <2>2, <2>5, <2>6 DEF Chained, Precedes
  <2>9. QED
    BY <2>3, <2>7, <2>8
<1>2. ASSUME IInv, NEW a \in Auditors, NEW b \in Auditors, asOf[a] = asOf[b],
             closed[a], closed[b]
      PROVE  walk[b] = walk[a]
  <2>1. walk[a] \in Seq(Checkpoints) /\ walk[b] \in Seq(Checkpoints)
    BY <1>2 DEF IInv, TypeOK
  <2>2. Len(walk[a]) = Len(walk[b])
    BY <1>1, <1>2, <2>1
  <2>3. \A i \in 1..Len(walk[a]) : walk[a][i] = walk[b][i]
    BY <1>2, <2>1, <2>2 DEF IInv, SameHistory
  <2>4. QED
    BY <2>1, <2>2, <2>3
<1>3. IInv => ClosedAuditsAgree
  BY <1>1, <1>2 DEF ClosedAuditsAgree
<1>4. QED
  BY <1>3, InvariantHolds, PTL

-------------------------------------------------------------------------------
(* What the continuity evaluation says of two checkpoints. *)

(* As long as the number of the current checkpoint is exact, it is a direct  *)
(* successor of exactly those checkpoints that verify, that it refers to and *)
(* whose number is one less.                                                 *)
THEOREM DirectSuccessorExactly ==
    ASSUME NEW c \in Checkpoints, NEW p \in Checkpoints, c.sequence =< ExactLimit
    PROVE  Continuity(c, p) = "direct_successor" <=>
              /\ Sound(c) /\ Sound(p)
              /\ c.prev_checkpoint = p.checkpoint_root
              /\ c.sequence = p.sequence + 1
<1>1. c.sequence \in Int /\ p.sequence \in Int
  BY CheckpointAssumption DEF Checkpoints
<1>2. MinusOne(c.sequence) = c.sequence - 1
  BY <1>1, MinusOneIsExact
<1>3. ASSUME Continuity(c, p) = "direct_successor"
      PROVE  /\ Sound(c) /\ Sound(p)
             /\ c.prev_checkpoint = p.checkpoint_root
             /\ c.sequence = p.sequence + 1
  BY <1>1, <1>2, <1>3, ReasonCodes DEF Precedes
<1>4. ASSUME Sound(c), Sound(p), c.prev_checkpoint = p.checkpoint_root,
             c.sequence = p.sequence + 1
      PROVE  Continuity(c, p) = "direct_successor"
  <2>1. c.sequence # 0
    BY <1>1, <1>4 DEF Sound, ShapeIsValid
  <2>2. p # Null
    BY NullIsNoCheckpoint
  <2>3. SequenceRelation(c, p) = "direct_successor"
    BY <1>1, <1>2, <1>4 DEF SequenceRelation
  <2>4. QED
    BY <1>4, <2>1, <2>2, <2>3 DEF Continuity, Sound
<1>5. QED
  BY <1>3, <1>4

(* A checkpoint never precedes one with its own number unless subtraction    *)
(* has lost the one: above the exact numbers, and then just where n - 1      *)
(* rounds to n. There predecessor_same_sequence is never reported.           *)
THEOREM RoundingHidesSameSequence ==
    ASSUME NEW c \in Checkpoints, NEW p \in Checkpoints, p.sequence = c.sequence,
           Sound(c), Sound(p), c.prev_checkpoint = p.checkpoint_root
    PROVE  /\ MinusOne(c.sequence) = c.sequence =>
                c.sequence > ExactLimit /\ Continuity(c, p) = "direct_successor"
           /\ MinusOne(c.sequence) # c.sequence =>
                Continuity(c, p) = "predecessor_same_sequence"
<1>1. c.sequence \in Nat /\ ExactLimit \in Nat
  BY CheckpointAssumption DEF Sound, ShapeIsValid
<1>2. c.sequence # 0
  <2>1. p.checkpoint_root # Null
    BY CheckpointAssumption DEF Checkpoints
  <2>2. QED
    BY <2>1 DEF Sound, ShapeIsValid
<1>3. p # Null
  BY NullIsNoCheckpoint
<1>4. Continuity(c, p) = SequenceRelation(c, p)
  BY <1>2, <1>3 DEF Continuity, Sound
<1>5. MinusOne(c.sequence) = c.sequence =>
         c.sequence > ExactLimit /\ SequenceRelation(c, p) = "direct_successor"
  BY <1>1 DEF MinusOne, SequenceRelation
<1>6. MinusOne(c.sequence) # c.sequence => SequenceRelation(c, p) = "predecessor_same_sequence"
  BY <1>1 DEF MinusOne, SequenceRelation
<1>7. QED
  BY <1>4, <1>5, <1>6
===============================================================================
