--------------------------- MODULE ReceiptExplorerProofs ---------------------------
(***************************************************************************)
(* The safety of the receipt dialog for every set of sessions and receipts *)
(* and any number of verifications in flight, in an environment of which   *)
(* only LatestRequestWins is known. Two facts make the invariants          *)
(* inductive: an attached proof was attached in this dialog, and a         *)
(* verification in flight compares a receipt with its own content.         *)
(***************************************************************************)
EXTENDS ReceiptExplorer, TLAPS

ProofWasAttached == open /\ proof # None => proof \in attached
ChecksAreOfOneReceipt == \A check \in checks : check.receipt_root = check.content

Inv ==
    /\ TypeOK /\ OneReceiptOneRoot /\ AnchoredWasAttached /\ NoFalseAlarm
    /\ ProofWasAttached /\ ChecksAreOfOneReceipt

LEMMA InitInv == ASSUME Init PROVE Inv
BY ExplorerAssumption DEF Init, Panel!Init, Inv, TypeOK, OneReceiptOneRoot, AnchoredWasAttached,
   NoFalseAlarm, ProofWasAttached, ChecksAreOfOneReceipt

(* The panel changes neither the signals of the dialog nor what was          *)
(* attached; if it replaces the receipt the dialog's opening receipt is      *)
(* forgotten.                                                                *)
LEMMA PanelStepInv == ASSUME Inv, PanelStep PROVE Inv'
<1>1. shown' \in {None} \cup Receipts /\ (shown # None => shown' # None)
  BY ExplorerAssumption DEF PanelStep, Inv, TypeOK
<1>2. question' \in {None} \cup Panel!Questions /\ status' \in {"none", "pending", "answered", "failed"}
  BY DEF PanelStep, Panel!Next, Panel!Ask, Panel!Leave, Panel!Answer, Panel!Fail, Inv, TypeOK
<1>3. opened' # None => shown' = shown /\ opened' = opened
  BY DEF PanelStep
<1>4. opened' \in {None} \cup Receipts
  BY DEF PanelStep, Inv, TypeOK
<1>5. UNCHANGED <<dialogVars, attached>>
  BY DEF PanelStep
<1>. HIDE DEF PanelStep
<1>6. TypeOK'
  BY <1>1, <1>2, <1>4, <1>5 DEF Inv, TypeOK, dialogVars
<1>7. OneReceiptOneRoot'
  BY <1>3, <1>5 DEF Inv, OneReceiptOneRoot, dialogVars
<1>8. AnchoredWasAttached' /\ NoFalseAlarm' /\ ProofWasAttached' /\ ChecksAreOfOneReceipt'
  BY <1>5 DEF Inv, AnchoredWasAttached, NoFalseAlarm, ProofWasAttached, ChecksAreOfOneReceipt, dialogVars
<1>. QED BY <1>6, <1>7, <1>8 DEF Inv

LEMMA OpenCloseInv == ASSUME Inv, Open \/ Close PROVE Inv'
<1>1. CASE Open
  BY <1>1 DEF Open, Mount, panelVars, Inv, TypeOK, OneReceiptOneRoot, AnchoredWasAttached,
     NoFalseAlarm, ProofWasAttached, ChecksAreOfOneReceipt
<1>2. CASE Close
  BY <1>2 DEF Close, panelVars, Inv, TypeOK, OneReceiptOneRoot, AnchoredWasAttached,
     NoFalseAlarm, ProofWasAttached, ChecksAreOfOneReceipt
<1>. QED BY <1>1, <1>2

LEMMA AnchorFlowInv ==
    ASSUME Inv, AttachMerkleProof \/ PrepareSepoliaPayload \/ ImportAnchorResult
    PROVE  Inv'
<1>1. CASE AttachMerkleProof
  BY <1>1 DEF AttachMerkleProof, Anchor, panelVars, Inv, TypeOK, OneReceiptOneRoot,
     AnchoredWasAttached, NoFalseAlarm, ProofWasAttached, ChecksAreOfOneReceipt
<1>2. CASE PrepareSepoliaPayload
  BY <1>2 DEF PrepareSepoliaPayload, HasAttachedMerkleProof, Anchor, panelVars, Inv, TypeOK,
     OneReceiptOneRoot, AnchoredWasAttached, NoFalseAlarm, ProofWasAttached, ChecksAreOfOneReceipt
<1>3. CASE ImportAnchorResult
  <2>1. proof # None /\ imported' = proof
    BY <1>3 DEF ImportAnchorResult, HasAttachedMerkleProof, Matches, Results, Anchor
  <2>2. UNCHANGED <<panelVars, open, proof, payload, checks, verification, opened, attached>>
    BY <1>3 DEF ImportAnchorResult
  <2>. QED
    BY <2>1, <2>2 DEF panelVars, Inv, TypeOK, OneReceiptOneRoot, AnchoredWasAttached,
       NoFalseAlarm, ProofWasAttached, ChecksAreOfOneReceipt
<1>. QED BY <1>1, <1>2, <1>3

LEMMA VerificationInv == ASSUME Inv, VerifyReceipt \/ FinishVerification PROVE Inv'
<1>1. CASE VerifyReceipt
  BY <1>1 DEF VerifyReceipt, panelVars, Inv, TypeOK, OneReceiptOneRoot, AnchoredWasAttached,
     NoFalseAlarm, ProofWasAttached, ChecksAreOfOneReceipt
<1>2. CASE FinishVerification
  <2>1. PICK check \in checks :
           /\ verification' = [ok |-> check.receipt_root = check.content,
                               receipt_root |-> check.receipt_root,
                               recomputed_root |-> check.content]
           /\ checks' = checks \ {check}
    BY <1>2 DEF FinishVerification, Content
  <2>2. check \in [receipt_root : Receipts, content : Receipts] /\ check.receipt_root = check.content
    BY DEF Inv, TypeOK, ChecksAreOfOneReceipt
  <2>3. UNCHANGED <<panelVars, open, proof, payload, imported, opened, attached>>
    BY <1>2 DEF FinishVerification
  <2>4. verification' \in [ok : BOOLEAN, receipt_root : Receipts, recomputed_root : Receipts]
        /\ verification'.ok
    BY <2>1, <2>2
  <2>. QED
    BY <2>1, <2>3, <2>4 DEF panelVars, Inv, TypeOK, OneReceiptOneRoot, AnchoredWasAttached,
       NoFalseAlarm, ProofWasAttached, ChecksAreOfOneReceipt
<1>. QED BY <1>1, <1>2

LEMMA StutterInv == ASSUME Inv, UNCHANGED vars PROVE Inv'
BY DEF vars, panelVars, dialogVars, Inv, TypeOK, OneReceiptOneRoot, AnchoredWasAttached,
   NoFalseAlarm, ProofWasAttached, ChecksAreOfOneReceipt

THEOREM ExplorerInvariant == Spec => []Inv
<1>1. Init => Inv
  BY InitInv
<1>2. Inv /\ [Next]_vars => Inv'
  BY PanelStepInv, OpenCloseInv, AnchorFlowInv, VerificationInv, StutterInv DEF Next
<1>. QED BY <1>1, <1>2, PTL DEF Spec

(* The dialog's signals keep their types whatever the panel shows.           *)
THEOREM ExplorerTypeCorrect == Spec => []TypeOK
<1>1. Inv => TypeOK
  BY DEF Inv
<1>. QED BY <1>1, ExplorerInvariant, PTL

(* While the receipt is not replaced, everything the anchoring flow of the   *)
(* dialog shows or exports is about that receipt's root.                     *)
THEOREM OneReceiptHasOneRoot == Spec => []OneReceiptOneRoot
<1>1. Inv => OneReceiptOneRoot
  BY DEF Inv
<1>. QED BY <1>1, ExplorerInvariant, PTL

(* importAnchorResult accepts only results that name a root attached in this *)
(* dialog, whatever is pasted and even when the panel replaces the receipt   *)
(* under it.                                                                 *)
THEOREM ImportedAnchorsWereAttached == Spec => []AnchoredWasAttached
<1>1. Inv => AnchoredWasAttached
  BY DEF Inv
<1>. QED BY <1>1, ExplorerInvariant, PTL

(* verifyReceipt never reports a receipt of the server as failing, however   *)
(* many verifications and refreshes are under way.                           *)
THEOREM VerificationHasNoFalseAlarm == Spec => []NoFalseAlarm
<1>1. Inv => NoFalseAlarm
  BY DEF Inv
<1>. QED BY <1>1, ExplorerInvariant, PTL

-----------------------------------------------------------------------------
(* When the anchor shown is that of the Merkle root shown with it.           *)

(* Nothing is imported before a proof is attached, and no proof is taken back. *)
ImportedHasProof == open /\ imported # None => proof # None

(* While the receipt has not been replaced, it is.                           *)
MatchesUntilReplaced == opened # None => AnchorMatchesCurrentRoot

(* A match is lost in one way only: a proof is attached again after the      *)
(* receipt was replaced, and the result imported for the first stays.        *)
OnlyReattachingLosesTheMatch ==
    [][AnchorMatchesCurrentRoot /\ ~AnchorMatchesCurrentRoot'
          => AttachMerkleProof /\ opened = None]_vars

(* An import needs a proof, and only a new dialog drops either.              *)
LEMMA ImportFollowsProof == Spec => []ImportedHasProof
<1>1. Init => ImportedHasProof
  BY DEF Init, ImportedHasProof
<1>2. ASSUME Inv, ImportedHasProof, [Next]_vars PROVE ImportedHasProof'
  <2>1. CASE PanelStep \/ VerifyReceipt \/ FinishVerification \/ PrepareSepoliaPayload
             \/ Close \/ UNCHANGED vars
    BY <1>2, <2>1 DEF PanelStep, VerifyReceipt, FinishVerification, PrepareSepoliaPayload,
       Close, vars, dialogVars, ImportedHasProof
  <2>2. CASE Open
    BY <2>2 DEF Open, Mount, ImportedHasProof
  <2>3. CASE AttachMerkleProof
    <3>1. shown # None /\ proof' = shown
      BY <1>2, <2>3, ExplorerAssumption DEF AttachMerkleProof, Anchor, Inv, TypeOK
    <3>2. QED
      BY <3>1 DEF ImportedHasProof
  <2>4. CASE ImportAnchorResult
    BY <2>4 DEF ImportAnchorResult, HasAttachedMerkleProof, Anchor, ImportedHasProof
  <2>5. QED
    BY <1>2, <2>1, <2>2, <2>3, <2>4 DEF Next
<1>. QED BY <1>1, <1>2, ExplorerInvariant, PTL DEF Spec

(* What "anchored" with the root shown amounts to.                           *)
LEMMA MatchMeansEqual ==
    AnchorMatchesCurrentRoot <=> (open /\ imported # None => imported = proof)
BY DEF AnchorMatchesCurrentRoot, Anchor

(* As long as the panel shows the receipt the dialog was opened on, the      *)
(* documentation's claim about the anchor holds.                             *)
THEOREM AnchorMatchesUntilReplaced == Spec => []MatchesUntilReplaced
<1>1. Inv /\ ImportedHasProof => MatchesUntilReplaced
  BY MatchMeansEqual DEF Inv, OneReceiptOneRoot, ImportedHasProof, MatchesUntilReplaced
<1>. QED BY <1>1, ExplorerInvariant, ImportFollowsProof, PTL

(* Re-attaching under a replaced receipt is the only step that breaks it.    *)
THEOREM MatchIsLostByReattachingOnly == Spec => OnlyReattachingLosesTheMatch
<1>1. ASSUME Inv, Inv', ImportedHasProof, [Next]_vars, AnchorMatchesCurrentRoot,
             ~AnchorMatchesCurrentRoot'
      PROVE  AttachMerkleProof /\ opened = None
  <2>1. open' /\ imported' # None /\ imported' # proof'
    BY <1>1 DEF AnchorMatchesCurrentRoot, Anchor
  <2>2. open /\ imported # None => imported = proof
    BY <1>1, MatchMeansEqual
  <2>3. ~Open /\ ~Close
    BY <2>1 DEF Open, Close, Mount
  <2>4. ~ImportAnchorResult
    BY <2>1 DEF ImportAnchorResult, Matches, Anchor
  <2>5. ~(PanelStep \/ VerifyReceipt \/ FinishVerification \/ PrepareSepoliaPayload
             \/ UNCHANGED vars)
    BY <2>1, <2>2 DEF PanelStep, VerifyReceipt, FinishVerification,
       PrepareSepoliaPayload, vars, dialogVars
  <2>6. AttachMerkleProof
    BY <1>1, <2>3, <2>4, <2>5 DEF Next
  <2>7. open /\ proof' = shown /\ imported' = imported
    BY <2>6 DEF AttachMerkleProof, Anchor
  <2>8. opened = None
    BY <1>1, <2>1, <2>7 DEF Inv, OneReceiptOneRoot
  <2>9. QED
    BY <2>6, <2>8
<1>2. Inv /\ Inv' /\ ImportedHasProof /\ [Next]_vars =>
        [AnchorMatchesCurrentRoot /\ ~AnchorMatchesCurrentRoot'
            => AttachMerkleProof /\ opened = None]_vars
  BY <1>1
<1>. QED BY <1>2, ExplorerInvariant, ImportFollowsProof, PTL DEF Spec, OnlyReattachingLosesTheMatch
===============================================================================
