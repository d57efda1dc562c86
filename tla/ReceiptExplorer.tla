------------------------------ MODULE ReceiptExplorer ------------------------------
(***************************************************************************)
(* The receipt dialog of the desktop application and the local anchoring   *)
(* flow it offers: attach a one-leaf Merkle proof, prepare an anchor       *)
(* payload, paste back the result of the transaction, verify the receipt.  *)
(* The dialog reads its evidence through the side panel that opened it, so *)
(* the receipt may be replaced while the dialog is open. Of the panel only *)
(* what LatestRequestWins promises is used.                                *)
(*                                                                         *)
(* A receipt is its content, and the root of a receipt is the receipt      *)
(* itself: roots are computed by a digest and only ever compared. A        *)
(* transaction is named by the root that its pasted result claims it       *)
(* anchored; nobody asks the chain.                                        *)
(***************************************************************************)
EXTENDS Integers, FiniteSets

CONSTANTS
    Sessions, None, Versions,   \* as in LatestRequestWins
    Receipts,                   \* the receipts the server may answer with
    MaxChecks                   \* bound: verifications in flight at once

ASSUME ExplorerAssumption ==
    /\ MaxChecks \in Nat
    /\ Versions \subseteq Nat
    /\ Receipts \subseteq [session : Sessions, messages : Versions]
    /\ None \notin Receipts

VARIABLES
    question, status, shown,   \* the panel
    open,         \* the dialog is open
    proof,        \* localMerkleProof: the root it was attached for
    payload,      \* sepoliaPayload
    imported,     \* importedAnchorResult: the transaction
    checks,       \* verifications in flight: root and content they compare
    verification, \* localVerification
    opened,       \* history: the receipt shown when the dialog was opened, None once replaced
    attached      \* history: the roots attached since the dialog was opened

panelVars == <<question, status, shown>>
dialogVars == <<open, proof, payload, imported, checks, verification>>
vars == <<panelVars, dialogVars, opened, attached>>

Panel == INSTANCE LatestRequestWins

(* The anchor block the dialog shows: the receipt's own root, the attached   *)
(* proof over it, the imported result over both.                             *)
Anchor ==
    [receipt_root |-> shown,
     merkle_root |-> proof,
     onchain_anchor_status |-> IF imported = None THEN "not anchored" ELSE "anchored",
     tx_hash |-> imported]

\* Mutant: a payload can be prepared before a proof is attached.
AlwaysAttached == TRUE
HasAttachedMerkleProof == Anchor.merkle_root # None

(* The signals of a dialog that has just been mounted. *)
\* Mutant: the imported result is kept in the page and survives the dialog.
FreshButImported ==
    /\ proof' = None /\ payload' = None /\ UNCHANGED imported
    /\ checks' = {} /\ verification' = None /\ attached' = {}
Mount ==
    /\ proof' = None /\ payload' = None /\ imported' = None
    /\ checks' = {} /\ verification' = None /\ attached' = {}

Init ==
    /\ Panel!Init
    /\ open = FALSE /\ opened = None
    /\ proof = None /\ payload = None /\ imported = None
    /\ checks = {} /\ verification = None /\ attached = {}

(* The panel moves on, the dialog stays open. *)
PanelStep ==
    /\ \E next \in Receipts \cup {shown} : shown' = next /\ Panel!Next
    /\ opened' = IF shown' = shown THEN opened ELSE None
    /\ UNCHANGED <<dialogVars, attached>>

Open ==
    /\ ~open /\ shown # None
    /\ open' = TRUE /\ opened' = shown
    /\ Mount
    /\ UNCHANGED panelVars

(* A verification that ends later finds no dialog to report to. *)
Close ==
    /\ open
    /\ open' = FALSE /\ checks' = {}
    /\ UNCHANGED <<panelVars, proof, payload, imported, verification, opened, attached>>

AttachMerkleProof ==
    /\ open
    /\ proof' = Anchor.receipt_root
    /\ attached' = attached \cup {Anchor.receipt_root}
    /\ UNCHANGED <<panelVars, open, payload, imported, checks, verification, opened>>

PrepareSepoliaPayload ==
    /\ open /\ HasAttachedMerkleProof
    /\ payload' = [receipt_root |-> Anchor.receipt_root, merkle_root |-> Anchor.merkle_root]
    /\ UNCHANGED <<panelVars, open, proof, imported, checks, verification, opened, attached>>

(* A pasted result, of the script that anchors a payload or of any other     *)
(* hand: the root it names, and the root of its event if it has one.         *)
Results == [receiptRoot : Receipts, event : Receipts \cup {None}]

\* Mutant: the root of the result is only compared with the root of its event.
MatchesItself(result) == result.event \in {None, result.receiptRoot}
Matches(result) ==
    /\ result.receiptRoot = Anchor.merkle_root
    /\ result.event \in {None, Anchor.merkle_root}

ImportAnchorResult ==
    /\ open /\ HasAttachedMerkleProof
    /\ \E result \in Results :
          /\ Matches(result)
          /\ imported' = result.receiptRoot
    /\ UNCHANGED <<panelVars, open, proof, payload, checks, verification, opened, attached>>

(* The root is read and the content made canonical before the digest is awaited. *)
VerifyReceipt ==
    /\ open /\ Cardinality(checks) < MaxChecks
    /\ checks' = checks \cup {[receipt_root |-> shown, content |-> shown]}
    /\ UNCHANGED <<panelVars, open, proof, payload, imported, verification, opened, attached>>

\* Mutant: the content is read when the digest is computed, after an await.
ContentWhenDone(check) == shown
Content(check) == check.content

FinishVerification ==
    /\ \E check \in checks :
          /\ verification' = [ok |-> check.receipt_root = Content(check),
                              receipt_root |-> check.receipt_root,
                              recomputed_root |-> Content(check)]
          /\ checks' = checks \ {check}
    /\ UNCHANGED <<panelVars, open, proof, payload, imported, opened, attached>>

Next ==
    \/ PanelStep
    \/ Open \/ Close
    \/ AttachMerkleProof \/ PrepareSepoliaPayload \/ ImportAnchorResult
    \/ VerifyReceipt \/ FinishVerification

Spec == Init /\ [][Next]_vars
-----------------------------------------------------------------------------
(* Properties                                                                *)

(* Types of the dialog. *)
TypeOK ==
    /\ question \in {None} \cup Panel!Questions /\ shown \in {None} \cup Receipts
    /\ status \in {"none", "pending", "answered", "failed"}
    /\ open \in BOOLEAN /\ (open => shown # None)
    /\ proof \in {None} \cup Receipts
    /\ payload \in {None} \cup [receipt_root : Receipts, merkle_root : Receipts]
    /\ imported \in {None} \cup Receipts
    /\ checks \subseteq [receipt_root : Receipts, content : Receipts]
    /\ verification \in {None} \cup
          [ok : BOOLEAN, receipt_root : Receipts, recomputed_root : Receipts]
    /\ attached \subseteq Receipts /\ opened \in {None} \cup Receipts

(* While the receipt is the one the dialog was opened on, every root the     *)
(* dialog shows or exports is its root, and a result counts as imported only *)
(* if it names that very root: results of other receipts and of earlier      *)
(* dialogs are refused.                                                      *)
OneReceiptOneRoot ==
    open /\ opened # None =>
       /\ proof \in {None, shown} /\ imported \in {None, shown}
       /\ payload \in {None, [receipt_root |-> shown, merkle_root |-> shown]}

(* However often the panel replaces the receipt: a result that is shown as   *)
(* anchored names a root that was attached in this dialog. (Whether it was   *)
(* anchored is the word of whoever pasted the result.)                       *)
AnchoredWasAttached == open /\ imported # None => imported \in attached

(* However often the panel replaces the receipt, also between the request    *)
(* for a verification and its result: a receipt of the server never fails    *)
(* its verification.                                                         *)
NoFalseAlarm == verification # None => verification.ok

(* "Therefore it must match current evidence.anchor.merkle_root": the        *)
(* transaction shown as the anchor of a receipt claims the Merkle root shown *)
(* with it.                                                                  *)
AnchorMatchesCurrentRoot ==
    open /\ Anchor.onchain_anchor_status = "anchored" => Anchor.tx_hash = Anchor.merkle_root
===============================================================================
