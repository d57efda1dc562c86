----------------------------- MODULE MCReceiptExplorer -----------------------------
(* Two sessions, one of which moves on once: three receipts. *)
EXTENDS ReceiptExplorer

CONSTANTS a, b

MCReceipts == {[session |-> a, messages |-> 0], [session |-> a, messages |-> 1],
               [session |-> b, messages |-> 0]}
===============================================================================
