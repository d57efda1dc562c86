---------------------------- MODULE WriteOnceHistory ----------------------------
(***************************************************************************)
(* What a chain of roots promises: a register that is written once for     *)
(* each root. Whoever learns which checkpoint a root names, and whenever,  *)
(* learns the same.                                                        *)
(***************************************************************************)

CONSTANT Checkpoints

VARIABLE known    \* the checkpoints learnt so far, at most one for each root

Init == known = {}

Learn(c) ==
    /\ \A k \in known : k.checkpoint_root # c.checkpoint_root
    /\ known' = known \cup {c}

Next == \E c \in known' \cap Checkpoints : Learn(c)

Spec == Init /\ [][Next]_known

===============================================================================
