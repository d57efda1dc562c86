----------------------------- MODULE MCSessionReceipt -----------------------------
(* Two sessions: one works, and the first file it changes has a name that   *)
(* git quotes; the other is empty.                                           *)
EXTENDS SessionReceipt

CONSTANTS Busy, Other

MCSessions == {Busy, Other}
MCBefore == [s \in MCSessions |-> 0]
MCChanges == [s \in MCSessions |-> IF s = Busy THEN 2 ELSE 0]
MCFilesOf == [v \in 0 .. 2 |-> v]
MCEmptyDiffs == {0}
MCQuotedNames == {<<Busy, 1>>}
MCModes == {"git", "turn"}
MCTrees == {0, 1}
===============================================================================
