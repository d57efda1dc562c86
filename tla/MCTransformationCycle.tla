------------------------- MODULE MCTransformationCycle -------------------------
(* TransformationCycle on a small instance: every node is named after the    *)
(* result recomputed for it, and one node cannot be recomputed.              *)
EXTENDS TransformationCycle

CONSTANT Broken

MCNodes == [normative : Values, stability : Values, forbidden : Values, allowed : Values]
              \cup {Broken}

MCRecompute == [n \in MCNodes |-> IF n = Broken THEN Unresolved ELSE n]
===============================================================================
