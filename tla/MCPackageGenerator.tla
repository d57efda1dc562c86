---------------------------- MODULE MCPackageGenerator ----------------------------
(* Four versions of the sources. The second changes texts of the contract,   *)
(* which no pin covers; the third both files and their pins; the fourth      *)
(* forgot a pin. Generated files are also edited by hand (content 14 is no   *)
(* generation's), with the pinned fields left as they are.                   *)
EXTENDS PackageGenerator

MCContract == <<1, 2, 3, 1>>
MCDatum == <<11, 11, 13, 13>>

(* Contents 3 and 13 carry the identity of the third version, all others that of the first. *)
MCPin == [bytes \in {1, 2, 3, 11, 13, 14} |-> IF bytes \in {3, 13} THEN "new" ELSE "old"]
===============================================================================
