---------------------------- MODULE MCSwapOffset ----------------------------
(* A slot of four image pages; an installed image, two updates, one that   *)
(* is not signed.                                                          *)
EXTENDS SwapOffset

CONSTANTS old, new, newer, unsigned

MCImages == {old, new, newer, unsigned}
MCSignedImages == {old, new, newer}
MCUpdates == {new, newer, unsigned}

(* An update may be two pages longer than what runs, not two shorter.      *)
NearSizes == [i \in MCImages |-> CASE i = old -> 2 [] i = new -> 4 [] OTHER -> 3]
(* An update that is two pages shorter.                                    *)
FarSizes == [i \in MCImages |-> IF i = old THEN 4 ELSE 2]
=============================================================================
