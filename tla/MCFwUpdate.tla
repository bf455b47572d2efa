----------------------------- MODULE MCFwUpdate -----------------------------
(* A slot of four pages of two doublewords: a spare page, two image pages, *)
(* the trailer.  An installed image, an update that fills the slot, data   *)
(* with a header but no signature, data without a header.                  *)
EXTENDS FwUpdate

CONSTANTS old, new, unsigned

MCImages == {old, new, unsigned}
MCLength == [i \in MCImages |-> IF i = new THEN 4 ELSE 3]
MCHeaderImages == MCImages
MCSignedImages == {old, new}
=============================================================================
