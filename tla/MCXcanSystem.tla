---------------------------- MODULE MCXcanSystem ----------------------------
(* A signed file of two doublewords and an unsigned one of one, in a slot  *)
(* of two image pages of a doubleword; blocks of one doubleword.           *)
EXTENDS XcanSystem

CONSTANTS old, new, other, mixed

MCImages == {old, new, other, mixed}
MCLength == [i \in MCImages |-> IF i = new THEN 2 ELSE 1]
MCHeaderImages == {old, new, other}
MCSignedImages == {old, new}
MCFiles == {new, other}
=============================================================================
