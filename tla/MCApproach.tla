------------------------------ MODULE MCApproach ------------------------------
(***************************************************************************)
(* Approach for TLC: a target in the middle of the cable's range, where    *)
(* the limit does not interfere.                                           *)
(***************************************************************************)
EXTENDS Approach

MCMiddle == {0}
==============================================================================
