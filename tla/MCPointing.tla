------------------------------ MODULE MCPointing ------------------------------
(***************************************************************************)
(* Pointing for TLC: a turn of twelve units, three turns of the motor to   *)
(* one of the output shaft, and a cable limit that gives three angles two  *)
(* legal positions each.                                                   *)
(***************************************************************************)
EXTENDS Pointing

\* An error of up to two units that changes slowly.
MCGearError ==
  [a \in Angles |-> CASE a \in 4 .. 7 -> 2
                     [] a \in {2, 3, 8, 9} -> 1
                     [] OTHER -> 0]

MCRequests == {0, 4, 7}
MCDistances == {-5, 1}
MCJogs == {-3, 3}
==============================================================================
