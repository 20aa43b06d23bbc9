------------------------------- MODULE TwoState -------------------------------
(***************************************************************************)
(* What the motion layer promises (RotatorHW.h:389-394, the "two-state     *)
(* motion model"): the motor is driven by one commanded operation, or it   *)
(* is held at a legal target, or it is left alone.  A motor left alone     *)
(* does not move, and a held one moves only to legal positions.            *)
(***************************************************************************)
EXTENDS Integers

CONSTANT Limit

VARIABLES
  mode,      (* "idle", "driven" or "held"                     *)
  position,  (* the motor's step position                      *)
  anchor     (* the position a held motor is held at           *)

vars == <<mode, position, anchor>>

Legal == -Limit .. Limit

Init ==
  /\ mode = "idle"
  /\ position = 0
  /\ anchor = 0

\* A commanded operation takes the motor.
Take ==
  /\ mode \in {"idle", "held"}
  /\ mode' = "driven"
  /\ UNCHANGED <<position, anchor>>

\* Only a driven motor may go anywhere, or get a new anchor.
Drive ==
  /\ mode = "driven"
  /\ position' \in Int
  /\ anchor' \in Legal
  /\ UNCHANGED mode

\* The operation ends: the motor is held at the anchor, or left alone.
Leave ==
  /\ mode = "driven"
  /\ mode' \in {"idle", "held"}
  /\ UNCHANGED <<position, anchor>>

\* A correction while holding.
Correct ==
  /\ mode = "held"
  /\ position' \in Legal
  /\ UNCHANGED <<mode, anchor>>

Next == Take \/ Drive \/ Leave \/ Correct

Spec == Init /\ [][Next]_vars
==============================================================================
