------------------------------ MODULE CableLimit ------------------------------
(***************************************************************************)
(* Which raw motor position a commanded angle is turned into.              *)
(*                                                                         *)
(* A camera hangs on a cable, so the motor's step counter must stay within *)
(* Limit of mechanical zero (step 0).  Limit is a little more than half a  *)
(* revolution (190 of 360 degrees), so an angle can have one or two legal  *)
(* step positions and the shortest way there is not always legal.          *)
(* Positions are integers in any unit; Rev units make one revolution.      *)
(***************************************************************************)
EXTENDS Integers

CONSTANTS
  Rev,    (* motor positions in one output revolution   (360 degrees) *)
  Limit   (* furthest legal distance from zero          (190 degrees) *)

ASSUME CableAssumption ==
  /\ Rev \in Nat \ {0}
  /\ Limit \in Nat

Angles == 0 .. Rev - 1

\* std::round(n / d) for d > 0: to the nearest integer, halves away from zero.
RoundAway(n, d) ==
  IF n >= 0 THEN (2 * n + d) \div (2 * d) ELSE - ((d - 2 * n) \div (2 * d))

ShortestDelta(cur, angle) ==
  (angle - cur) - Rev * RoundAway(angle - cur, Rev)

WithinMotionLimit(s) == -Limit <= s /\ s <= Limit

\* Mutant: the long way down is tried before the short way.
CandidatesLongFirst(cur, angle) ==
  LET short == cur + ShortestDelta(cur, angle)
  IN  <<short - Rev, short, short + Rev>>

\* The candidates in the order they are tried: the shortest way, one
\* revolution less, one revolution more.
Candidates(cur, angle) ==
  LET short == cur + ShortestDelta(cur, angle)
  IN  <<short, short - Rev, short + Rev>>

\* Mutant: only the shortest way is considered.
LegalMotorStepsShortest(cur, angle) ==
  {s \in {Candidates(cur, angle)[1]} : WithinMotionLimit(s)}

\* The first legal candidate, or the empty set: the move is refused.
LegalMotorSteps(cur, angle) ==
  LET c     == Candidates(cur, angle)
      legal == {i \in 1 .. 3 : WithinMotionLimit(c[i])}
  IN  {c[i] : i \in {i \in legal : \A j \in legal : i <= j}}
==============================================================================
