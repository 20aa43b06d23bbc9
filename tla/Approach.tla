------------------------------- MODULE Approach -------------------------------
(***************************************************************************)
(* The one-sided approach: RotatorHW::refineToTarget, which settles the    *)
(* motor after an open-loop move, and the control law of RotatorHW's       *)
(* holdTask, which keeps it there.                                         *)
(*                                                                         *)
(* The angle sensor sits on the motor shaft; the camera hangs behind a     *)
(* gear with slack.  Neither loop can see on which side of the slack the   *)
(* output rests, so both only ever approach from below: a motor that is    *)
(* too high is taken Margin below the target and brought up again.         *)
(*                                                                         *)
(* Angles are integers in units of the tolerance's grain; the gains are    *)
(* the code's, kP = 18/20 and kI = 3/20.  The Kalman filter is any mixture *)
(* of its prediction and the measurement.                                  *)
(***************************************************************************)
EXTENDS CableLimit

CONSTANTS
  Tolerance,      (* toleranceDeg                                   (0.01) *)
  Band,           (* integralBandDeg                                (0.05) *)
  Margin,         (* BACKLASH_APPROACH_DEG                          (0.15) *)
  MaxIterations,  (* maxIterations                                    (20) *)
  MaxBackOffs,    (* maxBackOffs                                       (3) *)
  Backlash,       (* the slack of the gear                         (0.064) *)
  Noise,          (* bound on the error of a measurement                   *)
  Landing,        (* bound on how far the open-loop move misses            *)
  Targets,        (* the legal positions moved to                          *)
  MaxDrifts       (* bound on the disturbances while holding               *)

ASSUME ApproachAssumption ==
  /\ Tolerance \in Nat \ {0}
  /\ {Band, Margin, MaxIterations, MaxBackOffs, Backlash} \subseteq Nat
  /\ {Noise, Landing, MaxDrifts} \subseteq Nat
  /\ Targets \subseteq -Limit .. Limit

VARIABLES
  phase,     (* "start", "refine", how refining ended, or "hold"            *)
  target,    (* the commanded position                                     *)
  counter,   (* the step counter: the sum of what was commanded            *)
  motor,     (* where the motor shaft really is                            *)
  play,      (* the slack in front of the gear: 0 when it is all taken up  *)
  x,         (* kf.x, the estimate of motor                                *)
  integral,  (* the controller's integral                                  *)
  iter,      (* iterations used                                            *)
  backOffs,  (* back-offs used                                             *)
  lastUp,    (* the last motor command was positive                        *)
  drifts     (* disturbances so far                                        *)

control == <<x, integral>>
budget  == <<iter, backOffs>>
approachVars ==
  <<phase, target, counter, motor, play, control, budget, lastUp, drifts>>

Ended == {"converged", "gaveUp", "exhausted"}
Around(p, r) == p - r .. p + r
Lesser(a, b) == IF a < b THEN a ELSE b
Greater(a, b) == IF a > b THEN a ELSE b
Mix(a, b) == Lesser(a, b) .. Greater(a, b)

ApproachTypeOK ==
  /\ phase \in {"start", "refine", "hold"} \cup Ended
  /\ target \in Targets
  /\ counter \in Int
  /\ motor \in Int
  /\ play \in 0 .. Backlash
  /\ x \in Int
  /\ integral \in Nat
  /\ iter \in 0 .. MaxIterations
  /\ backOffs \in 0 .. Greater(MaxBackOffs, 1)
  /\ lastUp \in BOOLEAN
  /\ drifts \in 0 .. MaxDrifts

\* The open-loop move is over, from either side, and the estimate is seeded.
ApproachInit ==
  /\ phase = "start"
  /\ target \in Targets
  /\ counter = target
  /\ motor \in Around(target, Landing)
  /\ play \in {0, Backlash}
  /\ lastUp = (play = 0)
  /\ x \in Around(motor, Noise)
  /\ integral = 0
  /\ iter = 0
  /\ backOffs = 0
  /\ drifts = 0

Error == target - x

------------------------------------------------------------------------------
(* What a motor command does to the gear train *)

\* The motor shaft turns by d: slack closes when it comes up, and opens when
\* it goes down.
Turn(d) ==
  /\ motor' = motor + d
  /\ play' = IF d >= 0 THEN Greater(0, play - d) ELSE Lesser(Backlash, play - d)

\* The motor is told to move by d.
Move(d) ==
  /\ counter' = counter + d
  /\ Turn(d)
  /\ lastUp' = (d > 0)

\* Mutant: the margin is no larger than the slack it is to take up.
ReseedAfterMoveShort ==
  /\ Move((target - Backlash \div 2) - x)
  /\ x' \in Around(motor', Noise)
  /\ integral' = 0

\* Go below the target and start over with a fresh measurement.
ReseedAfterMove ==
  /\ Move((target - Margin) - x)
  /\ x' \in Around(motor', Noise)
  /\ integral' = 0

\* Mutant: the filter is not told that the motor was moved.
FilterUnpredicted(d) ==
  \E m \in Around(motor', Noise) : x' \in Mix(x, m)

\* A quarter, rounded towards zero.
Quarter(n) == IF n >= 0 THEN n \div 4 ELSE -((-n) \div 4)

\* The filter predicts the commanded motion and mixes a measurement in; its
\* gain falls from nearly one towards 0.27, the fixed point for its Q and R.
Filter(d) ==
  \E m \in Around(motor', Noise) :
    LET predicted == x + d
    IN  x' \in Mix(predicted + Quarter(m - predicted), m)

------------------------------------------------------------------------------
(* refineToTarget *)

\* Start below the target, unless the open-loop move landed there already.
Start ==
  /\ phase = "start"
  /\ phase' = "refine"
  /\ IF x > target - Tolerance
       THEN ReseedAfterMove /\ backOffs' = backOffs + 1
       ELSE UNCHANGED <<counter, motor, play, lastUp, control, backOffs>>
  /\ UNCHANGED <<target, iter, drifts>>

Refining == phase = "refine" /\ iter < MaxIterations

Converge ==
  /\ Refining
  /\ -Tolerance < Error /\ Error < Tolerance
  /\ phase' = "converged"
  /\ UNCHANGED <<target, counter, motor, play, control, budget, lastUp, drifts>>

\* Overshot: come at it from below again, a few times at most.
BackOff ==
  /\ Refining
  /\ Error <= -Tolerance
  /\ iter' = iter + 1
  /\ IF backOffs < MaxBackOffs
       THEN ReseedAfterMove /\ backOffs' = backOffs + 1 /\ UNCHANGED phase
       ELSE /\ phase' = "gaveUp"
            /\ UNCHANGED <<counter, motor, play, lastUp, control, backOffs>>
  /\ UNCHANGED <<target, drifts>>

Wanted(i) == RoundAway(18 * Error + 3 * i, 20)

\* A correction is never less than one step up; the error is only
\* integrated once it is small.
Correct ==
  /\ Refining
  /\ Error >= Tolerance
  /\ integral' = integral + IF Error < Band THEN Error ELSE 0
  /\ LET d == Greater(1, Wanted(integral'))
     IN  Move(d) /\ Filter(d)
  /\ iter' = iter + 1
  /\ UNCHANGED <<phase, target, backOffs, drifts>>

Exhaust ==
  /\ phase = "refine"
  /\ iter = MaxIterations
  /\ phase' = "exhausted"
  /\ UNCHANGED <<target, counter, motor, play, control, budget, lastUp, drifts>>

------------------------------------------------------------------------------
(* holdTask *)

\* The move returns and holding is engaged: seed the estimate.
Seed ==
  /\ phase \in Ended
  /\ phase' = "hold"
  /\ x' \in Around(motor, Noise)
  /\ integral' = 0
  /\ iter' = 0
  /\ backOffs' = 0
  /\ UNCHANGED <<target, counter, motor, play, lastUp, drifts>>

\* Something turns the motor shaft, by a margin at most.
Drift ==
  /\ phase = "hold"
  /\ drifts < MaxDrifts
  /\ drifts' = drifts + 1
  /\ \E d \in -Margin .. Margin : Turn(d)
  /\ UNCHANGED <<phase, target, counter, control, budget, lastUp>>

\* Mutant: whatever is out of tolerance is drift.
AgainstBacklashWithinTolerance == Error < 0 /\ -Error < Tolerance

\* Too high, but by less than the margin: slack, not drift.
AgainstBacklash == Error < 0 /\ -Error < Margin

\* Mutant: the integral is fed by slack as well.
HoldIntegralOfSlack ==
  IF -Band < Error /\ Error < Band THEN integral + Error ELSE integral

HoldIntegral ==
  IF ~AgainstBacklash /\ -Band < Error /\ Error < Band
    THEN integral + Error ELSE integral

\* Mutant: every downward correction is made.
HoldControlBothWays(i) ==
  LET c == 18 * Error + 3 * i
  IN  IF -20 * Tolerance < c /\ c < 20 * Tolerance THEN 0 ELSE RoundAway(c, 20)

\* Mutant: whatever is above the target is taken for slack.
HoldControlNeverDown(i) ==
  LET c == IF Error < 0 THEN 0 ELSE 18 * Error + 3 * i
  IN  IF c < 20 * Tolerance THEN 0 ELSE RoundAway(c, 20)

\* What the controller asks for: nothing below the tolerance, and below the
\* target rather than downwards.
HoldControl(i) ==
  LET c == IF AgainstBacklash THEN 0 ELSE 18 * Error + 3 * i
      d == IF -20 * Tolerance < c /\ c < 20 * Tolerance
             THEN 0 ELSE RoundAway(c, 20)
  IN  IF d < 0 THEN (target - Margin) - x ELSE d

\* One cycle; a correction that would leave the cable limit is not made.
HoldControlCycle ==
  /\ phase = "hold"
  /\ LET wanted == HoldControl(HoldIntegral)
         d == IF WithinMotionLimit(counter + wanted) THEN wanted ELSE 0
     IN  /\ IF d = 0 THEN UNCHANGED <<counter, motor, play, lastUp>> ELSE Move(d)
         /\ Filter(d)
         /\ integral' = IF wanted < 0 THEN 0 ELSE HoldIntegral
  /\ UNCHANGED <<phase, target, budget, drifts>>

------------------------------------------------------------------------------

Refine == Start \/ Converge \/ BackOff \/ Correct \/ Exhaust

ApproachNext == Refine \/ Seed \/ Drift \/ HoldControlCycle

\* holdTask's clock never stops; nothing obliges a disturbance to happen.
ApproachSpec == ApproachInit /\ [][ApproachNext]_approachVars
ApproachFairSpec ==
  ApproachSpec /\ WF_approachVars(Refine \/ Seed \/ HoldControlCycle)

------------------------------------------------------------------------------
(* Properties *)

\* "A single back-off always re-takes it up" (RotatorHW.cpp:153-154): after
\* one, a converged refinement leaves no slack in front of the gear.
BackOffTakesUpSlack == phase = "converged" /\ backOffs > 0 => play = 0

\* Settled where it was sent, whether the estimate says so or the back-offs
\* ran out: refineToTarget's tolerance and its overshoot limit.
RefineEndsNear ==
  phase \in {"converged", "gaveUp"} =>
    motor \in (target - Tolerance) - Noise + 1 .. target + Tolerance + Noise

\* Holding ends near the target, above it rather than below: what it lets
\* stand is slack, less than the margin (holdTask's one-sided rule).
HoldSettles ==
  <>[](/\ phase = "hold"
       /\ motor \in target - Tolerance .. target + Margin + Noise - 1)

\* Holding does not chatter: noise alone stops moving the motor, though the
\* integral it feeds only ever grows (holdTask, toleranceDeg).
HoldComesToRest == <>[][UNCHANGED motor]_approachVars

\* While nothing turns the shaft, holding never takes the motor down: the
\* integral that noise feeds does not lift it so far above its target that
\* the way back leads a margin below (holdTask's one-sided correction).
HoldNeverBacksOff ==
  [][phase = "hold" /\ drifts' = 0 => motor' >= motor]_approachVars

\* Drift past the target ends with a move below it, "so the cycles that follow
\* come back up and leave the gear train loaded" (RotatorHW.cpp:1734-1737):
\* after holding has taken the motor down, the slack ends up taken up.
HoldLeavesGearLoaded == phase = "hold" /\ ~lastUp ~> play = 0
==============================================================================
