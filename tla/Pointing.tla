------------------------------- MODULE Pointing -------------------------------
(***************************************************************************)
(* From the angles a client speaks of to the motor and back                *)
(* (src/main/RotatorHW.cpp: getPosition, the three put...Position calls,   *)
(* Sync, Reverse and homing).                                              *)
(*                                                                         *)
(* Four frames have to agree: the step counter, which knows the turn but   *)
(* not lost steps; the angle sensor, which knows the motor shaft but not   *)
(* the turn; the client's Position, which Sync and Reverse shift and       *)
(* mirror; and the camera, which hangs behind an imperfect gear.  A        *)
(* position is an integer, Rev of them to a turn of the output shaft and   *)
(* Period to a turn of the motor shaft.  A unit is coarser than what       *)
(* module Approach is about: a refined move ends where it should.          *)
(***************************************************************************)
EXTENDS CableLimit

CONSTANTS
  Period,       (* positions in one turn of the sensor        (36 degrees)  *)
  MaxBias,      (* bound on sensor minus counter                            *)
  FirstOffset,  (* positionOffsetToMechanicalPosition after a boot          *)
  GearError,    (* GearError[a]: camera angle minus sensor angle at a       *)
  Requests,     (* the angles clients name                                  *)
  Distances,    (* what clients ask Move for                                *)
  Jogs,         (* what a jog or a sensor sweep adds to the counter         *)
  Far,          (* bound on where jogs and sweeps take the counter          *)
  None

ASSUME PointingAssumption ==
  /\ Period \in Nat \ {0}
  /\ Rev % Period = 0
  /\ MaxBias \in Nat
  /\ 2 * MaxBias < Period
  /\ FirstOffset \in Int
  /\ GearError \in [Angles -> Int]
  /\ Requests \subseteq Angles
  /\ Distances \subseteq Int
  /\ Jogs \subseteq Int
  /\ Far \in Nat
  /\ 2 * Far <= 2 * Limit + Rev
  /\ Rev <= 2 * Limit
  /\ None \notin Int

VARIABLES
  steps,      (* the step counter                                          *)
  bias,       (* where the sensor sees the motor shaft, minus steps        *)
  direction,  (* getDirection(): Reverse against the nominal direction     *)
  offset,     (* positionOffsetToMechanicalPosition, never wrapped         *)
  target,     (* _targetPosition                                           *)
  outCal,     (* _outCalValid: the output correction has been measured     *)
  held,       (* _holdTargetSteps while holding is active, else None       *)
  asked       (* the mechanical angle the held move was to reach, or None  *)

vars == <<steps, bias, direction, offset, target, outCal, held, asked>>

Biases == -MaxBias .. MaxBias
Around(b) == {c \in Biases : b - 1 <= c /\ c <= b + 1}

TypeOK ==
  /\ steps \in Int
  /\ bias \in Biases
  /\ direction \in BOOLEAN
  /\ offset \in Int
  /\ target \in Angles
  /\ outCal \in BOOLEAN
  /\ held \in -Limit .. Limit \cup {None}
  /\ asked \in Angles \cup {None}

Init ==
  /\ steps = 0
  /\ bias \in Biases
  /\ direction \in BOOLEAN
  /\ offset = FirstOffset
  /\ target = 0
  /\ outCal \in BOOLEAN
  /\ held = 0
  /\ asked = None

Wrap(n) == n % Rev

------------------------------------------------------------------------------
(* The getters *)

Dir == IF direction THEN 1 ELSE -1

Sensor == steps + bias
MechanicalPosition == Wrap(steps)

\* Mutant: the difference of the two phases is not taken the short way.
FineUnwrapped == (Sensor % Period) - (MechanicalPosition % Period)

\* The sensor's phase minus the one the counter implies, the short way.
Fine ==
  LET half == Period \div 2
      diff == (Sensor % Period) - (MechanicalPosition % Period)
  IN  ((diff + half) % Period) - half

Position == Wrap(Dir * (MechanicalPosition + Fine) + offset)

\* Where the camera really points, in the mechanical frame.
Camera == Sensor + GearError[Wrap(Sensor)]

\* outputAngleCorrection; what is fitted is the gear's error.
Correction(a) == IF outCal THEN GearError[a] ELSE 0

\* Mutant: the direction is not undone.
ToMechanicalPlain(p) == Wrap(p - offset)

\* The inverse of Position.
ToMechanical(p) == Wrap(Dir * (p - offset))

------------------------------------------------------------------------------
(* Commanded moves *)

\* Mutant: the correction goes the wrong way.
CorrectedAdding(a) == Wrap(a + Correction(a))

\* Feed-forward: the sensor is sent where the camera will be right.
Corrected(a) == Wrap(a - Correction(a))

\* The open-loop move loses a step or not, and the refinement makes up for
\* it: the sensor ends at the goal, then it is held there.
MoveTo(goal) ==
  /\ bias' \in Around(bias)
  /\ steps' = goal - bias'
  /\ held' = goal

\* What the three calls share: a is the mechanical angle, t the TargetPosition.
\* Without a legal way to the corrected angle, nothing happens.
Command(a, t) ==
  \E goal \in LegalMotorSteps(steps, Corrected(a)) :
    /\ MoveTo(goal)
    /\ asked' = a
    /\ target' = t
    /\ UNCHANGED <<direction, offset, outCal>>

PutRelative ==
  \E d \in Distances :
    LET t == Wrap(Position + d) IN Command(ToMechanical(t), t)

PutAbsolute ==
  \E p \in Requests : Command(ToMechanical(p), p)

PutMechanical ==
  \E p \in Requests : Command(p, Wrap(Dir * p + offset))

\* holdTask makes up for a disturbance of the motor shaft, within the cable
\* limit.
HoldCorrects ==
  /\ held # None
  /\ bias' \in Around(bias)
  /\ steps' = held - bias'
  /\ WithinMotionLimit(steps')
  /\ UNCHANGED <<direction, offset, target, outCal, held, asked>>

------------------------------------------------------------------------------
(* The frame of the client *)

\* The new offset refers to the counter, although Position adds Fine.
Sync ==
  /\ \E p \in Requests : offset' = p - Dir * MechanicalPosition
  /\ asked' = None
  /\ UNCHANGED <<steps, bias, direction, target, outCal, held>>

\* putReverse and putNominalClockwise.  A move's target is in the old frame.
PutDirection ==
  /\ direction' \in BOOLEAN \ {direction}
  /\ asked' = None
  /\ UNCHANGED <<steps, bias, offset, target, outCal, held>>

------------------------------------------------------------------------------
(* Everything else that drives the motor *)

\* The index is found and the sensor's zero put next to it: counter zero.
Home ==
  /\ steps' = 0
  /\ bias' \in Biases
  /\ held' = 0
  /\ asked' = None
  /\ UNCHANGED <<direction, offset, target, outCal>>

\* jogMicrosteps, and calibrateAngleSensor, which ends two motor turns ahead:
\* no limit, and nothing holds the motor afterwards.
Jog ==
  /\ \E d \in Jogs : steps' = steps + d
  /\ -Far <= steps' /\ steps' <= Far
  /\ held' = None
  /\ asked' = None
  /\ UNCHANGED <<bias, direction, offset, target, outCal>>

\* One full step, which the counter takes for a microstep.
AlignToFullStep ==
  /\ bias < MaxBias
  /\ bias' = bias + 1
  /\ held' = None
  /\ asked' = None
  /\ UNCHANGED <<steps, direction, offset, target, outCal>>

\* The last step of calibrateOutputAngle, whose 164 moves are PutMechanical:
\* the fitted correction is in force from the next move on.
StoreOutputCorrection ==
  /\ held # None
  /\ outCal' = TRUE
  /\ asked' = None
  /\ UNCHANGED <<steps, bias, direction, offset, target, held>>

------------------------------------------------------------------------------

Next ==
  \/ PutRelative \/ PutAbsolute \/ PutMechanical \/ HoldCorrects
  \/ Sync \/ PutDirection
  \/ Home \/ Jog \/ AlignToFullStep \/ StoreOutputCorrection

Spec == Init /\ [][Next]_vars

------------------------------------------------------------------------------
(* Properties *)

Distance(a, b) == IF a < b THEN b - a ELSE a - b

\* A held move has arrived, in the client's own terms, through Sync, Reverse
\* and lost steps: Position is TargetPosition (getPosition and the three
\* calls are each other's inverse, RotatorHW.cpp:1823-1828).
ArrivesAtTarget ==
  asked # None /\ ~outCal => Position = target

\* Position follows the sensor, not the counter, and by less than half a
\* motor turn, "never a bin-sized jump" (RotatorHW.cpp:1802-1822).
PositionFollowsSensor == Position = Wrap(Dir * Sensor + offset)

\* No angle is ever out of reach "regardless of current position"
\* (scripts/alpaca_conformance.py:269), even from where jogs and sweeps have
\* left the motor, up to Far.
NeverRefused == \A a \in Angles : LegalMotorSteps(steps, a) # {}

\* The long way round is taken only where the short one is not legal: no
\* legal position for the same angle is nearer (RotatorHW.cpp:1873-1881).
ShortestLegalWay ==
  \A a \in Angles : \A s \in LegalMotorSteps(steps, a) :
    \A other \in {s - Rev, s + Rev} :
      WithinMotionLimit(other) => Distance(steps, s) <= Distance(steps, other)

\* "The output shaft ends up at target" (RotatorHW.cpp:1914-1918): with the
\* correction, a held move leaves the camera within one unit of the angle
\* that was asked for.
CameraEndsAtTarget ==
  asked # None /\ outCal =>
    Wrap(Camera - asked + 1) \in 0 .. 2
==============================================================================
