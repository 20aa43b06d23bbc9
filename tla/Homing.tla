-------------------------------- MODULE Homing --------------------------------
(***************************************************************************)
(* Finding mechanical zero (RotatorHW::gotoMechanicalZero and              *)
(* sweepUntilHallChange in src/main/RotatorHW.cpp).                        *)
(*                                                                         *)
(* Once per turn of the output there is a window in which the Hall sensor  *)
(* is active; the angle sensor on the motor shaft knows the position       *)
(* within a motor turn.  Homing sweeps counter-clockwise, then clockwise,  *)
(* until it is in the window, moves to the stored sensor value of zero,    *)
(* and looks whether it is still in the window.                            *)
(*                                                                         *)
(* Positions are counted along the cable: 0 is the zero the cable was      *)
(* mounted at, and every Turn further the window comes again.  In units of *)
(* 2048 microsteps the constants of the code are Turn = 250, Rev = 25,     *)
(* Chunk = 2, Debounce = 1 and Limit = 131.  The Hall input can glitch;    *)
(* MaxGlitches and MaxHomings bound the runs.                              *)
(***************************************************************************)
EXTENDS Integers

CONSTANTS
  Turn,        (* one turn of the output                                *)
  Rev,         (* one turn of the motor                                 *)
  Chunk,       (* SECTOR_SEARCH_CHUNK                                   *)
  Debounce,    (* DEBOUNCE_STEPS                                        *)
  Limit,       (* MOTION_LIMIT_STEPS                                    *)
  Low, High,   (* the window reaches from zero - Low to zero + High     *)
  MaxAttempts, (* MAX_ATTEMPTS                                          *)
  MaxGlitches, (* bound: wrong readings of the Hall sensor              *)
  MaxHomings   (* bound: homings                                        *)

ASSUME HomingAssumption ==
  /\ Rev \in Nat \ {0}
  /\ Turn \in Nat \ {0} /\ Turn % Rev = 0
  /\ Chunk \in Nat \ {0} /\ Debounce \in Nat /\ Limit \in Nat
  /\ Low \in Nat /\ High \in Nat
  /\ Low + High < Rev
  /\ MaxAttempts \in Nat /\ MaxGlitches \in Nat /\ MaxHomings \in Nat

VARIABLES
  at,         (* where the output is, along the cable                   *)
  origin,     (* where the step counter is 0                            *)
  phase,      (* where gotoMechanicalZero is                            *)
  attempt,
  start,      (* searchStartSteps                                       *)
  direction,  (* of the sweep                                           *)
  traveled,
  startState, (* the Hall state a sweep began in                        *)
  viaCCW,     (* foundViaCCW                                            *)
  began,      (* where this homing began                                *)
  glitches,   (* wrong readings so far                                  *)
  misled,     (* the reading that ended this homing was wrong           *)
  homings

place  == <<at, origin>>
sweep  == <<direction, traveled, startState>>
hall   == <<glitches, misled>>
vars == <<place, sweep, hall, phase, attempt, start, viaCCW, began, homings>>

Phases ==
  {"lost", "homed", "aborted", "look", "first", "chunk", "confirm", "direct",
   "land"}

TypeOK ==
  /\ at \in Int /\ origin \in Int /\ start \in Int /\ began \in Int
  /\ phase \in Phases
  /\ attempt \in Nat
  /\ direction \in {-1, 1}
  /\ traveled \in Nat
  /\ startState \in BOOLEAN
  /\ viaCCW \in BOOLEAN
  /\ glitches \in Nat
  /\ misled \in BOOLEAN
  /\ homings \in Nat

\* Power-on: the output stands where normal operation left it, and the
\* counter is 0 there.
Init ==
  /\ at \in -Limit .. Limit
  /\ origin = at
  /\ phase = "lost"
  /\ attempt = 0
  /\ start = 0
  /\ direction = -1
  /\ traveled = 0
  /\ startState = FALSE
  /\ viaCCW = TRUE
  /\ began = at
  /\ glitches = 0
  /\ misled = FALSE
  /\ homings = 0

------------------------------------------------------------------------------
(* The sensors *)

\* The position within a turn, taken from -Turn \div 2.
InTurn(p) == ((p + (Turn \div 2)) % Turn) - (Turn \div 2)

\* The Hall sensor is active (its input is low).
InWindow(p) == InTurn(p) \in -Low .. High

\* What a reading can say at p, wrong ones counted.
Reads(p, active) ==
  IF active = InWindow(p) THEN glitches' = glitches
  ELSE glitches < MaxGlitches /\ glitches' = glitches + 1

\* The angle sensor, as far as it is from its value at zero.
Phase(p) == p % Rev

\* deltaSensorPos: on in the direction the window was found in, less three
\* counts.  At zero, give or take those counts and the noise, FMOD4096 makes
\* of it next to nothing or next to a whole motor turn.
Direct(p, ccw) ==
  CASE ccw  -> {-Phase(p)} \cup (IF Phase(p) = 0 THEN {-Rev} ELSE {})
    [] ~ccw -> {(-p) % Rev} \cup (IF Phase(p) = 0 THEN {Rev} ELSE {})

------------------------------------------------------------------------------
(* gotoMechanicalZero *)

\* Mutant: search a whole turn each way.
BudgetFullTurn == Turn

\* SECTOR_SEARCH_BUDGET
Budget == Limit

\* At boot, or by command: the next attempt begins.
Home ==
  /\ phase \in {"lost", "homed", "aborted"}
  /\ homings < MaxHomings
  /\ homings' = homings + 1
  /\ phase' = "look"
  /\ attempt' = 1
  /\ start' = at - origin
  /\ began' = at
  /\ misled' = FALSE
  /\ UNCHANGED <<place, sweep, viaCCW, glitches>>

\* Is it in the window already?
Look ==
  /\ phase = "look"
  /\ viaCCW' = TRUE
  /\ \E active \in BOOLEAN :
       /\ Reads(at, active)
       /\ phase' = IF active THEN "direct" ELSE "first"
  /\ direction' = -1
  /\ UNCHANGED <<place, traveled, startState, misled, attempt, start, began, homings>>

\* sweepUntilHallChange: the state it waits to change.
First ==
  /\ phase = "first"
  /\ \E active \in BOOLEAN : Reads(at, active) /\ startState' = active
  /\ traveled' = 0
  /\ phase' = "chunk"
  /\ UNCHANGED <<place, direction, misled, attempt, start, viaCCW, began, homings>>

\* One chunk further, and a look.
Sweep ==
  /\ phase = "chunk"
  /\ traveled < Budget
  /\ at' = at + direction * Chunk
  /\ traveled' = traveled + Chunk
  /\ \E active \in BOOLEAN :
       /\ Reads(at', active)
       /\ phase' = IF active # startState THEN "confirm" ELSE "chunk"
  /\ UNCHANGED <<origin, direction, startState, misled, attempt, start, viaCCW,
                 began, homings>>

\* The change has to be there still a little further on.
Confirm ==
  /\ phase = "confirm"
  /\ at' = at + direction * Debounce
  /\ traveled' = traveled + Debounce
  /\ \E active \in BOOLEAN :
       /\ Reads(at', active)
       /\ phase' = IF active # startState THEN "direct" ELSE "chunk"
       /\ viaCCW' = IF active # startState THEN direction = -1 ELSE viaCCW
  /\ UNCHANGED <<origin, direction, startState, misled, attempt, start, began, homings>>

\* Mutant: the second sweep begins where the first one stopped.
GiveUpAndStay ==
  /\ phase = "chunk"
  /\ traveled >= Budget
  /\ IF direction = -1
     THEN phase' = "first" /\ direction' = 1
     ELSE phase' = "aborted" /\ UNCHANGED direction
  /\ UNCHANGED <<place, traveled, startState, hall, attempt, start, viaCCW,
                 began, homings>>

\* The budget is used up: back to where the attempt began and the other way,
\* or homing is aborted.
GiveUp ==
  /\ phase = "chunk"
  /\ traveled >= Budget
  /\ IF direction = -1
     THEN at' = origin + start /\ phase' = "first" /\ direction' = 1
     ELSE phase' = "aborted" /\ UNCHANGED <<at, direction>>
  /\ UNCHANGED <<origin, traveled, startState, hall, attempt, start, viaCCW,
                 began, homings>>

\* One move to the sensor's value at zero.
MoveToZero ==
  /\ phase = "direct"
  /\ \E delta \in Direct(at, viaCCW) : at' = at + delta
  /\ phase' = "land"
  /\ UNCHANGED <<origin, sweep, hall, attempt, start, viaCCW, began, homings>>

\* Mutant: where it landed is not looked at.
LandUnseen ==
  /\ phase = "land"
  /\ phase' = "homed"
  /\ origin' = at
  /\ UNCHANGED <<at, sweep, hall, attempt, start, viaCCW, began, homings>>

\* In the window: the counter is set to 0.  Otherwise another attempt, or
\* homing is aborted.
Land ==
  /\ phase = "land"
  /\ \E active \in BOOLEAN :
       /\ Reads(at, active)
       /\ misled' = (active # InWindow(at))
       /\ \/ /\ active
             /\ phase' = "homed"
             /\ origin' = at
             /\ UNCHANGED <<attempt, start>>
          \/ /\ ~active
             /\ attempt < MaxAttempts
             /\ phase' = "look"
             /\ attempt' = attempt + 1
             /\ start' = at - origin
             /\ UNCHANGED origin
          \/ /\ ~active
             /\ attempt >= MaxAttempts
             /\ phase' = "aborted"
             /\ UNCHANGED <<origin, attempt, start>>
  /\ UNCHANGED <<at, sweep, viaCCW, began, homings>>

------------------------------------------------------------------------------

\* Commanded moves stay within the limit of the counter; one from zero stands
\* for all that follow a homing.
Drive ==
  /\ phase = "homed"
  /\ at = origin
  /\ homings < MaxHomings
  /\ \E p \in -Limit .. Limit : at' = origin + p
  /\ UNCHANGED <<origin, sweep, hall, phase, attempt, start, viaCCW, began, homings>>

\* The chip restarts, at any time: the counter is 0 wherever that was.
Restart ==
  /\ homings < MaxHomings
  /\ phase \notin {"lost"}
  /\ phase' = "lost"
  /\ origin' = at
  /\ UNCHANGED <<at, sweep, hall, attempt, start, viaCCW, began, homings>>

Next ==
  \/ Home \/ Look \/ First \/ Sweep \/ Confirm \/ GiveUp \/ MoveToZero \/ Land
  \/ Drive \/ Restart

Spec == Init /\ [][Next]_vars

------------------------------------------------------------------------------
(* Properties *)

Idle == {"lost", "homed", "aborted"}

\* A homing that succeeded stands on the index, in this turn of the cable or
\* another, and not a motor turn beside it, whatever the Hall input did
\* before the one reading that ended it.
ZeroIsTheIndex ==
  phase = "homed" /\ ~misled => origin % Turn = 0

\* Without glitches homing does not give up, wherever it begins: also not
\* directly on zero, or at the edge of the window.
AbortsOnlyOnGlitches == phase = "aborted" => glitches > 0

\* How far a sweep can get.
Reach == Limit + Chunk + Debounce

\* Without glitches, and from where the sweep cannot get to the window of the
\* turn below: zero is found in the turn homing began in, and on the way the
\* output is never further from where it began than one sweep and one motor
\* turn.
StaysInItsTurn ==
  glitches = 0 /\ InTurn(began) > Reach + High - Turn =>
    /\ phase = "homed" => origin = began - InTurn(began)
    /\ phase \notin Idle => at - began \in -(Reach + Rev) .. Reach + Rev

\* The comment on MOTION_LIMIT_DEG: the rotator is never commanded further
\* than the limit from mechanical zero, and the search keeps to it.
HomesWithinLimit ==
  glitches = 0 /\ phase = "homed" => at \in -Limit .. Limit
===============================================================================
