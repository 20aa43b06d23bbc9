-------------------------------- MODULE Motion --------------------------------
(***************************************************************************)
(* The tasks that share the rotator's motor (src/main/RotatorHW.cpp).      *)
(*                                                                         *)
(* Every routine that drives the motor takes motionMutex as its first      *)
(* statement and keeps it until it returns (MotionLock).  The tasks that   *)
(* call those routines are app_main (homing, once, at the end of boot),    *)
(* the HTTP server's single task (every Alpaca and debug request) and the  *)
(* calibration worker.  A fourth task, holdTask, keeps correcting drift    *)
(* while holding is engaged; it only ever tries to take the mutex.         *)
(*                                                                         *)
(* One run of a motor command (MOVE_WAIT, MOVETO_WAIT, forwardStep) is one *)
(* step.  What the closed-loop refinement and the homing search compute is *)
(* left open here: a correction goes anywhere within Slack of its goal     *)
(* (module Approach has the control law), a search anywhere.               *)
(***************************************************************************)
EXTENDS CableLimit

CONSTANTS
  Tasks,        (* the tasks that call RotatorHW                            *)
  BootTask,     (* the task that homes the rotator at boot                  *)
  CanRun,       (* CanRun[t]: the operations task t calls                   *)
  Hold,         (* holdTask, as an owner of the mutex                       *)
  Free,         (* the mutex has no owner                                   *)
  NoEstimate,   (* holdTask has no position estimate (haveEstimate = false) *)
  Slack,        (* bound on how far a correction strays from its goal       *)
  Lowest,       (* bound: the step counter stays at or above this           *)
  Highest,      (* bound: ... and at or below this                          *)
  MaxCommands   (* bound on the motor commands of one operation             *)

\* jogMicrosteps, alignToFullStep, stressFullStepI2C, measureMechanicalZero
\* and calibrateAngleSensor: they leave the motor where it stops, unheld.
Maintenance == {"jog", "align", "stress", "zero", "sensor"}
Ops == {"move", "home", "halt"} \cup Maintenance

ASSUME MotionAssumption ==
  /\ BootTask \in Tasks
  /\ CanRun \in [Tasks -> SUBSET Ops]
  /\ Hold \notin Tasks
  /\ Free \notin Tasks \cup {Hold}
  /\ NoEstimate \notin Int
  /\ Slack \in Nat
  /\ Lowest \in Int
  /\ Highest \in Int
  /\ MaxCommands \in Nat \ {0}

VARIABLES
  pc,          (* pc[t]: where task t is                                 *)
  op,          (* op[t]: the operation task t is running, "none"         *)
  mutex,       (* the owner of motionMutex                               *)
  isMoving,    (* _isMoving                                              *)
  holdActive,  (* _holdActive                                            *)
  holdTarget,  (* _holdTargetSteps                                       *)
  steps,       (* the stepper's position counter                         *)
  goal,        (* targetMotorPosition of the move that owns the mutex    *)
  left,        (* motor commands the owner may still issue               *)
  hpc,         (* where holdTask is                                      *)
  estimate     (* the target holdTask's estimate is seeded for           *)

owned == <<goal, left>>
hold  == <<hpc, estimate>>
vars  == <<pc, op, mutex, isMoving, holdActive, holdTarget, steps, owned, hold>>

Owners == Tasks \cup {Hold, Free}
Labels == {"idle", "take", "begin", "openloop", "travel", "release"}
HoldLabels == {"sleep", "try", "check", "update"}
Positions == Lowest .. Highest

TypeOK ==
  /\ pc \in [Tasks -> Labels]
  /\ op \in [Tasks -> Ops \cup {"none"}]
  /\ mutex \in Owners
  /\ isMoving \in BOOLEAN
  /\ holdActive \in BOOLEAN
  /\ holdTarget \in -Limit .. Limit
  /\ steps \in Int
  /\ goal \in -Limit .. Limit
  /\ left \in 0 .. MaxCommands
  /\ hpc \in HoldLabels
  /\ estimate \in Int \cup {NoEstimate}

\* Boot: nothing is held, nothing is known about zero, and app_main is about
\* to home.
Init ==
  /\ pc = [t \in Tasks |-> IF t = BootTask THEN "take" ELSE "idle"]
  /\ op = [t \in Tasks |-> IF t = BootTask THEN "home" ELSE "none"]
  /\ mutex = Free
  /\ isMoving = FALSE
  /\ holdActive = FALSE
  /\ holdTarget = 0
  /\ steps = 0
  /\ goal = 0
  /\ left = 0
  /\ hpc = "sleep"
  /\ estimate = NoEstimate

Goto(t, from, to) ==
  /\ pc[t] = from
  /\ pc' = [pc EXCEPT ![t] = to]

------------------------------------------------------------------------------
(* What every operation does first and last *)

\* A request or a job reaches task t, which calls the operation.
Request(t) ==
  /\ Goto(t, "idle", "take")
  /\ \E o \in CanRun[t] : op' = [op EXCEPT ![t] = o]
  /\ UNCHANGED <<mutex, isMoving, holdActive, holdTarget, steps, owned, hold>>

\* Mutant: the operation only starts when holdTask has nothing to hold.
AcquireWhenUnheld(t) ==
  /\ mutex = Free
  /\ ~holdActive
  /\ Goto(t, "take", "begin")
  /\ mutex' = t
  /\ UNCHANGED <<op, isMoving, holdActive, holdTarget, steps, owned, hold>>

\* MotionLock's constructor: waits for ever.
Acquire(t) ==
  /\ mutex = Free
  /\ Goto(t, "take", "begin")
  /\ mutex' = t
  /\ UNCHANGED <<op, isMoving, holdActive, holdTarget, steps, owned, hold>>

\* MotionLock's destructor, on every path out of the operation, and the end
\* of the operation's locals.
Release(t) ==
  /\ Goto(t, "release", "idle")
  /\ mutex' = Free
  /\ op' = [op EXCEPT ![t] = "none"]
  /\ goal' = 0
  /\ left' = 0
  /\ UNCHANGED <<isMoving, holdActive, holdTarget, steps, hold>>

------------------------------------------------------------------------------
(* putRelativePosition, putAbsolutePosition, putMechanicalPosition *)

\* No legal way to the angle: return false, everything as it was.
Refuse(t) ==
  /\ op[t] = "move"
  /\ Goto(t, "begin", "release")
  /\ \E a \in Angles : LegalMotorSteps(steps, a) = {}
  /\ UNCHANGED <<op, mutex, isMoving, holdActive, holdTarget, steps, owned, hold>>

\* Holding is not disengaged: the mutex keeps holdTask away.
BeginMove(t) ==
  /\ op[t] = "move"
  /\ Goto(t, "begin", "openloop")
  /\ \E a \in Angles : \E s \in LegalMotorSteps(steps, a) : goal' = s
  /\ isMoving' = TRUE
  /\ left' = MaxCommands
  /\ UNCHANGED <<op, mutex, holdActive, holdTarget, steps, hold>>

OpenLoop(t) ==
  /\ Goto(t, "openloop", "travel")
  /\ steps' = goal
  /\ UNCHANGED <<op, mutex, isMoving, holdActive, holdTarget, owned, hold>>

\* The target is reached: hand over to holdTask.
FinishMove(t) ==
  /\ op[t] = "move"
  /\ Goto(t, "travel", "release")
  /\ isMoving' = FALSE
  /\ holdTarget' = goal
  /\ holdActive' = TRUE
  /\ UNCHANGED <<op, mutex, steps, owned, hold>>

------------------------------------------------------------------------------
(* gotoMechanicalZero and the maintenance routines *)

BeginHome(t) ==
  /\ op[t] = "home"
  /\ Goto(t, "begin", "travel")
  /\ isMoving' = TRUE
  /\ holdActive' = FALSE
  /\ left' = MaxCommands
  /\ UNCHANGED <<op, mutex, holdTarget, steps, goal, hold>>

\* The Hall window is confirmed: here is zero, and here the motor is held.
HomeFound(t) ==
  /\ op[t] = "home"
  /\ Goto(t, "travel", "release")
  /\ steps' = 0
  /\ isMoving' = FALSE
  /\ holdTarget' = 0
  /\ holdActive' = TRUE
  /\ UNCHANGED <<op, mutex, owned, hold>>

\* Mutant: the path that gives up homing leaves the moving flag set.
HomeLostStillMoving(t) ==
  /\ op[t] = "home"
  /\ Goto(t, "travel", "release")
  /\ UNCHANGED <<op, mutex, isMoving, holdActive, holdTarget, steps, owned, hold>>

\* Neither sweep found the window, or every attempt landed outside it.
HomeLost(t) ==
  /\ op[t] = "home"
  /\ Goto(t, "travel", "release")
  /\ isMoving' = FALSE
  /\ UNCHANGED <<op, mutex, holdActive, holdTarget, steps, owned, hold>>

\* stressFullStepI2C alone does not report that it moves the motor.
BeginMaintenance(t) ==
  /\ op[t] \in Maintenance
  /\ Goto(t, "begin", "travel")
  /\ holdActive' = FALSE
  /\ isMoving' = (op[t] # "stress")
  /\ left' = IF op[t] \in {"jog", "align"} THEN 1 ELSE MaxCommands
  /\ UNCHANGED <<op, mutex, holdTarget, steps, goal, hold>>

FinishMaintenance(t) ==
  /\ op[t] \in Maintenance
  /\ Goto(t, "travel", "release")
  /\ isMoving' = FALSE
  /\ UNCHANGED <<op, mutex, holdActive, holdTarget, steps, owned, hold>>

------------------------------------------------------------------------------
(* The motor commands *)

\* Where the next motor command of operation o may take the counter: near
\* the goal for a correction; forwards for the routines that only step
\* forward; anywhere for a jog, a search or an edge probe.
Destinations(o) ==
  CASE o = "move" -> {s \in Positions : goal - Slack <= s /\ s <= goal + Slack}
    [] o \in {"align", "stress", "sensor"} -> {s \in Positions : steps <= s}
    [] OTHER -> Positions

Travel(t) ==
  /\ Goto(t, "travel", "travel")
  /\ left > 0
  /\ left' = left - 1
  /\ steps' \in Destinations(op[t])
  /\ UNCHANGED <<op, mutex, isMoving, holdActive, holdTarget, goal, hold>>

------------------------------------------------------------------------------
(* putHalt *)

\* The code stops the motor if isMoving; when the mutex is granted it never
\* is (HaltFindsMotorStopped), so what is left is to disengage the hold.
Halt(t) ==
  /\ op[t] = "halt"
  /\ Goto(t, "begin", "release")
  /\ holdActive' = FALSE
  /\ isMoving' = FALSE
  /\ UNCHANGED <<op, mutex, holdTarget, steps, owned, hold>>

------------------------------------------------------------------------------
(* holdTask *)

\* The 150 ms tick: reads _holdActive without the mutex.
HoldTick ==
  /\ hpc = "sleep"
  /\ IF holdActive
       THEN hpc' = "try" /\ UNCHANGED estimate
       ELSE estimate' = NoEstimate /\ UNCHANGED hpc
  /\ UNCHANGED <<pc, op, mutex, isMoving, holdActive, holdTarget, steps, owned>>

\* Mutant: the cycle does not care who owns the motor.
HoldTryUnlocked ==
  /\ hpc = "try"
  /\ hpc' = "check"
  /\ mutex' = Hold
  /\ UNCHANGED <<pc, op, isMoving, holdActive, holdTarget, steps, owned, estimate>>

\* Take the mutex if it is free, else skip this cycle.
HoldTry ==
  /\ hpc = "try"
  /\ IF mutex = Free
       THEN mutex' = Hold /\ hpc' = "check"
       ELSE hpc' = "sleep" /\ UNCHANGED mutex
  /\ UNCHANGED <<pc, op, isMoving, holdActive, holdTarget, steps, owned, estimate>>

HoldYield ==
  /\ mutex' = Free
  /\ hpc' = "sleep"
  /\ UNCHANGED <<pc, op, isMoving, holdActive, holdTarget, steps, owned>>

\* Holding was disengaged between the tick and the mutex.
HoldStandDown ==
  /\ hpc = "check"
  /\ ~holdActive
  /\ estimate' = NoEstimate
  /\ HoldYield

\* Mutant: the estimate is seeded once and never again.
HoldSeedOnce ==
  /\ hpc = "check"
  /\ holdActive
  /\ estimate = NoEstimate
  /\ estimate' = holdTarget
  /\ HoldYield

\* A new target: seed the estimate from a measurement, move nothing yet.
HoldSeed ==
  /\ hpc = "check"
  /\ holdActive
  /\ estimate # holdTarget
  /\ estimate' = holdTarget
  /\ HoldYield

\* Mutant: _holdActive is not read again under the mutex.
HoldCorrectNoRecheck ==
  /\ hpc = "check"
  /\ hpc' = "update"
  /\ steps' \in {steps} \cup
       {s \in steps - Slack .. steps + Slack : WithinMotionLimit(s)}
  /\ UNCHANGED <<pc, op, mutex, isMoving, holdActive, holdTarget, owned, estimate>>

\* Mutant: the correction is not checked against the cable limit.
HoldCorrectUnlimited ==
  /\ hpc = "check"
  /\ holdActive
  /\ estimate = holdTarget
  /\ hpc' = "update"
  /\ steps' \in steps - Slack .. steps + Slack
  /\ UNCHANGED <<pc, op, mutex, isMoving, holdActive, holdTarget, owned, estimate>>

\* No correction (too small, or refused by the limit), or one within it.
HoldCorrect ==
  /\ hpc = "check"
  /\ holdActive
  /\ estimate = holdTarget
  /\ hpc' = "update"
  /\ steps' \in {steps} \cup
       {s \in steps - Slack .. steps + Slack : WithinMotionLimit(s)}
  /\ UNCHANGED <<pc, op, mutex, isMoving, holdActive, holdTarget, owned, estimate>>

\* Measure, update the estimate, give the mutex back.
HoldRelease ==
  /\ hpc = "update"
  /\ UNCHANGED estimate
  /\ HoldYield

------------------------------------------------------------------------------

Operate(t) ==
  \/ Refuse(t) \/ BeginMove(t) \/ OpenLoop(t) \/ FinishMove(t)
  \/ BeginHome(t) \/ HomeFound(t) \/ HomeLost(t)
  \/ BeginMaintenance(t) \/ FinishMaintenance(t)
  \/ Travel(t) \/ Halt(t)

HoldCycle ==
  \/ HoldTick \/ HoldTry \/ HoldStandDown
  \/ HoldSeed \/ HoldCorrect \/ HoldRelease

Next ==
  \/ \E t \in Tasks : Request(t) \/ Acquire(t) \/ Operate(t) \/ Release(t)
  \/ HoldCycle

Spec == Init /\ [][Next]_vars

\* Every task runs when it can.  A task that waits in xSemaphoreTake is woken
\* every time the mutex is given, and holdTask, which has the lowest priority
\* and never waits, keeps it for a part of its cycle only: strong fairness of
\* Acquire.  Nothing makes a client send a request.
Fairness ==
  /\ \A t \in Tasks :
       /\ SF_vars(Acquire(t))
       /\ WF_vars(Operate(t))
       /\ WF_vars(Release(t))
  /\ WF_vars(HoldCycle)

FairSpec == Spec /\ Fairness

------------------------------------------------------------------------------
(* Properties *)

Driving(t) == pc[t] \in {"begin", "openloop", "travel", "release"}
HoldDriving == hpc \in {"check", "update"}

\* At most one task is between taking and giving the mutex, holdTask counted
\* (RotatorHW.h:397-403: holding never fights another routine for the
\* stepper).
MotorExclusion ==
  \A t \in Tasks :
    Driving(t) => ~HoldDriving /\ \A u \in Tasks \ {t} : ~Driving(u)

\* When holdTask moves the motor, holding is engaged and the estimate was
\* seeded for the present target, although it read _holdActive before it had
\* the mutex (RotatorHW.cpp:1639-1688).
HoldSeesTheTarget ==
  hpc = "update" => holdActive /\ estimate = holdTarget

\* putHalt tests _isMoving with the mutex in hand, and by then every routine
\* that set it has cleared it: its branch that stops the motor is never
\* taken (RotatorHW.cpp:1789-1797).  No way out of a routine may leave the
\* flag set.
HaltFindsMotorStopped ==
  \A t \in Tasks : pc[t] = "begin" => ~isMoving

\* A held motor is only ever moved to legal positions; an unheld one does
\* not move at all unless a routine drives it.  After Halt nothing moves.
Duty ==
  INSTANCE TwoState WITH
    mode     <- IF mutex \in Tasks THEN "driven"
                ELSE IF holdActive THEN "held" ELSE "idle",
    position <- steps,
    anchor   <- holdTarget

KeepsTwoStates == Duty!Spec

\* Every operation that waits for the motor gets it and returns, whatever
\* holdTask does (RotatorHW.h:400-402: no added latency, no deadlock).
OperationsReturn ==
  \A t \in Tasks : pc[t] = "take" ~> pc[t] = "idle"

\* If the clients leave an engaged hold alone, holdTask takes it up: in the
\* end its estimate belongs to the target it is to hold.
HoldTakesOver ==
  <>[](holdActive /\ \A t \in Tasks : pc[t] = "idle")
     => <>[](estimate = holdTarget)
==============================================================================
