----------------------------- MODULE MotionProofs -----------------------------
(***************************************************************************)
(* Proofs about Motion, for any set of tasks, any assignment of operations *)
(* to them, any revolution, limit and bounds, and about the refinement of  *)
(* Approach, for any tolerances, slack and noise that fit together.  The   *)
(* two share no variable; Approach is what a move of Motion ends with.     *)
(***************************************************************************)
EXTENDS Motion, Approach, TLAPS

\* The rounded quotient that picks the shortest way is an integer.
LEMMA RoundAwayInt ==
  ASSUME NEW n \in Int, NEW d \in Nat \ {0}
  PROVE  RoundAway(n, d) \in Int
BY SMT DEF RoundAway

\* A position the move code accepts is an integer within the cable limit.
LEMMA LegalStepsAreLegal ==
  ASSUME NEW cur \in Int, NEW a \in Angles, NEW s \in LegalMotorSteps(cur, a)
  PROVE  s \in -Limit .. Limit
<1>1. RoundAway(a - cur, Rev) \in Int
  BY RoundAwayInt, CableAssumption DEF Angles
<1>2. ShortestDelta(cur, a) \in Int
  BY <1>1, CableAssumption DEF ShortestDelta, Angles
<1>3. \A i \in 1 .. 3 : Candidates(cur, a)[i] \in Int
  BY <1>2, CableAssumption DEF Candidates
<1>4. PICK i \in 1 .. 3 : /\ WithinMotionLimit(Candidates(cur, a)[i])
                          /\ s = Candidates(cur, a)[i]
  BY DEF LegalMotorSteps
<1>. QED
  BY <1>3, <1>4, CableAssumption DEF WithinMotionLimit

------------------------------------------------------------------------------
(* Type correctness *)

\* A booted device is well-typed: nothing is held and the counter is zero.
LEMMA TypeInit == Init => TypeOK
<1>. SUFFICES ASSUME Init
              PROVE  TypeOK
  OBVIOUS
<1>. USE CableAssumption, MotionAssumption
<1>1. /\ pc \in [Tasks -> Labels]
      /\ op \in [Tasks -> Ops \cup {"none"}]
  BY DEF Init, Labels, Ops
<1>2. /\ holdTarget \in -Limit .. Limit
      /\ goal \in -Limit .. Limit
      /\ left \in 0 .. MaxCommands
      /\ steps \in Int
  BY DEF Init
<1>3. /\ mutex \in Owners
      /\ isMoving \in BOOLEAN
      /\ holdActive \in BOOLEAN
  BY DEF Init, Owners
<1>4. /\ hpc \in HoldLabels
      /\ estimate \in Int \cup {NoEstimate}
  BY DEF Init, HoldLabels
<1>. QED
  BY <1>1, <1>2, <1>3, <1>4 DEF TypeOK

\* Every operation keeps every variable in its type; what needs an argument
\* is the goal of a move, which the cable check bounds.
LEMMA TypeOperate ==
  ASSUME TypeOK, NEW t \in Tasks, Operate(t)
  PROVE  TypeOK'
<1>. USE CableAssumption, MotionAssumption
     DEF TypeOK, Labels, HoldLabels, Owners, owned, hold, Goto
<1>1. CASE Refuse(t)
  BY <1>1 DEF Refuse
<1>2. CASE BeginMove(t)
  <2>1. goal' \in -Limit .. Limit
    BY <1>2, LegalStepsAreLegal DEF BeginMove
  <2>. QED
    BY <1>2, <2>1 DEF BeginMove
<1>3. CASE OpenLoop(t)
  BY <1>3 DEF OpenLoop
<1>4. CASE FinishMove(t)
  BY <1>4 DEF FinishMove
<1>5. CASE BeginHome(t)
  <2>1. left' \in 0 .. MaxCommands
    BY <1>5 DEF BeginHome
  <2>. QED
    BY <1>5, <2>1 DEF BeginHome
<1>6. CASE HomeFound(t)
  <2>1. steps' \in Int /\ holdTarget' \in -Limit .. Limit
    BY <1>6 DEF HomeFound
  <2>. QED
    BY <1>6, <2>1 DEF HomeFound
<1>7. CASE HomeLost(t)
  BY <1>7 DEF HomeLost
<1>8. CASE BeginMaintenance(t)
  <2>1. left' \in 0 .. MaxCommands
    BY <1>8 DEF BeginMaintenance
  <2>. QED
    BY <1>8, <2>1 DEF BeginMaintenance
<1>9. CASE FinishMaintenance(t)
  BY <1>9 DEF FinishMaintenance
<1>10. CASE Travel(t)
  <2>1. steps' \in Int
    BY <1>10 DEF Travel, Destinations, Positions
  <2>2. left' \in 0 .. MaxCommands
    BY <1>10 DEF Travel
  <2>. QED
    BY <1>10, <2>1, <2>2 DEF Travel
<1>11. CASE Halt(t)
  BY <1>11 DEF Halt
<1>. QED
  BY <1>1, <1>2, <1>3, <1>4, <1>5, <1>6, <1>7, <1>8, <1>9, <1>10, <1>11
  DEF Operate

\* So does every step of every task, holdTask's cycle included.
LEMMA TypeStep == TypeOK /\ [Next]_vars => TypeOK'
<1>. SUFFICES ASSUME TypeOK, [Next]_vars
              PROVE  TypeOK'
  OBVIOUS
<1>. USE CableAssumption, MotionAssumption
     DEF TypeOK, Labels, HoldLabels, Owners, owned, hold
<1>1. ASSUME NEW t \in Tasks, Request(t)
      PROVE  TypeOK'
  BY <1>1 DEF Request, Goto
<1>2. ASSUME NEW t \in Tasks, Acquire(t)
      PROVE  TypeOK'
  BY <1>2 DEF Acquire, Goto
<1>3. ASSUME NEW t \in Tasks, Operate(t)
      PROVE  TypeOK'
  BY <1>3, TypeOperate
<1>4. ASSUME NEW t \in Tasks, Release(t)
      PROVE  TypeOK'
  BY <1>4 DEF Release, Goto
<1>5. CASE HoldTick \/ HoldTry
  BY <1>5 DEF HoldTick, HoldTry
<1>6. CASE HoldStandDown \/ HoldSeed \/ HoldRelease
  BY <1>6 DEF HoldStandDown, HoldSeed, HoldRelease, HoldYield
<1>7. CASE HoldCorrect
  BY <1>7 DEF HoldCorrect
<1>8. CASE UNCHANGED vars
  BY <1>8 DEF vars
<1>. QED
  BY <1>1, <1>2, <1>3, <1>4, <1>5, <1>6, <1>7, <1>8 DEF Next, HoldCycle

\* Every variable keeps its type; above all, a goal and a held target are
\* always legal positions (legalMotorStepsForAngle never lets another past).
THEOREM TypeCorrect == Spec => []TypeOK
BY TypeInit, TypeStep, PTL DEF Spec

------------------------------------------------------------------------------
(* The inductive invariant *)

\* A task is between MotionLock's constructor and destructor exactly while
\* it owns the mutex; the same for holdTask between its try and its give.
Ownership ==
  /\ \A t \in Tasks : Driving(t) <=> mutex = t
  /\ HoldDriving <=> mutex = Hold

\* The moving flag is only up inside the routine of the mutex's owner.
MovingFlag ==
  isMoving => mutex \in Tasks /\ pc[mutex] \in {"openloop", "travel"}

IInv ==
  /\ TypeOK
  /\ Ownership
  /\ MovingFlag
  /\ HoldSeesTheTarget

\* At boot no task has the mutex and no flag is set.
LEMMA IInvInit == Init => IInv
<1>1. Init => TypeOK
  BY TypeInit
<1>2. Init => Ownership
  BY MotionAssumption
  DEF Init, Ownership, Driving, HoldDriving
<1>3. Init => MovingFlag /\ HoldSeesTheTarget
  BY DEF Init, MovingFlag, HoldSeesTheTarget
<1>. QED
  BY <1>1, <1>2, <1>3 DEF IInv

\* Every step keeps the mutex's owner, the labels and the flags in accord.
LEMMA IInvStep == IInv /\ [Next]_vars => IInv'
<1>. SUFFICES ASSUME IInv, [Next]_vars
              PROVE  Ownership' /\ MovingFlag' /\ HoldSeesTheTarget'
  BY TypeStep DEF IInv
<1>. USE MotionAssumption
     DEF IInv, TypeOK, Ownership, MovingFlag, HoldSeesTheTarget,
         Driving, HoldDriving, Owners, owned, hold
<1>1. ASSUME NEW t \in Tasks, Request(t)
      PROVE  Ownership' /\ MovingFlag' /\ HoldSeesTheTarget'
  BY <1>1 DEF Request, Goto
<1>2. ASSUME NEW t \in Tasks, Acquire(t)
      PROVE  Ownership' /\ MovingFlag' /\ HoldSeesTheTarget'
  BY <1>2 DEF Acquire, Goto
<1>3. ASSUME NEW t \in Tasks, Operate(t)
      PROVE  Ownership' /\ MovingFlag' /\ HoldSeesTheTarget'
  <2>1. mutex = t /\ mutex' = t /\ ~HoldDriving /\ hpc' = hpc
    BY <1>3
    DEF Operate, Refuse, BeginMove, OpenLoop, FinishMove, BeginHome,
        HomeFound, HomeLost, BeginMaintenance, FinishMaintenance, Travel,
        Halt, Goto
  <2>2. PICK to \in {"openloop", "travel", "release"} :
          pc' = [pc EXCEPT ![t] = to] /\ (isMoving' => to # "release")
    BY <1>3
    DEF Operate, Refuse, BeginMove, OpenLoop, FinishMove, BeginHome,
        HomeFound, HomeLost, BeginMaintenance, FinishMaintenance, Travel,
        Halt, Goto
  <2>3. Ownership'
    BY <2>1, <2>2
  <2>4. MovingFlag'
    BY <2>1, <2>2
  <2>5. HoldSeesTheTarget'
    BY <2>1
  <2>. QED
    BY <2>3, <2>4, <2>5
<1>4. ASSUME NEW t \in Tasks, Release(t)
      PROVE  Ownership' /\ MovingFlag' /\ HoldSeesTheTarget'
  BY <1>4 DEF Release, Goto
<1>5. CASE HoldTick \/ HoldTry
  BY <1>5 DEF HoldTick, HoldTry
<1>6. CASE HoldStandDown \/ HoldSeed \/ HoldRelease
  BY <1>6 DEF HoldStandDown, HoldSeed, HoldRelease, HoldYield
<1>7. CASE HoldCorrect
  BY <1>7 DEF HoldCorrect
<1>8. CASE UNCHANGED vars
  BY <1>8 DEF vars
<1>. QED
  BY <1>1, <1>2, <1>3, <1>4, <1>5, <1>6, <1>7, <1>8 DEF Next, HoldCycle

\* The inductive invariant holds in every state the tasks can reach.
LEMMA Invariance == Spec => []IInv
BY IInvInit, IInvStep, PTL DEF Spec

------------------------------------------------------------------------------
(* Safety *)

\* The stepper is never driven by two tasks at once, holdTask included: one
\* mutex, taken on entry to every routine and tried by holdTask.
THEOREM Exclusion == Spec => []MotorExclusion
<1>1. IInv => MotorExclusion
  BY MotionAssumption DEF IInv, Ownership, MotorExclusion
<1>. QED
  BY <1>1, Invariance, PTL

\* A hold correction is made for the target that is engaged at that moment,
\* never for one that was engaged when the cycle began.
THEOREM HoldIsCurrent == Spec => []HoldSeesTheTarget
<1>1. IInv => HoldSeesTheTarget
  BY DEF IInv
<1>. QED
  BY <1>1, Invariance, PTL

\* Halt never finds the motor moving once it has the mutex.
THEOREM HaltIsLate == Spec => []HaltFindsMotorStopped
<1>1. IInv => HaltFindsMotorStopped
  BY DEF IInv, Ownership, MovingFlag, Driving, HaltFindsMotorStopped
<1>. QED
  BY <1>1, Invariance, PTL

------------------------------------------------------------------------------
(* The two-state motion model *)

\* The counter only changes while a task owns the mutex, or in a hold
\* correction, which the cable check keeps legal: Motion implements TwoState.
THEOREM TwoStates == Spec => KeepsTwoStates
<1>1. Init => Duty!Init
  BY MotionAssumption DEF Init, Duty!Init
<1>2. IInv /\ IInv' /\ [Next]_vars => [Duty!Next]_(Duty!vars)
  <2>. SUFFICES ASSUME IInv, IInv', [Next]_vars
                PROVE  [Duty!Next]_(Duty!vars)
    OBVIOUS
  <2>. USE MotionAssumption
       DEF IInv, TypeOK, Ownership, Driving, HoldDriving, Owners, owned,
           Duty!Next, Duty!vars
  <2>1. ASSUME NEW t \in Tasks, Request(t)
        PROVE  UNCHANGED Duty!vars
    BY <2>1 DEF Request
  <2>2. ASSUME NEW t \in Tasks, Acquire(t)
        PROVE  Duty!Take
    BY <2>2 DEF Acquire, Duty!Take
  <2>3. ASSUME NEW t \in Tasks, Operate(t)
        PROVE  Duty!Drive
    <3>1. mutex = t /\ mutex' = t
      BY <2>3
      DEF Operate, Refuse, BeginMove, OpenLoop, FinishMove, BeginHome,
          HomeFound, HomeLost, BeginMaintenance, FinishMaintenance, Travel,
          Halt, Goto
    <3>. QED
      BY <3>1 DEF Duty!Drive, Duty!Legal
  <2>4. ASSUME NEW t \in Tasks, Release(t)
        PROVE  Duty!Leave
    BY <2>4 DEF Release, Goto, Duty!Leave
  <2>5. CASE HoldTick \/ HoldTry
    BY <2>5 DEF HoldTick, HoldTry
  <2>6. CASE HoldStandDown \/ HoldSeed \/ HoldRelease
    BY <2>6 DEF HoldStandDown, HoldSeed, HoldRelease, HoldYield
  <2>7. CASE HoldCorrect
    <3>1. mutex = Hold /\ mutex' = Hold /\ holdActive /\ holdActive'
      BY <2>7 DEF HoldCorrect
    <3>2. steps' = steps \/ steps' \in -Limit .. Limit
      BY <2>7, CableAssumption DEF HoldCorrect, WithinMotionLimit
    <3>. QED
      BY <2>7, <3>1, <3>2 DEF HoldCorrect, Duty!Correct, Duty!Legal
  <2>8. CASE UNCHANGED vars
    BY <2>8 DEF vars
  <2>. QED
    BY <2>1, <2>2, <2>3, <2>4, <2>5, <2>6, <2>7, <2>8 DEF Next, HoldCycle
<1>. QED
  BY <1>1, <1>2, Invariance, PTL DEF Spec, KeepsTwoStates, Duty!Spec
------------------------------------------------------------------------------
(* Settling after a move (module Approach) *)

\* The margin takes up the slack, and the error of two measurements with it:
\* "a little over twice the measured backlash" (RotatorHW.cpp:149-154).
MarginTakesUpSlack == Backlash + Tolerance + 2 * Noise <= Margin

\* The tolerance is worth measuring, the integral is small when it begins to
\* count, and a back-off is no smaller than what it may be wrong by.
LoopIsTuned ==
  /\ 2 * Noise <= Tolerance
  /\ Band <= 20 * (Tolerance - 1)
  /\ 2 * Noise <= Margin

Settling == phase # "hold"

SettlingTypes ==
  Settling =>
    /\ target \in Int
    /\ motor \in Int
    /\ x \in Int
    /\ play \in 0 .. Backlash
    /\ integral \in Nat
    /\ backOffs \in Nat

\* The filter's prediction keeps up with what the motor is told.
EstimateIsNear == Settling => x \in Around(motor, Noise)

\* After a back-off the slack is what the shaft has still to come up.
SlackIsClosing ==
  Settling /\ backOffs > 0 =>
    \/ play = 0
    \/ play + motor <= (Backlash + target) - Margin + Noise

\* A correction does not overshoot by more than the tolerance: by the time
\* the integral is large, the error is large enough to hold it back.
NeverFarAbove ==
  /\ phase = "start" => integral = 0
  /\ phase = "refine" =>
       /\ motor <= target + Tolerance + Noise
       /\ Error >= Tolerance => integral <= 10

\* What the slack's argument needs, and what the overshoot's does.
SlackIInv == SettlingTypes /\ EstimateIsNear /\ SlackIsClosing
OvershootIInv == SettlingTypes /\ EstimateIsNear /\ NeverFarAbove

\* A quarter lies between nothing and the whole.
LEMMA QuarterIsPart ==
  ASSUME NEW n \in Int
  PROVE  /\ Quarter(n) \in Int
         /\ n >= 0 => 0 <= Quarter(n) /\ Quarter(n) <= n
         /\ n <= 0 => n <= Quarter(n) /\ Quarter(n) <= 0
BY SMT DEF Quarter

\* The rounded correction is within half a unit of the exact one.
LEMMA RoundedCorrection ==
  ASSUME NEW e \in Nat, NEW i \in Nat
  PROVE  LET r == RoundAway(18 * e + 3 * i, 20)
         IN  /\ r \in Nat
             /\ 20 * r <= 18 * e + 3 * i + 10
             /\ 18 * e + 3 * i <= 20 * r + 10
<1>. DEFINE n == 18 * e + 3 * i
<1>1. n \in Nat
  OBVIOUS
<1>. HIDE DEF n
<1>2. /\ RoundAway(n, 20) \in Nat
      /\ 20 * RoundAway(n, 20) <= n + 10
      /\ n <= 20 * RoundAway(n, 20) + 10
  BY <1>1, SMT DEF RoundAway
<1>. QED
  BY <1>2 DEF n

\* A mixture of two readings is no worse than the worse of them.
LEMMA MixIsBetween ==
  ASSUME NEW lo \in Int, NEW hi \in Int,
         NEW a \in lo .. hi, NEW b \in lo .. hi, NEW c \in Mix(a, b)
  PROVE  c \in lo .. hi
BY SMT DEF Mix, Lesser, Greater

\* An estimate that was near stays near when the filter is told of the move.
LEMMA FilterKeepsUp ==
  ASSUME NEW d \in Int, Noise \in Nat, motor \in Int, x \in Int,
         x \in Around(motor, Noise), motor' = motor + d, Filter(d)
  PROVE  x' \in Int /\ x' \in Around(motor', Noise)
<1>1. PICK m \in Around(motor', Noise) :
        x' \in Mix(x + d + Quarter(m - (x + d)), m)
  BY DEF Filter
<1>. DEFINE p == x + d
            q == p + Quarter(m - p)
<1>2. motor' \in Int /\ m \in Int /\ p \in Int
  BY <1>1 DEF Around
<1>3. p \in motor' - Noise .. motor' + Noise
  BY <1>2 DEF Around
<1>4. m \in motor' - Noise .. motor' + Noise
  BY <1>1 DEF Around
<1>5. m - p \in Int
  BY <1>2
<1>6. q \in motor' - Noise .. motor' + Noise
  <2>. HIDE DEF p
  <2>1. /\ Quarter(m - p) \in Int
        /\ m - p >= 0 => 0 <= Quarter(m - p) /\ Quarter(m - p) <= m - p
        /\ m - p <= 0 => m - p <= Quarter(m - p) /\ Quarter(m - p) <= 0
    BY <1>5, QuarterIsPart
  <2>. QED
    BY <1>2, <1>3, <1>4, <2>1
<1>7. x' \in motor' - Noise .. motor' + Noise
  <2>. HIDE DEF q
  <2>. DEFINE lo == motor' - Noise
              hi == motor' + Noise
  <2>1. lo \in Int /\ hi \in Int
    BY <1>2
  <2>2. x' \in Mix(q, m)
    BY <1>1 DEF q, p
  <2>3. q \in lo .. hi /\ m \in lo .. hi
    BY <1>4, <1>6
  <2>. HIDE DEF lo, hi
  <2>4. x' \in lo .. hi
    BY <2>1, <2>2, <2>3, MixIsBetween
  <2>. QED
    BY <2>4 DEF lo, hi
<1>. QED
  BY <1>2, <1>7 DEF Around

\* A back-off leaves the motor a margin below its target, give or take the
\* error of the measurement, with at most the whole slack in front of it.
LEMMA ReseedLandsBelow ==
  ASSUME SettlingTypes, EstimateIsNear, Settling, phase' # "hold",
         UNCHANGED target, ReseedAfterMove, backOffs' \in Nat
  PROVE  /\ SettlingTypes'
         /\ EstimateIsNear'
         /\ SlackIsClosing'
         /\ motor' <= (target - Margin) + Noise
         /\ integral' = 0
<1>. DEFINE d == (target - Margin) - x
<1>1. /\ target \in Int /\ motor \in Int /\ x \in Int
      /\ play \in 0 .. Backlash
      /\ Margin \in Nat /\ Noise \in Nat /\ Backlash \in Nat
  BY ApproachAssumption DEF SettlingTypes
<1>2. x \in motor - Noise .. motor + Noise
  BY DEF EstimateIsNear, Around
<1>3. /\ d \in Int
      /\ motor' = motor + d
      /\ play' = IF d >= 0 THEN Greater(0, play - d)
                           ELSE Lesser(Backlash, play - d)
      /\ x' \in motor' - Noise .. motor' + Noise
      /\ integral' = 0
  BY <1>1 DEF ReseedAfterMove, Move, Turn, Around
<1>4. play' \in 0 .. Backlash
  <2>. HIDE DEF d
  <2>. QED
    BY <1>1, <1>3 DEF Greater, Lesser
<1>5. motor' \in Int /\ motor' <= (target - Margin) + Noise
  BY <1>1, <1>2, <1>3
<1>6. x' \in Int
  BY <1>3, <1>5, <1>1
<1>. QED
  BY <1>1, <1>3, <1>4, <1>5, <1>6
  DEF SettlingTypes, EstimateIsNear, SlackIsClosing, Around

\* A correction is positive, it closes slack, and the estimate keeps up.
LEMMA CorrectClosesSlack ==
  ASSUME SettlingTypes, EstimateIsNear, SlackIsClosing, Correct
  PROVE  SettlingTypes' /\ EstimateIsNear' /\ SlackIsClosing'
<1>. DEFINE d == Greater(1, Wanted(integral'))
<1>1. /\ target \in Int /\ motor \in Int /\ x \in Int
      /\ play \in 0 .. Backlash /\ integral \in Nat /\ backOffs \in Nat
      /\ Margin \in Nat /\ Noise \in Nat /\ Backlash \in Nat
      /\ Tolerance \in Nat
  BY ApproachAssumption DEF SettlingTypes, Settling, Correct, Refining
<1>2. Error \in Nat
  BY <1>1 DEF Error, Correct
<1>3. integral' \in Nat
  BY <1>1, <1>2 DEF Correct
<1>4. d \in Int /\ d >= 1
  <2>1. Wanted(integral') \in Nat
    BY <1>2, <1>3, RoundedCorrection DEF Wanted
  <2>. QED
    BY <2>1 DEF Greater
<1>5. /\ motor' = motor + d
      /\ play' = Greater(0, play - d)
      /\ Filter(d)
  BY <1>4 DEF Correct, Move, Turn
<1>6. x \in Around(motor, Noise)
  BY DEF EstimateIsNear, Settling, Correct, Refining
<1>7. x' \in Int /\ x' \in Around(motor', Noise)
  BY <1>1, <1>4, <1>5, <1>6, FilterKeepsUp
<1>8. /\ play' \in 0 .. Backlash
      /\ play' = 0 \/ play' + motor' = play + motor
  BY <1>1, <1>4, <1>5 DEF Greater
<1>9. UNCHANGED <<phase, target, backOffs>>
  BY DEF Correct
<1>10. SettlingTypes'
  BY <1>1, <1>3, <1>4, <1>5, <1>7, <1>8, <1>9 DEF SettlingTypes
<1>11. EstimateIsNear'
  BY <1>7 DEF EstimateIsNear
<1>12. SlackIsClosing'
  <2>1. Settling /\ play >= 0 /\ d >= 1
    BY <1>1, <1>4 DEF Settling, Correct, Refining
  <2>. HIDE DEF d
  <2>. QED
    BY <1>1, <1>4, <1>5, <1>8, <1>9, <2>1 DEF SlackIsClosing, Greater
<1>. QED
  BY <1>10, <1>11, <1>12

\* Every step keeps the types, the estimate and the account of the slack.
LEMMA SlackStep == SlackIInv /\ [ApproachNext]_approachVars => SlackIInv'
<1>. SUFFICES ASSUME SlackIInv, [ApproachNext]_approachVars
              PROVE  SlackIInv'
  OBVIOUS
<1>0. SettlingTypes /\ EstimateIsNear /\ SlackIsClosing
  BY DEF SlackIInv
<1>1. CASE Start
  <2>1. Settling /\ phase' # "hold" /\ UNCHANGED target
    BY <1>1 DEF Start, Settling
  <2>2. CASE ReseedAfterMove /\ backOffs' = backOffs + 1
    BY <1>0, <2>1, <2>2, ReseedLandsBelow DEF SlackIInv, SettlingTypes
  <2>3. CASE UNCHANGED <<counter, motor, play, lastUp, control, backOffs>>
    BY <1>0, <2>1, <2>3
    DEF SlackIInv, SettlingTypes, EstimateIsNear, SlackIsClosing, control,
        Around, Settling
  <2>. QED
    BY <1>1, <2>2, <2>3 DEF Start
<1>2. CASE Converge \/ Exhaust
  BY <1>0, <1>2
  DEF Converge, Exhaust, Refining, SlackIInv, SettlingTypes, EstimateIsNear,
      SlackIsClosing, control, budget, Around, Settling
<1>3. CASE BackOff
  <2>1. Settling /\ phase' # "hold" /\ UNCHANGED target
    BY <1>3 DEF BackOff, Refining, Settling
  <2>2. CASE ReseedAfterMove /\ backOffs' = backOffs + 1
    BY <1>0, <2>1, <2>2, ReseedLandsBelow DEF SlackIInv, SettlingTypes
  <2>3. CASE UNCHANGED <<counter, motor, play, lastUp, control, backOffs>>
    BY <1>0, <2>1, <2>3
    DEF SlackIInv, SettlingTypes, EstimateIsNear, SlackIsClosing, control,
        Around, Settling
  <2>. QED
    BY <1>3, <2>2, <2>3 DEF BackOff
<1>4. CASE Correct
  BY <1>0, <1>4, CorrectClosesSlack DEF SlackIInv
<1>5. CASE Seed \/ Drift \/ HoldControlCycle
  <2>1. ~Settling'
    BY <1>5 DEF Seed, Drift, HoldControlCycle, Settling
  <2>. QED
    BY <2>1 DEF SlackIInv, SettlingTypes, EstimateIsNear, SlackIsClosing
<1>6. CASE UNCHANGED approachVars
  BY <1>0, <1>6
  DEF approachVars, control, budget, SlackIInv, SettlingTypes,
      EstimateIsNear, SlackIsClosing, Around, Settling
<1>. QED
  BY <1>1, <1>2, <1>3, <1>4, <1>5, <1>6 DEF ApproachNext, Refine

\* An open-loop move ends with the estimate seeded and no back-off made.
LEMMA ApproachStarts ==
  ApproachInit => SettlingTypes /\ EstimateIsNear /\ SlackIsClosing
<1>. SUFFICES ASSUME ApproachInit
              PROVE  SettlingTypes /\ EstimateIsNear /\ SlackIsClosing
  OBVIOUS
<1>1. /\ target \in Int
      /\ Noise \in Nat /\ Landing \in Nat /\ Backlash \in Nat
  BY ApproachAssumption, CableAssumption DEF ApproachInit
<1>2. motor \in Int /\ x \in Int
  BY <1>1 DEF ApproachInit, Around
<1>. QED
  BY <1>1, <1>2
  DEF ApproachInit, SettlingTypes, EstimateIsNear, SlackIsClosing

LEMMA SlackInvariance == ApproachSpec => []SlackIInv
<1>1. ApproachInit => SlackIInv
  BY ApproachStarts DEF SlackIInv
<1>. QED
  BY <1>1, SlackStep, PTL DEF ApproachSpec

\* A converged refinement that backed off has closed more than the slack: the
\* margin is that much, and the tolerance and the noise, below the target.
THEOREM BackOffSuffices ==
  ASSUME MarginTakesUpSlack
  PROVE  ApproachSpec => []BackOffTakesUpSlack
<1>. DEFINE Converged == phase = "converged" => x > target - Tolerance
<1>1. ApproachInit => Converged
  BY DEF ApproachInit
<1>2. SlackIInv /\ Converged /\ [ApproachNext]_approachVars => Converged'
  <2>. SUFFICES ASSUME SlackIInv, Converged, [ApproachNext]_approachVars,
                       phase' = "converged"
                PROVE  x' > target' - Tolerance
    OBVIOUS
  <2>1. CASE Converge
    <3>1. target \in Int /\ x \in Int /\ Tolerance \in Nat
      BY <2>1, ApproachAssumption
      DEF SlackIInv, SettlingTypes, Settling, Converge, Refining
    <3>. QED
      BY <2>1, <3>1 DEF Converge, Error, control
  <2>2. CASE ApproachNext /\ ~Converge
    BY <2>2
    DEF ApproachNext, Refine, Start, BackOff, Correct, Exhaust, Seed, Drift,
        HoldControlCycle, Refining
  <2>3. CASE UNCHANGED approachVars
    BY <2>3 DEF approachVars, control
  <2>. QED
    BY <2>1, <2>2, <2>3
<1>3. SlackIInv /\ Converged => BackOffTakesUpSlack
  <2>. SUFFICES ASSUME SlackIInv, Converged, phase = "converged", backOffs > 0
                PROVE  play = 0
    BY DEF BackOffTakesUpSlack
  <2>1. /\ target \in Int /\ motor \in Int /\ x \in Int
        /\ play \in 0 .. Backlash
        /\ Margin \in Nat /\ Noise \in Nat /\ Backlash \in Nat
        /\ Tolerance \in Nat
    BY ApproachAssumption DEF SlackIInv, SettlingTypes, Settling
  <2>2. x \in motor - Noise .. motor + Noise
    BY DEF SlackIInv, EstimateIsNear, Settling, Around
  <2>3. play = 0 \/ play + motor <= (Backlash + target) - Margin + Noise
    BY DEF SlackIInv, SlackIsClosing, Settling
  <2>. QED
    BY <2>1, <2>2, <2>3 DEF MarginTakesUpSlack
<1>. QED
  BY <1>1, <1>2, <1>3, SlackInvariance, PTL DEF ApproachSpec

\* The law of one correction, in numbers: e is the error, i the integral it
\* adds to, d the correction.
LEMMA CorrectionIsModest ==
  ASSUME LoopIsTuned, NEW e \in Nat, e >= Tolerance, NEW i \in 0 .. 10,
         NEW j \in Nat, j = i + (IF e < Band THEN e ELSE 0),
         NEW d \in Nat, d = Greater(1, RoundAway(18 * e + 3 * j, 20))
  PROVE  /\ d - e <= Tolerance
         /\ e - d >= Tolerance - 2 * Noise => j <= 10
<1>1. /\ Tolerance \in Nat \ {0} /\ Band \in Nat /\ Noise \in Nat
      /\ 2 * Noise <= Tolerance /\ Band <= 20 * (Tolerance - 1)
  BY ApproachAssumption DEF LoopIsTuned
<1>. DEFINE r == RoundAway(18 * e + 3 * j, 20)
<1>2. /\ r \in Nat
      /\ 20 * r <= 18 * e + 3 * j + 10
      /\ 18 * e + 3 * j <= 20 * r + 10
  BY RoundedCorrection
<1>3. d >= 1 /\ d >= r /\ (d = 1 \/ d = r)
  BY <1>2 DEF Greater
<1>. HIDE DEF r
<1>4. d - e <= Tolerance
  <2>1. CASE d = 1
    BY <1>1, <2>1
  <2>2. CASE d = r /\ e < Band
    BY <1>1, <1>2, <2>2
  <2>3. CASE d = r /\ ~(e < Band)
    BY <1>1, <1>2, <2>3
  <2>. QED
    BY <1>3, <2>1, <2>2, <2>3
<1>5. ASSUME e - d >= Tolerance - 2 * Noise
      PROVE  j <= 10
  <2>1. e >= d
    BY <1>1, <1>5
  <2>2. 3 * j <= 2 * e + 10
    BY <1>2, <1>3, <2>1
  <2>3. CASE e < Band
    BY <2>2, <2>3
  <2>4. CASE ~(e < Band)
    BY <2>4
  <2>. QED
    BY <2>3, <2>4
<1>. QED
  BY <1>4, <1>5

\* What a correction of d leaves of the error, measured.
LEMMA ErrorShrinks ==
  ASSUME NEW t \in Int, NEW m \in Int, NEW y \in Int, NEW z \in Int,
         NEW d \in Int, NEW n \in Nat,
         y \in m - n .. m + n, z \in (m + d) - n .. (m + d) + n
  PROVE  t - z <= (t - y) - d + 2 * n
OBVIOUS

\* So no correction takes the motor further above the target than the
\* tolerance and the noise, and a correction that leaves an error worth
\* another one found the integral small.
LEMMA CorrectStaysNear ==
  ASSUME LoopIsTuned, SettlingTypes, EstimateIsNear, NeverFarAbove, Correct,
         SettlingTypes', EstimateIsNear'
  PROVE  NeverFarAbove'
<1>. DEFINE d == Greater(1, Wanted(integral'))
<1>1. /\ target \in Int /\ motor \in Int /\ x \in Int /\ integral \in Nat
      /\ Tolerance \in Nat /\ Noise \in Nat
  BY ApproachAssumption DEF SettlingTypes, Settling, Correct, Refining
<1>2. motor' \in Int /\ x' \in Int /\ integral' \in Nat
  BY DEF SettlingTypes, Settling, Correct, Refining
<1>3. Error \in Nat /\ Error >= Tolerance /\ Error = target - x
  BY <1>1 DEF Error, Correct
<1>4. integral \in 0 .. 10
  BY <1>1, <1>3 DEF NeverFarAbove, Correct, Refining
<1>5. integral' = integral + (IF Error < Band THEN Error ELSE 0)
  BY DEF Correct
<1>6. d = Greater(1, RoundAway(18 * Error + 3 * integral', 20))
  BY DEF Wanted
<1>7. d \in Nat
  <2>1. Wanted(integral') \in Nat
    BY <1>2, <1>3, RoundedCorrection DEF Wanted
  <2>. QED
    BY <2>1 DEF Greater
<1>8. motor' = motor + d /\ target' = target
  BY DEF Correct, Move, Turn
<1>9. x \in motor - Noise .. motor + Noise
  BY DEF EstimateIsNear, Settling, Around, Correct, Refining
<1>10. x' \in motor' - Noise .. motor' + Noise
  BY DEF EstimateIsNear, Settling, Around, Correct, Refining
<1>. HIDE DEF d
<1>11. /\ d - Error <= Tolerance
       /\ Error - d >= Tolerance - 2 * Noise => integral' <= 10
  BY <1>1, <1>2, <1>3, <1>4, <1>5, <1>6, <1>7, CorrectionIsModest
<1>12. motor' <= target' + Tolerance + Noise
  BY <1>1, <1>2, <1>3, <1>7, <1>8, <1>9, <1>11
<1>13. target' - x' >= Tolerance => integral' <= 10
  <2>. DEFINE m == motor'
              y == x'
  <2>1. /\ m \in Int /\ y \in Int /\ m = motor + d
        /\ y \in m - Noise .. m + Noise
    BY <1>2, <1>8, <1>10
  <2>2. target - y >= Tolerance => integral' <= 10
    <3>. HIDE DEF m, y
    <3>1. target - y <= (target - x) - d + 2 * Noise
      BY <1>1, <1>7, <1>9, <2>1, ErrorShrinks
    <3>2. target - y >= Tolerance => Error - d >= Tolerance - 2 * Noise
      BY <1>1, <1>3, <1>7, <2>1, <3>1
    <3>. QED
      BY <1>11, <3>2
  <2>. QED
    BY <1>8, <2>2
<1>14. phase' = "refine"
  BY DEF Correct, Refining
<1>. QED
  BY <1>12, <1>13, <1>14 DEF NeverFarAbove, Error

\* Every step keeps the motor from being far above the target.
LEMMA OvershootStep ==
  LoopIsTuned /\ SlackIInv /\ SlackIInv' /\ NeverFarAbove
    /\ [ApproachNext]_approachVars => NeverFarAbove'
<1>. SUFFICES ASSUME LoopIsTuned, SlackIInv, SlackIInv', NeverFarAbove,
                     [ApproachNext]_approachVars
              PROVE  NeverFarAbove'
  OBVIOUS
<1>0. SettlingTypes /\ EstimateIsNear /\ SettlingTypes' /\ EstimateIsNear'
  BY DEF SlackIInv
<1>1. /\ Tolerance \in Nat /\ Noise \in Nat /\ Margin \in Nat
  BY ApproachAssumption
<1>2. ASSUME Settling, phase' # "hold", UNCHANGED target,
             ReseedAfterMove, backOffs' \in Nat
      PROVE  NeverFarAbove'
  <2>1. motor' <= (target - Margin) + Noise /\ integral' = 0
    BY <1>0, <1>2, ReseedLandsBelow
  <2>2. target \in Int /\ motor' \in Int
    BY <1>0, <1>2 DEF SettlingTypes, Settling
  <2>3. motor' <= target' + Tolerance + Noise
    BY <1>1, <1>2, <2>1, <2>2
  <2>. QED
    BY <2>1, <2>3 DEF NeverFarAbove
<1>3. CASE Start
  <2>1. Settling /\ phase' # "hold" /\ UNCHANGED target
    BY <1>3 DEF Start, Settling
  <2>2. CASE ReseedAfterMove /\ backOffs' = backOffs + 1
    BY <1>0, <1>2, <2>1, <2>2 DEF SettlingTypes
  <2>3. CASE /\ ~(x > target - Tolerance)
             /\ UNCHANGED <<counter, motor, play, lastUp, control, backOffs>>
    <3>1. target \in Int /\ motor \in Int /\ x \in Int
      BY <1>0, <2>1 DEF SettlingTypes
    <3>2. x \in motor - Noise .. motor + Noise
      BY <1>0, <2>1 DEF EstimateIsNear, Around
    <3>3. motor <= target + Tolerance + Noise
      BY <1>1, <2>3, <3>1, <3>2
    <3>4. integral' = 0
      BY <1>3, <2>3 DEF Start, NeverFarAbove, control
    <3>. QED
      BY <2>1, <2>3, <3>3, <3>4 DEF NeverFarAbove
  <2>. QED
    BY <1>3, <2>2, <2>3 DEF Start
<1>4. CASE BackOff
  <2>1. Settling /\ phase' # "hold" /\ UNCHANGED target
    BY <1>4 DEF BackOff, Refining, Settling
  <2>2. CASE ReseedAfterMove /\ backOffs' = backOffs + 1
    BY <1>0, <1>2, <2>1, <2>2 DEF SettlingTypes
  <2>3. CASE phase' = "gaveUp"
    BY <2>3 DEF NeverFarAbove
  <2>. QED
    BY <1>4, <2>2, <2>3 DEF BackOff
<1>5. CASE Correct
  BY <1>0, <1>5, CorrectStaysNear
<1>6. CASE Converge \/ Exhaust \/ Seed \/ Drift \/ HoldControlCycle
  BY <1>6 DEF Converge, Exhaust, Seed, Drift, HoldControlCycle, NeverFarAbove
<1>7. CASE UNCHANGED approachVars
  BY <1>7 DEF approachVars, control, budget, NeverFarAbove, Error
<1>. QED
  BY <1>3, <1>4, <1>5, <1>6, <1>7 DEF ApproachNext, Refine

\* What converged was measured within the tolerance, and where a back-off
\* gave up the motor was never taken further above than a correction can.
THEOREM SettlesNear ==
  ASSUME LoopIsTuned
  PROVE  ApproachSpec => []RefineEndsNear
<1>1. ApproachInit => NeverFarAbove /\ RefineEndsNear
  BY DEF ApproachInit, NeverFarAbove, RefineEndsNear
<1>2. SlackIInv /\ SlackIInv' /\ NeverFarAbove /\ [ApproachNext]_approachVars
        => NeverFarAbove'
  BY OvershootStep
<1>3. /\ SlackIInv /\ NeverFarAbove /\ RefineEndsNear
      /\ [ApproachNext]_approachVars
      => RefineEndsNear'
  <2>. SUFFICES ASSUME SlackIInv, NeverFarAbove, RefineEndsNear,
                       [ApproachNext]_approachVars,
                       phase' \in {"converged", "gaveUp"}
                PROVE  RefineEndsNear'
    BY DEF RefineEndsNear
  <2>0. /\ Tolerance \in Nat \ {0} /\ Noise \in Nat
        /\ 2 * Noise <= Tolerance
    BY ApproachAssumption DEF LoopIsTuned
  <2>1. ASSUME phase = "refine"
        PROVE  /\ target \in Int /\ motor \in Int /\ x \in Int
               /\ x \in motor - Noise .. motor + Noise
               /\ motor <= target + Tolerance + Noise
    BY <2>1
    DEF SlackIInv, SettlingTypes, EstimateIsNear, NeverFarAbove, Settling,
        Around
  <2>2. CASE Converge
    <3>1. phase = "refine" /\ UNCHANGED <<target, motor>>
      BY <2>2 DEF Converge, Refining
    <3>2. -Tolerance < target - x /\ target - x < Tolerance
      BY <2>2 DEF Converge, Error
    <3>3. motor \in (target - Tolerance) - Noise + 1
                      .. target + Tolerance + Noise
      BY <2>0, <2>1, <3>1, <3>2
    <3>. QED
      BY <3>1, <3>3 DEF RefineEndsNear
  <2>3. CASE BackOff
    <3>1. phase = "refine" /\ UNCHANGED <<target, motor>>
      BY <2>3 DEF BackOff, Refining
    <3>2. target - x <= -Tolerance
      BY <2>3 DEF BackOff, Error
    <3>3. motor \in (target - Tolerance) - Noise + 1
                      .. target + Tolerance + Noise
      BY <2>0, <2>1, <3>1, <3>2
    <3>. QED
      BY <3>1, <3>3 DEF RefineEndsNear
  <2>4. CASE Start \/ Correct \/ Exhaust \/ Seed \/ Drift \/ HoldControlCycle
    BY <2>4
    DEF Start, Correct, Exhaust, Seed, Drift, HoldControlCycle, Refining
  <2>5. CASE UNCHANGED approachVars
    BY <2>5 DEF approachVars, RefineEndsNear
  <2>. QED
    BY <2>2, <2>3, <2>4, <2>5 DEF ApproachNext, Refine
<1>. QED
  BY <1>1, <1>2, <1>3, SlackInvariance, PTL DEF ApproachSpec
------------------------------------------------------------------------------
(* Holding undisturbed (module Approach) *)

\* How far above its target holding may take the motor, in twentieths, and
\* how large the integral may get, in thirds.
HoldTop == 20 * (Tolerance + Noise) + 4 * Band + 10
WindUp  == 20 * Tolerance + 4 * Band

\* The margin is out of reach of the noise, of one correction and of what the
\* integral adds to it.
HoldIsTuned ==
  /\ 2 * Noise <= Tolerance
  /\ HoldTop + 20 * Noise < 20 * Margin

\* No correction upwards is refused at the lower end of the cable: the counter
\* is never beyond it.
TargetsClearOfEnd ==
  \A t \in Targets :
    /\ -Limit <= ((t - Margin) - Noise) - Landing
    /\ -Limit <= (t - Landing) - Landing

\* The shaft is where the counter says, give or take the landing, and never
\* much further below the target than a back-off or the landing took it.
CounterIsClose ==
  /\ drifts \in Nat
  /\ Settling => drifts = 0
  /\ drifts = 0 =>
       /\ target \in Targets /\ target \in Int
       /\ motor \in Int /\ counter \in Int
       /\ motor - counter <= Landing
       /\ \/ motor >= (target - Margin) - Noise
          \/ motor >= target - Landing

\* However refining ended, the motor is not far above the target.
EndsNotAbove == phase \in Ended => motor <= target + Tolerance + Noise

Undisturbed == phase = "hold" /\ drifts = 0

\* The integral is small, or what it can still add is less than what the
\* motor may still rise, or the cable does not let the motor rise further: m
\* is how far it is above the target, room how far the counter may still go.
WoundUp(m, room, i) ==
  \/ 3 * i < 20 * Tolerance
  \/ /\ 3 * i <= WindUp
     /\ 3 * i + 4 * (Noise - m) <= WindUp
  \/ 20 * (m + room) <= HoldTop

HeldNear ==
  Undisturbed =>
    /\ x \in Int /\ integral \in Nat
    /\ x \in Around(motor, Noise)
    /\ 20 * (motor - target) <= HoldTop
    /\ WoundUp(motor - target, Limit - counter, integral)

HoldIInv == SlackIInv /\ NeverFarAbove /\ EndsNotAbove /\ CounterIsClose /\ HeldNear

\* The law of one cycle, in numbers: above the target nothing is done; below
\* it a correction upwards is made once it is worth it.
LEMMA HoldLaw ==
  ASSUME HoldIsTuned, motor \in Int, target \in Int, x \in Int, integral \in Nat,
         x \in Around(motor, Noise), 20 * (motor - target) <= HoldTop,
         NEW j, j = HoldIntegral
  PROVE  /\ j \in Nat
         /\ HoldControl(j) \in Nat
         /\ Error < 0 => HoldControl(j) = 0 /\ j = integral
         /\ Error >= 0 =>
              /\ j = integral + IF Error < Band THEN Error ELSE 0
              /\ 18 * Error + 3 * j < 20 * Tolerance => HoldControl(j) = 0
              /\ 18 * Error + 3 * j >= 20 * Tolerance =>
                   /\ 20 * HoldControl(j) <= 18 * Error + 3 * j + 10
                   /\ 18 * Error + 3 * j <= 20 * HoldControl(j) + 10
<1>. DEFINE e == Error
            w == HoldControl(j)
<1>1. /\ Tolerance \in Nat \ {0} /\ Noise \in Nat /\ Band \in Nat /\ Margin \in Nat
  BY ApproachAssumption
<1>2. e \in Int /\ e = target - x
  BY DEF Error
<1>3. x \in motor - Noise .. motor + Noise
  BY DEF Around
<1>4. -e < Margin
  BY <1>1, <1>2, <1>3 DEF HoldIsTuned, HoldTop
<1>5. AgainstBacklash <=> e < 0
  BY <1>4 DEF AgainstBacklash
<1>6. j = IF e >= 0 /\ -Band < e /\ e < Band THEN integral + e ELSE integral
  BY <1>1, <1>2, <1>5 DEF HoldIntegral
<1>. HIDE DEF e
<1>7. j \in Nat /\ (e < 0 => j = integral)
      /\ (e >= 0 => j = integral + IF e < Band THEN e ELSE 0)
  BY <1>1, <1>2, <1>6
<1>8. CASE e < 0
  <2>1. w = 0
    BY <1>1, <1>5, <1>8 DEF HoldControl
  <2>. QED
    BY <1>2, <1>7, <1>8, <2>1 DEF e
<1>9. CASE e >= 0
  <2>. DEFINE c == 18 * e + 3 * j
              r == RoundAway(c, 20)
  <2>1. e \in Nat /\ c \in Nat
    BY <1>2, <1>7, <1>9
  <2>2. r \in Nat /\ 20 * r <= c + 10 /\ c <= 20 * r + 10
    BY <1>7, <2>1, RoundedCorrection
  <2>3. w = IF c < 20 * Tolerance THEN 0 ELSE r
    <3>1. ~AgainstBacklash
      BY <1>2, <1>5, <1>9
    <3>2. -20 * Tolerance < c
      BY <1>1, <2>1
    <3>. DEFINE d == IF c < 20 * Tolerance THEN 0 ELSE r
    <3>3. w = IF d < 0 THEN (target - Margin) - x ELSE d
      BY <3>1, <3>2 DEF HoldControl, e
    <3>4. ~(d < 0)
      <4>. HIDE DEF r, c
      <4>. QED
        BY <2>2
    <3>. QED
      BY <3>3, <3>4
  <2>. HIDE DEF r, w
  <2>4. /\ w \in Nat
        /\ c < 20 * Tolerance => w = 0
        /\ c >= 20 * Tolerance => 20 * w <= c + 10 /\ c <= 20 * w + 10
    <3>. HIDE DEF c
    <3>. QED
      BY <1>1, <2>1, <2>2, <2>3
  <2>. QED
    BY <1>2, <1>7, <1>9, <2>4 DEF e, w
<1>. QED
  BY <1>2, <1>8, <1>9

\* One cycle's account: m is how far the motor is above the target, e the
\* measured error, i and j the integral before and after, w what is asked for
\* and d what is done, which is nothing if there is no room for it.
LEMMA CycleKeepsNear ==
  ASSUME HoldIsTuned, NEW m \in Int, NEW room \in Int, NEW e \in Int, NEW i \in Nat,
         NEW j \in Nat, NEW w \in Nat, NEW d \in {0, w},
         e \in (-m) - Noise .. (-m) + Noise,
         20 * m <= HoldTop, WoundUp(m, room, i),
         e < 0 => w = 0 /\ j = i,
         e >= 0 =>
           /\ j = i + IF e < Band THEN e ELSE 0
           /\ 18 * e + 3 * j < 20 * Tolerance => w = 0
           /\ 18 * e + 3 * j >= 20 * Tolerance =>
                /\ 20 * w <= 18 * e + 3 * j + 10
                /\ 18 * e + 3 * j <= 20 * w + 10,
         d = w => w <= room \/ w = 0,
         d # w => w > room
  PROVE  /\ 20 * (m + d) <= HoldTop
         /\ WoundUp(m + d, room - d, j)
<1>1. /\ Tolerance \in Nat \ {0} /\ Noise \in Nat /\ Band \in Nat /\ Margin \in Nat
      /\ Limit \in Nat /\ 2 * Noise <= Tolerance
  BY ApproachAssumption, CableAssumption DEF HoldIsTuned
<1>2. CASE e < 0
  BY <1>1, <1>2 DEF WoundUp, HoldTop, WindUp
<1>3. CASE e >= 0 /\ 20 * (m + room) <= HoldTop
  <2>1. 20 * ((m + d) + (room - d)) <= HoldTop
    BY <1>1, <1>3 DEF HoldTop
  <2>2. 20 * (m + d) <= HoldTop
    BY <1>1, <1>3 DEF HoldTop
  <2>. QED
    BY <2>1, <2>2 DEF WoundUp
<1>4. CASE e >= 0 /\ 3 * i < 20 * Tolerance
  <2>1. 20 * (m + w) <= HoldTop
    BY <1>1, <1>4 DEF HoldTop
  <2>2. \/ 3 * j < 20 * Tolerance
        \/ 3 * j <= WindUp /\ 3 * j + 4 * (Noise - (m + w)) <= WindUp
    BY <1>1, <1>4 DEF WindUp
  <2>. QED
    BY <1>1, <1>4, <2>1, <2>2 DEF WoundUp, HoldTop, WindUp
<1>5. CASE /\ e >= 0 /\ 3 * i >= 20 * Tolerance
           /\ 3 * i <= WindUp /\ 3 * i + 4 * (Noise - m) <= WindUp
  <2>1. 20 * (m + w) <= HoldTop
    BY <1>1, <1>5 DEF HoldTop, WindUp
  <2>2. 3 * j <= WindUp /\ 3 * j + 4 * (Noise - (m + w)) <= WindUp
    BY <1>1, <1>5 DEF WindUp
  <2>. QED
    BY <1>1, <1>5, <2>1, <2>2 DEF WoundUp, HoldTop, WindUp
<1>. QED
  BY <1>1, <1>2, <1>3, <1>4, <1>5 DEF WoundUp

\* While nothing turns the shaft a cycle keeps the motor near its target and
\* never takes it down.
LEMMA CycleKeepsHold ==
  ASSUME HoldIsTuned, TargetsClearOfEnd, HoldIInv, HoldControlCycle, drifts = 0
  PROVE  /\ EndsNotAbove' /\ CounterIsClose' /\ HeldNear'
         /\ motor' >= motor
<1>. DEFINE j == HoldIntegral
            w == HoldControl(j)
            d == IF WithinMotionLimit(counter + w) THEN w ELSE 0
            m == motor - target
            room == Limit - counter
<1>1. /\ Tolerance \in Nat \ {0} /\ Noise \in Nat /\ Margin \in Nat
      /\ Landing \in Nat /\ Limit \in Nat
  BY ApproachAssumption, CableAssumption
<1>2. /\ phase = "hold" /\ phase' = "hold" /\ UNCHANGED <<target, drifts>>
  BY DEF HoldControlCycle
<1>3. /\ target \in Targets /\ target \in Int
      /\ motor \in Int /\ counter \in Int
      /\ motor - counter <= Landing
      /\ \/ motor >= (target - Margin) - Noise
         \/ motor >= target - Landing
  BY DEF HoldIInv, CounterIsClose
<1>4. /\ x \in Int /\ integral \in Nat
      /\ x \in Around(motor, Noise)
      /\ 20 * (motor - target) <= HoldTop
      /\ WoundUp(m, room, integral)
  BY <1>2 DEF HoldIInv, HeldNear, Undisturbed
<1>5. /\ j \in Nat
      /\ w \in Nat
      /\ Error < 0 => w = 0 /\ j = integral
      /\ Error >= 0 =>
           /\ j = integral + IF Error < Band THEN Error ELSE 0
           /\ 18 * Error + 3 * j < 20 * Tolerance => w = 0
           /\ 18 * Error + 3 * j >= 20 * Tolerance =>
                /\ 20 * w <= 18 * Error + 3 * j + 10
                /\ 18 * Error + 3 * j <= 20 * w + 10
  BY <1>3, <1>4, HoldLaw
<1>6. /\ IF d = 0 THEN UNCHANGED <<counter, motor, play, lastUp>> ELSE Move(d)
      /\ Filter(d)
      /\ integral' = IF w < 0 THEN 0 ELSE j
  BY DEF HoldControlCycle
<1>. HIDE DEF j, w
<1>7. d \in {0, w} /\ d \in Nat
  BY <1>5
<1>8. /\ motor' = motor + d /\ counter' = counter + d
      /\ integral' = j
  <2>1. CASE d = 0
    BY <1>3, <1>5, <1>6, <2>1
  <2>2. CASE d # 0
    BY <1>5, <1>6, <2>2 DEF Move, Turn
  <2>. QED
    BY <2>1, <2>2
<1>9. -Limit <= counter
  BY <1>1, <1>3 DEF TargetsClearOfEnd
<1>10. /\ d = w => w <= room \/ w = 0
       /\ d # w => w > room
  BY <1>1, <1>3, <1>5, <1>9 DEF WithinMotionLimit
<1>. HIDE DEF d
<1>11. x' \in Int /\ x' \in Around(motor', Noise)
  BY <1>1, <1>3, <1>4, <1>6, <1>7, <1>8, FilterKeepsUp
<1>12. /\ 20 * (m + d) <= HoldTop
       /\ WoundUp(m + d, room - d, j)
  <2>1. m \in Int /\ room \in Int /\ Error \in Int
    BY <1>1, <1>3, <1>4 DEF Error
  <2>2. Error \in (-m) - Noise .. (-m) + Noise
    BY <1>1, <1>3, <1>4 DEF Error, Around
  <2>3. 20 * m <= HoldTop
    BY <1>4
  <2>. HIDE DEF m, room
  <2>. QED
    BY <1>4, <1>5, <1>7, <1>10, <2>1, <2>2, <2>3, CycleKeepsNear
<1>13. HeldNear'
  <2>1. motor' - target' = m + d /\ Limit - counter' = room - d
    BY <1>1, <1>2, <1>3, <1>7, <1>8
  <2>. QED
    BY <1>2, <1>5, <1>8, <1>11, <1>12, <2>1 DEF HeldNear, Around, WoundUp
<1>14. CounterIsClose'
  BY <1>1, <1>2, <1>3, <1>7, <1>8 DEF HoldIInv, CounterIsClose, Settling
<1>. QED
  BY <1>2, <1>3, <1>7, <1>8, <1>13, <1>14 DEF EndsNotAbove, Ended

\* Holding begins where refining ended, and a cycle keeps its account.
LEMMA HoldStep ==
  LoopIsTuned /\ HoldIsTuned /\ TargetsClearOfEnd
    /\ HoldIInv /\ SlackIInv' /\ NeverFarAbove' /\ [ApproachNext]_approachVars
  => /\ EndsNotAbove' /\ CounterIsClose' /\ HeldNear'
     /\ phase = "hold" /\ drifts' = 0 => motor' >= motor
<1>. SUFFICES ASSUME LoopIsTuned, HoldIsTuned, TargetsClearOfEnd,
                     HoldIInv, SlackIInv', NeverFarAbove', [ApproachNext]_approachVars
              PROVE  /\ EndsNotAbove' /\ CounterIsClose' /\ HeldNear'
                     /\ phase = "hold" /\ drifts' = 0 => motor' >= motor
  OBVIOUS
<1>0. /\ SettlingTypes /\ EstimateIsNear /\ NeverFarAbove
      /\ EndsNotAbove /\ CounterIsClose /\ HeldNear
  BY DEF HoldIInv, SlackIInv
<1>1. /\ Tolerance \in Nat \ {0} /\ Noise \in Nat /\ Band \in Nat /\ Margin \in Nat
      /\ Landing \in Nat /\ Limit \in Nat
  BY ApproachAssumption, CableAssumption
<1>2. ASSUME Settling, Settling', UNCHANGED <<target, drifts>>, ReseedAfterMove
      PROVE  CounterIsClose'
  <2>1. /\ target \in Targets /\ target \in Int /\ motor \in Int /\ counter \in Int
        /\ x \in Int /\ motor - counter <= Landing /\ drifts = 0
        /\ x \in motor - Noise .. motor + Noise
    BY <1>0, <1>2 DEF CounterIsClose, SettlingTypes, EstimateIsNear, Around
  <2>2. /\ motor' = motor + ((target - Margin) - x)
        /\ counter' = counter + ((target - Margin) - x)
    BY <1>2 DEF ReseedAfterMove, Move, Turn
  <2>. QED
    BY <1>1, <1>2, <2>1, <2>2 DEF CounterIsClose
<1>3. CASE Start \/ BackOff
  <2>1. Settling /\ Settling' /\ UNCHANGED <<target, drifts>> /\ phase # "hold"
    BY <1>3 DEF Start, BackOff, Refining, Settling
  <2>2. CounterIsClose'
    <3>1. CASE ReseedAfterMove
      BY <1>2, <2>1, <3>1
    <3>2. CASE UNCHANGED <<counter, motor>>
      BY <1>0, <2>1, <3>2 DEF CounterIsClose
    <3>. QED
      BY <1>3, <3>1, <3>2 DEF Start, BackOff
  <2>3. EndsNotAbove'
    <3>1. CASE phase' = "refine"
      BY <3>1 DEF EndsNotAbove, Ended
    <3>2. CASE phase' = "gaveUp"
      BY <1>0, <1>3, <3>2
      DEF Start, BackOff, Refining, NeverFarAbove, EndsNotAbove
    <3>. QED
      BY <1>3, <3>1, <3>2 DEF Start, BackOff, Refining
  <2>. QED
    BY <2>1, <2>2, <2>3 DEF HeldNear, Undisturbed, Settling
<1>4. CASE Correct
  <2>. DEFINE d == Greater(1, Wanted(integral'))
  <2>1. Settling /\ Settling' /\ UNCHANGED <<target, drifts>> /\ phase' = "refine"
    BY <1>4 DEF Correct, Refining, Settling
  <2>2. /\ target \in Int /\ motor \in Int /\ x \in Int /\ integral \in Nat
        /\ Error \in Nat
    BY <1>0, <1>1, <1>4, <2>1 DEF SettlingTypes, Correct, Error
  <2>3. d \in Int /\ d >= 1
    <3>1. integral' \in Nat
      BY <2>1, <2>2 DEF SlackIInv, SettlingTypes
    <3>2. Wanted(integral') \in Nat
      BY <2>2, <3>1, RoundedCorrection DEF Wanted
    <3>. QED
      BY <3>2 DEF Greater
  <2>4. motor' = motor + d /\ counter' = counter + d
    BY <1>4 DEF Correct, Move, Turn
  <2>. HIDE DEF d
  <2>5. CounterIsClose'
    BY <1>0, <1>1, <2>1, <2>3, <2>4 DEF CounterIsClose
  <2>. QED
    BY <2>1, <2>5 DEF EndsNotAbove, Ended, HeldNear, Undisturbed, Settling
<1>5. CASE Converge \/ Exhaust
  <2>1. /\ phase = "refine" /\ phase' \in Ended
        /\ UNCHANGED <<target, motor, counter, drifts>>
    BY <1>5 DEF Converge, Exhaust, Refining, Ended
  <2>2. EndsNotAbove'
    BY <1>0, <2>1 DEF NeverFarAbove, EndsNotAbove
  <2>3. CounterIsClose'
    BY <1>0, <2>1 DEF CounterIsClose, Settling, Ended
  <2>. QED
    BY <2>1, <2>2, <2>3 DEF HeldNear, Undisturbed, Ended
<1>6. CASE Seed
  <2>1. /\ phase \in Ended /\ phase' = "hold" /\ integral' = 0
        /\ x' \in Around(motor, Noise) /\ UNCHANGED <<target, motor, counter, drifts>>
    BY <1>6 DEF Seed
  <2>2. Settling /\ target \in Int /\ motor \in Int
    BY <1>0, <2>1 DEF Settling, Ended, SettlingTypes
  <2>3. 20 * (motor - target) <= HoldTop
    BY <1>0, <1>1, <2>1, <2>2 DEF EndsNotAbove, HoldTop
  <2>4. x' \in Int
    BY <1>1, <2>1, <2>2 DEF Around
  <2>5. HeldNear'
    <3>1. WoundUp(motor' - target', Limit - counter', integral')
      BY <1>1, <2>1 DEF WoundUp
    <3>. QED
      BY <2>1, <2>3, <2>4, <3>1 DEF HeldNear, Around
  <2>6. CounterIsClose' /\ EndsNotAbove'
    BY <1>0, <2>1, <2>2 DEF CounterIsClose, EndsNotAbove, Settling, Ended
  <2>. QED
    BY <2>1, <2>5, <2>6 DEF Ended
<1>7. CASE Drift
  <2>1. drifts' = drifts + 1 /\ phase = "hold" /\ phase' = "hold"
    BY <1>7 DEF Drift
  <2>2. drifts' \in Nat /\ drifts' # 0
    BY <1>0, <2>1 DEF CounterIsClose
  <2>. QED
    BY <2>1, <2>2
    DEF EndsNotAbove, CounterIsClose, HeldNear, Undisturbed, Settling, Ended
<1>8. CASE HoldControlCycle
  <2>1. /\ phase = "hold" /\ phase' = "hold" /\ UNCHANGED <<target, drifts>>
        /\ drifts \in Nat
    BY <1>0, <1>8 DEF HoldControlCycle, CounterIsClose
  <2>2. CASE drifts = 0
    BY <1>8, <2>1, <2>2, CycleKeepsHold
  <2>3. CASE drifts # 0
    BY <2>1, <2>3
    DEF EndsNotAbove, CounterIsClose, HeldNear, Undisturbed, Settling, Ended
  <2>. QED
    BY <2>2, <2>3
<1>9. CASE UNCHANGED approachVars
  <2>1. UNCHANGED <<phase, target, counter, motor, x, integral, drifts>>
    BY <1>9 DEF approachVars, control
  <2>. QED
    BY <1>0, <2>1
    DEF EndsNotAbove, CounterIsClose, HeldNear, Undisturbed, Settling, Around, Ended
<1>. QED
  BY <1>3, <1>4, <1>5, <1>6, <1>7, <1>8, <1>9 DEF ApproachNext, Refine

\* While nothing turns the shaft, holding never takes the motor down: noise
\* and what the integral makes of it lift the motor by less than the margin,
\* so that the excursion below the target stays what it is for.
THEOREM HoldIsSmooth ==
  ASSUME LoopIsTuned, HoldIsTuned, TargetsClearOfEnd
  PROVE  ApproachSpec => HoldNeverBacksOff
<1>1. ApproachInit => HoldIInv
  <2>. SUFFICES ASSUME ApproachInit
                PROVE  HoldIInv
    OBVIOUS
  <2>1. SlackIInv
    BY ApproachStarts DEF SlackIInv
  <2>2. NeverFarAbove /\ EndsNotAbove /\ HeldNear
    BY DEF ApproachInit, NeverFarAbove, EndsNotAbove, Ended, HeldNear, Undisturbed
  <2>3. CounterIsClose
    <3>1. /\ target \in Targets /\ target \in Int /\ counter = target
          /\ Landing \in Nat /\ drifts = 0
          /\ motor \in target - Landing .. target + Landing
      BY ApproachAssumption, CableAssumption DEF ApproachInit, Around
    <3>. QED
      BY <3>1 DEF CounterIsClose
  <2>. QED
    BY <2>1, <2>2, <2>3 DEF HoldIInv
<1>2. HoldIInv /\ [ApproachNext]_approachVars => HoldIInv'
  BY SlackStep, OvershootStep, HoldStep DEF HoldIInv
<1>3. HoldIInv /\ HoldIInv' /\ [ApproachNext]_approachVars
        => [phase = "hold" /\ drifts' = 0 => motor' >= motor]_approachVars
  BY HoldStep DEF HoldIInv
<1>. QED
  BY <1>1, <1>2, <1>3, PTL DEF ApproachSpec, HoldNeverBacksOff
==============================================================================
