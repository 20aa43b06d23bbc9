---------------------------- MODULE PointingProofs ----------------------------
(***************************************************************************)
(* Theorems about Pointing: where a move may be sent, and where it ends.   *)
(***************************************************************************)
EXTENDS Pointing, TLAPS

------------------------------------------------------------------------------
(* The shortest way *)

\* Dividing by a positive integer rounds down.
LEMMA Division ==
  ASSUME NEW m \in Int, NEW e \in Nat \ {0}
  PROVE  /\ m \div e \in Int
         /\ e * (m \div e) <= m
         /\ m < e * (m \div e) + e
  OBVIOUS

\* std::round is at most half a unit off.
LEMMA RoundAwayIsNear ==
  ASSUME NEW n \in Int, NEW d \in Nat \ {0}
  PROVE  /\ RoundAway(n, d) \in Int
         /\ 2 * (d * RoundAway(n, d)) <= 2 * n + d
         /\ 2 * n - d <= 2 * (d * RoundAway(n, d))
<1> DEFINE e == 2 * d
<1>1. e \in Nat \ {0}
  OBVIOUS
<1>2. CASE n >= 0
  <2> DEFINE m == 2 * n + d
             p == m \div e
  <2>1. m \in Int
    OBVIOUS
  <2>2. p \in Int /\ e * p <= m /\ m < e * p + e
    <3> HIDE DEF m, e
    <3> QED BY <1>1, <2>1, Division
  <2>3. RoundAway(n, d) = p
    BY <1>2 DEF RoundAway
  <2> HIDE DEF p
  <2>4. e * p = 2 * (d * p)
    BY <2>2
  <2> QED BY <2>2, <2>3, <2>4
<1>3. CASE ~(n >= 0)
  <2> DEFINE m == d - 2 * n
             p == m \div e
  <2>1. m \in Int
    OBVIOUS
  <2>2. p \in Int /\ e * p <= m /\ m < e * p + e
    <3> HIDE DEF m, e
    <3> QED BY <1>1, <2>1, Division
  <2>3. RoundAway(n, d) = -p
    BY <1>3 DEF RoundAway
  <2> HIDE DEF p
  <2>4. e * p = 2 * (d * p) /\ d * (-p) = -(d * p)
    BY <2>2
  <2> QED BY <2>2, <2>3, <2>4
<1> QED BY <1>2, <1>3

\* The base delta of legalMotorStepsForAngle is at most half a turn.
LEMMA ShortestDeltaIsShort ==
  ASSUME NEW cur \in Int, NEW angle \in Int
  PROVE  /\ ShortestDelta(cur, angle) \in Int
         /\ 2 * ShortestDelta(cur, angle) <= Rev
         /\ -Rev <= 2 * ShortestDelta(cur, angle)
<1> DEFINE n == angle - cur
           q == RoundAway(n, Rev)
<1>1. Rev \in Nat \ {0} /\ n \in Int
  BY CableAssumption
<1>2. q \in Int /\ 2 * (Rev * q) <= 2 * n + Rev /\ 2 * n - Rev <= 2 * (Rev * q)
  <2> HIDE DEF n
  <2> QED BY <1>1, RoundAwayIsNear
<1>3. ShortestDelta(cur, angle) = n - Rev * q
  BY DEF ShortestDelta
<1> HIDE DEF n, q
<1>4. Rev * q \in Int
  BY <1>1, <1>2
<1> QED BY <1>1, <1>2, <1>3, <1>4

------------------------------------------------------------------------------
(* The choice among the candidates *)

\* What the three candidates are.
LEMMA ThreeCandidates ==
  ASSUME NEW cur \in Int, NEW angle \in Int
  PROVE  \E short \in Int :
           /\ 2 * (short - cur) <= Rev
           /\ 2 * (cur - short) <= Rev
           /\ Candidates(cur, angle)[1] = short
           /\ Candidates(cur, angle)[2] = short - Rev
           /\ Candidates(cur, angle)[3] = short + Rev
<1> DEFINE delta == ShortestDelta(cur, angle)
<1>1. delta \in Int /\ 2 * delta <= Rev /\ -Rev <= 2 * delta
  BY ShortestDeltaIsShort
<1>2. /\ Candidates(cur, angle)[1] = cur + delta
      /\ Candidates(cur, angle)[2] = cur + delta - Rev
      /\ Candidates(cur, angle)[3] = cur + delta + Rev
  BY <1>1, CableAssumption DEF Candidates
<1> HIDE DEF delta
<1>. cur + delta \in Int
  BY <1>1
<1> WITNESS cur + delta \in Int
<1> QED BY <1>1, <1>2, CableAssumption

\* A legal candidate is enough for the move not to be refused.
LEMMA SomeLegalCandidate ==
  ASSUME NEW cur \in Int, NEW angle \in Int,
         NEW i \in 1 .. 3, WithinMotionLimit(Candidates(cur, angle)[i])
  PROVE  LegalMotorSteps(cur, angle) # {}
<1> DEFINE Legal(j) == WithinMotionLimit(Candidates(cur, angle)[j])
<1>1. PICK k \in 1 .. 3 : Legal(k) /\ \A j \in 1 .. 3 : Legal(j) => k <= j
  <2>1. CASE Legal(1)
    BY <2>1
  <2>2. CASE ~Legal(1) /\ Legal(2)
    BY <2>2
  <2>3. CASE ~Legal(1) /\ ~Legal(2)
    BY <2>3
  <2> QED BY <2>1, <2>2, <2>3
<1>2. Candidates(cur, angle)[k] \in LegalMotorSteps(cur, angle)
  BY <1>1 DEF LegalMotorSteps
<1> QED BY <1>2

\* From up to half a turn beyond the cable limit every angle can be reached.
LEMMA EveryAngleReachable ==
  ASSUME NEW cur \in Int, NEW angle \in Int,
         2 * cur <= 2 * Limit + Rev, -(2 * cur) <= 2 * Limit + Rev
  PROVE  LegalMotorSteps(cur, angle) # {}
<1>1. PICK short \in Int :
        /\ 2 * (short - cur) <= Rev
        /\ 2 * (cur - short) <= Rev
        /\ Candidates(cur, angle)[1] = short
        /\ Candidates(cur, angle)[2] = short - Rev
        /\ Candidates(cur, angle)[3] = short + Rev
  BY ThreeCandidates
<1> USE CableAssumption, PointingAssumption DEF WithinMotionLimit
<1>2. CASE -Limit <= short /\ short <= Limit
  <2>1. WithinMotionLimit(Candidates(cur, angle)[1])
    BY <1>1, <1>2
  <2> QED BY <2>1, SomeLegalCandidate
<1>3. CASE short > Limit
  <2>1. -Limit <= short - Rev /\ short - Rev <= Limit
    BY <1>1, <1>3
  <2>2. WithinMotionLimit(Candidates(cur, angle)[2])
    BY <1>1, <2>1
  <2> QED BY <2>2, SomeLegalCandidate
<1>4. CASE short < -Limit
  <2>1. -Limit <= short + Rev /\ short + Rev <= Limit
    BY <1>1, <1>4
  <2>2. WithinMotionLimit(Candidates(cur, angle)[3])
    BY <1>1, <2>1
  <2> QED BY <2>2, SomeLegalCandidate
<1> QED BY <1>1, <1>2, <1>3, <1>4

\* Where there is a legal candidate at all, none that leads to the same angle
\* is nearer than the one chosen.
LEMMA ChosenIsNearest ==
  ASSUME NEW cur \in Int, NEW angle \in Int,
         NEW s \in LegalMotorSteps(cur, angle),
         NEW other \in {s - Rev, s + Rev}, WithinMotionLimit(other)
  PROVE  Distance(cur, s) <= Distance(cur, other)
<1>1. PICK short \in Int :
        /\ 2 * (short - cur) <= Rev
        /\ 2 * (cur - short) <= Rev
        /\ Candidates(cur, angle)[1] = short
        /\ Candidates(cur, angle)[2] = short - Rev
        /\ Candidates(cur, angle)[3] = short + Rev
  BY ThreeCandidates
<1>2. PICK i \in 1 .. 3 :
        /\ s = Candidates(cur, angle)[i]
        /\ \A j \in 1 .. 3 :
             WithinMotionLimit(Candidates(cur, angle)[j]) => i <= j
  BY DEF LegalMotorSteps
<1>3. i # 1 => ~WithinMotionLimit(short)
  BY <1>1, <1>2
<1> USE CableAssumption DEF Distance
<1>4. CASE i = 1
  BY <1>1, <1>2, <1>4
<1>5. CASE i = 2
  <2>1. s = short - Rev
    BY <1>1, <1>2, <1>5
  <2>2. other # short
    BY <1>3, <1>5
  <2> QED BY <1>1, <2>1, <2>2
<1>6. CASE i = 3
  <2>1. s = short + Rev
    BY <1>1, <1>2, <1>6
  <2>2. other # short
    BY <1>3, <1>6
  <2> QED BY <1>1, <2>1, <2>2
<1> QED BY <1>2, <1>4, <1>5, <1>6

\* The chosen candidate is legal.
LEMMA ChosenIsLegal ==
  ASSUME NEW cur \in Int, NEW angle \in Int,
         NEW s \in LegalMotorSteps(cur, angle)
  PROVE  s \in -Limit .. Limit
<1>1. PICK short \in Int :
        /\ Candidates(cur, angle)[1] = short
        /\ Candidates(cur, angle)[2] = short - Rev
        /\ Candidates(cur, angle)[3] = short + Rev
  BY ThreeCandidates
<1>2. PICK i \in 1 .. 3 : /\ s = Candidates(cur, angle)[i]
                          /\ WithinMotionLimit(s)
  BY DEF LegalMotorSteps
<1>3. s \in Int
  BY <1>1, <1>2, CableAssumption
<1> QED BY <1>2, <1>3, CableAssumption DEF WithinMotionLimit

------------------------------------------------------------------------------
(* Invariants *)

\* A wrapped integer is an angle.
LEMMA WrapIsAngle ==
  ASSUME NEW n \in Int
  PROVE  Wrap(n) \in Angles
  BY CableAssumption DEF Wrap, Angles

\* A motor turn is no longer than an output turn.
LEMMA PeriodFits == Period <= Rev
<1> SUFFICES ASSUME Rev < Period PROVE FALSE
  BY CableAssumption, PointingAssumption
<1>1. Rev % Period = Rev
  BY CableAssumption, PointingAssumption
<1> QED BY <1>1, CableAssumption, PointingAssumption

\* Never further than half a turn beyond the limit.
InReach == 2 * steps <= 2 * Limit + Rev /\ -(2 * steps) <= 2 * Limit + Rev

IInv == TypeOK /\ InReach

\* A sensor at a legal position leaves the counter in reach.
LEMMA HeldIsInReach ==
  ASSUME NEW goal \in -Limit .. Limit, NEW b \in Biases
  PROVE  /\ 2 * (goal - b) <= 2 * Limit + Rev
         /\ -(2 * (goal - b)) <= 2 * Limit + Rev
<1>1. /\ MaxBias \in Nat /\ Period \in Nat /\ Rev \in Nat /\ Limit \in Nat
      /\ 2 * MaxBias < Period
      /\ Period <= Rev
  BY CableAssumption, PointingAssumption, PeriodFits
<1>2. goal \in Int /\ -Limit <= goal /\ goal <= Limit
  BY <1>1
<1>3. b \in Int /\ -MaxBias <= b /\ b <= MaxBias
  BY <1>1 DEF Biases
<1> QED BY <1>1, <1>2, <1>3

\* A device that starts anywhere in reach.
LEMMA InvInit == Init => IInv
<1> SUFFICES ASSUME Init PROVE IInv
  OBVIOUS
<1> USE CableAssumption, PointingAssumption
<1>1. TypeOK
  BY DEF Init, TypeOK, Biases, Angles
<1>2. InReach
  BY DEF Init, InReach
<1> QED BY <1>1, <1>2 DEF IInv

\* A commanded move sets the counter near a legal position.
LEMMA InvCommand ==
  ASSUME IInv, NEW a \in Angles, NEW t \in Angles, Command(a, t)
  PROVE  IInv'
<1> USE CableAssumption, PointingAssumption
<1>1. Corrected(a) \in Angles
  <2>1. Correction(a) \in Int
    BY DEF IInv, TypeOK, Correction
  <2>2. a - Correction(a) \in Int
    BY <2>1 DEF Angles
  <2> QED BY <2>2, WrapIsAngle DEF Corrected
<1>2. PICK goal \in LegalMotorSteps(steps, Corrected(a)) :
        /\ MoveTo(goal)
        /\ asked' = a
        /\ target' = t
        /\ UNCHANGED <<direction, offset, outCal>>
  BY DEF Command
<1>3. goal \in -Limit .. Limit
  BY <1>1, ChosenIsLegal DEF IInv, TypeOK, Angles
<1>4. bias' \in Biases /\ steps' = goal - bias' /\ held' = goal
  BY <1>2 DEF MoveTo, Around
<1>5. TypeOK'
  BY <1>2, <1>3, <1>4 DEF IInv, TypeOK, Biases
<1>6. InReach'
  BY <1>3, <1>4, HeldIsInReach DEF InReach
<1> QED BY <1>5, <1>6 DEF IInv

\* The client's frame and the mechanical one, both ways.
LEMMA FramesAreAngles ==
  ASSUME TypeOK
  PROVE  /\ Position \in Int
         /\ MechanicalPosition \in Angles
         /\ \A p \in Int : ToMechanical(p) \in Angles /\ Wrap(Dir * p + offset) \in Angles
<1> USE CableAssumption, PointingAssumption DEF TypeOK, Biases
<1>1. Dir \in {1, -1} /\ offset \in Int
  BY DEF Dir
<1>2. MechanicalPosition \in Angles
  BY WrapIsAngle DEF MechanicalPosition
<1>3. Fine \in Int
  BY <1>2 DEF Fine, Sensor, Angles
<1>4. Position \in Int
  <2>1. Dir * (MechanicalPosition + Fine) + offset \in Int
    BY <1>1, <1>2, <1>3 DEF Angles
  <2> QED BY <2>1, WrapIsAngle DEF Position, Angles
<1>5. ASSUME NEW p \in Int
      PROVE  ToMechanical(p) \in Angles /\ Wrap(Dir * p + offset) \in Angles
  <2>1. Dir * (p - offset) \in Int /\ Dir * p + offset \in Int
    BY <1>1
  <2> QED BY <2>1, WrapIsAngle DEF ToMechanical
<1> QED BY <1>2, <1>4, <1>5

\* Every operation keeps the types and the counter in reach.
LEMMA InvStep == IInv /\ [Next]_vars => IInv'
<1> SUFFICES ASSUME IInv, [Next]_vars
             PROVE  IInv'
  OBVIOUS
<1> USE CableAssumption, PointingAssumption
<1>1. CASE PutRelative
  <2>1. PICK d \in Distances :
          Command(ToMechanical(Wrap(Position + d)), Wrap(Position + d))
    BY <1>1 DEF PutRelative
  <2>2. Wrap(Position + d) \in Angles
    BY FramesAreAngles, WrapIsAngle DEF IInv
  <2>3. ToMechanical(Wrap(Position + d)) \in Angles
    BY <2>2, FramesAreAngles DEF IInv, Angles
  <2> QED BY <2>1, <2>2, <2>3, InvCommand
<1>2. CASE PutAbsolute
  <2>1. PICK p \in Requests : Command(ToMechanical(p), p)
    BY <1>2 DEF PutAbsolute
  <2>2. p \in Angles /\ ToMechanical(p) \in Angles
    BY FramesAreAngles DEF IInv, Angles
  <2> QED BY <2>1, <2>2, InvCommand
<1>3. CASE PutMechanical
  <2>1. PICK p \in Requests : Command(p, Wrap(Dir * p + offset))
    BY <1>3 DEF PutMechanical
  <2>2. p \in Angles /\ Wrap(Dir * p + offset) \in Angles
    BY FramesAreAngles DEF IInv, Angles
  <2> QED BY <2>1, <2>2, InvCommand
<1>4. CASE HoldCorrects
  <2>1. bias' \in Biases /\ held \in -Limit .. Limit /\ steps' = held - bias'
    BY <1>4 DEF HoldCorrects, Around, IInv, TypeOK
  <2>2. TypeOK'
    BY <1>4, <2>1 DEF HoldCorrects, IInv, TypeOK, Biases
  <2>3. InReach'
    BY <2>1, HeldIsInReach DEF InReach
  <2> QED BY <2>2, <2>3 DEF IInv
<1>5. CASE Sync
  <2>1. PICK p \in Requests : offset' = p - Dir * MechanicalPosition
    BY <1>5 DEF Sync
  <2>2. p \in Int /\ MechanicalPosition \in Int
    BY FramesAreAngles DEF IInv, Angles
  <2>3. offset' \in Int
    BY <2>1, <2>2 DEF Dir
  <2> QED BY <1>5, <2>3 DEF Sync, IInv, TypeOK, InReach
<1>6. CASE PutDirection
  BY <1>6 DEF PutDirection, IInv, TypeOK, InReach
<1>7. CASE Home
  BY <1>7 DEF Home, IInv, TypeOK, InReach
<1>8. CASE Jog
  BY <1>8 DEF Jog, IInv, TypeOK, InReach
<1>9. CASE AlignToFullStep
  BY <1>9 DEF AlignToFullStep, IInv, TypeOK, InReach, Biases
<1>10. CASE StoreOutputCorrection
  BY <1>10 DEF StoreOutputCorrection, IInv, TypeOK, InReach
<1>11. CASE UNCHANGED vars
  BY <1>11 DEF vars, IInv, TypeOK, InReach
<1> QED
  BY <1>1, <1>2, <1>3, <1>4, <1>5, <1>6, <1>7, <1>8, <1>9, <1>10, <1>11
  DEF Next

\* The inductive invariant holds in every state the device can reach.
LEMMA Invariant == Spec => []IInv
  BY InvInit, InvStep, PTL DEF Spec

------------------------------------------------------------------------------
(* Theorems *)

\* Every variable keeps its type: in particular a held position is always
\* within the cable limit.
THEOREM TypeCorrect == Spec => []TypeOK
<1>1. IInv => TypeOK
  BY DEF IInv
<1> QED BY <1>1, Invariant, PTL

\* No commanded angle is ever refused, for any cable limit of at least half a
\* turn, as long as jogs and sweeps stay within half a turn of the limit.
THEOREM NoRefusal == Spec => []NeverRefused
<1>1. IInv => NeverRefused
  BY EveryAngleReachable DEF IInv, TypeOK, InReach, NeverRefused, Angles
<1> QED BY <1>1, Invariant, PTL

\* A move never takes the long way round unless the short one is illegal.
THEOREM ShortestLegal == Spec => []ShortestLegalWay
<1>1. IInv => ShortestLegalWay
  BY ChosenIsNearest DEF IInv, TypeOK, ShortestLegalWay, Angles
<1> QED BY <1>1, Invariant, PTL
------------------------------------------------------------------------------
(* Remainders *)

LEMMA DivisionRest ==
  ASSUME NEW a \in Int, NEW m \in Nat \ {0}
  PROVE  a % m \in 0 .. m - 1 /\ a \div m \in Int /\ a = m * (a \div m) + (a % m)
OBVIOUS

LEMMA Multiple ==
  ASSUME NEW m \in Nat \ {0}, NEW p \in Int, NEW q \in Int, p < q
  PROVE  m * q >= m * p + m
<1>1. \A x \in Nat : x >= 1 => m * x >= m
  OBVIOUS
<1>2. m * (q - p) >= m
  BY <1>1
<1>3. m * q = m * p + m * (q - p)
  OBVIOUS
<1> QED BY <1>2, <1>3

LEMMA Remainder ==
  ASSUME NEW a \in Int, NEW m \in Nat \ {0}, NEW q \in Int, NEW r \in 0 .. m - 1,
         a = m * q + r
  PROVE  a % m = r
<1> DEFINE d == a \div m
           e == a % m
<1>1. e \in 0 .. m - 1 /\ d \in Int /\ a = m * d + e
  BY DivisionRest
<1> HIDE DEF d, e
<1>2. ~(d < q)
  <2> SUFFICES ASSUME d < q PROVE FALSE
    OBVIOUS
  <2>1. m * q >= m * d + m
    BY <1>1, Multiple
  <2> QED BY <1>1, <2>1
<1>3. ~(q < d)
  <2> SUFFICES ASSUME q < d PROVE FALSE
    OBVIOUS
  <2>1. m * d >= m * q + m
    BY <1>1, Multiple
  <2> QED BY <1>1, <2>1
<1>4. d = q
  BY <1>1, <1>2, <1>3
<1>5. e = r
  BY <1>1, <1>4
<1> QED BY <1>5 DEF e

\* Whole turns more or less do not show.
LEMMA WholeTurns ==
  ASSUME NEW a \in Int, NEW m \in Nat \ {0}, NEW q \in Int
  PROVE  (a + m * q) % m = a % m
<1> DEFINE d == a \div m
           e == a % m
           b == a + m * q
<1>1. e \in 0 .. m - 1 /\ d \in Int /\ a = m * d + e
  BY DivisionRest
<1> HIDE DEF d, e
<1>2. b = m * (d + q) + e /\ d + q \in Int /\ b \in Int
  BY <1>1
<1> HIDE DEF b
<1>3. b % m = e
  BY <1>1, <1>2, Remainder
<1> QED BY <1>3 DEF b, e

\* Less than a turn is its own remainder.
LEMMA WithinOneTurn ==
  ASSUME NEW m \in Nat \ {0}, NEW r \in 0 .. m - 1
  PROVE  r % m = r
<1>1. r \in Int /\ 0 \in Int /\ r = m * 0 + r
  OBVIOUS
<1> QED BY <1>1, Remainder

\* A wrapped angle, turned or mirrored and shifted, is as good as the angle.
LEMMA WrapInside ==
  ASSUME NEW x \in Int, NEW d \in {1, -1}, NEW y \in Int
  PROVE  Wrap(d * Wrap(x) + y) = Wrap(d * x + y)
<1> DEFINE k == x \div Rev
           e == x % Rev
<1>1. Rev \in Nat \ {0}
  BY CableAssumption
<1>2. e \in Int /\ k \in Int /\ x = Rev * k + e
  BY <1>1, DivisionRest
<1> HIDE DEF k, e
<1> DEFINE a == d * x + y
           q == -(d * k)
<1>3. a \in Int /\ q \in Int /\ d * e + y = a + Rev * q
  <2>1. CASE d = 1
    BY <1>1, <1>2, <2>1
  <2>2. CASE d = -1
    BY <1>1, <1>2, <2>2
  <2> QED BY <2>1, <2>2
<1> HIDE DEF a, q
<1>4. (a + Rev * q) % Rev = a % Rev
  BY <1>1, <1>3, WholeTurns
<1> QED BY <1>3, <1>4 DEF Wrap, a, e

LEMMA LessAndMore ==
  ASSUME NEW a \in Int, NEW b \in Int
  PROVE  (a - b) + b = a
OBVIOUS

\* Wrapping is over with once.
LEMMA WrapOnce ==
  ASSUME NEW a \in Angles
  PROVE  Wrap(a) = a
  BY CableAssumption, WithinOneTurn DEF Wrap, Angles

------------------------------------------------------------------------------
(* The position a client reads *)

\* The phases' difference, taken the short way, is what was lost or gained.
LEMMA FineIsBias ==
  ASSUME TypeOK
  PROVE  Fine = bias
<1> DEFINE half == Period \div 2
           mech == MechanicalPosition
           k == steps \div Rev
           n == Rev \div Period
           p == mech \div Period
           q == Sensor \div Period
<1>1. /\ Rev \in Nat \ {0} /\ Period \in Nat \ {0} /\ MaxBias \in Nat
      /\ steps \in Int /\ bias \in Int /\ -MaxBias <= bias /\ bias <= MaxBias
      /\ Sensor = steps + bias /\ Sensor \in Int
  BY CableAssumption, PointingAssumption DEF TypeOK, Biases, Sensor
<1>2. mech \in Int /\ k \in Int /\ steps = Rev * k + mech
  BY <1>1, DivisionRest DEF MechanicalPosition, Wrap
<1>3. n \in Int /\ Rev = Period * n
  <2>1. Rev \in Int /\ Rev % Period = 0
    BY <1>1, PointingAssumption
  <2>2. n \in Int /\ Rev = Period * n + (Rev % Period)
    BY <1>1, <2>1, DivisionRest
  <2> HIDE DEF n
  <2> QED BY <1>1, <2>1, <2>2
<1>4. half \in Nat /\ (Period = 2 * half \/ Period = 2 * half + 1)
  BY <1>1
<1>5. half + bias \in 0 .. Period - 1
  <2>1. 2 * MaxBias < Period
    BY PointingAssumption
  <2> HIDE DEF half
  <2> QED BY <1>1, <1>4, <2>1
<1> DEFINE mp == mech % Period
           sp == Sensor % Period
<1>6. mp \in Int /\ p \in Int /\ mech = Period * p + mp
  <2> HIDE DEF mech
  <2> QED BY <1>1, <1>2, DivisionRest
<1>7. sp \in Int /\ q \in Int /\ Sensor = Period * q + sp
  BY <1>1, DivisionRest
<1>8. Fine = (((sp - mp) + half) % Period) - half
  BY DEF Fine
<1> HIDE DEF half, mech, k, n, p, q, mp, sp
<1> DEFINE c == n * k + p - q
<1>9. c \in Int /\ (sp - mp) + half = Period * c + (half + bias)
  <2> DEFINE nk == n * k
  <2>1. nk \in Int
    BY <1>2, <1>3
  <2>2. Rev * k = Period * nk
    BY <1>1, <1>2, <1>3
  <2> HIDE DEF nk
  <2> DEFINE turns == Period * nk
             shaft == Period * p
             seen == Period * q
  <2>3. turns \in Int /\ shaft \in Int /\ seen \in Int
    BY <1>1, <1>6, <1>7, <2>1
  <2>4. Period * (nk + p - q) = turns + shaft - seen
    BY <1>1, <1>6, <1>7, <2>1
  <2>5. steps = turns + mech /\ mech = shaft + mp /\ Sensor = seen + sp
    BY <1>2, <1>6, <1>7, <2>2
  <2> HIDE DEF turns, shaft, seen
  <2>6. (sp - mp) + half = (turns + shaft - seen) + (half + bias)
    BY <1>1, <1>2, <1>4, <1>6, <1>7, <2>3, <2>5
  <2>7. nk + p - q \in Int
    BY <1>6, <1>7, <2>1
  <2> QED BY <2>4, <2>6, <2>7 DEF nk
<1> HIDE DEF c
<1> DEFINE a == (sp - mp) + half
<1>10. a \in Int /\ a = Period * c + (half + bias)
  BY <1>4, <1>6, <1>7, <1>9
<1> HIDE DEF a
<1>11. a % Period = half + bias
  BY <1>1, <1>5, <1>9, <1>10, Remainder
<1> QED BY <1>1, <1>4, <1>8, <1>11 DEF a

LEMMA DirIsSign == Dir \in {1, -1}
  BY DEF Dir

LEMMA PositionIsOfSensor == TypeOK => PositionFollowsSensor
<1> SUFFICES ASSUME TypeOK PROVE PositionFollowsSensor
  OBVIOUS
<1>1. steps \in Int /\ bias \in Int /\ offset \in Int
  BY PointingAssumption DEF TypeOK, Biases
<1>2. Position = Wrap(Dir * (Wrap(steps) + bias) + offset)
  BY FineIsBias DEF Position, MechanicalPosition
<1> DEFINE d == Dir
           y == d * bias + offset
           w == Wrap(steps)
<1>3. d \in {1, -1} /\ y \in Int /\ w \in Int
  BY <1>1, DirIsSign, WrapIsAngle, CableAssumption DEF Angles
<1>4. Wrap(d * w + y) = Wrap(d * steps + y)
  <2> HIDE DEF d, y
  <2> QED BY <1>1, <1>3, WrapInside
<1>5. d * (w + bias) + offset = d * w + y
  <2> HIDE DEF d, w
  <2> QED BY <1>1, <1>3
<1>6. d * (steps + bias) + offset = d * steps + y
  <2> HIDE DEF d, w
  <2> QED BY <1>1, <1>3
<1> HIDE DEF y
<1> QED BY <1>2, <1>4, <1>5, <1>6 DEF PositionFollowsSensor, Sensor

\* Position is what the sensor says of the shaft, turned, mirrored and
\* shifted, however many steps were lost within half a motor turn and
\* wherever the counter stands.
THEOREM PositionIsTheSensors == Spec => []PositionFollowsSensor
<1>1. IInv => PositionFollowsSensor
  BY PositionIsOfSensor DEF IInv
<1> QED BY <1>1, Invariant, PTL

------------------------------------------------------------------------------
(* Where a commanded move ends *)

\* The sensor is held where the correction for the asked angle says, and
\* TargetPosition is that angle in the client's frame.
OnTarget ==
  asked # None =>
    /\ held # None /\ Sensor = held
    /\ Wrap(Sensor) = Corrected(asked)
    /\ target = Wrap(Dir * asked + offset)

\* The legal positions of an angle are whole turns away from it.
LEMMA LegalIsTheAngle ==
  ASSUME NEW cur \in Int, NEW angle \in Angles,
         NEW s \in LegalMotorSteps(cur, angle)
  PROVE  s \in Int /\ Wrap(s) = angle
<1> DEFINE n == angle - cur
           q == RoundAway(n, Rev)
<1>1. Rev \in Nat \ {0} /\ n \in Int /\ angle \in Int
  BY CableAssumption DEF Angles
<1>2. q \in Int
  <2> HIDE DEF n
  <2> QED BY <1>1, RoundAwayIsNear
<1>3. ShortestDelta(cur, angle) = n - Rev * q
  BY DEF ShortestDelta
<1> HIDE DEF q
<1>4. /\ cur + ShortestDelta(cur, angle) = angle - Rev * q
      /\ Rev * q \in Int
  BY <1>1, <1>2, <1>3
<1> DEFINE short == angle - Rev * q
<1>5. /\ Candidates(cur, angle)[1] = short
      /\ Candidates(cur, angle)[2] = short - Rev
      /\ Candidates(cur, angle)[3] = short + Rev
  <2> HIDE DEF short
  <2> QED BY <1>4 DEF Candidates, short
<1>6. PICK i \in 1 .. 3 : s = Candidates(cur, angle)[i]
  BY DEF LegalMotorSteps
<1>7. \E k \in Int : s = angle + Rev * k
  <2>1. /\ short = angle + Rev * (-q)
        /\ short - Rev = angle + Rev * (-q - 1)
        /\ short + Rev = angle + Rev * (-q + 1)
    BY <1>1, <1>2
  <2> HIDE DEF short
  <2>2. s \in {short, short - Rev, short + Rev}
    BY <1>5, <1>6
  <2> QED BY <1>2, <2>1, <2>2
<1>8. PICK k \in Int : s = angle + Rev * k
  BY <1>7
<1>9. s % Rev = angle % Rev
  BY <1>1, <1>8, WholeTurns
<1>10. s \in Int
  BY <1>1, <1>8
<1> QED BY <1>9, <1>10, WrapOnce DEF Wrap

LEMMA CommandIsOnTarget ==
  ASSUME IInv, NEW a \in Angles, NEW t, t = Wrap(Dir * a + offset), Command(a, t)
  PROVE  OnTarget'
<1>1. PICK goal \in LegalMotorSteps(steps, Corrected(a)) :
        /\ MoveTo(goal)
        /\ asked' = a
        /\ target' = t
        /\ UNCHANGED <<direction, offset, outCal>>
  BY DEF Command
<1>2. Corrected(a) \in Angles
  <2>1. Correction(a) \in Int
    BY PointingAssumption DEF Correction
  <2>2. a - Correction(a) \in Int
    BY <2>1, CableAssumption DEF Angles
  <2> QED BY <2>2, WrapIsAngle DEF Corrected
<1>3. goal \in Int /\ Wrap(goal) = Corrected(a)
  BY <1>2, LegalIsTheAngle DEF IInv, TypeOK
<1>4. bias' \in Int /\ steps' = goal - bias' /\ held' = goal
  <2>1. bias' \in Biases /\ steps' = goal - bias' /\ held' = goal
    BY <1>1 DEF MoveTo, Around
  <2>2. MaxBias \in Nat
    BY PointingAssumption
  <2> QED BY <2>1, <2>2 DEF Biases
<1>5. Sensor' = goal /\ held' # None
  <2>1. (goal - bias') + bias' = goal
    BY <1>3, <1>4, LessAndMore
  <2>2. Sensor' = goal
    BY <1>4, <2>1 DEF Sensor
  <2>3. None \notin Int
    BY PointingAssumption
  <2> QED BY <1>3, <1>4, <2>2, <2>3
<1>6. Corrected(asked)' = Corrected(a) /\ Dir' = Dir
  BY <1>1 DEF Corrected, Correction, Dir
<1>7. Wrap(Sensor)' = Corrected(asked)'
  BY <1>3, <1>5, <1>6 DEF Wrap
<1>8. target' = Wrap(Dir * asked + offset)'
  BY <1>1, <1>6 DEF Wrap
<1> QED BY <1>4, <1>5, <1>7, <1>8 DEF OnTarget

\* ToMechanical undoes what Position does.
LEMMA ThereAndBack ==
  ASSUME TypeOK, NEW p \in Angles
  PROVE  p = Wrap(Dir * ToMechanical(p) + offset)
<1> DEFINE d == Dir
           x == d * (p - offset)
<1>1. d \in {1, -1} /\ p \in Int /\ offset \in Int /\ x \in Int
  BY DirIsSign, CableAssumption DEF Angles, TypeOK
<1>2. d * x + offset = p
  <2>1. CASE d = 1
    BY <1>1, <2>1
  <2>2. CASE d = -1
    BY <1>1, <2>2
  <2> HIDE DEF d
  <2> QED BY <1>1, <2>1, <2>2
<1>3. Wrap(d * Wrap(x) + offset) = Wrap(d * x + offset)
  <2> HIDE DEF d, x
  <2> QED BY <1>1, WrapInside
<1> QED BY <1>2, <1>3, WrapOnce DEF ToMechanical

LEMMA OnTargetStep == IInv /\ OnTarget /\ [Next]_vars => OnTarget'
<1> SUFFICES ASSUME IInv, OnTarget, [Next]_vars
             PROVE  OnTarget'
  OBVIOUS
<1>1. CASE PutRelative
  <2>1. PICK d \in Distances :
          Command(ToMechanical(Wrap(Position + d)), Wrap(Position + d))
    BY <1>1 DEF PutRelative
  <2>2. Wrap(Position + d) \in Angles
    BY FramesAreAngles, WrapIsAngle, PointingAssumption DEF IInv
  <2>3. ToMechanical(Wrap(Position + d)) \in Angles
    BY <2>2, FramesAreAngles, CableAssumption DEF IInv, Angles
  <2> QED BY <2>1, <2>2, <2>3, ThereAndBack, CommandIsOnTarget DEF IInv
<1>2. CASE PutAbsolute
  <2>1. PICK p \in Requests : Command(ToMechanical(p), p)
    BY <1>2 DEF PutAbsolute
  <2>2. p \in Angles /\ ToMechanical(p) \in Angles
    BY FramesAreAngles, CableAssumption, PointingAssumption DEF IInv, Angles
  <2> QED BY <2>1, <2>2, ThereAndBack, CommandIsOnTarget DEF IInv
<1>3. CASE PutMechanical
  <2>1. PICK p \in Requests : Command(p, Wrap(Dir * p + offset))
    BY <1>3 DEF PutMechanical
  <2>2. p \in Angles
    BY PointingAssumption
  <2> QED BY <2>1, <2>2, CommandIsOnTarget
<1>4. CASE HoldCorrects
  <2>0. bias' \in Biases /\ held \in -Limit .. Limit /\ MaxBias \in Nat /\ Limit \in Nat
    BY <1>4, CableAssumption, PointingAssumption DEF HoldCorrects, Around, IInv, TypeOK
  <2>1. /\ bias' \in Int /\ held \in Int /\ steps' = held - bias'
        /\ UNCHANGED <<direction, offset, target, outCal, held, asked>>
    BY <1>4, <2>0 DEF HoldCorrects, Biases
  <2>2. Sensor' = held
    <3>1. (held - bias') + bias' = held
      BY <2>1, LessAndMore
    <3> QED BY <2>1, <3>1 DEF Sensor
  <2>3. Corrected(asked)' = Corrected(asked) /\ Dir' = Dir
    BY <2>1 DEF Corrected, Correction, Dir
  <2> QED BY <2>1, <2>2, <2>3 DEF OnTarget, Wrap
<1>5. CASE Sync \/ PutDirection \/ Home \/ Jog \/ AlignToFullStep \/ StoreOutputCorrection
  BY <1>5 DEF Sync, PutDirection, Home, Jog, AlignToFullStep, StoreOutputCorrection,
              OnTarget
<1>6. CASE UNCHANGED vars
  BY <1>6 DEF vars, OnTarget, Sensor, Corrected, Correction, Dir, Wrap
<1> QED BY <1>1, <1>2, <1>3, <1>4, <1>5, <1>6 DEF Next

LEMMA MovesEndOnTarget == Spec => []OnTarget
<1>1. Init => OnTarget
  BY DEF Init, OnTarget
<1> QED BY <1>1, OnTargetStep, Invariant, PTL DEF Spec

\* A held move has arrived in the client's own terms: Position is
\* TargetPosition, after any history of Sync, Reverse and lost steps.
THEOREM MovesArrive == Spec => []ArrivesAtTarget
<1>1. IInv /\ OnTarget => ArrivesAtTarget
  <2> SUFFICES ASSUME IInv, OnTarget, asked # None, ~outCal
               PROVE  Position = target
    BY DEF ArrivesAtTarget
  <2>1. asked \in Angles /\ asked \in Int /\ Sensor \in Int /\ offset \in Int
    BY CableAssumption, PointingAssumption DEF IInv, TypeOK, Angles, Biases, Sensor
  <2>2. Corrected(asked) = asked
    <3>1. asked - Correction(asked) = asked
      BY <2>1 DEF Correction
    <3> QED BY <2>1, <3>1, WrapOnce DEF Corrected
  <2>3. Wrap(Sensor) = asked /\ target = Wrap(Dir * asked + offset)
    BY <2>2 DEF OnTarget
  <2>4. Wrap(Dir * Wrap(Sensor) + offset) = Wrap(Dir * Sensor + offset)
    BY <2>1, DirIsSign, WrapInside
  <2>5. Position = Wrap(Dir * Sensor + offset)
    BY PositionIsOfSensor DEF IInv, PositionFollowsSensor
  <2> QED BY <2>3, <2>4, <2>5
<1> QED BY <1>1, MovesEndOnTarget, Invariant, PTL

\* The gear's error changes by at most one unit over the way it is itself
\* corrected by.
GearIsSmooth ==
  \A a \in Angles : GearError[Wrap(a - GearError[a])] - GearError[a] \in -1 .. 1

\* With the output correction in force a held move leaves the camera within
\* one unit of the angle asked for, for every gear whose error changes as
\* slowly as that.
THEOREM CameraArrives ==
  ASSUME GearIsSmooth
  PROVE  Spec => []CameraEndsAtTarget
<1>1. IInv /\ OnTarget => CameraEndsAtTarget
  <2> SUFFICES ASSUME IInv, OnTarget, asked # None, outCal
               PROVE  Wrap(Camera - asked + 1) \in 0 .. 2
    BY DEF CameraEndsAtTarget
  <2> DEFINE w == Wrap(Sensor)
             g == GearError[w]
             h == GearError[asked]
  <2>1. /\ asked \in Angles /\ asked \in Int /\ Sensor \in Int
        /\ GearError \in [Angles -> Int] /\ Rev \in Nat \ {0}
    BY CableAssumption, PointingAssumption DEF IInv, TypeOK, Angles, Biases, Sensor
  <2>2. w \in Angles /\ w \in Int
    <3>1. w \in Angles
      BY <2>1, WrapIsAngle
    <3> HIDE DEF w
    <3> QED BY <2>1, <3>1 DEF Angles
  <2>3. g \in Int /\ h \in Int
    BY <2>1, <2>2
  <2>4. w = Wrap(asked - h)
    BY DEF OnTarget, Corrected, Correction
  <2>5. g - h \in -1 .. 1
    BY <2>1, <2>4 DEF GearIsSmooth
  <2>6. Camera = Sensor + g
    BY DEF Camera
  <2> HIDE DEF g, h, w
  \* The camera's distance, with the sensor's turns taken out and put back.
  <2> DEFINE y == g - asked + 1
             x == asked - h
             u == g - h + 1
  <2>7. y \in Int /\ x \in Int /\ u \in Int
    BY <2>1, <2>3
  <2>8. Camera - asked + 1 = 1 * Sensor + y /\ 1 * x + y = u
    BY <2>1, <2>3, <2>6
  <2>9. Wrap(1 * w + y) = Wrap(1 * Sensor + y)
    <3> HIDE DEF y
    <3> QED BY <2>1, <2>7, WrapInside DEF w
  <2>10. Wrap(1 * w + y) = Wrap(1 * x + y)
    <3> HIDE DEF y, x
    <3>1. w = Wrap(x)
      BY <2>4 DEF x
    <3> QED BY <2>7, <3>1, WrapInside
  <2>11. u \in 0 .. 2
    BY <2>3, <2>5
  <2> HIDE DEF y, x, u
  <2>12. Wrap(u) \in 0 .. 2
    <3>1. CASE u < Rev
      <4>1. u \in Angles
        BY <2>1, <2>11, <3>1 DEF Angles
      <4> QED BY <2>11, <4>1, WrapOnce
    <3>2. CASE Rev <= u
      <4>1. Wrap(u) \in Angles
        BY <2>7, WrapIsAngle
      <4> QED BY <2>1, <2>11, <3>2, <4>1 DEF Angles
    <3> QED BY <2>1, <2>7, <3>1, <3>2
  <2> QED BY <2>8, <2>9, <2>10, <2>12
<1> QED BY <1>1, MovesEndOnTarget, Invariant, PTL
=============================================================================
