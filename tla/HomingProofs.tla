----------------------------- MODULE HomingProofs -----------------------------
(***************************************************************************)
(* Proofs about homing, for any gear, window, search limit and number of   *)
(* glitches.  What a homing without glitches does is shown for searches    *)
(* that fit their window and gear (SearchFits, WindowBelowIsFar).          *)
(***************************************************************************)
EXTENDS Homing, TLAPS

------------------------------------------------------------------------------
(* Remainders *)

\* Quotient and remainder of an integer.
LEMMA Division ==
  ASSUME NEW p \in Int, NEW d \in Nat \ {0}
  PROVE  /\ p \div d \in Int /\ p % d \in 0 .. d - 1
         /\ p = d * (p \div d) + (p % d)
OBVIOUS

\* A multiple leaves no remainder.
LEMMA Multiple ==
  ASSUME NEW k \in Int, NEW d \in Nat \ {0}
  PROVE  (d * k) % d = 0
OBVIOUS

\* A multiple of d less than d away from 0 is 0.
LEMMA SmallMultiple ==
  ASSUME NEW d \in Nat \ {0}, NEW k \in Int, -d < d * k, d * k < d
  PROVE  d * k = 0
<1>1. k < 1
  OBVIOUS
<1>2. k > -1
  OBVIOUS
<1> QED BY <1>1, <1>2

\* A common factor taken out.
LEMMA Distribute ==
  ASSUME NEW d \in Int, NEW a \in Int, NEW b \in Int, NEW c \in Int
  PROVE  d * a - (d * b) * c = d * (a - b * c)
OBVIOUS

\* What is left when the remainder is taken off is a multiple.
LEMMA LessRemainder ==
  ASSUME NEW p \in Int, NEW d \in Nat \ {0}
  PROVE  /\ (p - (p % d)) % d = 0
         /\ (p + ((-p) % d)) % d = 0
<1>1. p - (p % d) = d * (p \div d)
  BY Division
<1>2. -p = d * ((-p) \div d) + ((-p) % d) /\ (-p) \div d \in Int
  BY Division
<1>3. p + ((-p) % d) = d * (-((-p) \div d))
  BY <1>2
<1>4. p \div d \in Int /\ -((-p) \div d) \in Int
  BY <1>2, Division
<1>5. (d * (p \div d)) % d = 0
  BY <1>4, Multiple
<1>6. (d * (-((-p) \div d))) % d = 0
  BY <1>4, Multiple
<1> QED BY <1>1, <1>3, <1>5, <1>6

\* One divisor more or less is a multiple again.
LEMMA OneMore ==
  ASSUME NEW p \in Int, NEW d \in Nat \ {0}, p % d = 0
  PROVE  (p + d) % d = 0 /\ (p - d) % d = 0
<1> DEFINE k == p \div d
<1>1. k \in Int /\ p = d * k
  BY Division
<1> HIDE DEF k
<1>2. p + d = d * (k + 1) /\ p - d = d * (k - 1)
  BY <1>1
<1> QED BY <1>1, <1>2, Multiple

------------------------------------------------------------------------------
(* Homing *)

\* The one thing the window is needed for: on the sensor's value at zero, in
\* the window means on the index.
LEMMA IndexIsUnique ==
  ASSUME NEW p \in Int, p % Rev = 0, InWindow(p)
  PROVE  p % Turn = 0
<1> DEFINE h == Turn \div 2
           q == (p + h) \div Turn
           k == p \div Rev
           t == Turn \div Rev
<1>1. /\ Rev \in Nat \ {0} /\ Turn \in Nat \ {0} /\ Turn % Rev = 0
      /\ Low \in Nat /\ High \in Nat /\ Low + High < Rev
  BY HomingAssumption
<1>2. h \in Int
  BY <1>1
<1>3. /\ q \in Int /\ p + h = Turn * q + ((p + h) % Turn)
      /\ (p + h) % Turn \in Int
  BY <1>1, <1>2, Division
<1>4. k \in Int /\ p = Rev * k
  BY <1>1, Division
<1>5. t \in Int /\ Turn = Rev * t
  BY <1>1, Division
<1>6. InTurn(p) = ((p + h) % Turn) - h
  BY DEF InTurn
<1> HIDE DEF h, q, k, t
<1>7. InTurn(p) = p - Turn * q
  BY <1>1, <1>2, <1>3, <1>6
<1>8. InTurn(p) = Rev * (k - t * q)
  BY <1>1, <1>3, <1>4, <1>5, <1>7, Distribute
<1>9. k - t * q \in Int
  BY <1>3, <1>4, <1>5
<1>10. -Rev < InTurn(p) /\ InTurn(p) < Rev
  BY <1>1, <1>8, <1>9 DEF InWindow
<1>11. InTurn(p) = 0
  BY <1>1, <1>8, <1>9, <1>10, SmallMultiple
<1>12. p = Turn * q
  BY <1>1, <1>3, <1>7, <1>11
<1> QED BY <1>1, <1>3, <1>12, Multiple

\* The strengthening: the direct move ends on the sensor's value at zero.
IInv ==
  /\ at \in Int
  /\ origin \in Int
  /\ start \in Int
  /\ direction \in {-1, 1}
  /\ phase = "land" => at % Rev = 0
  /\ ZeroIsTheIndex

\* At power-on nothing has been homed.
LEMMA IInvInit == Init => IInv
BY HomingAssumption DEF Init, IInv, ZeroIsTheIndex

\* Every step keeps it: only the direct move and the landing can disturb it.
LEMMA IInvNext == IInv /\ [Next]_vars => IInv'
<1> SUFFICES ASSUME IInv, [Next]_vars
             PROVE  IInv'
  OBVIOUS
<1>0. /\ Rev \in Nat \ {0} /\ Chunk \in Nat /\ Debounce \in Nat
      /\ Limit \in Nat
  BY HomingAssumption
<1>1. CASE Home \/ Look \/ First
  BY <1>1 DEF Home, Look, First, place, sweep, IInv, ZeroIsTheIndex
<1>2. CASE Sweep \/ Confirm
  BY <1>0, <1>2 DEF Sweep, Confirm, IInv, ZeroIsTheIndex
<1>3. CASE GiveUp
  BY <1>3 DEF GiveUp, hall, IInv, ZeroIsTheIndex
<1>4. CASE MoveToZero
  <2>1. PICK delta \in Direct(at, viaCCW) : at' = at + delta
    BY <1>4 DEF MoveToZero
  <2>2. /\ phase' = "land" /\ origin' = origin /\ start' = start
        /\ direction' = direction
    BY <1>4 DEF MoveToZero, sweep
  <2>3. at' \in Int /\ at' % Rev = 0
    <3>1. at \in Int /\ at % Rev \in Int /\ (-at) % Rev \in Int
      BY <1>0, Division DEF IInv
    <3>2. \/ at' = at - (at % Rev)
          \/ at' = at + ((-at) % Rev)
          \/ at % Rev = 0 /\ (at' = at + Rev \/ at' = at - Rev)
      BY <1>0, <2>1, <3>1 DEF Direct, Phase
    <3> QED BY <1>0, <3>1, <3>2, LessRemainder, OneMore
  <2> QED BY <2>2, <2>3 DEF IInv, ZeroIsTheIndex
<1>5. CASE Land
  <2>1. PICK active \in BOOLEAN :
          /\ misled' = (active # InWindow(at))
          /\ \/ active /\ phase' = "homed" /\ origin' = at
             \/ phase' \in {"look", "aborted"} /\ origin' = origin
    BY <1>5 DEF Land
  <2>2. /\ phase = "land" /\ at' = at /\ direction' = direction
        /\ start' \in {start, at - origin}
    BY <1>5 DEF Land, sweep
  <2>3. CASE active /\ phase' = "homed" /\ origin' = at
    <3>1. ASSUME ~misled'
          PROVE  origin' % Turn = 0
      <4>1. InWindow(at)
        BY <2>1, <2>3, <3>1, Zenon
      <4> QED BY <2>2, <2>3, <4>1, IndexIsUnique DEF IInv
    <3>2. ZeroIsTheIndex'
      BY <3>1 DEF ZeroIsTheIndex
    <3> QED BY <2>2, <2>3, <3>2 DEF IInv
  <2>4. CASE phase' \in {"look", "aborted"} /\ origin' = origin
    BY <2>2, <2>4 DEF IInv, ZeroIsTheIndex
  <2> QED BY <2>1, <2>3, <2>4
<1>6. CASE Drive
  BY <1>0, <1>6 DEF Drive, sweep, hall, IInv, ZeroIsTheIndex
<1>7. CASE Restart
  BY <1>7 DEF Restart, sweep, hall, IInv, ZeroIsTheIndex
<1>8. CASE UNCHANGED vars
  BY <1>8 DEF vars, place, sweep, hall, IInv, ZeroIsTheIndex
<1> QED BY <1>1, <1>2, <1>3, <1>4, <1>5, <1>6, <1>7, <1>8 DEF Next

\* A homing that succeeds has found the index, wherever it began and whatever
\* the Hall input did before the reading that ended it.
THEOREM HomedOnTheIndex == Spec => []ZeroIsTheIndex
<1>1. IInv => ZeroIsTheIndex
  BY DEF IInv
<1> QED BY <1>1, IInvInit, IInvNext, PTL DEF Spec

------------------------------------------------------------------------------
(* What homing relies on *)

\* What homing relies on: a motor turn fits twice into a turn, the two sweeps
\* together cover a turn, and either half of the window is wider than what a
\* sweep overshoots its edge by.
SearchFits ==
  /\ 2 * Rev <= Turn
  /\ Turn <= 2 * Budget + 1
  /\ Chunk + Debounce <= Low
  /\ Chunk + Debounce <= High
  /\ MaxAttempts >= 2

\* From a motor turn below zero no sweep gets down to the window below.
WindowBelowIsFar == Reach + Rev + High <= Turn

------------------------------------------------------------------------------
(* Positions within a turn *)

\* The remainder is what is less than the divisor.
LEMMA RemainderOf ==
  ASSUME NEW d \in Nat \ {0}, NEW q \in Int, NEW r \in 0 .. d - 1
  PROVE  (d * q + r) % d = r
<1>. DEFINE n == d * q + r
            k == n \div d
            s == n % d
<1>1. n \in Int
  OBVIOUS
<1>. HIDE DEF n
<1>2. k \in Int /\ s \in 0 .. d - 1 /\ n = d * k + s
  BY <1>1, Division
<1>. HIDE DEF k, s
<1>3. d * (q - k) = s - r
  BY <1>2 DEF n
<1>4. q - k \in Int /\ -d < d * (q - k) /\ d * (q - k) < d
  BY <1>2, <1>3
<1>5. d * (q - k) = 0
  BY <1>4, SmallMultiple
<1>6. s = r
  BY <1>2, <1>3, <1>5
<1>. QED
  BY <1>6 DEF n, s

\* The ends of what InTurn ranges over.
Bottom == -(Turn \div 2)
Top == (Turn - 1) - (Turn \div 2)

\* The range is a whole turn and has zero in it.
LEMMA TurnRange ==
  /\ Bottom \in Int /\ Top \in Int
  /\ Bottom <= 0 /\ 0 <= Top /\ Top = Bottom + (Turn - 1)
BY HomingAssumption DEF Bottom, Top

\* A position is whole turns and its position within the turn.
LEMMA InTurnIs ==
  ASSUME NEW p \in Int
  PROVE  /\ InTurn(p) \in Bottom .. Top
         /\ \E q \in Int : p = Turn * q + InTurn(p)
<1>. DEFINE h == Turn \div 2
            q == (p + h) \div Turn
            r == (p + h) % Turn
<1>1. Turn \in Nat \ {0} /\ h \in Int
  BY HomingAssumption
<1>2. q \in Int /\ r \in 0 .. Turn - 1 /\ p + h = Turn * q + r
  BY <1>1, Division
<1>3. InTurn(p) = r - h /\ Bottom = -h /\ Top = (Turn - 1) - h
  BY DEF InTurn, Bottom, Top
<1>. HIDE DEF h, q, r
<1>4. InTurn(p) \in Bottom .. Top
  BY <1>1, <1>2, <1>3
<1>5. p = Turn * q + InTurn(p)
  BY <1>1, <1>2, <1>3
<1>. QED
  BY <1>2, <1>4, <1>5

\* A number in the range is the position within the turn of all that differ
\* from it by whole turns.
LEMMA InTurnOf ==
  ASSUME NEW q \in Int, NEW r \in Bottom .. Top
  PROVE  InTurn(Turn * q + r) = r
<1>. DEFINE h == Turn \div 2
<1>1. Turn \in Nat \ {0} /\ h \in Int
  BY HomingAssumption
<1>2. r \in Int /\ r + h \in 0 .. Turn - 1
  BY <1>1 DEF Bottom, Top
<1>3. ((Turn * q) + (r + h)) % Turn = r + h
  BY <1>1, <1>2, RemainderOf
<1>4. (Turn * q + r) + h = (Turn * q) + (r + h)
  BY <1>1, <1>2
<1>5. InTurn(Turn * q + r) = (((Turn * q + r) + h) % Turn) - h
  BY DEF InTurn
<1>. HIDE DEF h
<1>. QED
  BY <1>1, <1>2, <1>3, <1>4, <1>5

\* Going e further, without leaving the range, is e further in the turn.
LEMMA InTurnShift ==
  ASSUME NEW p \in Int, NEW e \in Int, InTurn(p) + e \in Bottom .. Top
  PROVE  InTurn(p + e) = InTurn(p) + e
<1>1. PICK q \in Int : p = Turn * q + InTurn(p)
  BY InTurnIs
<1>2. InTurn(p) \in Int
  BY TurnRange, InTurnIs
<1>3. Turn * q \in Int
  BY HomingAssumption
<1>4. p + e = Turn * q + (InTurn(p) + e)
  BY <1>1, <1>2, <1>3
<1>. QED
  BY <1>4, InTurnOf

\* p's own index.
LEMMA IndexOf ==
  ASSUME NEW p \in Int
  PROVE  /\ p - InTurn(p) \in Int
         /\ InTurn(p - InTurn(p)) = 0
<1>1. InTurn(p) \in Int
  BY TurnRange, InTurnIs
<1>2. InTurn(p) + (-InTurn(p)) \in Bottom .. Top
  BY <1>1, TurnRange
<1>3. p - InTurn(p) = p + (-InTurn(p)) /\ -InTurn(p) \in Int
  BY <1>1
<1>4. InTurn(p + (-InTurn(p))) = InTurn(p) + (-InTurn(p))
  BY <1>2, <1>3, InTurnShift
<1>. QED
  BY <1>1, <1>3, <1>4

\* What is less than a turn from an index is as far from it as in the turn,
\* unless it is in the range of the next one.
LEMMA NearIndex ==
  ASSUME NEW z \in Int, InTurn(z) = 0, NEW p \in Int,
         p - InTurn(p) < z + Turn, z - Turn < p - InTurn(p)
  PROVE  InTurn(p) = p - z
<1>1. PICK q \in Int : p = Turn * q + InTurn(p)
  BY InTurnIs
<1>2. PICK k \in Int : z = Turn * k
  <2>1. PICK k \in Int : z = Turn * k + InTurn(z)
    BY InTurnIs
  <2>. QED
    BY <2>1, HomingAssumption
<1>3. InTurn(p) \in Int /\ Turn \in Nat \ {0}
  BY TurnRange, InTurnIs, HomingAssumption
<1>4. Turn * (q - k) = (p - InTurn(p)) - z
  BY <1>1, <1>2, <1>3
<1>5. q - k \in Int /\ -Turn < Turn * (q - k) /\ Turn * (q - k) < Turn
  BY <1>3, <1>4
<1>6. Turn * (q - k) = 0
  BY <1>3, <1>5, SmallMultiple
<1>. DEFINE j == InTurn(p)
<1>7. j \in Int /\ (p - j) - z = 0
  BY <1>3, <1>4, <1>6
<1>. HIDE DEF j
<1>8. j = p - z
  BY <1>7
<1>. QED
  BY <1>8 DEF j

\* The window and a motor turn below it are within the range, and the range
\* is within a sweep of zero.
LEMMA WindowFits ==
  ASSUME SearchFits
  PROVE  /\ Low \in Nat /\ High \in Nat /\ Rev \in Nat
         /\ Chunk \in Nat \ {0} /\ Debounce \in Nat /\ Budget \in Nat
         /\ Low + High < Rev
         /\ Bottom <= -Rev /\ High <= Top
         /\ -Budget <= Bottom /\ Top <= Budget
         /\ -Low .. High \subseteq Bottom .. Top
<1>. DEFINE h == Turn \div 2
<1>1. Turn \in Nat \ {0}
  BY HomingAssumption
<1>2. h \in Nat /\ 2 * h <= Turn /\ Turn <= 2 * h + 1
  BY <1>1
<1>3. Bottom = -h /\ Top = (Turn - 1) - h
  BY DEF Bottom, Top
<1>4. /\ Low \in Nat /\ High \in Nat /\ Rev \in Nat
      /\ Chunk \in Nat \ {0} /\ Debounce \in Nat /\ Budget \in Nat
      /\ Low + High < Rev
  BY HomingAssumption DEF Budget
<1>5. 2 * Rev <= Turn /\ Turn <= 2 * Budget + 1
  BY DEF SearchFits
<1>. HIDE DEF h
<1>6. Bottom <= -Rev /\ High <= Top
  BY <1>1, <1>2, <1>3, <1>4, <1>5
<1>7. -Budget <= Bottom /\ Top <= Budget
  BY <1>1, <1>2, <1>3, <1>4, <1>5
<1>8. -Low .. High \subseteq Bottom .. Top
  BY <1>1, <1>2, <1>3, <1>4, <1>6
<1>. QED
  BY <1>4, <1>6, <1>7, <1>8

\* Where the window is, seen from a position in it.
LEMMA WindowShift ==
  ASSUME SearchFits, NEW p \in Int, NEW e \in Int,
         InTurn(p) + e \in -Low .. High
  PROVE  InTurn(p + e) = InTurn(p) + e /\ InWindow(p + e)
<1>1. InTurn(p) + e \in Bottom .. Top
  BY WindowFits
<1>2. InTurn(p + e) = InTurn(p) + e
  BY <1>1, InTurnShift
<1>. QED
  BY <1>2 DEF InWindow

\* A chunk cannot step over the window.
LEMMA NoWindowBetween ==
  ASSUME SearchFits, NEW a \in Int, NEW p \in a .. a + Chunk,
         ~InWindow(a), ~InWindow(a + Chunk)
  PROVE  ~InWindow(p)
<1>. SUFFICES ASSUME InWindow(p)
              PROVE  FALSE
  OBVIOUS
<1>. DEFINE j == InTurn(p)
            e == p - a
<1>1. /\ Low \in Nat /\ High \in Nat /\ Chunk \in Nat /\ Debounce \in Nat
      /\ Chunk + Debounce <= Low
  BY WindowFits DEF SearchFits
<1>2. /\ p \in Int /\ e \in 0 .. Chunk
      /\ a = p + (-e) /\ a + Chunk = p + (Chunk - e)
  BY <1>1
<1>3. j \in -Low .. High
  BY DEF InWindow
<1>. HIDE DEF e
<1>4. ~(j + (-e) \in -Low .. High)
  BY <1>1, <1>2, WindowShift
<1>5. ~(j + (Chunk - e) \in -Low .. High)
  BY <1>1, <1>2, WindowShift
<1>. HIDE DEF j
<1>. QED
  BY <1>1, <1>2, <1>3, <1>4, <1>5

\* Within two budgets of any place there is a window.
LEMMA WindowInReach ==
  ASSUME SearchFits, NEW p \in Int
  PROVE  \E w \in p - Budget .. p + Budget : InWindow(w)
<1>. DEFINE w == p - InTurn(p)
<1>1. w \in Int /\ InTurn(w) = 0
  BY IndexOf
<1>2. InTurn(p) \in -Budget .. Budget
  BY InTurnIs, WindowFits, TurnRange
<1>3. w \in p - Budget .. p + Budget
  BY <1>2, WindowFits
<1>4. InWindow(w)
  BY <1>1, WindowFits DEF InWindow
<1>. QED
  BY <1>3, <1>4

\* The direct move from a position in the window goes to the index where it
\* lies ahead; where it lies behind, the counter-clockwise one may as well go
\* to the sensor's value a motor turn below.
LEMMA DirectMove ==
  ASSUME SearchFits, NEW p \in Int, InWindow(p), NEW ccw \in BOOLEAN,
         ~ccw => InTurn(p) <= -1, NEW delta \in Direct(p, ccw)
  PROVE  \/ delta = -InTurn(p)
         \/ ccw /\ InTurn(p) <= 0 /\ delta = -InTurn(p) - Rev
<1>. DEFINE j == InTurn(p)
<1>1. /\ j \in Int /\ -Low <= j /\ j <= High
      /\ Low \in Nat /\ High \in Nat /\ Rev \in Nat \ {0}
      /\ Low + High < Rev
  BY WindowFits, HomingAssumption DEF InWindow
<1>2. PICK m \in Int : p = Rev * m + j
  <2>1. PICK q \in Int : p = Turn * q + j
    BY InTurnIs
  <2>2. PICK t \in Int : Turn = Rev * t
    <3>. DEFINE t == Turn \div Rev
    <3>1. t \in Int /\ Turn = Rev * t + (Turn % Rev) /\ Turn % Rev = 0
      BY HomingAssumption, Division
    <3>. HIDE DEF t
    <3>2. Turn = Rev * t
      BY <1>1, <3>1
    <3>. QED
      BY <3>1, <3>2
  <2>3. Turn * q = Rev * (t * q) /\ t * q \in Int
    BY <1>1, <2>2
  <2>. QED
    BY <2>1, <2>3
<1>. HIDE DEF j
<1>3. CASE j >= 0
  <2>1. j \in 0 .. Rev - 1
    BY <1>1, <1>3
  <2>2. p % Rev = j
    BY <1>1, <1>2, <2>1, RemainderOf
  <2>3. ccw
    BY <1>1, <1>3 DEF j
  <2>4. delta = -j \/ (j = 0 /\ delta = -Rev)
    BY <2>2, <2>3 DEF Direct, Phase
  <2>. QED
    BY <1>1, <2>3, <2>4 DEF j
<1>4. CASE j < 0
  <2>1. j + Rev \in 0 .. Rev - 1 /\ -j \in 0 .. Rev - 1
    BY <1>1, <1>4
  <2>2. p % Rev = j + Rev
    <3>1. p = Rev * (m - 1) + (j + Rev) /\ m - 1 \in Int
      BY <1>1, <1>2
    <3>2. (Rev * (m - 1) + (j + Rev)) % Rev = j + Rev
      BY <1>1, <2>1, <3>1, RemainderOf
    <3>. QED
      BY <3>1, <3>2
  <2>3. (-p) % Rev = -j
    <3>1. -p = Rev * (-m) + (-j) /\ -m \in Int
      BY <1>1, <1>2
    <3>2. (Rev * (-m) + (-j)) % Rev = -j
      BY <1>1, <2>1, <3>1, RemainderOf
    <3>. QED
      BY <3>1, <3>2
  <2>4. p % Rev # 0
    BY <1>1, <1>4, <2>2
  <2>5. CASE ccw
    <3>1. delta = -(j + Rev)
      BY <2>2, <2>4, <2>5 DEF Direct, Phase
    <3>. QED
      BY <1>1, <1>4, <2>5, <3>1 DEF j
  <2>6. CASE ~ccw
    BY <2>3, <2>4, <2>6 DEF Direct, Phase, j
  <2>. QED
    BY <2>5, <2>6
<1>. QED
  BY <1>1, <1>3, <1>4

------------------------------------------------------------------------------
(* The inductive invariant of a homing without glitches *)

Clean == glitches = 0

\* Where the attempt's two sweeps begin.
From == origin + start

Clear(a, b) == \A p \in a .. b : ~InWindow(p)

\* Homing begins out of reach of the window below.
BegunHigh == InTurn(began) > Reach + High - Turn
Zero == began - InTurn(began)

\* The first attempt begins where homing did.  There is only a second one
\* where that was the lower half of the window: it begins a motor turn below.
CleanAttempt ==
  Clean /\ phase \notin Idle =>
    \/ attempt = 1 /\ From = began
    \/ attempt = 2 /\ InTurn(began) \in -Low .. 0 /\ From = Zero - Rev

CleanLook == Clean /\ phase \in {"look", "first"} => at = From

\* Whatever was passed was not the window.
CleanSweep ==
  Clean /\ phase \in {"first", "chunk"} =>
    /\ direction = -1 => Clear(at, From)
    /\ direction = 1 => Clear(From - Budget, at)

CleanChunk ==
  Clean /\ phase = "chunk" =>
    /\ ~startState
    /\ at = From + direction * traveled
    /\ traveled \in 0 .. Budget + Chunk

\* The edge a sweep finds is the near one, passed by no more than a chunk.
CleanConfirm ==
  Clean /\ phase = "confirm" =>
    /\ ~startState
    /\ direction = -1 => InTurn(at) \in High - Chunk + 1 .. High
    /\ direction = 1 => InTurn(at) \in -Low .. Chunk - Low - 1

\* Found by a sweep, zero lies ahead; found at once, it may be behind.
CleanDirect ==
  Clean /\ phase = "direct" =>
    /\ InWindow(at)
    /\ viaCCW => InTurn(at) >= 1 \/ (attempt = 1 /\ at = began)
    /\ ~viaCCW => InTurn(at) <= -1

\* The direct move ends on zero, or in the first attempt a motor turn below.
CleanLand ==
  Clean /\ phase = "land" =>
    \/ InTurn(at) = 0
    \/ attempt = 1 /\ InTurn(began) \in -Low .. 0 /\ at = Zero - Rev

CleanIInv ==
  /\ TypeOK
  /\ CleanAttempt /\ CleanLook /\ CleanSweep /\ CleanChunk
  /\ CleanConfirm /\ CleanDirect /\ CleanLand
  /\ AbortsOnlyOnGlitches

\* The window that is found is that of the turn homing began in.
FoundHere ==
  Clean /\ BegunHigh =>
    /\ phase \in {"confirm", "direct"} => InTurn(at) = at - Zero
    /\ phase = "land" /\ InTurn(at) = 0 => at = Zero
    /\ phase = "homed" => origin = Zero

------------------------------------------------------------------------------
(* Every step of a homing keeps it *)

\* Power-on is well-typed.
LEMMA TypeInit == Init => TypeOK
<1>. SUFFICES ASSUME Init
              PROVE  TypeOK
  OBVIOUS
<1>1. at \in Int /\ origin \in Int /\ start \in Int /\ began \in Int
  BY HomingAssumption DEF Init
<1>2. phase \in Phases
  BY DEF Init, Phases
<1>3. /\ attempt \in Nat /\ direction \in {-1, 1} /\ traveled \in Nat
      /\ glitches \in Nat /\ homings \in Nat
  BY DEF Init
<1>4. startState \in BOOLEAN /\ viaCCW \in BOOLEAN /\ misled \in BOOLEAN
  BY DEF Init
<1>. QED
  BY <1>1, <1>2, <1>3, <1>4 DEF TypeOK

\* Every step keeps every variable in its type.
LEMMA TypeStep == TypeOK /\ [Next]_vars => TypeOK'
<1>. SUFFICES ASSUME TypeOK, [Next]_vars
              PROVE  TypeOK'
  OBVIOUS
<1>0. /\ Rev \in Nat \ {0} /\ Chunk \in Nat /\ Debounce \in Nat
      /\ Limit \in Nat
  BY HomingAssumption
<1>1. \A p, a : Reads(p, a) => glitches' \in Nat
  BY DEF TypeOK, Reads
<1>2. CASE Home
  <2>1. misled' \in BOOLEAN
    BY <1>2 DEF Home
  <2>2. /\ start' \in Int /\ began' \in Int
        /\ attempt' \in Nat /\ homings' \in Nat
    BY <1>2 DEF Home, TypeOK
  <2>3. /\ UNCHANGED <<at, origin, direction, traveled, startState>>
        /\ UNCHANGED <<viaCCW, glitches>>
    BY <1>2 DEF Home, place, sweep
  <2>. QED
    BY <1>2, <2>1, <2>2, <2>3 DEF Home, TypeOK, Phases
<1>3. CASE Look \/ First
  <2>1. viaCCW' \in BOOLEAN /\ startState' \in BOOLEAN
    BY <1>3 DEF Look, First, TypeOK
  <2>2. direction' \in {-1, 1} /\ traveled' \in Nat
    BY <1>3 DEF Look, First, TypeOK
  <2>3. glitches' \in Nat
    BY <1>1, <1>3 DEF Look, First
  <2>4. UNCHANGED <<at, origin, misled, attempt, start, began, homings>>
    BY <1>3 DEF Look, First, place
  <2>5. phase' \in Phases
    BY <1>3 DEF Look, First, Phases
  <2>. QED
    BY <2>1, <2>2, <2>3, <2>4, <2>5 DEF TypeOK
<1>4. CASE Sweep \/ Confirm
  BY <1>0, <1>1, <1>4 DEF Sweep, Confirm, TypeOK, Phases
<1>5. CASE GiveUp
  BY <1>5 DEF GiveUp, hall, TypeOK, Phases
<1>6. CASE MoveToZero
  <2>1. PICK delta \in Direct(at, viaCCW) : at' = at + delta
    BY <1>6 DEF MoveToZero
  <2>2. at % Rev \in Int /\ (-at) % Rev \in Int
    BY <1>0, Division DEF TypeOK
  <2>3. delta \in Int
    BY <1>0, <2>1, <2>2 DEF Direct, Phase
  <2>. QED
    BY <1>6, <2>1, <2>3 DEF MoveToZero, sweep, hall, TypeOK, Phases
<1>7. CASE Land
  BY <1>1, <1>7 DEF Land, sweep, TypeOK, Phases
<1>8. CASE Drive \/ Restart
  BY <1>0, <1>8 DEF Drive, Restart, sweep, hall, TypeOK, Phases
<1>9. CASE UNCHANGED vars
  BY <1>9 DEF vars, place, sweep, hall, TypeOK
<1>. QED
  BY <1>2, <1>3, <1>4, <1>5, <1>6, <1>7, <1>8, <1>9 DEF Next

\* Every variable keeps its type.
THEOREM TypeCorrect == Spec => []TypeOK
BY TypeInit, TypeStep, PTL DEF Spec

\* A step without a glitch follows one without, and what it read is true.
LEMMA CleanReads ==
  ASSUME glitches \in Nat, Clean', NEW p, NEW a \in BOOLEAN, Reads(p, a)
  PROVE  Clean /\ (a <=> InWindow(p))
<1>1. CASE a = InWindow(p)
  BY <1>1 DEF Reads, Clean
<1>2. CASE a # InWindow(p)
  BY <1>2 DEF Reads, Clean
<1>. QED
  BY <1>1, <1>2

\* After a glitch there is nothing left to show.
LEMMA DirtyKeeps ==
  ASSUME TypeOK', ~Clean'
  PROVE  CleanIInv'
<1>1. glitches' > 0
  BY DEF TypeOK, Clean
<1>. QED
  BY <1>1
  DEF CleanIInv, Clean, CleanAttempt, CleanLook, CleanSweep, CleanChunk,
      CleanConfirm, CleanDirect, CleanLand, AbortsOnlyOnGlitches

\* A sweep begins at a position.
LEMMA FromInt == TypeOK => From \in Int
BY DEF TypeOK, From

\* A motor turn below an index is no window.
LEMMA TurnBelow ==
  ASSUME SearchFits, NEW b \in Int
  PROVE  /\ (b - InTurn(b)) - Rev \in Int
         /\ InTurn((b - InTurn(b)) - Rev) = -Rev
         /\ ~InWindow((b - InTurn(b)) - Rev)
<1>. DEFINE z == b - InTurn(b)
<1>1. z \in Int /\ InTurn(z) = 0
  BY IndexOf
<1>2. /\ Rev \in Nat /\ Low \in Nat /\ High \in Nat /\ Low + High < Rev
      /\ -Rev \in Bottom .. Top
  BY WindowFits, TurnRange
<1>. HIDE DEF z
<1>3. InTurn(z) + (-Rev) = -Rev /\ z - Rev = z + (-Rev) /\ -Rev \in Int
  BY <1>1, <1>2
<1>4. InTurn(z + (-Rev)) = -Rev
  BY <1>1, <1>2, <1>3, InTurnShift
<1>5. InTurn(z - Rev) = -Rev
  BY <1>3, <1>4
<1>6. z - Rev \in Int /\ ~InWindow(z - Rev)
  BY <1>1, <1>2, <1>5 DEF InWindow
<1>. QED
  BY <1>5, <1>6 DEF z

\* A homing begins where it stands.
LEMMA HomeKeeps ==
  ASSUME CleanIInv, TypeOK', Home
  PROVE  CleanIInv'
<1>1. at' = From' /\ at' = began' /\ attempt' = 1 /\ phase' = "look"
  BY DEF CleanIInv, TypeOK, Home, From, place
<1>. QED
  BY <1>1
  DEF CleanIInv, CleanAttempt, CleanLook, CleanSweep, CleanChunk,
      CleanConfirm, CleanDirect, CleanLand, AbortsOnlyOnGlitches, Idle

\* The first look finds the window or clears the first position.  A second
\* attempt is a motor turn below zero, where there is none.
LEMMA LookKeeps ==
  ASSUME SearchFits, CleanIInv, TypeOK', Clean', Look
  PROVE  CleanIInv'
<1>1. PICK active \in BOOLEAN :
        Reads(at, active) /\ phase' = IF active THEN "direct" ELSE "first"
  BY DEF Look
<1>2. Clean /\ (active <=> InWindow(at))
  BY <1>1, CleanReads DEF CleanIInv, TypeOK
<1>3. /\ phase = "look" /\ viaCCW' = TRUE /\ direction' = -1
      /\ UNCHANGED <<at, origin, attempt, start, began>>
      /\ UNCHANGED From /\ UNCHANGED Zero
  BY DEF Look, place, From, Zero
<1>4. /\ at = From
      /\ \/ attempt = 1 /\ From = began
         \/ attempt = 2 /\ InTurn(began) \in -Low .. 0 /\ From = Zero - Rev
  BY <1>2, <1>3 DEF CleanIInv, CleanLook, CleanAttempt, Idle
<1>5. CleanAttempt'
  BY <1>3, <1>4 DEF CleanAttempt
<1>6. CASE active
  <2>1. attempt = 1
    BY <1>2, <1>4, <1>6, TurnBelow DEF CleanIInv, TypeOK, Zero
  <2>. QED
    BY <1>1, <1>2, <1>3, <1>4, <1>5, <1>6, <2>1
    DEF CleanIInv, CleanLook, CleanSweep, CleanChunk, CleanConfirm,
        CleanDirect, CleanLand, AbortsOnlyOnGlitches, InWindow
<1>7. CASE ~active
  <2>1. Clear(at, at)
    BY <1>2, <1>7 DEF Clear, CleanIInv, TypeOK
  <2>2. Clear(at', From')
    BY <1>3, <1>4, <2>1
  <2>. QED
    BY <1>1, <1>3, <1>4, <1>5, <1>7, <2>2
    DEF CleanIInv, CleanLook, CleanSweep, CleanChunk, CleanConfirm,
        CleanDirect, CleanLand, AbortsOnlyOnGlitches
<1>. QED
  BY <1>6, <1>7

\* A sweep begins outside the window, as long as none has been found.
LEMMA FirstKeeps ==
  ASSUME SearchFits, CleanIInv, TypeOK', Clean', First
  PROVE  CleanIInv'
<1>1. PICK active \in BOOLEAN : Reads(at, active) /\ startState' = active
  BY DEF First
<1>2. Clean /\ (active <=> InWindow(at))
  BY <1>1, CleanReads DEF CleanIInv, TypeOK
<1>3. /\ phase = "first" /\ phase' = "chunk" /\ traveled' = 0
      /\ UNCHANGED <<at, origin, attempt, start, began, direction>>
      /\ UNCHANGED From /\ UNCHANGED Zero
  BY DEF First, place, From, Zero
<1>4. CleanAttempt'
  BY <1>2, <1>3 DEF CleanIInv, CleanAttempt, Idle
<1>5. /\ at = From
      /\ direction = -1 => Clear(at, From)
      /\ direction = 1 => Clear(From - Budget, at)
  BY <1>2, <1>3 DEF CleanIInv, CleanLook, CleanSweep
<1>6. at \in Int /\ direction \in {-1, 1} /\ Budget \in Nat /\ Chunk \in Nat
  BY WindowFits DEF CleanIInv, TypeOK
<1>7. ~InWindow(at)
  <2>1. From - Budget \in Int
    BY <1>5, <1>6
  <2>. QED
    BY <1>5, <1>6, <2>1 DEF Clear
<1>8. CleanSweep'
  BY <1>3, <1>5 DEF CleanSweep
<1>9. CleanChunk'
  <2>1. startState' = FALSE
    BY <1>1, <1>2, <1>7
  <2>2. at = From + direction * 0 /\ 0 \in 0 .. Budget + Chunk
    BY <1>5, <1>6
  <2>. QED
    BY <1>3, <2>1, <2>2 DEF CleanChunk
<1>. QED
  BY <1>3, <1>4, <1>8, <1>9
  DEF CleanIInv, CleanLook, CleanConfirm, CleanDirect, CleanLand,
      AbortsOnlyOnGlitches

\* A chunk ends outside the window and has passed none, or just inside of it.
LEMMA SweepKeeps ==
  ASSUME SearchFits, CleanIInv, TypeOK', Clean', Sweep
  PROVE  CleanIInv'
<1>. DEFINE p == at'
<1>1. PICK active \in BOOLEAN :
        /\ Reads(at', active)
        /\ phase' = IF active # startState THEN "confirm" ELSE "chunk"
  BY DEF Sweep
<1>2. Clean /\ (active <=> InWindow(at'))
  BY <1>1, CleanReads DEF CleanIInv, TypeOK
<1>3. /\ phase = "chunk"
      /\ UNCHANGED <<origin, attempt, start, began, direction, startState>>
      /\ UNCHANGED From /\ UNCHANGED Zero
  BY DEF Sweep, From, Zero
<1>4. CleanAttempt'
  BY <1>1, <1>2, <1>3 DEF CleanIInv, CleanAttempt, Idle
<1>5. /\ startState = FALSE
      /\ at = From + direction * traveled /\ traveled \in 0 .. Budget + Chunk
      /\ direction = -1 => Clear(at, From)
      /\ direction = 1 => Clear(From - Budget, at)
  BY <1>2, <1>3 DEF CleanIInv, CleanSweep, CleanChunk
<1>6. /\ at \in Int /\ From \in Int /\ direction \in {-1, 1}
      /\ Budget \in Nat /\ Chunk \in Nat \ {0}
      /\ Low \in Nat /\ High \in Nat /\ Debounce \in Nat
      /\ Chunk + Debounce <= Low /\ Chunk + Debounce <= High
  BY FromInt, WindowFits DEF CleanIInv, TypeOK, SearchFits
<1>7. /\ p = at + direction * Chunk
      /\ traveled' = traveled + Chunk /\ traveled < Budget
  BY DEF Sweep
<1>8. p \in Int /\ traveled \in Nat
  BY <1>5, <1>6, <1>7
<1>. HIDE DEF p
<1>9. CASE direction = -1
  <2>1. /\ p = at - Chunk /\ at = p + Chunk /\ at = From - traveled
        /\ p <= From /\ at <= From
    BY <1>5, <1>6, <1>7, <1>8, <1>9
  <2>2. ~InWindow(at)
    BY <1>5, <1>6, <1>9, <2>1 DEF Clear
  <2>3. CASE active
    <3>1. InTurn(p) \in -Low .. High
      BY <1>2, <2>3 DEF InWindow, p
    <3>2. ~(InTurn(p) + Chunk \in -Low .. High)
      BY <1>6, <1>8, <2>1, <2>2, WindowShift
    <3>3. InTurn(p) \in High - Chunk + 1 .. High
      BY <1>6, <3>1, <3>2
    <3>4. phase' = "confirm"
      BY <1>1, <1>5, <2>3
    <3>5. CleanConfirm'
      BY <1>3, <1>5, <1>9, <3>3 DEF CleanConfirm, p
    <3>. QED
      BY <1>4, <3>4, <3>5
      DEF CleanIInv, CleanLook, CleanSweep, CleanChunk, CleanDirect,
          CleanLand, AbortsOnlyOnGlitches
  <2>4. CASE ~active
    <3>1. ~InWindow(p)
      BY <1>2, <2>4 DEF p
    <3>2. Clear(p, From)
      <4>. SUFFICES ASSUME NEW w \in p .. From
                    PROVE  ~InWindow(w)
        BY DEF Clear
      <4>1. CASE w \in p .. p + Chunk
        <5>1. ~InWindow(p + Chunk)
          BY <2>1, <2>2
        <5>. QED
          BY <1>8, <3>1, <4>1, <5>1, NoWindowBetween
      <4>2. CASE w \in at .. From
        BY <1>5, <1>9, <4>2 DEF Clear
      <4>. QED
        BY <1>6, <1>8, <2>1, <4>1, <4>2
    <3>3. phase' = "chunk"
      BY <1>1, <1>5, <2>4
    <3>4. CleanSweep'
      BY <1>3, <1>9, <3>2, <3>3 DEF CleanSweep, p
    <3>5. CleanChunk'
      <4>1. p = From + direction * (traveled + Chunk)
        BY <1>6, <1>7, <1>8, <1>9, <2>1
      <4>2. traveled + Chunk \in 0 .. Budget + Chunk
        BY <1>6, <1>7, <1>8
      <4>. QED
        BY <1>3, <1>5, <1>7, <4>1, <4>2 DEF CleanChunk, p
    <3>. QED
      BY <1>4, <3>3, <3>4, <3>5
      DEF CleanIInv, CleanLook, CleanConfirm, CleanDirect, CleanLand,
          AbortsOnlyOnGlitches
  <2>. QED
    BY <2>3, <2>4
<1>10. CASE direction = 1
  <2>1. /\ p = at + Chunk /\ at = p + (-Chunk) /\ at = From + traveled
        /\ From <= at /\ From - Budget <= at /\ -Chunk \in Int
    BY <1>5, <1>6, <1>7, <1>8, <1>10
  <2>2. ~InWindow(at)
    BY <1>5, <1>6, <1>10, <2>1 DEF Clear
  <2>3. CASE active
    <3>1. InTurn(p) \in -Low .. High
      BY <1>2, <2>3 DEF InWindow, p
    <3>2. ~(InTurn(p) + (-Chunk) \in -Low .. High)
      BY <1>6, <1>8, <2>1, <2>2, WindowShift
    <3>3. InTurn(p) \in -Low .. Chunk - Low - 1
      BY <1>6, <3>1, <3>2
    <3>4. phase' = "confirm"
      BY <1>1, <1>5, <2>3
    <3>5. CleanConfirm'
      BY <1>3, <1>5, <1>10, <3>3 DEF CleanConfirm, p
    <3>. QED
      BY <1>4, <3>4, <3>5
      DEF CleanIInv, CleanLook, CleanSweep, CleanChunk, CleanDirect,
          CleanLand, AbortsOnlyOnGlitches
  <2>4. CASE ~active
    <3>1. ~InWindow(p)
      BY <1>2, <2>4 DEF p
    <3>2. Clear(From - Budget, p)
      <4>. SUFFICES ASSUME NEW w \in From - Budget .. p
                    PROVE  ~InWindow(w)
        BY DEF Clear
      <4>1. CASE w \in at .. at + Chunk
        <5>1. ~InWindow(at + Chunk)
          BY <2>1, <3>1
        <5>. QED
          BY <1>6, <2>2, <4>1, <5>1, NoWindowBetween
      <4>2. CASE w \in From - Budget .. at
        BY <1>5, <1>10, <4>2 DEF Clear
      <4>. QED
        BY <1>6, <1>8, <2>1, <4>1, <4>2
    <3>3. phase' = "chunk"
      BY <1>1, <1>5, <2>4
    <3>4. CleanSweep'
      BY <1>3, <1>10, <3>2, <3>3 DEF CleanSweep, p
    <3>5. CleanChunk'
      <4>1. p = From + direction * (traveled + Chunk)
        BY <1>6, <1>7, <1>8, <1>10, <2>1
      <4>2. traveled + Chunk \in 0 .. Budget + Chunk
        BY <1>6, <1>7, <1>8
      <4>. QED
        BY <1>3, <1>5, <1>7, <4>1, <4>2 DEF CleanChunk, p
    <3>. QED
      BY <1>4, <3>3, <3>4, <3>5
      DEF CleanIInv, CleanLook, CleanConfirm, CleanDirect, CleanLand,
          AbortsOnlyOnGlitches
  <2>. QED
    BY <2>3, <2>4
<1>. QED
  BY <1>6, <1>9, <1>10

\* A little further on is still in the window, and zero still ahead.
LEMMA ConfirmKeeps ==
  ASSUME SearchFits, CleanIInv, TypeOK', Clean', Confirm
  PROVE  CleanIInv'
<1>. DEFINE p == at'
<1>1. PICK active \in BOOLEAN :
        /\ Reads(at', active)
        /\ phase' = IF active # startState THEN "direct" ELSE "chunk"
        /\ viaCCW' = IF active # startState THEN direction = -1 ELSE viaCCW
  BY DEF Confirm
<1>2. Clean /\ (active <=> InWindow(at'))
  BY <1>1, CleanReads DEF CleanIInv, TypeOK
<1>3. /\ phase = "confirm"
      /\ UNCHANGED <<origin, attempt, start, began>>
      /\ UNCHANGED From /\ UNCHANGED Zero
  BY DEF Confirm, From, Zero
<1>4. CleanAttempt'
  BY <1>1, <1>2, <1>3 DEF CleanIInv, CleanAttempt, Idle
<1>5. /\ startState = FALSE
      /\ direction = -1 => InTurn(at) \in High - Chunk + 1 .. High
      /\ direction = 1 => InTurn(at) \in -Low .. Chunk - Low - 1
  BY <1>2, <1>3 DEF CleanIInv, CleanConfirm
<1>6. /\ at \in Int /\ direction \in {-1, 1}
      /\ Chunk \in Nat \ {0} /\ Debounce \in Nat /\ Low \in Nat /\ High \in Nat
      /\ Chunk + Debounce <= Low /\ Chunk + Debounce <= High
  BY WindowFits DEF CleanIInv, TypeOK, SearchFits
<1>7. p = at + direction * Debounce
  BY DEF Confirm
<1>. HIDE DEF p
<1>8. /\ InWindow(p)
      /\ direction = -1 => InTurn(p) >= 1
      /\ direction = 1 => InTurn(p) <= -1
  <2>1. CASE direction = -1
    <3>1. InTurn(at) + (-Debounce) \in 1 .. High /\ -Debounce \in Int
      BY <1>5, <1>6, <2>1
    <3>2. InTurn(at) + (-Debounce) \in -Low .. High /\ p = at + (-Debounce)
      BY <1>6, <1>7, <2>1, <3>1
    <3>3. InTurn(p) = InTurn(at) + (-Debounce) /\ InWindow(p)
      BY <1>6, <3>1, <3>2, WindowShift
    <3>. QED
      BY <2>1, <3>1, <3>3
  <2>2. CASE direction = 1
    <3>1. InTurn(at) + Debounce \in -Low .. -1
      BY <1>5, <1>6, <2>2
    <3>2. InTurn(at) + Debounce \in -Low .. High /\ p = at + Debounce
      BY <1>6, <1>7, <2>2, <3>1
    <3>3. InTurn(p) = InTurn(at) + Debounce /\ InWindow(p)
      BY <1>6, <3>2, WindowShift
    <3>. QED
      BY <2>2, <3>1, <3>3
  <2>. QED
    BY <1>6, <2>1, <2>2
<1>9. active # startState
  BY <1>2, <1>5, <1>8 DEF p
<1>10. phase' = "direct" /\ (viaCCW' <=> direction = -1)
  BY <1>1, <1>9
<1>11. CleanDirect'
  BY <1>6, <1>8, <1>10 DEF CleanDirect, p
<1>. QED
  BY <1>4, <1>10, <1>11
  DEF CleanIInv, CleanLook, CleanSweep, CleanChunk, CleanConfirm, CleanLand,
      AbortsOnlyOnGlitches

\* Only the first sweep can end without the window: between them the two
\* pass a whole turn.
LEMMA GiveUpKeeps ==
  ASSUME SearchFits, CleanIInv, TypeOK', Clean', GiveUp
  PROVE  CleanIInv'
<1>1. /\ phase = "chunk" /\ traveled >= Budget
      /\ UNCHANGED <<origin, attempt, start, began>>
      /\ UNCHANGED From /\ UNCHANGED Zero
      /\ glitches' = glitches
  BY DEF GiveUp, From, Zero, hall
<1>2. Clean
  BY <1>1 DEF Clean
<1>3. /\ at = From + direction * traveled /\ traveled \in 0 .. Budget + Chunk
      /\ direction = -1 => Clear(at, From)
      /\ direction = 1 => Clear(From - Budget, at)
  BY <1>1, <1>2 DEF CleanIInv, CleanSweep, CleanChunk
<1>4. /\ at \in Int /\ From \in Int /\ direction \in {-1, 1}
      /\ Budget \in Nat /\ Chunk \in Nat
  BY FromInt, WindowFits DEF CleanIInv, TypeOK
<1>5. direction = -1
  <2>. SUFFICES ASSUME direction = 1
                PROVE  FALSE
    BY <1>4
  <2>1. From + Budget <= at
    BY <1>1, <1>3, <1>4
  <2>2. PICK w \in From - Budget .. From + Budget : InWindow(w)
    BY <1>4, WindowInReach
  <2>3. w \in From - Budget .. at
    BY <1>4, <2>1
  <2>. QED
    BY <1>3, <2>2, <2>3 DEF Clear
<1>6. at' = From /\ phase' = "first" /\ direction' = 1
  BY <1>5 DEF GiveUp, From
<1>7. Clear(From - Budget, From)
  <2>1. at <= From - Budget
    BY <1>1, <1>3, <1>4, <1>5
  <2>2. \A w \in From - Budget .. From : w \in at .. From
    BY <1>4, <2>1
  <2>. QED
    BY <1>3, <1>5, <2>2 DEF Clear
<1>8. CleanAttempt'
  BY <1>1, <1>2, <1>6 DEF CleanIInv, CleanAttempt, Idle
<1>9. CleanSweep' /\ CleanLook'
  BY <1>1, <1>6, <1>7 DEF CleanSweep, CleanLook
<1>. QED
  BY <1>6, <1>8, <1>9
  DEF CleanIInv, CleanChunk, CleanConfirm, CleanDirect, CleanLand,
      AbortsOnlyOnGlitches

\* The direct move ends on zero.  Only from where the first look found the
\* window, zero or just below it, can it end a motor turn below.
LEMMA MoveToZeroKeeps ==
  ASSUME SearchFits, CleanIInv, TypeOK', Clean', MoveToZero
  PROVE  CleanIInv'
<1>1. PICK delta \in Direct(at, viaCCW) : at' = at + delta
  BY DEF MoveToZero
<1>2. /\ phase = "direct" /\ phase' = "land" /\ glitches' = glitches
      /\ UNCHANGED <<origin, attempt, start, began, viaCCW>>
      /\ UNCHANGED From /\ UNCHANGED Zero
  BY DEF MoveToZero, From, Zero, hall
<1>3. Clean
  BY <1>2 DEF Clean
<1>4. /\ InWindow(at)
      /\ viaCCW => InTurn(at) >= 1 \/ (attempt = 1 /\ at = began)
      /\ ~viaCCW => InTurn(at) <= -1
  BY <1>2, <1>3 DEF CleanIInv, CleanDirect
<1>5. at \in Int /\ viaCCW \in BOOLEAN /\ InTurn(at) \in Int
  BY InTurnIs, TurnRange DEF CleanIInv, TypeOK
<1>6. \/ delta = -InTurn(at)
      \/ viaCCW /\ InTurn(at) <= 0 /\ delta = -InTurn(at) - Rev
  BY <1>1, <1>4, <1>5, DirectMove
<1>7. CASE delta = -InTurn(at)
  <2>1. at' = at - InTurn(at)
    BY <1>1, <1>5, <1>7
  <2>2. InTurn(at') = 0
    BY <1>5, <2>1, IndexOf
  <2>3. CleanLand'
    BY <2>2 DEF CleanLand
  <2>. QED
    BY <1>2, <1>3, <2>3
    DEF CleanIInv, CleanAttempt, CleanLook, CleanSweep, CleanChunk,
        CleanConfirm, CleanDirect, AbortsOnlyOnGlitches, Idle
<1>8. CASE viaCCW /\ InTurn(at) <= 0 /\ delta = -InTurn(at) - Rev
  <2>1. attempt = 1 /\ at = began
    BY <1>4, <1>5, <1>8
  <2>2. InTurn(began) \in -Low .. 0
    BY <1>4, <1>5, <1>8, <2>1, WindowFits DEF InWindow
  <2>3. at' = Zero - Rev
    BY <1>1, <1>5, <1>8, <2>1, WindowFits DEF Zero
  <2>4. CleanLand'
    BY <1>2, <2>1, <2>2, <2>3 DEF CleanLand
  <2>. QED
    BY <1>2, <1>3, <2>4
    DEF CleanIInv, CleanAttempt, CleanLook, CleanSweep, CleanChunk,
        CleanConfirm, CleanDirect, AbortsOnlyOnGlitches, Idle
<1>. QED
  BY <1>6, <1>7, <1>8

\* On zero the landing is in the window; a motor turn below it is not, and
\* an attempt is left.
LEMMA LandKeeps ==
  ASSUME SearchFits, CleanIInv, TypeOK', Clean', Land
  PROVE  CleanIInv'
<1>1. PICK active \in BOOLEAN :
        /\ Reads(at, active)
        /\ \/ active /\ phase' = "homed"
           \/ /\ ~active /\ attempt < MaxAttempts
              /\ phase' = "look" /\ attempt' = attempt + 1
              /\ start' = at - origin /\ origin' = origin
           \/ ~active /\ attempt >= MaxAttempts
  BY DEF Land
<1>2. Clean /\ (active <=> InWindow(at))
  BY <1>1, CleanReads DEF CleanIInv, TypeOK
<1>3. /\ phase = "land" /\ UNCHANGED <<at, began>> /\ UNCHANGED Zero
  BY DEF Land, Zero
<1>4. /\ at \in Int /\ began \in Int /\ origin \in Int
      /\ MaxAttempts \in Nat /\ MaxAttempts >= 2
  BY HomingAssumption DEF CleanIInv, TypeOK, SearchFits
<1>5. \/ InTurn(at) = 0
      \/ attempt = 1 /\ InTurn(began) \in -Low .. 0 /\ at = Zero - Rev
  BY <1>2, <1>3 DEF CleanIInv, CleanLand
<1>6. CASE InTurn(at) = 0
  <2>1. active
    BY <1>2, <1>6, WindowFits DEF InWindow
  <2>2. phase' = "homed"
    BY <1>1, <2>1
  <2>. QED
    BY <2>2
    DEF CleanIInv, CleanAttempt, CleanLook, CleanSweep, CleanChunk,
        CleanConfirm, CleanDirect, CleanLand, AbortsOnlyOnGlitches, Idle
<1>7. CASE attempt = 1 /\ InTurn(began) \in -Low .. 0 /\ at = Zero - Rev
  <2>1. ~active
    BY <1>2, <1>4, <1>7, TurnBelow DEF Zero
  <2>2. /\ phase' = "look" /\ attempt' = 2
        /\ start' = at - origin /\ origin' = origin
    BY <1>1, <1>4, <1>7, <2>1
  <2>3. From' = at
    BY <1>4, <2>2 DEF From
  <2>. QED
    BY <1>3, <1>7, <2>2, <2>3
    DEF CleanIInv, CleanAttempt, CleanLook, CleanSweep, CleanChunk,
        CleanConfirm, CleanDirect, CleanLand, AbortsOnlyOnGlitches, Idle
<1>. QED
  BY <1>5, <1>6, <1>7

\* Driving and restarts are none of a homing's business.
LEMMA RestKeeps ==
  ASSUME CleanIInv, TypeOK', Drive \/ Restart \/ UNCHANGED vars
  PROVE  CleanIInv'
<1>1. CASE Drive \/ Restart
  BY <1>1
  DEF Drive, Restart, hall, CleanIInv, CleanAttempt, CleanLook, CleanSweep,
      CleanChunk, CleanConfirm, CleanDirect, CleanLand, AbortsOnlyOnGlitches,
      Idle
<1>2. CASE UNCHANGED vars
  BY <1>2
  DEF vars, place, sweep, hall, CleanIInv, CleanAttempt, CleanLook,
      CleanSweep, CleanChunk, CleanConfirm, CleanDirect, CleanLand,
      AbortsOnlyOnGlitches, Clean, From, Zero
<1>. QED
  BY <1>1, <1>2

\* Every step keeps the invariant of a homing without glitches.
LEMMA CleanStep ==
  SearchFits /\ CleanIInv /\ [Next]_vars => CleanIInv'
<1>. SUFFICES ASSUME SearchFits, CleanIInv, [Next]_vars
              PROVE  CleanIInv'
  OBVIOUS
<1>1. TypeOK'
  BY TypeStep DEF CleanIInv
<1>2. CASE Clean'
  BY <1>1, <1>2, HomeKeeps, LookKeeps, FirstKeeps, SweepKeeps, ConfirmKeeps,
     GiveUpKeeps, MoveToZeroKeeps, LandKeeps, RestKeeps
  DEF Next
<1>3. CASE ~Clean'
  BY <1>1, <1>3, DirtyKeeps
<1>. QED
  BY <1>2, <1>3

\* It holds in every state the rotator can reach.
LEMMA CleanInvariance ==
  ASSUME SearchFits
  PROVE  Spec => []CleanIInv
<1>1. Init => CleanIInv
  <2>1. Init => TypeOK
    BY TypeInit
  <2>2. Init => phase = "lost"
    BY DEF Init
  <2>. QED
    BY <2>1, <2>2
    DEF CleanIInv, CleanAttempt, CleanLook, CleanSweep, CleanChunk,
        CleanConfirm, CleanDirect, CleanLand, AbortsOnlyOnGlitches, Idle
<1>. QED
  BY <1>1, CleanStep, PTL DEF Spec

\* Two sweeps pass every window there is, the second attempt at the latest
\* moves straight to zero, and there are always two attempts.
THEOREM AbortsOnGlitches ==
  ASSUME SearchFits
  PROVE  Spec => []AbortsOnlyOnGlitches
<1>1. CleanIInv => AbortsOnlyOnGlitches
  BY DEF CleanIInv
<1>. QED
  BY <1>1, CleanInvariance, PTL

------------------------------------------------------------------------------
(* In which turn *)

\* Zero is the index of the turn homing began in, within a sweep of it.
LEMMA ZeroIs ==
  ASSUME SearchFits, TypeOK
  PROVE  /\ InTurn(began) \in Bottom .. Top
         /\ InTurn(began) \in -Budget .. Budget
         /\ Zero \in Int /\ InTurn(Zero) = 0 /\ InWindow(Zero)
         /\ began = Zero + InTurn(began)
<1>1. began \in Int
  BY DEF TypeOK
<1>2. InTurn(began) \in Bottom .. Top
  BY <1>1, InTurnIs
<1>3. Zero \in Int /\ InTurn(Zero) = 0
  BY <1>1, IndexOf DEF Zero
<1>4. InWindow(Zero)
  BY <1>3, WindowFits DEF InWindow
<1>5. InTurn(began) \in -Budget .. Budget
  BY <1>2, TurnRange, WindowFits
<1>6. began = Zero + InTurn(began)
  BY <1>1, <1>2, TurnRange DEF Zero
<1>. QED
  BY <1>2, <1>3, <1>4, <1>5, <1>6

\* Between the windows of the turns below and above, the only one is Zero's.
LEMMA WindowOfZero ==
  ASSUME SearchFits, TypeOK, NEW p \in Int, InWindow(p),
         p > (Zero - Turn) + High, p < (Zero + Turn) - Low
  PROVE  InTurn(p) = p - Zero
<1>. DEFINE j == InTurn(p)
            z == Zero
<1>1. z \in Int /\ InTurn(z) = 0
  BY ZeroIs
<1>2. j \in Int /\ -Low <= j /\ j <= High /\ Low \in Nat /\ High \in Nat
  BY WindowFits DEF InWindow
<1>3. Turn \in Nat
  BY HomingAssumption
<1>4. p - j < z + Turn /\ z - Turn < p - j
  <2>. HIDE DEF j, z
  <2>1. p > (z - Turn) + High /\ p < (z + Turn) - Low
    BY DEF z
  <2>. QED
    BY <1>1, <1>2, <1>3, <2>1
<1>. QED
  BY <1>1, <1>4, NearIndex

\* A sweep down stays above the window of the turn below, and a sweep up, for
\* which the sweep down found nothing, has Zero still before it.
LEMMA SweepFindsZero ==
  ASSUME SearchFits, WindowBelowIsFar, CleanIInv, TypeOK', Clean, BegunHigh,
         Sweep, InWindow(at')
  PROVE  InTurn(at') = at' - Zero
<1>. DEFINE p == at'
            b == InTurn(began)
            z == Zero
<1>1. /\ phase = "chunk" /\ p = at + direction * Chunk /\ traveled < Budget
  BY DEF Sweep
<1>2. /\ at = From + direction * traveled /\ traveled \in 0 .. Budget + Chunk
      /\ direction = 1 => Clear(From - Budget, at)
  BY <1>1 DEF CleanIInv, CleanSweep, CleanChunk
<1>3. \/ From = began
      \/ b \in -Low .. 0 /\ From = z - Rev
  BY <1>1 DEF CleanIInv, CleanAttempt, Idle
<1>4. /\ at \in Int /\ From \in Int /\ direction \in {-1, 1}
      /\ Budget \in Nat /\ Chunk \in Nat \ {0} /\ Debounce \in Nat
      /\ Low \in Nat /\ High \in Nat /\ Rev \in Nat /\ Turn \in Nat
      /\ Low + High < Rev /\ 2 * Rev <= Turn /\ Chunk + Debounce <= Low
  BY FromInt, WindowFits, HomingAssumption DEF CleanIInv, TypeOK, SearchFits
<1>5. /\ b \in -Budget .. Budget /\ b <= Top
      /\ z \in Int /\ InWindow(z) /\ began = z + b
      /\ Top \in Int /\ Top <= Turn - 1 - Rev
  <2>1. Top <= Turn - 1 - Rev
    BY WindowFits, TurnRange, HomingAssumption
  <2>. QED
    BY <2>1, ZeroIs, TurnRange DEF CleanIInv
<1>6. b > Reach + High - Turn /\ Reach + Rev + High <= Turn
      /\ Reach = Budget + Chunk + Debounce
  BY DEF BegunHigh, WindowBelowIsFar, Reach, Budget
<1>. HIDE DEF p, b, z
<1>7. From > (z - Turn) + High + Reach \/ From = z - Rev
  BY <1>3, <1>4, <1>5, <1>6
<1>8. From - Budget <= z /\ From < (z + Turn) - Rev
  BY <1>3, <1>4, <1>5
<1>9. CASE direction = -1
  <2>1. p = From - (traveled + Chunk) /\ p \in Int
    BY <1>1, <1>2, <1>4, <1>9
  <2>2. p > (z - Turn) + High
    BY <1>1, <1>2, <1>4, <1>5, <1>6, <1>7, <2>1
  <2>3. p < (z + Turn) - Low
    BY <1>1, <1>2, <1>4, <1>5, <1>8, <2>1
  <2>. QED
    BY <2>1, <2>2, <2>3, WindowOfZero DEF CleanIInv, p, z
<1>10. CASE direction = 1
  <2>1. p = at + Chunk /\ p \in Int /\ at >= From
    BY <1>1, <1>2, <1>4, <1>10
  <2>2. at < z
    <3>1. ~(z \in From - Budget .. at)
      BY <1>2, <1>5, <1>10 DEF Clear
    <3>. QED
      BY <1>4, <1>5, <1>8, <3>1
  <2>3. p < (z + Turn) - Low
    BY <1>4, <1>5, <2>1, <2>2
  <2>4. p > (z - Turn) + High
    BY <1>4, <1>5, <1>6, <1>7, <2>1
  <2>. QED
    BY <2>1, <2>3, <2>4, WindowOfZero DEF CleanIInv, p, z
<1>. QED
  BY <1>4, <1>9, <1>10

\* Every step keeps the window that was found the one of that turn.
LEMMA FoundHereStep ==
  SearchFits /\ WindowBelowIsFar /\ CleanIInv /\ CleanIInv' /\ FoundHere
    /\ [Next]_vars => FoundHere'
<1>. SUFFICES ASSUME SearchFits, WindowBelowIsFar, CleanIInv, CleanIInv',
                     FoundHere, [Next]_vars, Clean', BegunHigh'
              PROVE  FoundHere'
  BY DEF FoundHere
<1>0. TypeOK /\ TypeOK' /\ glitches \in Nat
  BY DEF CleanIInv, TypeOK
<1>1. CASE Home
  BY <1>1 DEF Home, FoundHere
<1>2. CASE Look
  <2>1. PICK active \in BOOLEAN :
          Reads(at, active) /\ phase' = IF active THEN "direct" ELSE "first"
    BY <1>2 DEF Look
  <2>2. Clean /\ (active <=> InWindow(at))
    BY <1>0, <2>1, CleanReads
  <2>3. phase = "look" /\ UNCHANGED <<at, began>> /\ UNCHANGED Zero
    BY <1>2 DEF Look, place, Zero
  <2>4. /\ at = From
        /\ From = began \/ From = Zero - Rev
    BY <2>2, <2>3 DEF CleanIInv, CleanLook, CleanAttempt, Idle
  <2>5. CASE active
    <3>1. at = began
      BY <1>0, <2>2, <2>4, <2>5, TurnBelow DEF TypeOK, Zero
    <3>2. InTurn(at) = at - Zero
      <4>1. began \in Int /\ InTurn(began) \in Int
        BY <1>0, InTurnIs, TurnRange DEF TypeOK
      <4>2. InTurn(began) = began - Zero
        BY <4>1 DEF Zero
      <4>. QED
        BY <3>1, <4>2
    <3>. QED
      BY <2>1, <2>3, <2>5, <3>2 DEF FoundHere
  <2>6. CASE ~active
    BY <2>1, <2>6 DEF FoundHere
  <2>. QED
    BY <2>5, <2>6
<1>3. CASE First \/ GiveUp \/ Restart
  BY <1>3 DEF First, GiveUp, Restart, FoundHere
<1>4. CASE Sweep
  <2>1. PICK active \in BOOLEAN :
          /\ Reads(at', active)
          /\ phase' = IF active # startState THEN "confirm" ELSE "chunk"
    BY <1>4 DEF Sweep
  <2>2. Clean /\ (active <=> InWindow(at'))
    BY <1>0, <2>1, CleanReads
  <2>3. phase = "chunk" /\ UNCHANGED Zero /\ UNCHANGED BegunHigh
    BY <1>4 DEF Sweep, Zero, BegunHigh
  <2>4. startState = FALSE
    BY <2>2, <2>3 DEF CleanIInv, CleanChunk
  <2>5. CASE active
    <3>1. InTurn(at') = at' - Zero
      BY <1>0, <1>4, <2>2, <2>3, <2>5, SweepFindsZero
    <3>. QED
      BY <2>1, <2>3, <2>4, <2>5, <3>1 DEF FoundHere
  <2>6. CASE ~active
    BY <2>1, <2>4, <2>6 DEF FoundHere
  <2>. QED
    BY <2>5, <2>6
<1>5. CASE Confirm
  <2>1. PICK active \in BOOLEAN :
          /\ Reads(at', active)
          /\ phase' = IF active # startState THEN "direct" ELSE "chunk"
    BY <1>5 DEF Confirm
  <2>2. Clean /\ (active <=> InWindow(at'))
    BY <1>0, <2>1, CleanReads
  <2>3. /\ phase = "confirm" /\ UNCHANGED Zero /\ BegunHigh
        /\ at' = at + direction * Debounce
    BY <1>5 DEF Confirm, Zero, BegunHigh
  <2>4. /\ startState = FALSE
        /\ direction = -1 => InTurn(at) \in High - Chunk + 1 .. High
        /\ direction = 1 => InTurn(at) \in -Low .. Chunk - Low - 1
    BY <2>2, <2>3 DEF CleanIInv, CleanConfirm
  <2>5. InTurn(at) = at - Zero
    BY <2>2, <2>3 DEF FoundHere
  <2>6. CASE active
    <3>. DEFINE p == at'
                z == Zero
    <3>1. /\ at \in Int /\ z \in Int /\ direction \in {-1, 1} /\ p \in Int
          /\ Chunk \in Nat \ {0} /\ Debounce \in Nat
          /\ Low \in Nat /\ High \in Nat /\ Rev \in Nat /\ Turn \in Nat
          /\ Low + High < Rev /\ 2 * Rev <= Turn
          /\ Chunk + Debounce <= Low /\ Chunk + Debounce <= High
      BY <1>0, ZeroIs, WindowFits, HomingAssumption DEF TypeOK, SearchFits
    <3>2. InTurn(at) \in -Low .. High /\ InTurn(at) = at - z
      BY <2>4, <2>5, <3>1
    <3>3. p = at + direction * Debounce
      BY <2>3
    <3>. HIDE DEF p, z
    <3>4. p > (z - Turn) + High /\ p < (z + Turn) - Low
      <4>1. at >= z - Low /\ at <= z + High
        BY <3>1, <3>2
      <4>2. p >= at - Debounce /\ p <= at + Debounce
        BY <3>1, <3>3
      <4>. QED
        BY <3>1, <4>1, <4>2
    <3>5. InTurn(p) = p - z
      BY <1>0, <2>2, <2>6, <3>1, <3>4, WindowOfZero DEF p, z
    <3>6. phase' = "direct"
      BY <2>1, <2>4, <2>6
    <3>. QED
      BY <2>3, <3>5, <3>6 DEF FoundHere, p, z
  <2>7. CASE ~active
    BY <2>1, <2>4, <2>7 DEF FoundHere
  <2>. QED
    BY <2>6, <2>7
<1>6. CASE MoveToZero
  <2>1. PICK delta \in Direct(at, viaCCW) : at' = at + delta
    BY <1>6 DEF MoveToZero
  <2>2. /\ phase = "direct" /\ phase' = "land" /\ Clean /\ BegunHigh
        /\ UNCHANGED Zero
    BY <1>6 DEF MoveToZero, hall, Clean, BegunHigh, Zero
  <2>3. InTurn(at) = at - Zero
    BY <2>2 DEF FoundHere
  <2>4. InWindow(at) /\ (~viaCCW => InTurn(at) <= -1)
    BY <2>2 DEF CleanIInv, CleanDirect
  <2>5. /\ at \in Int /\ viaCCW \in BOOLEAN /\ Zero \in Int /\ Rev \in Nat
        /\ began \in Int
    BY <1>0, ZeroIs, WindowFits DEF TypeOK
  <2>6. delta = -InTurn(at) \/ delta = -InTurn(at) - Rev
    BY <2>1, <2>4, <2>5, DirectMove
  <2>7. at' = Zero \/ at' = Zero - Rev
    BY <2>1, <2>3, <2>5, <2>6
  <2>8. Rev # 0 /\ InTurn(Zero - Rev) = -Rev
    BY <2>5, TurnBelow, HomingAssumption DEF Zero
  <2>9. InTurn(at') = 0 => at' = Zero
    BY <2>5, <2>7, <2>8
  <2>. QED
    BY <2>2, <2>9 DEF FoundHere
<1>7. CASE Land
  <2>1. PICK active \in BOOLEAN :
          /\ Reads(at, active)
          /\ \/ active /\ phase' = "homed" /\ origin' = at
             \/ ~active /\ phase' \in {"look", "aborted"}
    BY <1>7 DEF Land
  <2>2. Clean /\ (active <=> InWindow(at))
    BY <1>0, <2>1, CleanReads
  <2>3. phase = "land" /\ UNCHANGED Zero /\ BegunHigh
    BY <1>7 DEF Land, Zero, BegunHigh
  <2>4. CASE active
    <3>1. InTurn(at) = 0
      <4>1. InTurn(at) = 0 \/ at = Zero - Rev
        BY <2>2, <2>3 DEF CleanIInv, CleanLand
      <4>. QED
        BY <1>0, <2>2, <2>4, <4>1, TurnBelow DEF TypeOK, Zero
    <3>2. at = Zero
      BY <2>2, <2>3, <3>1 DEF FoundHere
    <3>. QED
      BY <2>1, <2>3, <2>4, <3>2 DEF FoundHere
  <2>5. CASE ~active
    BY <2>1, <2>5 DEF FoundHere
  <2>. QED
    BY <2>4, <2>5
<1>8. CASE Drive
  BY <1>8 DEF Drive, hall, FoundHere, Clean, BegunHigh, Zero
<1>9. CASE UNCHANGED vars
  BY <1>9 DEF vars, place, hall, FoundHere, Clean, BegunHigh, Zero
<1>. QED
  BY <1>1, <1>2, <1>3, <1>4, <1>5, <1>6, <1>7, <1>8, <1>9 DEF Next

\* So it is in every state the rotator can reach.
LEMMA FoundHereInvariance ==
  ASSUME SearchFits, WindowBelowIsFar
  PROVE  Spec => []FoundHere
<1>1. Init => FoundHere
  BY DEF Init, FoundHere
<1>. QED
  BY <1>1, FoundHereStep, CleanInvariance, PTL DEF Spec

\* How far a sweep, and the motor turn a second attempt begins below, take
\* the output from where homing began.
LEMMA NeverFarFromBegin ==
  ASSUME SearchFits, WindowBelowIsFar, CleanIInv, FoundHere, Clean, BegunHigh,
         phase \notin Idle
  PROVE  at - began \in -(Reach + Rev) .. Reach + Rev
<1>. DEFINE b == InTurn(began)
            z == Zero
<1>1. /\ at \in Int /\ From \in Int /\ direction \in {-1, 1}
      /\ Budget \in Nat /\ Chunk \in Nat \ {0} /\ Debounce \in Nat
      /\ Low \in Nat /\ High \in Nat /\ Rev \in Nat
      /\ Low + High < Rev /\ Chunk + Debounce <= Low
  BY FromInt, WindowFits DEF CleanIInv, TypeOK, SearchFits
<1>2. b \in -Budget .. Budget /\ z \in Int /\ began = z + b
  BY ZeroIs DEF CleanIInv
<1>3. Reach = Budget + Chunk + Debounce
  BY DEF Reach, Budget
<1>4. From = began \/ (b \in -Low .. 0 /\ From = z - Rev)
  BY DEF CleanIInv, CleanAttempt
<1>5. phase \in {"look", "first", "chunk", "confirm", "direct", "land"}
  BY DEF CleanIInv, TypeOK, Phases, Idle
<1>6. CASE phase \in {"look", "first"}
  <2>1. at = From
    BY <1>6 DEF CleanIInv, CleanLook
  <2>. HIDE DEF b, z
  <2>. QED
    BY <1>1, <1>2, <1>3, <1>4, <2>1
<1>7. CASE phase = "chunk"
  <2>1. at = From + direction * traveled /\ traveled \in 0 .. Budget + Chunk
    BY <1>7 DEF CleanIInv, CleanChunk
  <2>2. at - From \in -(Budget + Chunk) .. Budget + Chunk
    BY <1>1, <2>1
  <2>. HIDE DEF b, z
  <2>3. From - began \in -Rev .. Low
    BY <1>1, <1>2, <1>4
  <2>. QED
    BY <1>1, <1>2, <1>3, <2>2, <2>3
<1>8. CASE phase \in {"confirm", "direct"}
  <2>1. InTurn(at) = at - z
    BY <1>8 DEF FoundHere
  <2>2. InTurn(at) \in -Low .. High
    <3>1. CASE phase = "direct"
      BY <3>1 DEF CleanIInv, CleanDirect, InWindow
    <3>2. CASE phase = "confirm"
      <4>1. /\ direction = -1 => InTurn(at) \in High - Chunk + 1 .. High
            /\ direction = 1 => InTurn(at) \in -Low .. Chunk - Low - 1
        BY <3>2 DEF CleanIInv, CleanConfirm
      <4>2. Chunk <= High
        BY <1>1 DEF SearchFits
      <4>. QED
        BY <1>1, <4>1, <4>2
    <3>. QED
      BY <1>8, <3>1, <3>2
  <2>. HIDE DEF b, z
  <2>3. at - z \in -Low .. High
    BY <2>1, <2>2
  <2>. QED
    BY <1>1, <1>2, <1>3, <2>3
<1>9. CASE phase = "land"
  <2>1. at = z \/ at = z - Rev
    BY <1>9 DEF CleanIInv, CleanLand, FoundHere
  <2>. HIDE DEF b, z
  <2>. QED
    BY <1>1, <1>2, <1>3, <2>1
<1>. QED
  BY <1>5, <1>6, <1>7, <1>8, <1>9

\* Without glitches zero is found in the turn homing began in, and the cable
\* is wound no further on the way than a sweep and a motor turn.
THEOREM HomesInItsTurn ==
  ASSUME SearchFits, WindowBelowIsFar
  PROVE  Spec => []StaysInItsTurn
<1>1. CleanIInv /\ FoundHere => StaysInItsTurn
  <2>. SUFFICES ASSUME CleanIInv, FoundHere, Clean, BegunHigh
                PROVE  /\ phase = "homed" => origin = Zero
                       /\ phase \notin Idle =>
                            at - began \in -(Reach + Rev) .. Reach + Rev
    BY DEF StaysInItsTurn, Clean, BegunHigh, Zero
  <2>. QED
    BY NeverFarFromBegin DEF FoundHere
<1>. QED
  BY <1>1, FoundHereInvariance, CleanInvariance, PTL

=============================================================================
