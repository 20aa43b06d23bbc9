----------------------------- MODULE LogRingProofs -----------------------------
(***************************************************************************)
(* Proofs about the log buffer and the tab that polls it, for any number   *)
(* of tasks, lines and restarts, and any sizes of ring, tail and batch.    *)
(***************************************************************************)
EXTENDS LogRing, SequenceTheorems, TLAPS

\* Some sequence.
ASeq(s) == \E S : s \in Seq(S)

LEMMA AppendToASeq ==
  ASSUME NEW s, ASeq(s), NEW e
  PROVE  ASeq(Append(s, e)) /\ Len(Append(s, e)) = Len(s) + 1 /\ Len(s) \in Nat
<1>1. PICK S : s \in Seq(S)
  BY DEF ASeq
<1>2. s \in Seq(S \cup {e}) /\ e \in S \cup {e}
  BY <1>1, SeqMonotonic
<1>3. Append(s, e) \in Seq(S \cup {e}) /\ Len(Append(s, e)) = Len(s) + 1
  BY <1>2, AppendProperties
<1> QED BY <1>1, <1>3, LenProperties DEF ASeq

\* What the counters and locals are, as far as numbering depends on it.
Counters ==
  /\ next \in Nat
  /\ tail.count \in Nat /\ DOMAIN tail = {"magic", "count", "next", "lines"}
  /\ \A w \in Writers : seen[w].count \in Nat
  /\ DOMAIN seen = Writers
  /\ req \in [next : Nat, oldest : Nat, from : Nat, seq : Nat, rows : {req.rows}]
  /\ ASeq(req.rows)
  /\ tab \in [seq : Nat, first : Nat, rows : Nat, missed : Nat]
  /\ mixed \in BOOLEAN
  /\ phase \in {"away", "oldest", "rows"}

\* The request being answered goes on from the tab's place, or from the
\* oldest line, and has as many rows as it got further.
Request ==
  /\ phase # "away" => req.next <= next
  /\ phase = "oldest" => Len(req.rows) = 0
  /\ phase = "rows" =>
       /\ req.oldest <= next
       /\ req.from = From(tab.seq, req.oldest, req.next)
       /\ req.seq = req.from + Len(req.rows)
       /\ req.seq = req.from \/ req.seq <= req.next

\* Until the numbering starts over under it the tab asks for no line to come.
Behind ==
  ~mixed => tab.seq <= next /\ (phase # "away" => tab.seq <= req.next)

IInv == Counters /\ Request /\ Behind /\ NothingMissedSilently

LEMMA NoRows == ASeq(<< >>) /\ Len(<< >>) = 0
BY EmptySeq DEF ASeq

LEMMA IInvInit == Init => IInv
<1> SUFFICES ASSUME Init PROVE IInv
  OBVIOUS
<1>1. Counters
  BY NoRows DEF Init, Counters, BlankTail, Unseen, NoRequest, FreshTab
<1> QED BY <1>1 DEF Init, IInv, Request, Behind, NothingMissedSilently, FreshTab

------------------------------------------------------------------------------
(* Storing *)

\* The tail's count stays a number.
LEMMA TailStep ==
  ASSUME IInv, NEW w \in Writers,
         CheckTail(w) \/ TailLine(w) \/ TailNext(w) \/ TailCount(w)
  PROVE  IInv'
<1>1. UNCHANGED <<next, req, tab, mixed, phase>>
  BY DEF CheckTail, TailLine, TailNext, TailCount, ring, reader
<1>2. /\ tail'.count \in Nat /\ DOMAIN tail' = DOMAIN tail
      /\ \A v \in Writers : seen'[v].count \in Nat
      /\ DOMAIN seen' = Writers
  <2> USE DEF IInv, Counters
  <2>1. CASE CheckTail(w)
    BY <2>1 DEF CheckTail
  <2>2. CASE TailLine(w)
    BY <2>2 DEF TailLine
  <2>3. CASE TailNext(w)
    BY <2>3 DEF TailNext
  <2>4. CASE TailCount(w)
    BY <2>4 DEF TailCount, Unseen
  <2> QED BY <2>1, <2>2, <2>3, <2>4
<1>3. Counters'
  BY <1>1, <1>2 DEF IInv, Counters
<1> QED BY <1>1, <1>3 DEF IInv, Request, Behind, NothingMissedSilently

\* Only the number of lines grows.
LEMMA RingStep ==
  ASSUME IInv, NEW w \in Writers, StoreSlot(w) \/ Publish(w)
  PROVE  IInv'
<1>1. /\ next' \in {next, next + 1}
      /\ UNCHANGED <<tail, seen, req, tab, mixed, phase>>
  BY DEF StoreSlot, Publish, rtc, reader
<1> QED BY <1>1 DEF IInv, Counters, Request, Behind, NothingMissedSilently

------------------------------------------------------------------------------
(* The handler and the tab *)

LEMMA AskStep ==
  ASSUME IInv, Ask
  PROVE  IInv'
<1>1. /\ phase' = "oldest" /\ UNCHANGED <<next, tail, seen, tab, mixed>>
      /\ req' = [next |-> next, oldest |-> 0, from |-> 0, seq |-> 0, rows |-> << >>]
  BY DEF Ask, NoRequest, ring, rtc, writers
<1>2. Counters'
  BY <1>1, NoRows DEF IInv, Counters
<1> QED BY <1>1, <1>2, NoRows DEF IInv, Counters, Request, Behind, NothingMissedSilently

LEMMA BeginStep ==
  ASSUME IInv, Begin
  PROVE  IInv'
<1> DEFINE oldest == Oldest(next)
           from == From(tab.seq, oldest, req.next)
<1>1. /\ phase = "oldest" /\ phase' = "rows"
      /\ UNCHANGED <<next, tail, seen, tab, mixed>>
      /\ req' = [req EXCEPT !.oldest = oldest, !.from = from, !.seq = from]
  BY DEF Begin, ring, rtc, writers
<1>2. oldest \in Nat /\ oldest <= next /\ from \in Nat
  BY LogAssumption DEF IInv, Counters, Oldest, From
<1> HIDE DEF oldest
<1>3. /\ req' \in [next : Nat, oldest : Nat, from : Nat, seq : Nat, rows : {req.rows}]
      /\ req'.next = req.next /\ req'.rows = req.rows
      /\ req'.oldest = oldest /\ req'.from = from /\ req'.seq = from
  BY <1>1, <1>2 DEF IInv, Counters
<1>4. Counters'
  BY <1>1, <1>3 DEF IInv, Counters
<1>5. Request'
  BY <1>1, <1>2, <1>3 DEF IInv, Counters, Request
<1> QED BY <1>1, <1>3, <1>4, <1>5 DEF IInv, Behind, NothingMissedSilently

LEMMA RowStep ==
  ASSUME IInv, Row
  PROVE  IInv'
<1> DEFINE row == [s |-> req.seq, m |-> slot[req.seq % Lines]]
<1>1. /\ phase = "rows" /\ phase' = "rows" /\ req.seq < req.next
      /\ UNCHANGED <<next, tail, seen, tab, mixed>>
      /\ req' = [req EXCEPT !.seq = req.seq + 1, !.rows = Append(req.rows, row)]
  BY DEF Row, MoreRows, ring, rtc, writers
<1> HIDE DEF row
<1>2. /\ req' \in [next : Nat, oldest : Nat, from : Nat, seq : Nat, rows : {req'.rows}]
      /\ req'.next = req.next /\ req'.oldest = req.oldest /\ req'.from = req.from
      /\ req'.seq = req.seq + 1 /\ req'.rows = Append(req.rows, row)
  <2>1. req.seq + 1 \in Nat
    BY DEF IInv, Counters
  <2> DEFINE rows == Append(req.rows, row)
  <2>2. req' = [req EXCEPT !.seq = req.seq + 1, !.rows = rows]
    BY <1>1
  <2> HIDE DEF rows
  <2>3. /\ req' \in [next : Nat, oldest : Nat, from : Nat, seq : Nat, rows : {rows}]
        /\ req'.next = req.next /\ req'.oldest = req.oldest /\ req'.from = req.from
        /\ req'.seq = req.seq + 1 /\ req'.rows = rows
    BY <2>1, <2>2 DEF IInv, Counters
  <2> QED BY <2>3 DEF rows
<1>3. ASeq(req'.rows) /\ Len(req'.rows) = Len(req.rows) + 1 /\ Len(req.rows) \in Nat
  BY <1>2, AppendToASeq DEF IInv, Counters
<1>4. Counters'
  BY <1>1, <1>2, <1>3 DEF IInv, Counters
<1>5. Request'
  <2>1. /\ req.seq = req.from + Len(req.rows) /\ req.next <= next
        /\ req.oldest <= next /\ req.from = From(tab.seq, req.oldest, req.next)
    BY <1>1 DEF IInv, Request
  <2>2. /\ req.seq \in Nat /\ req.next \in Nat /\ req.from \in Nat
    BY DEF IInv, Counters
  <2>3. req'.seq = req'.from + Len(req'.rows) /\ req'.seq <= req'.next
    BY <1>1, <1>2, <1>3, <2>1, <2>2
  <2>4. req'.from = From(tab'.seq, req'.oldest, req'.next)
    BY <1>1, <1>2, <2>1
  <2> QED BY <1>1, <1>2, <2>1, <2>3, <2>4 DEF Request
<1> QED BY <1>1, <1>2, <1>4, <1>5 DEF IInv, Behind, NothingMissedSilently

\* The tab has shown or counted everything up to where the answer ends.
LEMMA ShownOrMissed ==
  ASSUME IInv, phase = "rows", Served >= tab.seq
  PROVE  /\ Served \in Nat
         /\ Show \in [seq : Nat, first : Nat, rows : Nat, missed : Nat]
         /\ ~mixed => Served <= next /\ Show.seq = Show.first + Show.rows + Show.missed
<1>1. /\ next \in Nat /\ req.next \in Nat /\ req.oldest \in Nat
      /\ req.from \in Nat /\ req.seq \in Nat
      /\ tab.seq \in Nat /\ tab.first \in Nat /\ tab.rows \in Nat /\ tab.missed \in Nat
  BY DEF IInv, Counters
<1>2. Len(req.rows) \in Nat
  BY AppendToASeq DEF IInv, Counters
<1>3. /\ req.next <= next /\ req.oldest <= next
      /\ req.from = From(tab.seq, req.oldest, req.next)
      /\ req.seq = req.from + Len(req.rows)
      /\ req.seq = req.from \/ req.seq <= req.next
  BY DEF IInv, Request
<1>4. ~mixed => tab.seq <= next /\ tab.seq <= req.next
                /\ tab.seq = tab.first + tab.rows + tab.missed
  BY DEF IInv, Behind, NothingMissedSilently
<1>5. Served = IF req.seq > req.from THEN req.seq
               ELSE IF tab.seq < req.oldest THEN req.oldest
               ELSE IF tab.seq > req.next THEN req.next ELSE tab.seq
  BY <1>1 DEF Served
<1>6. Served \in Nat
  BY <1>1, <1>5
<1>7. /\ Show \in [seq : Nat, first : Nat, rows : Nat, missed : Nat]
      /\ Show.seq = Served
      /\ Show.first = IF tab.seq = 0 THEN req.oldest ELSE tab.first
      /\ Show.rows = tab.rows + Len(req.rows)
      /\ Show.missed = IF tab.seq > 0 /\ req.oldest > tab.seq
                       THEN tab.missed + req.oldest - tab.seq ELSE tab.missed
  <2> DEFINE f == IF tab.seq = 0 THEN req.oldest ELSE tab.first
             r == tab.rows + Len(req.rows)
             m == IF tab.seq > 0 /\ req.oldest > tab.seq
                  THEN tab.missed + req.oldest - tab.seq ELSE tab.missed
  <2>1. f \in Nat /\ r \in Nat
    BY <1>1, <1>2
  <2>2. m \in Nat
    BY <1>1
  <2>3. Show = [seq |-> Served, first |-> f, rows |-> r, missed |-> m]
    BY Zenon DEF Show
  <2> HIDE DEF f, r, m
  <2>4. /\ Show \in [seq : Nat, first : Nat, rows : Nat, missed : Nat]
        /\ Show.seq = Served /\ Show.first = f /\ Show.rows = r /\ Show.missed = m
    BY <1>6, <2>1, <2>2, <2>3
  <2> QED BY <2>4, Zenon DEF f, r, m
<1>8. ASSUME ~mixed
      PROVE  Served <= next /\ Show.seq = Show.first + Show.rows + Show.missed
  <2>1. tab.seq <= next /\ tab.seq <= req.next
        /\ tab.seq = tab.first + tab.rows + tab.missed
    BY <1>4, <1>8
  \* What the tab shows and counts beside the rows of this answer.
  <2>0. Show.first + tab.rows + Show.missed =
          IF tab.seq < req.oldest THEN req.oldest ELSE tab.seq
    <3>1. CASE tab.seq = 0
      <4>1. tab.rows = 0 /\ tab.missed = 0
        BY <1>1, <2>1, <3>1
      <4>2. Show.first = req.oldest /\ Show.missed = 0
        BY <1>7, <3>1, <4>1
      <4> QED BY <1>1, <3>1, <4>1, <4>2
    <3>2. CASE tab.seq > 0 /\ req.oldest > tab.seq
      <4>1. Show.first = tab.first /\ Show.missed = tab.missed + req.oldest - tab.seq
        BY <1>1, <1>7, <3>2
      <4> QED BY <1>1, <2>1, <3>2, <4>1
    <3>3. CASE tab.seq > 0 /\ ~(req.oldest > tab.seq)
      <4>1. Show.first = tab.first /\ Show.missed = tab.missed
        BY <1>1, <1>7, <3>3
      <4> QED BY <1>1, <2>1, <3>3, <4>1
    <3> QED BY <1>1, <3>1, <3>2, <3>3
  <2>9. Show.first \in Nat /\ Show.missed \in Nat
    BY <1>7
  <2>2. CASE req.seq > req.from
    <3>1. req.from = IF tab.seq < req.oldest THEN req.oldest ELSE tab.seq
      BY <1>1, <1>2, <1>3, <2>1, <2>2 DEF From
    <3>2. Served = req.seq /\ req.seq <= next
      BY <1>1, <1>3, <1>5, <2>2
    <3>3. Show.first + tab.rows + Show.missed = req.from
      BY <2>0, <3>1
    <3>4. Show.first + Show.rows + Show.missed = req.from + Len(req.rows)
      <4>1. \A a, b, c, d, e \in Nat : a + b + c = e => a + (b + d) + c = e + d
        OBVIOUS
      <4>2. Show.rows = tab.rows + Len(req.rows)
        BY <1>7
      <4> DEFINE f == Show.first
                 r == Show.rows
                 m == Show.missed
                 n == Len(req.rows)
      <4>3. f \in Nat /\ m \in Nat /\ n \in Nat /\ tab.rows \in Nat /\ req.from \in Nat
        BY <1>1, <1>2, <2>9
      <4>4. f + tab.rows + m = req.from /\ r = tab.rows + n
        BY <3>3, <4>2
      <4> HIDE DEF f, r, m, n
      <4>5. f + r + m = req.from + n
        BY <4>1, <4>3, <4>4
      <4> QED BY <4>5 DEF f, r, m, n
    <3> QED BY <1>3, <1>7, <3>2, <3>4
  <2>3. CASE req.seq <= req.from
    <3>1. Len(req.rows) = 0
      BY <1>1, <1>2, <1>3, <2>3
    <3>2. Served = IF tab.seq < req.oldest THEN req.oldest ELSE tab.seq
      BY <1>1, <1>5, <2>1, <2>3
    <3>3. Served <= next
      BY <1>1, <1>3, <2>1, <3>2
    <3>4. Show.rows = tab.rows
      BY <1>1, <1>7, <3>1
    <3> QED BY <1>1, <1>7, <2>0, <2>9, <3>2, <3>3, <3>4
  <2> QED BY <1>1, <2>2, <2>3
<1> QED BY <1>6, <1>7, <1>8

LEMMA AnswerStep ==
  ASSUME IInv, Answer
  PROVE  IInv'
<1>1. /\ phase = "rows" /\ phase' = "away" /\ UNCHANGED <<next, tail, seen>>
      /\ req' = [next |-> 0, oldest |-> 0, from |-> 0, seq |-> 0, rows |-> << >>]
  BY DEF Answer, NoRequest, ring, rtc, writers
<1>2. CASE Served < tab.seq
  <2>1. tab' = FreshTab /\ mixed' = FALSE
    BY <1>2 DEF Answer
  <2>2. Counters'
    BY <1>1, <2>1, NoRows DEF IInv, Counters, FreshTab
  <2> QED BY <1>1, <2>1, <2>2 DEF IInv, Counters, Request, Behind,
                                  NothingMissedSilently, FreshTab
<1>3. CASE ~(Served < tab.seq)
  <2>1. tab' = Show /\ mixed' = mixed
    BY <1>3 DEF Answer
  <2>2. Served \in Nat /\ tab.seq \in Nat
    BY <1>1 DEF Served, IInv, Counters
  <2>3. /\ Show \in [seq : Nat, first : Nat, rows : Nat, missed : Nat]
        /\ ~mixed => Served <= next /\ Show.seq = Show.first + Show.rows + Show.missed
    BY <1>1, <1>3, <2>2, ShownOrMissed
  <2>4. Show.seq = Served
    BY DEF Show
  <2>5. Counters'
    BY <1>1, <2>1, <2>3, NoRows DEF IInv, Counters
  <2> QED BY <1>1, <2>1, <2>3, <2>4, <2>5 DEF IInv, Request, Behind, NothingMissedSilently
<1> QED BY <1>2, <1>3

\* A restart ends the request; a tab that has been given numbers is mixed.
LEMMA RestartStep ==
  ASSUME IInv, Reset \/ PowerCycle
  PROVE  IInv'
<1>1. /\ phase' = "away" /\ mixed' = (mixed \/ tab.seq > 0) /\ tab' = tab
      /\ req' = [next |-> 0, oldest |-> 0, from |-> 0, seq |-> 0, rows |-> << >>]
  BY DEF Reset, PowerCycle, Restarts, NoRequest
<1>2. /\ tail' = tail \/ tail' = BlankTail
      /\ seen' = [w \in Writers |-> Unseen]
  BY DEF Reset, PowerCycle, Refill, rtc
<1>3. next' \in Nat
  <2>1. Len(<< >>) = 0
    BY NoRows
  <2>2. Len(Recovered) \in Nat
    <3> DEFINE start == IF tail.count = TailLines THEN tail.next ELSE 0
               e(i) == tail.lines[(start + i - 1) % TailLines]
               S == {e(i) : i \in 1 .. tail.count}
               f == [i \in 1 .. tail.count |-> e(i)]
    <3>1. tail.count \in Nat
      BY DEF IInv, Counters
    <3>2. f \in [1 .. tail.count -> S]
      OBVIOUS
    <3>3. Recovered = << >> \/ Recovered = f
      BY DEF Recovered
    <3> HIDE DEF S, f
    <3>4. f \in Seq(S)
      BY <3>1, <3>2, SeqDef
    <3>5. Len(f) \in Nat
      BY <3>4, LenProperties
    <3> QED BY <2>1, <3>3, <3>5
  <2> QED BY <2>1, <2>2 DEF Reset, PowerCycle, Refill
<1>4. /\ tail'.count \in Nat /\ DOMAIN tail' = {"magic", "count", "next", "lines"}
      /\ \A w \in Writers : seen'[w].count \in Nat
      /\ DOMAIN seen' = Writers
  BY <1>2 DEF IInv, Counters, BlankTail, Unseen
<1>5. mixed' \in BOOLEAN /\ tab' \in [seq : Nat, first : Nat, rows : Nat, missed : Nat]
  BY <1>1 DEF IInv, Counters
<1>6. /\ req' \in [next : Nat, oldest : Nat, from : Nat, seq : Nat, rows : {req'.rows}]
      /\ ASeq(req'.rows)
  BY <1>1, NoRows
<1>7. Counters'
  <2>1. phase' \in {"away", "oldest", "rows"}
    BY <1>1
  <2> QED BY <1>3, <1>4, <1>5, <1>6, <2>1, Zenon DEF Counters
<1>8. Request'
  BY <1>1 DEF Request
<1>9. ASSUME ~mixed'
      PROVE  ~mixed /\ tab.seq = 0 /\ tab' = tab
  <2>1. ~(mixed \/ tab.seq > 0)
    <3>1. mixed' = (mixed \/ tab.seq > 0)
      BY <1>1
    <3> QED BY <1>9, <3>1, Zenon
  <2>2. ~mixed /\ ~(tab.seq > 0)
    BY <2>1, Zenon
  <2>3. tab.seq \in Nat
    BY DEF IInv, Counters
  <2>4. tab.seq = 0
    BY <2>2, <2>3
  <2> QED BY <1>1, <2>2, <2>4
<1>10. Behind'
  <2>1. ASSUME ~mixed'
        PROVE  tab'.seq <= next'
    <3>1. tab'.seq = 0
      BY <1>9, <2>1
    <3> QED BY <1>3, <3>1
  <2>2. phase' = "away"
    BY <1>1
  <2> QED BY <2>1, <2>2 DEF Behind
<1>11. NothingMissedSilently'
  BY <1>9 DEF IInv, NothingMissedSilently
<1> QED BY <1>7, <1>8, <1>10, <1>11 DEF IInv

LEMMA IInvNext == IInv /\ [Next]_vars => IInv'
<1> SUFFICES ASSUME IInv, [Next]_vars
             PROVE  IInv'
  OBVIOUS
<1>1. ASSUME NEW w \in Writers, StoreSlot(w) \/ Publish(w)
      PROVE  IInv'
  BY <1>1, RingStep
<1>2. ASSUME NEW w \in Writers,
             CheckTail(w) \/ TailLine(w) \/ TailNext(w) \/ TailCount(w)
      PROVE  IInv'
  BY <1>2, TailStep
<1>3. CASE UNCHANGED vars
  BY <1>3 DEF vars, ring, rtc, writers, reader, IInv, Counters, Request, Behind,
              NothingMissedSilently
<1> QED BY <1>1, <1>2, <1>3, AskStep, BeginStep, RowStep, AnswerStep, RestartStep
        DEF Next, Store, Poll

\* Within one boot, whatever is logged while an answer is built: every line
\* between the tab's first and next number was shown or counted as missed.
THEOREM NothingIsMissedSilently == Spec => []NothingMissedSilently
<1>1. IInv => NothingMissedSilently
  BY DEF IInv
<1> QED BY <1>1, IInvInit, IInvNext, PTL DEF Spec
------------------------------------------------------------------------------
(* Numbers and slots *)

LEMMA Division ==
  ASSUME NEW a \in Nat, NEW m \in Nat \ {0}
  PROVE  a % m \in 0 .. m - 1 /\ a \div m \in Nat /\ a = m * (a \div m) + (a % m)
OBVIOUS

LEMMA Multiple ==
  ASSUME NEW m \in Nat \ {0}, NEW p \in Int, NEW q \in Int, p < q
  PROVE  m * q >= m * p + m
<1>1. \A x \in Nat : x >= 1 => m * x >= m
  OBVIOUS
<1>2. m * (q - p) >= m
  BY <1>1
<1>3. m * q = m * p + m * (q - p)
  OBVIOUS
<1> QED BY <1>2, <1>3

LEMMA Remainder ==
  ASSUME NEW a \in Nat, NEW m \in Nat \ {0}, NEW q \in Nat, NEW r \in 0 .. m - 1,
         a = m * q + r
  PROVE  a % m = r
<1> DEFINE d == a \div m
           e == a % m
<1>1. e \in 0 .. m - 1 /\ d \in Nat /\ a = m * d + e
  BY Division
<1> HIDE DEF d, e
<1>2. ~(d < q)
  <2> SUFFICES ASSUME d < q PROVE FALSE
    OBVIOUS
  <2>1. m * q >= m * d + m
    BY <1>1, Multiple
  <2> QED BY <1>1, <2>1
<1>3. ~(q < d)
  <2> SUFFICES ASSUME q < d PROVE FALSE
    OBVIOUS
  <2>1. m * d >= m * q + m
    BY <1>1, Multiple
  <2> QED BY <1>1, <2>1
<1>4. d = q
  BY <1>1, <1>2, <1>3
<1>5. e = r
  BY <1>1, <1>4
<1> QED BY <1>5 DEF e

\* Numbers some multiples of m apart share a slot, and no others.
LEMMA SameSlot ==
  ASSUME NEW a \in Nat, NEW m \in Nat \ {0}, NEW q \in Nat
  PROVE  (a + m * q) % m = a % m
<1> DEFINE d == a \div m
           e == a % m
<1>1. e \in 0 .. m - 1 /\ d \in Nat /\ a = m * d + e
  BY Division
<1> HIDE DEF d, e
<1>2. a + m * q = m * (d + q) + e /\ d + q \in Nat /\ a + m * q \in Nat
  BY <1>1
<1>3. (a + m * q) % m = e
  BY <1>1, <1>2, Remainder
<1> QED BY <1>3 DEF e

LEMMA SlotFurther ==
  ASSUME NEW a \in Nat, NEW m \in Nat \ {0}, NEW b \in Nat
  PROVE  ((a % m) + b) % m = (a + b) % m
<1> DEFINE d == a \div m
           e == a % m
<1>1. e \in 0 .. m - 1 /\ d \in Nat /\ a = m * d + e
  BY Division
<1> HIDE DEF d, e
<1> DEFINE g == e + b
<1>2. a + b = g + m * d /\ g \in Nat
  BY <1>1
<1> HIDE DEF g
<1>3. (a + b) % m = g % m
  <2>1. (g + m * d) % m = g % m
    BY <1>1, <1>2, SameSlot
  <2> QED BY <1>2, <2>1
<1> QED BY <1>3 DEF e, g

LEMMA OtherSlot ==
  ASSUME NEW a \in Nat, NEW b \in Nat, NEW m \in Nat \ {0},
         a % m = b % m, a < b
  PROVE  a + m <= b
<1> DEFINE d == a \div m
           f == b \div m
           e == a % m
           g == b % m
<1>1. e \in 0 .. m - 1 /\ d \in Nat /\ a = m * d + e
  BY Division
<1>2. g \in 0 .. m - 1 /\ f \in Nat /\ b = m * f + g
  BY Division
<1>3. e = g
  OBVIOUS
<1> HIDE DEF d, e, f, g
<1>4. ~(f < d)
  <2> SUFFICES ASSUME f < d PROVE FALSE
    OBVIOUS
  <2>1. m * d >= m * f + m
    BY <1>1, <1>2, Multiple
  <2> QED BY <1>1, <1>2, <1>3, <2>1
<1>5. d # f
  BY <1>1, <1>2, <1>3
<1>6. m * f >= m * d + m
  BY <1>1, <1>2, <1>4, <1>5, Multiple
<1> QED BY <1>1, <1>2, <1>3, <1>6

LEMMA WholeTurns ==
  ASSUME NEW a \in Nat, NEW b \in Nat, NEW m \in Nat \ {0},
         (b - a) % m = 0, a < b
  PROVE  b % m = a % m
<1> DEFINE c == b - a
           q == c \div m
<1>1. c \in Nat /\ c % m = 0 /\ b = a + c
  OBVIOUS
<1> HIDE DEF c
<1>2. q \in Nat /\ c = m * q
  <2>1. q \in Nat /\ c = m * q + (c % m)
    BY <1>1, Division
  <2> HIDE DEF q
  <2> QED BY <1>1, <2>1
<1> HIDE DEF q
<1> QED BY <1>1, <1>2, SameSlot

\* The newest number below n that shares the slot of s.
LEMMA NewestOfSlot ==
  ASSUME NEW s \in Nat, NEW n \in Nat, s < n, NEW m \in Nat \ {0}
  PROVE  \E k \in s .. n - 1 :
           k % m = s % m /\ n <= k + m /\ (n = k + m => (n - s) % m = 0)
<1> DEFINE c == n - 1 - s
           q == c \div m
           r == c % m
<1>0. c \in Nat /\ n = s + c + 1
  OBVIOUS
<1> HIDE DEF c
<1>1. r \in 0 .. m - 1 /\ q \in Nat /\ c = m * q + r
  BY <1>0, Division
<1> HIDE DEF q, r
<1> DEFINE k == s + m * q
<1>2. m * q \in Nat
  BY <1>1
<1>3. k \in s .. n - 1 /\ n = k + r + 1
  BY <1>0, <1>1, <1>2
<1>4. k % m = s % m
  BY <1>1, SameSlot
<1>5. ASSUME n = k + m PROVE (n - s) % m = 0
  <2>1. n - s = m * (q + 1) + 0 /\ q + 1 \in Nat /\ 0 \in 0 .. m - 1 /\ n - s \in Nat
    BY <1>1, <1>2, <1>5
  <2> QED BY <2>1, Remainder
<1> HIDE DEF k
<1>6. n <= k + m
  BY <1>1, <1>3
<1> QED BY <1>3, <1>4, <1>5, <1>6

------------------------------------------------------------------------------
(* What the slots hold *)

\* The newest numbers' lines are in their slots; the one who holds the lock
\* has written over the oldest of them.
Slotted ==
  /\ ASeq(history) /\ next = Len(history)
  /\ DOMAIN slot = Slots
  /\ DOMAIN pc = Writers /\ DOMAIN line = Writers
  /\ mux \subseteq Writers
  /\ \A v, w \in mux : v = w
  /\ \A w \in Writers : pc[w] = "slot" <=> w \in mux
  /\ \A w \in mux : slot[next % Lines] = line[w]
  /\ \A n \in 0 .. next - 1 :
       next <= n + Lines =>
         slot[n % Lines] = history[n + 1] \/ (next = n + Lines /\ mux # {})

\* The row r is of a line that there was, and as RowsTellTheTruth wants it.
True(r) ==
  /\ r.s \in 0 .. next - 1
  /\ \/ \E n \in r.s .. next - 1 :
          n % Lines = r.s % Lines /\ r.m = history[n + 1]
     \/ (next - r.s) % Lines = 0 /\ next > r.s /\ r.m \in Storing

RowsTrue == \A i \in 1 .. Len(req.rows) : True(req.rows[i])

RInv == IInv /\ Slotted /\ RowsTrue

LEMMA Appended ==
  ASSUME NEW s, ASeq(s), NEW e
  PROVE  /\ ASeq(Append(s, e)) /\ Len(Append(s, e)) = Len(s) + 1 /\ Len(s) \in Nat
         /\ \A i \in 1 .. Len(s) : Append(s, e)[i] = s[i]
         /\ Append(s, e)[Len(s) + 1] = e
<1>1. PICK S : s \in Seq(S)
  BY DEF ASeq
<1>2. s \in Seq(S \cup {e}) /\ e \in S \cup {e}
  BY <1>1, SeqMonotonic
<1> QED BY <1>2, AppendProperties, AppendToASeq

LEMMA RInvInit == Init => RInv
<1> SUFFICES ASSUME Init PROVE RInv
  OBVIOUS
<1>1. IInv
  BY IInvInit
<1>2. Slotted
  BY NoRows DEF Init, Slotted, Slots
<1>3. RowsTrue
  BY NoRows DEF Init, NoRequest, RowsTrue
<1> QED BY <1>1, <1>2, <1>3 DEF RInv

\* The slot of the number to come is written under the lock.
LEMMA SlotWritten ==
  ASSUME RInv, NEW w \in Writers, StoreSlot(w)
  PROVE  Slotted' /\ RowsTrue'
<1>1. /\ mux = {} /\ mux' = {w} /\ pc[w] = "idle"
      /\ UNCHANGED <<next, history, req>>
      /\ pc' = [pc EXCEPT ![w] = "slot"]
      /\ line' = [line EXCEPT ![w] = clock + 1]
      /\ slot' = [slot EXCEPT ![next % Lines] = clock + 1]
  BY DEF StoreSlot, Goto, rtc, reader
<1>2. next \in Nat /\ Lines \in Nat \ {0}
  BY LogAssumption DEF RInv, IInv, Counters
<1>3. next % Lines \in Slots
  BY <1>2, Division DEF Slots
<1>4. \A v \in mux' : slot'[next' % Lines] = line'[v]
  BY <1>1, <1>3 DEF RInv, Slotted
<1>5. ASSUME NEW n \in 0 .. next - 1, next <= n + Lines, next # n + Lines
      PROVE  slot'[n % Lines] = history[n + 1]
  <2>1. n % Lines # next % Lines
    <3> SUFFICES ASSUME n % Lines = next % Lines
                 PROVE  FALSE
      OBVIOUS
    <3>1. n \in Nat /\ n < next
      BY <1>2
    <3>2. n + Lines <= next
      BY <1>2, <3>1, OtherSlot
    <3> QED BY <1>2, <1>5, <3>1, <3>2
  <2>2. slot'[n % Lines] = slot[n % Lines]
    <3>1. n % Lines \in Slots
      BY <1>2, Division DEF Slots
    <3> QED BY <1>1, <2>1, <3>1 DEF RInv, Slotted
  <2> QED BY <1>1, <1>5, <2>2 DEF RInv, Slotted
<1>6. \A n \in 0 .. next' - 1 :
        next' <= n + Lines =>
          slot'[n % Lines] = history'[n + 1] \/ (next' = n + Lines /\ mux' # {})
  BY <1>1, <1>5
<1>7. \A v \in Writers : pc'[v] = "slot" <=> v \in mux'
  BY <1>1 DEF RInv, Slotted
<1>8. Slotted'
  BY <1>1, <1>4, <1>6, <1>7 DEF RInv, Slotted
<1>9. ASSUME NEW i \in 1 .. Len(req.rows)
      PROVE  True(req.rows[i])'
  <2>1. True(req.rows[i]) /\ Storing = {}
    BY <1>1 DEF RInv, RowsTrue, Storing
  <2> QED BY <1>1, <2>1 DEF True
<1> QED BY <1>1, <1>8, <1>9 DEF RowsTrue

\* The line that is given its number is the one in the slot.
LEMMA SlotPublished ==
  ASSUME RInv, NEW w \in Writers, Publish(w)
  PROVE  Slotted' /\ RowsTrue'
<1>1. /\ pc[w] = "slot" /\ mux' = mux \ {w}
      /\ UNCHANGED <<slot, line, req>>
      /\ pc' = [pc EXCEPT ![w] = "tail"]
      /\ next' = next + 1
      /\ history' = Append(history, line[w])
  BY DEF Publish, Goto, rtc, reader
<1>2. next \in Nat /\ Lines \in Nat \ {0}
  BY LogAssumption DEF RInv, IInv, Counters
<1>3. mux = {w} /\ mux' = {}
  BY <1>1 DEF RInv, Slotted
<1>4. /\ ASeq(history') /\ Len(history') = next + 1
      /\ \A i \in 1 .. next : history'[i] = history[i]
      /\ history'[next + 1] = line[w]
  BY <1>1, Appended DEF RInv, Slotted
<1>5. slot[next % Lines] = line[w]
  BY <1>3 DEF RInv, Slotted
<1>6. ASSUME NEW n \in 0 .. next, next + 1 <= n + Lines
      PROVE  slot[n % Lines] = history'[n + 1]
  <2>1. CASE n = next
    BY <1>4, <1>5, <2>1
  <2>2. CASE n # next
    <3>1. n \in 0 .. next - 1 /\ next <= n + Lines /\ next # n + Lines
      BY <1>2, <1>6, <2>2
    <3>2. slot[n % Lines] = history[n + 1]
      BY <3>1 DEF RInv, Slotted
    <3>3. n + 1 \in 1 .. next
      BY <1>2, <3>1
    <3> QED BY <1>4, <3>2, <3>3
  <2> QED BY <2>1, <2>2
<1>7. \A v \in Writers : pc'[v] = "slot" <=> v \in mux'
  BY <1>1, <1>3 DEF RInv, Slotted
<1>8. Slotted'
  <2>1. ASSUME NEW n \in 0 .. next' - 1, next' <= n + Lines
        PROVE  slot'[n % Lines] = history'[n + 1]
    <3>1. n \in 0 .. next /\ next + 1 <= n + Lines
      BY <1>1, <1>2, <2>1
    <3>2. slot[n % Lines] = history'[n + 1]
      BY <1>6, <3>1
    <3> QED BY <1>1, <3>2
  <2> QED BY <1>1, <1>3, <1>4, <1>7, <2>1 DEF RInv, Slotted
<1>9. ASSUME NEW i \in 1 .. Len(req.rows)
      PROVE  True(req.rows[i])'
  <2> DEFINE r == req.rows[i]
  <2>1. True(r)
    BY DEF RInv, RowsTrue
  <2>2. r' = r
    BY <1>1
  <2> HIDE DEF r
  <2>3. r.s \in 0 .. next' - 1
    BY <1>1, <1>2, <2>1 DEF True
  <2>4. CASE \E n \in r.s .. next - 1 : n % Lines = r.s % Lines /\ r.m = history[n + 1]
    <3>1. PICK n \in r.s .. next - 1 : n % Lines = r.s % Lines /\ r.m = history[n + 1]
      BY <2>4
    <3>2. r.s \in Nat /\ n + 1 \in 1 .. next /\ n \in r.s .. next' - 1
      BY <1>1, <1>2, <2>1 DEF True
    <3>3. r.m = history'[n + 1]
      BY <1>4, <3>1, <3>2
    <3> QED BY <2>2, <2>3, <3>1, <3>2, <3>3 DEF True, r
  <2>5. CASE (next - r.s) % Lines = 0 /\ next > r.s /\ r.m \in Storing
    <3>1. r.s \in Nat
      BY <2>1 DEF True
    <3>2. next % Lines = r.s % Lines
      BY <1>2, <2>5, <3>1, WholeTurns
    <3>3. r.m = line[w]
      BY <1>3, <2>5 DEF Storing
    <3>4. next \in r.s .. next' - 1 /\ r.m = history'[next + 1]
      BY <1>1, <1>2, <1>4, <2>5, <3>1, <3>3
    <3> QED BY <2>2, <2>3, <3>2, <3>4 DEF True, r
  <2> QED BY <2>1, <2>4, <2>5 DEF True
<1> QED BY <1>1, <1>8, <1>9 DEF RowsTrue

\* Whatever else a task does leaves the slots and the request alone.
LEMMA TailLeavesSlots ==
  ASSUME RInv, NEW w \in Writers,
         CheckTail(w) \/ TailLine(w) \/ TailNext(w) \/ TailCount(w)
  PROVE  Slotted' /\ RowsTrue'
<1>1. /\ UNCHANGED <<next, slot, mux, history, req>>
      /\ pc[w] \in {"tail", "line", "next", "count"}
      /\ \E to \in {"line", "next", "count", "idle"} : pc' = [pc EXCEPT ![w] = to]
      /\ line' = line \/ line' = [line EXCEPT ![w] = 0]
  BY DEF CheckTail, TailLine, TailNext, TailCount, Goto, ring, reader
<1>2. w \notin mux
  BY <1>1 DEF RInv, Slotted
<1>3. \A v \in mux : line'[v] = line[v]
  BY <1>1, <1>2 DEF RInv, Slotted
<1>4. Storing' = Storing
  BY <1>1, <1>3 DEF Storing
<1>5. \A v \in Writers : pc'[v] = "slot" <=> v \in mux'
  BY <1>1, <1>2 DEF RInv, Slotted
<1>6. Slotted'
  BY <1>1, <1>3, <1>5 DEF RInv, Slotted
<1>7. ASSUME NEW i \in 1 .. Len(req.rows)
      PROVE  True(req.rows[i])'
  BY <1>1, <1>4 DEF RInv, RowsTrue, True
<1> QED BY <1>1, <1>6, <1>7 DEF RowsTrue

\* A request starts, chooses its rows or is over.
LEMMA NoRowAdded ==
  ASSUME RInv, Ask \/ Begin \/ Answer \/ UNCHANGED vars
  PROVE  Slotted' /\ RowsTrue'
<1>1. UNCHANGED <<next, slot, mux, history, pc, line>>
  BY DEF Ask, Begin, Answer, vars, ring, writers
<1>2. req'.rows = req.rows \/ req'.rows = << >>
  <2>1. CASE Begin \/ UNCHANGED vars
    <3> DEFINE o == Oldest(next)
               f == From(tab.seq, o, req.next)
    <3>1. req' = [req EXCEPT !.oldest = o, !.from = f, !.seq = f] \/ req' = req
      BY <2>1 DEF Begin, vars, reader
    <3> HIDE DEF o, f
    <3> QED BY <3>1 DEF RInv, IInv, Counters
  <2>2. CASE Ask \/ Answer
    BY <2>2 DEF Ask, Answer, NoRequest
  <2> QED BY <2>1, <2>2
<1>3. Slotted'
  BY <1>1 DEF RInv, Slotted
<1>4. Storing' = Storing
  BY <1>1 DEF Storing
<1>5. CASE req'.rows = req.rows
  <2>1. ASSUME NEW i \in 1 .. Len(req.rows)
        PROVE  True(req.rows[i])'
    BY <1>1, <1>4, <1>5 DEF RInv, RowsTrue, True
  <2> QED BY <1>3, <1>5, <2>1 DEF RowsTrue
<1>6. CASE req'.rows = << >>
  BY <1>3, <1>6, NoRows DEF RowsTrue
<1> QED BY <1>2, <1>5, <1>6

\* The row that is read is of the number asked for, or of the newest that
\* shares its slot, or of the line being written there.
LEMMA RowIsTrue ==
  ASSUME RInv, Row
  PROVE  Slotted' /\ RowsTrue'
<1> DEFINE s == req.seq
           row == [s |-> s, m |-> slot[s % Lines]]
<1>1. /\ phase = "rows" /\ s < req.next
      /\ UNCHANGED <<next, slot, mux, history, pc, line>>
      /\ req' = [req EXCEPT !.seq = s + 1, !.rows = Append(req.rows, row)]
  BY DEF Row, MoreRows, ring, writers
<1>2. /\ next \in Nat /\ Lines \in Nat \ {0}
      /\ s \in Nat /\ s < next /\ ASeq(req.rows)
  <2>1. Lines \in Nat \ {0}
    BY LogAssumption
  <2>2. next \in Nat /\ req.next \in Nat /\ s \in Nat /\ ASeq(req.rows)
    BY DEF RInv, IInv, Counters
  <2>3. req.next <= next
    BY <1>1 DEF RInv, IInv, Request
  <2> QED BY <1>1, <2>1, <2>2, <2>3
<1>3. True(row)
  <2>1. PICK k \in s .. next - 1 :
          k % Lines = s % Lines /\ next <= k + Lines
          /\ (next = k + Lines => (next - s) % Lines = 0)
    BY <1>2, NewestOfSlot
  <2>2. k \in 0 .. next - 1
    BY <1>2
  <2>3. CASE slot[k % Lines] = history[k + 1]
    BY <1>2, <2>1, <2>2, <2>3 DEF True
  <2>4. CASE next = k + Lines /\ mux # {}
    <3>1. PICK w : w \in mux
      BY <2>4
    <3>2. slot[next % Lines] = line[w]
      BY <3>1 DEF RInv, Slotted
    <3>3. next % Lines = k % Lines
      <4>1. next = k + Lines * 1 /\ k \in Nat
        BY <1>2, <2>2, <2>4
      <4> QED BY <1>2, <4>1, SameSlot
    <3>4. row.m \in Storing
      BY <2>1, <3>1, <3>2, <3>3 DEF Storing
    <3> QED BY <1>2, <2>1, <2>4, <3>4 DEF True
  <2> QED BY <2>1, <2>2, <2>3, <2>4 DEF RInv, Slotted
<1> HIDE DEF row
<1>4. req'.rows = Append(req.rows, row)
  <2> DEFINE rows == Append(req.rows, row)
  <2>1. req' = [req EXCEPT !.seq = s + 1, !.rows = rows]
    BY <1>1
  <2> HIDE DEF rows
  <2>2. req'.rows = rows
    BY <2>1 DEF RInv, IInv, Counters
  <2> QED BY <2>2 DEF rows
<1>5. Slotted'
  BY <1>1 DEF RInv, Slotted
<1>6. Storing' = Storing
  BY <1>1 DEF Storing
<1>7. ASSUME NEW i \in 1 .. Len(req'.rows)
      PROVE  True(req.rows[i])'
  <2>1. req'.rows[i] = row \/ (i \in 1 .. Len(req.rows) /\ req'.rows[i] = req.rows[i])
    BY <1>2, <1>4, Appended
  <2>2. True(req'.rows[i])
    BY <1>3, <2>1 DEF RInv, RowsTrue
  <2> QED BY <1>1, <1>6, <2>2 DEF True
<1> QED BY <1>5, <1>7 DEF RowsTrue

\* The fresh ring holds the newest of the lines it was given.
LEMMA Refilled ==
  ASSUME NEW old, ASeq(old), Refill(old)
  PROVE  Slotted'
<1>1. /\ next' = Len(old) /\ history' = old /\ mux' = {}
      /\ pc' = [w \in Writers |-> "idle"] /\ line' = [w \in Writers |-> 0]
      /\ DOMAIN slot' = Slots
  BY DEF Refill
<1>2. Len(old) \in Nat /\ Lines \in Nat \ {0}
  BY AppendToASeq, LogAssumption
<1>3. ASSUME NEW n \in 0 .. Len(old) - 1, Len(old) <= n + Lines
      PROVE  slot'[n % Lines] = old[n + 1]
  <2> DEFINE at == {k \in 1 .. Len(old) : (k - 1) % Lines = n % Lines}
             last == CHOOSE k \in at : \A m \in at : m <= k
  <2>1. n % Lines \in Slots
    <3>1. n \in Nat
      BY <1>2
    <3> QED BY <1>2, <3>1, Division DEF Slots
  <2>2. slot'[n % Lines] = IF at = {} THEN Garbage ELSE old[last]
    BY <2>1 DEF Refill
  <2>3. n + 1 \in at
    BY <1>2
  <2>4. ASSUME NEW m \in at
        PROVE  m <= n + 1
    <3>1. m - 1 \in Nat /\ (m - 1) % Lines = n % Lines /\ m <= Len(old) /\ n \in Nat
      BY <1>2
    <3>2. CASE n < m - 1
      <4>1. n + Lines <= m - 1
        BY <1>2, <3>1, <3>2, OtherSlot
      <4> QED BY <1>2, <1>3, <3>1, <4>1
    <3> QED BY <3>1, <3>2
  <2>5. last \in at /\ \A m \in at : m <= last
    BY <2>3, <2>4
  <2>6. last = n + 1
    <3>1. last \in Int
      BY <1>2, <2>5
    <3>2. last <= n + 1 /\ n + 1 <= last
      BY <2>3, <2>4, <2>5
    <3> HIDE DEF last
    <3> QED BY <3>1, <3>2
  <2>7. at # {}
    BY <2>3
  <2> QED BY <2>2, <2>6, <2>7
<1> QED BY <1>1, <1>3 DEF Slotted

LEMMA RestartIsTrue ==
  ASSUME RInv, Reset \/ PowerCycle
  PROVE  Slotted' /\ RowsTrue'
<1>1. req'.rows = << >>
  BY DEF Reset, PowerCycle, Restarts, NoRequest
<1>2. Refill(Recovered) \/ Refill(<< >>)
  BY DEF Reset, PowerCycle
<1>3. ASeq(Recovered)
  <2> DEFINE start == IF tail.count = TailLines THEN tail.next ELSE 0
             e(i) == tail.lines[(start + i - 1) % TailLines]
             S == {e(i) : i \in 1 .. tail.count}
             f == [i \in 1 .. tail.count |-> e(i)]
  <2>1. tail.count \in Nat
    BY DEF RInv, IInv, Counters
  <2>2. f \in [1 .. tail.count -> S]
    OBVIOUS
  <2>3. Recovered = << >> \/ Recovered = f
    BY DEF Recovered
  <2> HIDE DEF S, f
  <2>4. f \in Seq(S)
    BY <2>1, <2>2, SeqDef
  <2>5. ASeq(f)
    BY <2>4 DEF ASeq
  <2> QED BY <2>3, <2>5, NoRows
<1>4. Slotted'
  BY <1>2, <1>3, NoRows, Refilled
<1> QED BY <1>1, <1>4, NoRows DEF RowsTrue

LEMMA RInvNext == RInv /\ [Next]_vars => RInv'
<1> SUFFICES ASSUME RInv, [Next]_vars
             PROVE  RInv'
  OBVIOUS
<1>1. IInv'
  BY IInvNext DEF RInv
<1>2. ASSUME NEW w \in Writers, StoreSlot(w) \/ Store(w)
      PROVE  Slotted' /\ RowsTrue'
  <2>1. CASE StoreSlot(w)
    BY <2>1, SlotWritten
  <2>2. CASE Publish(w)
    BY <2>2, SlotPublished
  <2>3. CASE CheckTail(w) \/ TailLine(w) \/ TailNext(w) \/ TailCount(w)
    BY <2>3, TailLeavesSlots
  <2> QED BY <1>2, <2>1, <2>2, <2>3 DEF Store
<1>3. ASSUME Poll \/ UNCHANGED vars
      PROVE  Slotted' /\ RowsTrue'
  <2>1. CASE Row
    BY <2>1, RowIsTrue
  <2>2. CASE Ask \/ Begin \/ Answer \/ UNCHANGED vars
    BY <2>2, NoRowAdded
  <2> QED BY <1>3, <2>1, <2>2 DEF Poll
<1>4. Slotted' /\ RowsTrue'
  BY <1>2, <1>3, RestartIsTrue DEF Next
<1> QED BY <1>1, <1>4 DEF RInv

\* Read without the lock while other tasks log, a row of /log carries the
\* line of its number or a later one that has taken its slot, never an older
\* one and never memory nobody wrote since power-on.
THEOREM RowsAreTrue == Spec => []RowsTellTheTruth
<1>1. RInv => RowsTellTheTruth
  BY DEF RInv, RowsTrue, True, RowsTellTheTruth
<1> QED BY <1>1, RInvInit, RInvNext, PTL DEF Spec
------------------------------------------------------------------------------
(* What the tail holds *)

\* The sole writer in the tail code, until two were there at once.
Alone ==
  ~raced =>
    /\ \A v, w \in Writers : InTail(v) /\ InTail(w) => v = w
    /\ \A w \in Writers : pc[w] = "next" =>
         seen[w].next = tail.next /\ tail.lines[tail.next] = line[w]

Held ==
  \A k \in 0 .. TailLines - 2 :
    k < Len(mirrored) => TailBack(k) = mirrored[Len(mirrored) - k]

TailShape ==
  /\ tail.next \in 0 .. TailLines - 1
  /\ DOMAIN tail = {"magic", "count", "next", "lines"}
  /\ DOMAIN tail.lines = 0 .. TailLines - 1
  /\ DOMAIN pc = Writers /\ DOMAIN line = Writers /\ DOMAIN seen = Writers
  /\ \A w \in Writers :
       DOMAIN seen[w] = {"next", "count"} /\ seen[w].next \in 0 .. TailLines - 1
  /\ ASeq(mirrored)

\* The numbers in mirrored went through a tail that was valid and unraced.
Mirrors ==
  /\ tail.magic \/ mirrored = << >>
  /\ raced => mirrored = << >>
  /\ \A w \in Writers : InTail(w) => tail.magic

TInv == TailShape /\ Mirrors /\ Alone /\ Held

LEMMA TInvInit == Init => TInv
<1> SUFFICES ASSUME Init PROVE TInv
  OBVIOUS
<1>1. TailShape
  BY NoRows, LogAssumption DEF Init, TailShape, BlankTail, Unseen
<1>2. Mirrors /\ Alone
  BY DEF Init, Mirrors, Alone, InTail
<1>3. Held
  BY NoRows, LogAssumption DEF Init, Held
<1> QED BY <1>1, <1>2, <1>3 DEF TInv

\* Nothing in the tail or of those in its code changes.
LEMMA TailUntouched ==
  ASSUME TInv, UNCHANGED <<tail, mirrored, raced, seen>>,
         DOMAIN pc' = Writers, DOMAIN line' = Writers,
         \A w \in Writers :
           \/ pc'[w] = pc[w] /\ line'[w] = line[w]
           \/ pc'[w] \in {"idle", "slot", "tail"}
  PROVE  TInv'
<1>1. TailShape' /\ Held'
  BY DEF TInv, TailShape, Held, TailBack
<1>2. \A w \in Writers : InTail(w)' => InTail(w)
  BY DEF InTail
<1>3. Mirrors' /\ Alone'
  BY <1>2 DEF TInv, Mirrors, Alone
<1> QED BY <1>1, <1>3 DEF TInv

LEMMA CheckTailStep ==
  ASSUME TInv, NEW w \in Writers, CheckTail(w)
  PROVE  TInv'
<1> DEFINE others == \E v \in Writers \ {w} : InTail(v)
<1>1. /\ pc[w] = "tail" /\ pc' = [pc EXCEPT ![w] = "line"]
      /\ tail' = IF tail.magic THEN tail
                 ELSE [tail EXCEPT !.magic = TRUE, !.count = 0, !.next = 0]
      /\ raced' = (raced \/ others)
      /\ mirrored' = IF raced' THEN << >> ELSE mirrored
      /\ UNCHANGED <<line, seen>>
  BY DEF CheckTail, Goto
<1>2. raced' => mirrored' = << >>
  BY <1>1
<1>3. ~raced' => ~raced /\ ~others /\ mirrored' = mirrored
  BY <1>1
<1> HIDE DEF others
<1>4. mirrored' = << >> \/ (mirrored' = mirrored /\ ~raced')
  BY <1>1
<1>5. TailShape'
  BY <1>1, <1>4, NoRows, LogAssumption DEF TInv, TailShape
<1>6. tail'.magic /\ tail'.lines = tail.lines /\ (tail.magic => tail' = tail)
  BY <1>1 DEF TInv, TailShape
<1>7. Mirrors'
  BY <1>2, <1>6 DEF Mirrors
<1>8. Alone'
  <2> SUFFICES ASSUME ~raced'
               PROVE  /\ \A u, v \in Writers : InTail(u)' /\ InTail(v)' => u = v
                      /\ \A v \in Writers : pc'[v] = "next" =>
                           seen'[v].next = tail'.next
                           /\ tail'.lines[tail'.next] = line'[v]
    BY DEF Alone
  <2>1. ASSUME NEW v \in Writers, v # w
        PROVE  ~InTail(v)' /\ pc'[v] # "next"
    <3>1. ~InTail(v)
      BY <1>3, <2>1, Zenon DEF others
    <3>2. pc'[v] = pc[v]
      BY <1>1, <2>1 DEF TInv, TailShape
    <3> QED BY <3>1, <3>2 DEF InTail
  <2>2. pc'[w] # "next"
    BY <1>1 DEF TInv, TailShape
  <2> QED BY <2>1, <2>2
<1>9. Held'
  <2>1. CASE mirrored' = << >>
    BY <2>1, NoRows, LogAssumption DEF Held
  <2>2. CASE mirrored' = mirrored /\ mirrored # << >>
    <3>1. tail' = tail
      BY <1>6, <2>2 DEF TInv, Mirrors
    <3> QED BY <2>2, <3>1 DEF TInv, Held, TailBack
  <2> QED BY <1>4, <2>1, <2>2
<1> QED BY <1>5, <1>7, <1>8, <1>9 DEF TInv

\* The line is written at the front, over none that the tail still owes.
LEMMA TailLineStep ==
  ASSUME TInv, NEW w \in Writers, TailLine(w)
  PROVE  TInv'
<1>1. /\ pc[w] = "line" /\ pc' = [pc EXCEPT ![w] = "next"]
      /\ tail' = [tail EXCEPT !.lines[tail.next] = line[w]]
      /\ seen' = [seen EXCEPT ![w].next = tail.next]
      /\ UNCHANGED <<raced, mirrored, line>>
  BY DEF TailLine, Goto
<1>2. /\ tail'.next = tail.next /\ tail'.magic = tail.magic
      /\ tail'.lines = [tail.lines EXCEPT ![tail.next] = line[w]]
      /\ DOMAIN tail' = DOMAIN tail
  BY <1>1 DEF TInv, TailShape
<1>3. TailShape'
  BY <1>1, <1>2 DEF TInv, TailShape
<1>4. \A v \in Writers : InTail(v)' => InTail(v)
  BY <1>1 DEF InTail, TInv, TailShape
<1>5. Mirrors'
  BY <1>1, <1>2, <1>4 DEF TInv, Mirrors
<1>6. Alone'
  <2>1. tail'.lines[tail'.next] = line[w] /\ seen'[w].next = tail'.next
    BY <1>1, <1>2 DEF TInv, TailShape
  <2>2. ASSUME NEW v \in Writers, ~raced, pc'[v] = "next"
        PROVE  v = w
    <3>1. InTail(v) /\ InTail(w)
      BY <1>1, <2>2 DEF InTail, TInv, TailShape
    <3> QED BY <2>2, <3>1 DEF TInv, Alone
  <2> QED BY <1>1, <1>4, <2>1, <2>2 DEF TInv, Alone
<1>7. Held'
  <2>1. ASSUME NEW k \in 0 .. TailLines - 2, k < Len(mirrored)
        PROVE  TailBack(k)' = mirrored[Len(mirrored) - k]
    <3> DEFINE at == tail.next + TailLines - 1 - k
    <3>1. tail.next \in Nat /\ TailLines \in Nat \ {0}
      BY LogAssumption DEF TInv, TailShape
    <3>2. at \in Nat /\ tail.next < at /\ at < tail.next + TailLines
      BY <3>1
    <3> HIDE DEF at
    <3>3. tail.next % TailLines = tail.next
      <4>1. tail.next = TailLines * 0 + tail.next
        BY <3>1
      <4> QED BY <3>1, <4>1, Remainder DEF TInv, TailShape
    <3>4. at % TailLines # tail.next
      <4> SUFFICES ASSUME at % TailLines = tail.next
                   PROVE  FALSE
        OBVIOUS
      <4>1. tail.next + TailLines <= at
        BY <3>1, <3>2, <3>3, OtherSlot
      <4> QED BY <3>1, <3>2, <4>1
    <3>5. at % TailLines \in 0 .. TailLines - 1
      BY <3>1, <3>2, Division
    <3>6. tail'.lines[at % TailLines] = tail.lines[at % TailLines]
      BY <1>2, <3>4, <3>5 DEF TInv, TailShape
    <3>7. TailBack(k) = mirrored[Len(mirrored) - k]
      BY <2>1 DEF TInv, Held
    <3> QED BY <1>2, <3>6, <3>7 DEF TailBack, at
  <2> QED BY <1>1, <2>1 DEF Held
<1> QED BY <1>3, <1>5, <1>6, <1>7 DEF TInv

\* The front moves on: the line just written is the newest.
LEMMA TailNextStep ==
  ASSUME TInv, NEW w \in Writers, TailNext(w)
  PROVE  TInv'
<1>1. PICK n \in {tail.next, seen[w].next} :
        tail' = [tail EXCEPT !.next = (n + 1) % TailLines]
  BY DEF TailNext
<1>2. /\ pc[w] = "next" /\ pc' = [pc EXCEPT ![w] = "count"]
      /\ seen' = [seen EXCEPT ![w] = [next |-> 0, count |-> tail.count]]
      /\ mirrored' = IF raced THEN << >> ELSE Append(mirrored, line[w])
      /\ UNCHANGED <<raced, line>>
  BY DEF TailNext, Goto
<1>3. n \in 0 .. TailLines - 1 /\ TailLines \in Nat \ {0}
  BY LogAssumption DEF TInv, TailShape
<1>4. (n + 1) % TailLines \in 0 .. TailLines - 1
  <2>1. n + 1 \in Nat
    BY <1>3
  <2> QED BY <1>3, <2>1, Division
<1>5. /\ tail'.next = (n + 1) % TailLines /\ tail'.magic = tail.magic
      /\ tail'.lines = tail.lines /\ DOMAIN tail' = DOMAIN tail
  BY <1>1 DEF TInv, TailShape
<1>6. ASeq(mirrored')
  BY <1>2, NoRows, AppendToASeq DEF TInv, TailShape
<1>7. TailShape'
  BY <1>2, <1>3, <1>4, <1>5, <1>6 DEF TInv, TailShape
<1>8. \A v \in Writers : InTail(v)' => InTail(v)
  BY <1>2 DEF InTail, TInv, TailShape
<1>9. InTail(w) /\ tail.magic
  BY <1>2 DEF InTail, TInv, Mirrors
<1>10. Mirrors'
  BY <1>2, <1>5, <1>8, <1>9 DEF TInv, Mirrors
<1>11. Alone'
  <2>1. ASSUME NEW v \in Writers, ~raced
        PROVE  pc'[v] # "next"
    <3>1. CASE v = w
      BY <1>2, <3>1 DEF TInv, TailShape
    <3>2. CASE v # w
      <4>1. ~InTail(v)
        BY <1>9, <2>1, <3>2 DEF TInv, Alone
      <4> QED BY <1>2, <3>2, <4>1 DEF InTail, TInv, TailShape
    <3> QED BY <3>1, <3>2
  <2> QED BY <1>2, <1>8, <2>1 DEF TInv, Alone
<1>12. Held'
  <2>1. CASE raced
    BY <1>2, <2>1, NoRows, LogAssumption DEF Held
  <2>2. CASE ~raced
    <3>1. n = tail.next /\ tail.lines[n] = line[w]
      BY <1>2, <2>2 DEF TInv, Alone
    <3>2. /\ Len(mirrored') = Len(mirrored) + 1 /\ Len(mirrored) \in Nat
          /\ \A i \in 1 .. Len(mirrored) : mirrored'[i] = mirrored[i]
          /\ mirrored'[Len(mirrored) + 1] = line[w]
      BY <1>2, <2>2, Appended DEF TInv, TailShape
    <3>3. ASSUME NEW k \in 0 .. TailLines - 2, k < Len(mirrored')
          PROVE  TailBack(k)' = mirrored'[Len(mirrored') - k]
      <4> DEFINE back == TailLines - 1 - k
                 front == (n + 1) % TailLines
      <4>1. back \in Nat /\ k \in Nat
        BY <1>3
      \* The place k before the new front.
      <4>2. (front + back) % TailLines = (n + 1 + back) % TailLines
        <5>1. n + 1 \in Nat
          BY <1>3
        <5> QED BY <1>3, <4>1, <5>1, SlotFurther
      <4>3. TailBack(k)' = tail.lines[(n + 1 + back) % TailLines]
        <5>1. tail'.next + TailLines - 1 - k = front + back
          BY <1>3, <1>4, <1>5
        <5> QED BY <1>5, <4>2, <5>1 DEF TailBack
      <4>4. CASE k = 0
        <5>1. n + 1 + back = n + TailLines * 1 /\ n \in Nat
          BY <1>3, <4>4
        <5>2. n = TailLines * 0 + n
          BY <1>3
        <5>3. (n + 1 + back) % TailLines = n % TailLines
          BY <1>3, <5>1, SameSlot
        <5>4. n % TailLines = n
          BY <1>3, <5>1, <5>2, Remainder
        <5> QED BY <3>1, <3>2, <4>3, <4>4, <5>3, <5>4
      <4>5. CASE k # 0
        <5>1. k - 1 \in 0 .. TailLines - 2 /\ k - 1 < Len(mirrored)
          BY <1>3, <3>2, <3>3, <4>1, <4>5
        <5>2. TailBack(k - 1) = mirrored[Len(mirrored) - (k - 1)]
          BY <5>1 DEF TInv, Held
        <5>3. n + 1 + back = tail.next + TailLines - 1 - (k - 1)
          BY <1>3, <3>1
        <5>4. TailBack(k - 1) = tail.lines[(n + 1 + back) % TailLines]
          BY <5>3 DEF TailBack
        <5>5. /\ Len(mirrored) - (k - 1) \in 1 .. Len(mirrored)
              /\ Len(mirrored') - k = Len(mirrored) - (k - 1)
          BY <3>2, <4>1, <4>5, <5>1
        <5> QED BY <3>2, <4>3, <5>2, <5>4, <5>5
      <4> QED BY <4>4, <4>5
    <3> QED BY <3>3 DEF Held
  <2> QED BY <2>1, <2>2
<1> QED BY <1>7, <1>10, <1>11, <1>12 DEF TInv

LEMMA TailCountStep ==
  ASSUME TInv, NEW w \in Writers, TailCount(w)
  PROVE  TInv'
<1>1. PICK n \in {tail.count, seen[w].count} :
        tail' = IF n < TailLines THEN [tail EXCEPT !.count = n + 1] ELSE tail
  BY DEF TailCount
<1>2. /\ pc[w] = "count" /\ pc' = [pc EXCEPT ![w] = "idle"]
      /\ line' = [line EXCEPT ![w] = 0]
      /\ seen' = [seen EXCEPT ![w] = Unseen]
      /\ UNCHANGED <<raced, mirrored>>
  BY DEF TailCount, Goto
<1>3. /\ tail'.next = tail.next /\ tail'.magic = tail.magic
      /\ tail'.lines = tail.lines /\ DOMAIN tail' = DOMAIN tail
  BY <1>1 DEF TInv, TailShape
<1>4. TailShape'
  BY <1>2, <1>3, LogAssumption DEF TInv, TailShape, Unseen
<1>5. \A v \in Writers : InTail(v)' => InTail(v)
  BY <1>2 DEF InTail, TInv, TailShape
<1>6. Mirrors' /\ Held'
  BY <1>2, <1>3, <1>5 DEF TInv, Mirrors, Held, TailBack
<1>7. \A v \in Writers : pc'[v] = "next" =>
        pc[v] = "next" /\ seen'[v] = seen[v] /\ line'[v] = line[v]
  BY <1>2 DEF TInv, TailShape
<1>8. Alone'
  BY <1>2, <1>3, <1>5, <1>7 DEF TInv, Alone
<1> QED BY <1>4, <1>6, <1>8 DEF TInv

LEMMA TailRestart ==
  ASSUME TInv, Reset \/ PowerCycle
  PROVE  TInv'
<1>1. /\ pc' = [w \in Writers |-> "idle"] /\ line' = [w \in Writers |-> 0]
      /\ seen' = [w \in Writers |-> Unseen]
  BY DEF Reset, PowerCycle, Refill
<1>2. \A w \in Writers : ~InTail(w)'
  BY <1>1 DEF InTail
<1>3. CASE Reset
  <2>1. UNCHANGED <<tail, mirrored, raced>>
    BY <1>3 DEF Reset, rtc
  <2>2. TailShape'
    BY <1>1, <2>1, LogAssumption DEF TInv, TailShape, Unseen
  <2>3. Mirrors' /\ Held'
    BY <1>2, <2>1 DEF TInv, Mirrors, Held, TailBack
  <2>4. Alone'
    BY <1>1, <1>2 DEF Alone
  <2> QED BY <2>2, <2>3, <2>4 DEF TInv
<1>4. CASE PowerCycle
  <2>1. tail' = BlankTail /\ mirrored' = << >>
    BY <1>4 DEF PowerCycle
  <2>2. TailShape'
    BY <1>1, <2>1, NoRows, LogAssumption DEF TailShape, Unseen, BlankTail
  <2>3. Mirrors'
    BY <1>2, <2>1 DEF Mirrors
  <2>4. Held'
    BY <2>1, NoRows, LogAssumption DEF Held
  <2>5. Alone'
    BY <1>1, <1>2 DEF Alone
  <2> QED BY <2>2, <2>3, <2>4, <2>5 DEF TInv
<1> QED BY <1>3, <1>4

LEMMA TInvNext == TInv /\ [Next]_vars => TInv'
<1> SUFFICES ASSUME TInv, [Next]_vars
             PROVE  TInv'
  OBVIOUS
<1>1. ASSUME NEW w \in Writers, StoreSlot(w) \/ Publish(w)
      PROVE  TInv'
  <2>1. /\ UNCHANGED <<tail, mirrored, raced, seen>>
        /\ pc' = [pc EXCEPT ![w] = "slot"] \/ pc' = [pc EXCEPT ![w] = "tail"]
        /\ line' = line \/ line' = [line EXCEPT ![w] = clock + 1]
    BY <1>1 DEF StoreSlot, Publish, Goto, rtc
  <2>2. /\ DOMAIN pc' = Writers /\ DOMAIN line' = Writers
        /\ \A v \in Writers :
             \/ pc'[v] = pc[v] /\ line'[v] = line[v]
             \/ pc'[v] \in {"idle", "slot", "tail"}
    BY <2>1 DEF TInv, TailShape
  <2> QED BY <2>1, <2>2, TailUntouched
<1>2. ASSUME Poll \/ UNCHANGED vars
      PROVE  TInv'
  <2>1. UNCHANGED <<tail, mirrored, raced, seen, pc, line>>
    BY <1>2 DEF Poll, Ask, Begin, Row, Answer, vars, rtc, writers
  <2> QED BY <2>1, TailUntouched DEF TInv, TailShape
<1>3. ASSUME NEW w \in Writers, Store(w)
      PROVE  TInv'
  <2>1. CASE Publish(w)
    BY <1>1, <2>1
  <2>2. CASE CheckTail(w)
    BY <2>2, CheckTailStep
  <2>3. CASE TailLine(w)
    BY <2>3, TailLineStep
  <2>4. CASE TailNext(w)
    BY <2>4, TailNextStep
  <2>5. CASE TailCount(w)
    BY <2>5, TailCountStep
  <2> QED BY <1>3, <2>1, <2>2, <2>3, <2>4, <2>5 DEF Store
<1> QED BY <1>1, <1>2, <1>3, TailRestart DEF Next

\* As long as no two tasks were in the tail code at once, a reset finds the
\* newest lines but one in the tail, in their order, whatever it interrupts.
THEOREM TailIsTheNewest == Spec => []TailHoldsTheNewest
<1>1. TInv => TailHoldsTheNewest
  BY DEF TInv, Held, TailHoldsTheNewest
<1> QED BY <1>1, TInvInit, TInvNext, PTL DEF Spec
------------------------------------------------------------------------------
(* The numbered log *)

\* The tail counts what it can hold.
Counted ==
  /\ tail.count \in 0 .. TailLines
  /\ DOMAIN tail = {"magic", "count", "next", "lines"}
  /\ \A w \in Writers : seen[w].count \in 0 .. TailLines
  /\ DOMAIN seen = Writers

\* What the handler took for the oldest line still was, or has scrolled out.
Scrolled == phase = "rows" => req.oldest <= Oldest(next)

NInv == RInv /\ Counted /\ Scrolled

LEMMA NInvInit == Init => NInv
<1> SUFFICES ASSUME Init PROVE NInv
  OBVIOUS
<1>1. Counted
  BY LogAssumption DEF Init, Counted, BlankTail, Unseen
<1> QED BY <1>1, RInvInit DEF NInv, Init, Scrolled

\* The tail's count is written with what was read of it, plus one at most.
LEMMA CountedStep == Counted /\ [Next]_vars => Counted'
<1> SUFFICES ASSUME Counted, [Next]_vars
             PROVE  Counted'
  OBVIOUS
<1> USE LogAssumption DEF Counted
<1>1. ASSUME NEW w \in Writers, StoreSlot(w) \/ Publish(w)
      PROVE  Counted'
  BY <1>1 DEF StoreSlot, Publish, rtc
<1>2. ASSUME NEW w \in Writers, CheckTail(w)
      PROVE  Counted'
  BY <1>2 DEF CheckTail
<1>3. ASSUME NEW w \in Writers, TailLine(w)
      PROVE  Counted'
  BY <1>3 DEF TailLine
<1>4. ASSUME NEW w \in Writers, TailNext(w)
      PROVE  Counted'
  BY <1>4 DEF TailNext
<1>5. ASSUME NEW w \in Writers, TailCount(w)
      PROVE  Counted'
  <2>1. PICK n \in {tail.count, seen[w].count} :
          tail' = IF n < TailLines THEN [tail EXCEPT !.count = n + 1] ELSE tail
    BY <1>5 DEF TailCount
  <2>2. n \in 0 .. TailLines
    BY <2>1
  <2>3. tail'.count \in 0 .. TailLines /\ DOMAIN tail' = DOMAIN tail
    BY <2>1, <2>2
  <2> QED BY <1>5, <2>3 DEF TailCount, Unseen
<1>6. CASE Poll \/ UNCHANGED vars
  BY <1>6 DEF Poll, Ask, Begin, Row, Answer, vars, rtc, writers
<1>7. CASE Reset \/ PowerCycle
  BY <1>7 DEF Reset, PowerCycle, Refill, rtc, BlankTail, Unseen
<1> QED BY <1>1, <1>2, <1>3, <1>4, <1>5, <1>6, <1>7 DEF Next, Store

\* Lines only scroll out while an answer is being built.
LEMMA ScrolledStep == NInv /\ [Next]_vars => Scrolled'
<1> SUFFICES ASSUME NInv, [Next]_vars
             PROVE  Scrolled'
  OBVIOUS
<1>0. /\ Scrolled /\ next \in Nat /\ req.oldest \in Nat /\ Lines \in Nat \ {0}
      /\ req \in [next : Nat, oldest : Nat, from : Nat, seq : Nat, rows : {req.rows}]
  BY LogAssumption DEF NInv, RInv, IInv, Counters
<1>1. ASSUME NEW w \in Writers, StoreSlot(w) \/ Store(w)
      PROVE  Scrolled'
  <2>1. next' \in {next, next + 1} /\ UNCHANGED <<phase, req>>
    BY <1>1 DEF StoreSlot, Store, Publish, CheckTail, TailLine, TailNext,
                TailCount, ring, reader
  <2> QED BY <1>0, <2>1 DEF Scrolled, Oldest
<1>2. CASE Begin
  <2> DEFINE o == Oldest(next)
             f == From(tab.seq, o, req.next)
  <2>1. next' = next /\ req' = [req EXCEPT !.oldest = o, !.from = f, !.seq = f]
    BY <1>2 DEF Begin, ring
  <2>2. o \in Nat
    BY <1>0 DEF Oldest
  <2>3. next' = next /\ req'.oldest = o
    <3> HIDE DEF o, f
    <3> QED BY <1>0, <2>1
  <2>4. o = Oldest(next')
    BY <2>1
  <2> HIDE DEF o
  <2> QED BY <2>2, <2>3, <2>4 DEF Scrolled
<1>3. CASE Row
  <2> DEFINE r == Append(req.rows, [s |-> req.seq, m |-> slot[req.seq % Lines]])
  <2>1. /\ phase = "rows" /\ next' = next
        /\ req' = [req EXCEPT !.seq = req.seq + 1, !.rows = r]
    BY <1>3 DEF Row, ring
  <2> HIDE DEF r
  <2>2. req'.oldest = req.oldest
    BY <1>0, <2>1
  <2> QED BY <1>0, <2>1, <2>2 DEF Scrolled
<1>4. CASE Ask \/ Answer \/ Reset \/ PowerCycle
  BY <1>4 DEF Ask, Answer, Reset, PowerCycle, Restarts, Scrolled
<1>5. CASE UNCHANGED vars
  BY <1>0, <1>5 DEF vars, ring, reader, Scrolled
<1> QED BY <1>1, <1>2, <1>3, <1>4, <1>5 DEF Next, Poll

LEMMA NInvNext == NInv /\ [Next]_vars => NInv'
BY RInvNext, CountedStep, ScrolledStep DEF NInv

\* At most what the tail can hold is stored in the ring after a reset.
LEMMA RecoveredFits ==
  ASSUME Counted
  PROVE  Len(Recovered) \in Nat /\ Len(Recovered) <= TailLines
<1> DEFINE start == IF tail.count = TailLines THEN tail.next ELSE 0
           e(i) == tail.lines[(start + i - 1) % TailLines]
           S == {e(i) : i \in 1 .. tail.count}
           f == [i \in 1 .. tail.count |-> e(i)]
<1>1. tail.count \in Nat /\ tail.count <= TailLines
  BY LogAssumption DEF Counted
<1>2. f \in [1 .. tail.count -> S] /\ DOMAIN f = 1 .. tail.count
  OBVIOUS
<1>3. Recovered = << >> \/ Recovered = f
  BY DEF Recovered
<1> HIDE DEF S, f
<1>4. f \in Seq(S)
  BY <1>1, <1>2, SeqDef
<1>5. Len(f) = tail.count
  BY <1>1, <1>2, <1>4, LenProperties
<1> QED BY <1>1, <1>3, <1>5, NoRows, LogAssumption

\* An answer takes the tab from its place, or from the oldest line if that is
\* further on, over the rows it has; or back, over numbers of another boot.
LEMMA AnswerGoesOn ==
  ASSUME NInv, phase = "rows"
  PROVE  /\ ~mixed => Served >= tab.seq
         /\ Served >= tab.seq =>
              /\ Served \in Nat /\ Served <= next
              /\ Served = (IF tab.seq < req.oldest THEN req.oldest ELSE tab.seq)
                          + Len(req.rows)
<1>1. /\ next \in Nat /\ req.next \in Nat /\ req.oldest \in Nat
      /\ req.from \in Nat /\ req.seq \in Nat /\ tab.seq \in Nat
  BY DEF NInv, RInv, IInv, Counters
<1>2. Len(req.rows) \in Nat
  BY AppendToASeq DEF NInv, RInv, IInv, Counters
<1>3. /\ req.next <= next /\ req.oldest <= next
      /\ req.from = From(tab.seq, req.oldest, req.next)
      /\ req.seq = req.from + Len(req.rows)
      /\ req.seq = req.from \/ req.seq <= req.next
  BY DEF NInv, RInv, IInv, Request
<1>4. ~mixed => tab.seq <= req.next
  BY DEF NInv, RInv, IInv, Behind
<1>5. Served = IF req.seq > req.from THEN req.seq
               ELSE IF tab.seq < req.oldest THEN req.oldest
               ELSE IF tab.seq > req.next THEN req.next ELSE tab.seq
  BY <1>1 DEF Served
<1>6. CASE req.seq > req.from
  <2>1. Served = req.seq
    BY <1>5, <1>6
  <2>2. tab.seq <= req.next =>
          req.from = IF tab.seq < req.oldest THEN req.oldest ELSE tab.seq
    BY <1>1, <1>2, <1>3, <1>6 DEF From
  <2>3. Served <= req.next
    BY <1>1, <1>3, <1>6, <2>1
  <2> QED BY <1>1, <1>2, <1>3, <1>4, <2>1, <2>2, <2>3
<1>7. CASE ~(req.seq > req.from)
  <2>1. Len(req.rows) = 0
    BY <1>1, <1>2, <1>3, <1>7
  <2> QED BY <1>1, <1>3, <1>4, <1>5, <1>7, <2>1
<1> QED BY <1>6, <1>7

\* The tab's step is the reader's.
LEMMA AnswerIsTheReaders ==
  ASSUME NInv, Answer
  PROVE  [Numbered!Next]_(Numbered!vars)
<1>1. phase = "rows" /\ UNCHANGED history
  BY DEF Answer, ring
<1>2. CASE Served < tab.seq
  <2>1. tab' = FreshTab /\ mixed' = FALSE
    BY <1>2 DEF Answer
  <2>2. mixed
    <3>1. Served \in Nat /\ tab.seq \in Nat
      BY DEF Served, NInv, RInv, IInv, Counters
    <3>2. mixed \in BOOLEAN
      BY DEF NInv, RInv, IInv, Counters
    <3> QED BY <1>1, <1>2, <3>1, <3>2, AnswerGoesOn
  <2> QED BY <1>1, <2>1, <2>2
          DEF FreshTab, Numbered!Next, Numbered!StartOver
<1>3. CASE ~(Served < tab.seq)
  <2> DEFINE n == Len(req.rows)
             lost == IF tab.seq < req.oldest THEN req.oldest - tab.seq ELSE 0
  <2>1. /\ tab' = Show /\ mixed' = mixed
    BY <1>3 DEF Answer
  <2>2. /\ tab.seq \in Nat /\ tab.first \in Nat /\ tab.rows \in Nat
        /\ tab.missed \in Nat /\ req.oldest \in Nat /\ next \in Nat
        /\ Served \in Nat
    BY DEF Served, NInv, RInv, IInv, Counters
  <2>3. n \in Nat
    BY AppendToASeq DEF NInv, RInv, IInv, Counters
  <2>4. Served = (tab.seq + lost) + n /\ Served <= next
    BY <1>1, <1>3, <2>2, <2>3, AnswerGoesOn
  <2>5. /\ tab'.seq = Served
        /\ tab'.first = IF tab.seq = 0 THEN req.oldest ELSE tab.first
        /\ tab'.rows = tab.rows + n
        /\ tab'.missed = IF tab.seq > 0 THEN tab.missed + lost ELSE tab.missed
    <3>1. /\ tab'.seq = Served
          /\ tab'.first = IF tab.seq = 0 THEN req.oldest ELSE tab.first
          /\ tab'.rows = tab.rows + n
          /\ tab'.missed = IF tab.seq > 0 /\ req.oldest > tab.seq
                           THEN tab.missed + req.oldest - tab.seq ELSE tab.missed
      BY <2>1 DEF Show
    <3>2. (IF tab.seq > 0 /\ req.oldest > tab.seq
           THEN tab.missed + req.oldest - tab.seq ELSE tab.missed)
          = IF tab.seq > 0 THEN tab.missed + lost ELSE tab.missed
      BY <2>2
    <3> QED BY <3>1, <3>2
  <2>6. /\ next = Len(history)
        /\ req.oldest <= IF Len(history) > Lines THEN Len(history) - Lines ELSE 0
    BY <1>1 DEF NInv, RInv, Slotted, Scrolled, Oldest
  <2>7. Numbered!Gone = IF Len(history) > Lines THEN Len(history) - Lines ELSE 0
    BY DEF Numbered!Gone
  <2>8. Lines \in Nat
    BY LogAssumption
  <2>9. lost \in Nat /\ (lost > 0 => tab.seq + lost = req.oldest)
        /\ (tab.seq = 0 => lost = req.oldest)
    BY <2>2
  <2> HIDE DEF n, lost
  <2>10. CASE tab.seq = 0
    <3>1. Numbered!Join
      BY <1>1, <2>1, <2>2, <2>3, <2>4, <2>5, <2>6, <2>7, <2>8, <2>9, <2>10
         DEF Numbered!Join
    <3> QED BY <3>1 DEF Numbered!Next
  <2>11. CASE tab.seq > 0
    <3>0. tab'.seq = (tab.seq + lost) + n /\ tab'.missed = tab.missed + lost
      BY <2>4, <2>5, <2>11
    <3>2. tab'.seq \in tab.seq .. Len(history)
      BY <2>2, <2>3, <2>4, <2>5, <2>6, <2>9
    <3>3. tab'.missed \in tab.missed .. tab.missed + (tab'.seq - tab.seq)
      BY <2>2, <2>3, <2>9, <3>0
    <3>4. tab'.missed > tab.missed =>
            tab.seq + (tab'.missed - tab.missed) <= Numbered!Gone
      BY <2>2, <2>6, <2>7, <2>9, <3>0
    <3>5. tab'.rows = tab.rows
                      + ((tab'.seq - tab.seq) - (tab'.missed - tab.missed))
      <4>1. (tab'.seq - tab.seq) - (tab'.missed - tab.missed) = n
        BY <2>2, <2>3, <2>9, <3>0
      <4> QED BY <2>5, <4>1
    <3>6. tab'.first = tab.first
      BY <2>2, <2>5, <2>11
    <3>1. Numbered!Follow
      BY <1>1, <2>1, <2>11, <3>2, <3>3, <3>4, <3>5, <3>6
         DEF Numbered!Follow
    <3> QED BY <3>1 DEF Numbered!Next
  <2> QED BY <2>2, <2>10, <2>11
<1>4. QED BY <1>2, <1>3

\* Numbers are given out once and in order, answers skip nothing that is still
\* held, and a tab only starts over because of a restart: the ring, its lock,
\* the tail and the handler that reads it unlocked implement NumberedLog.
THEOREM NumbersAreKept == Spec => KeepsNumbers
<1>1. Init => Numbered!Init
  BY DEF Init, FreshTab, Numbered!Init
<1>2. NInv /\ [Next]_vars => [Numbered!Next]_(Numbered!vars)
  <2> SUFFICES ASSUME NInv, [Next]_vars
               PROVE  [Numbered!Next]_(Numbered!vars)
    OBVIOUS
  <2> USE DEF Numbered!Next, Numbered!vars, Numbered!reader
  <2>1. ASSUME NEW w \in Writers, Publish(w)
        PROVE  Numbered!Number
    <3>1. ASeq(history) /\ history' = Append(history, line[w]) /\ UNCHANGED reader
      BY <2>1 DEF Publish, NInv, RInv, Slotted
    <3>2. /\ Len(history') = Len(history) + 1
          /\ \A i \in 1 .. Len(history) : history'[i] = history[i]
      BY <3>1, Appended
    <3> QED BY <3>1, <3>2 DEF reader, Numbered!Number, Numbered!reader
  <2>2. ASSUME NEW w \in Writers, StoreSlot(w) \/ CheckTail(w) \/ TailLine(w)
                                  \/ TailNext(w) \/ TailCount(w)
        PROVE  UNCHANGED Numbered!vars
    BY <2>2 DEF StoreSlot, CheckTail, TailLine, TailNext, TailCount, ring, reader
  <2>3. CASE Ask \/ Begin \/ Row \/ UNCHANGED vars
    BY <2>3 DEF Ask, Begin, Row, ring, reader, vars
  <2>4. CASE Reset \/ PowerCycle
    <3>1. Len(history') <= TailLines
      BY <2>4, RecoveredFits, NoRows, LogAssumption
         DEF Reset, PowerCycle, Refill, NInv
    <3>2. mixed' = (mixed \/ tab.seq > 0) /\ UNCHANGED tab
      BY <2>4 DEF Reset, PowerCycle, Restarts
    <3> QED BY <3>1, <3>2 DEF Numbered!Restart
  <2> QED BY <2>1, <2>2, <2>3, <2>4, AnswerIsTheReaders DEF Next, Store, Poll
<1> QED BY <1>1, <1>2, NInvInit, NInvNext, PTL DEF Spec, KeepsNumbers, Numbered!Spec

==============================================================================
