------------------------------ MODULE LogRing ------------------------------
(***************************************************************************)
(* The log buffer (src/main/LogBuffer.c) and the Debug tab that polls it   *)
(* (web/src/sections/Debug.svelte).                                        *)
(*                                                                         *)
(* Every task that logs stores its line in a ring in PSRAM, under a        *)
(* spinlock, and then in a small tail in RTC memory, without it.  The ring *)
(* starts empty at every boot; the tail outlives resets and panics and is  *)
(* replayed into the new ring.  The /log handler reads the ring without    *)
(* the lock, a batch at a time, and the tab asks again from where the      *)
(* answer ended.                                                           *)
(*                                                                         *)
(* Lines are numbered in the order their storing began; the text is left   *)
(* out.  MaxLines and MaxRestarts bound the runs.                          *)
(***************************************************************************)
EXTENDS Integers, Sequences

CONSTANTS
  Writers,      (* the tasks that log                                 *)
  Lines,        (* LOG_BUFFER_LINES                                   *)
  Batch,        (* LOG_BUFFER_BATCH                                   *)
  TailLines,    (* RTC_TAIL_LINES                                     *)
  Garbage,      (* memory nobody has written since power-on           *)
  MaxLines,     (* bound: lines logged                                *)
  MaxRestarts   (* bound: resets and power cycles                     *)

ASSUME LogAssumption ==
  /\ Lines \in Nat \ {0}
  /\ Batch \in Nat \ {0}
  /\ TailLines \in Nat \ {0}
  /\ MaxLines \in Nat
  /\ MaxRestarts \in Nat
  /\ Garbage \notin Int

VARIABLES
  next,      (* s_seq_next                                             *)
  slot,      (* s_slots                                                *)
  mux,       (* the writers that hold s_mux: at most one               *)
  tail,      (* s_rtc_tail                                             *)
  pc,        (* where each writer is in store_line                     *)
  line,      (* the line it is storing                                 *)
  seen,      (* what it has loaded of tail->next and tail->count       *)
  phase,     (* where the /log handler is                              *)
  req,       (* its locals: next, oldest, from, seq                    *)
  tab,       (* the Debug tab: its seq, how many rows it shows, missed      *)
  clock,     (* lines logged so far                                    *)
  restarts,
  history,   (* history[s + 1]: the line stored under s in this boot   *)
  mirrored,  (* until raced: the lines that went through the tail      *)
  raced,     (* two writers were in the tail code at once              *)
  mixed      (* the tab has gone on with the numbers of another boot   *)

ring    == <<next, slot, mux, history>>
rtc     == <<tail, mirrored, raced>>
writers == <<pc, line, seen>>
reader  == <<phase, req, tab, mixed>>
vars    == <<ring, rtc, writers, reader, clock, restarts>>

Slots == 0 .. Lines - 1
Anything == (1 .. MaxLines) \cup {Garbage}

Rows == [s : Nat, m : Anything]
NoRequest == [next |-> 0, oldest |-> 0, from |-> 0, seq |-> 0, rows |-> << >>]
Unseen == [next |-> 0, count |-> 0]
FreshTab == [seq |-> 0, first |-> 0, rows |-> 0, missed |-> 0]
BlankTail ==
  [magic |-> FALSE, count |-> 0, next |-> 0,
   lines |-> [i \in 0 .. TailLines - 1 |-> Garbage]]

TypeOK ==
  /\ next \in Nat
  /\ slot \in [Slots -> Anything]
  /\ mux \subseteq Writers
  /\ tail \in [magic : BOOLEAN, count : 0 .. TailLines,
               next : 0 .. TailLines - 1,
               lines : [0 .. TailLines - 1 -> Anything]]
  /\ pc \in [Writers -> {"idle", "slot", "tail", "line", "next", "count"}]
  /\ line \in [Writers -> 0 .. MaxLines]
  /\ seen \in [Writers -> [next : 0 .. TailLines - 1, count : 0 .. TailLines]]
  /\ phase \in {"away", "oldest", "rows"}
  /\ req \in [next : Nat, oldest : Nat, from : Nat, seq : Nat, rows : Seq(Rows)]
  /\ tab \in [seq : Nat, first : Nat, rows : Nat, missed : Nat]
  /\ clock \in 0 .. MaxLines
  /\ restarts \in 0 .. MaxRestarts
  /\ history \in Seq(Anything)
  /\ mirrored \in Seq(1 .. MaxLines)
  /\ raced \in BOOLEAN
  /\ mixed \in BOOLEAN

Init ==
  /\ next = 0
  /\ slot = [i \in Slots |-> Garbage]
  /\ mux = {}
  /\ tail = BlankTail
  /\ pc = [w \in Writers |-> "idle"]
  /\ line = [w \in Writers |-> 0]
  /\ seen = [w \in Writers |-> Unseen]
  /\ phase = "away"
  /\ req = NoRequest
  /\ tab = FreshTab
  /\ clock = 0
  /\ restarts = 0
  /\ history = << >>
  /\ mirrored = << >>
  /\ raced = FALSE
  /\ mixed = FALSE

Goto(w, from, to) ==
  /\ pc[w] = from
  /\ pc' = [pc EXCEPT ![w] = to]

------------------------------------------------------------------------------
(* store_line: first the ring *)

\* Mutant: the number is given out before the line is there.
StoreSlotLate(w) ==
  /\ Goto(w, "idle", "slot")
  /\ mux = {}
  /\ mux' = {w}
  /\ clock < MaxLines
  /\ clock' = clock + 1
  /\ line' = [line EXCEPT ![w] = clock + 1]
  /\ history' = Append(history, clock + 1)
  /\ next' = next + 1
  /\ UNCHANGED <<slot, seen, rtc, reader, restarts>>

\* Under the lock: the line goes into the slot of the number to come.  The
\* handler may look at any moment of it.
StoreSlot(w) ==
  /\ Goto(w, "idle", "slot")
  /\ mux = {}
  /\ mux' = {w}
  /\ clock < MaxLines
  /\ clock' = clock + 1
  /\ line' = [line EXCEPT ![w] = clock + 1]
  /\ slot' = [slot EXCEPT ![next % Lines] = clock + 1]
  /\ UNCHANGED <<next, history, seen, rtc, reader, restarts>>

\* The number is given out and the lock released.
Publish(w) ==
  /\ Goto(w, "slot", "tail")
  /\ mux' = mux \ {w}
  /\ next' = next + 1
  /\ history' = Append(history, line[w])
  /\ UNCHANGED <<slot, line, seen, rtc, reader, clock, restarts>>

------------------------------------------------------------------------------
(* store_line: then the tail in RTC memory, without a lock *)

InTail(w) == pc[w] \in {"line", "next", "count"}

\* A tail that power-on left behind is started afresh.
CheckTail(w) ==
  /\ Goto(w, "tail", "line")
  /\ tail' = IF tail.magic THEN tail
             ELSE [tail EXCEPT !.magic = TRUE, !.count = 0, !.next = 0]
  /\ raced' = (raced \/ \E v \in Writers \ {w} : InTail(v))
  /\ mirrored' = IF raced' THEN << >> ELSE mirrored
  /\ UNCHANGED <<ring, line, seen, reader, clock, restarts>>

TailLine(w) ==
  /\ Goto(w, "line", "next")
  /\ tail' = [tail EXCEPT !.lines[tail.next] = line[w]]
  /\ seen' = [seen EXCEPT ![w].next = tail.next]
  /\ UNCHANGED <<raced, mirrored, ring, line, reader, clock, restarts>>

\* Mutant: the slot is left before it is used a second time.
TailNextStuck(w) ==
  /\ Goto(w, "next", "count")
  /\ tail' = [tail EXCEPT !.next =
                IF tail.next + 1 = TailLines THEN tail.next ELSE tail.next + 1]
  /\ seen' = [seen EXCEPT ![w] = [next |-> 0, count |-> tail.count]]
  /\ mirrored' = IF raced THEN << >> ELSE Append(mirrored, line[w])
  /\ UNCHANGED <<raced, ring, line, reader, clock, restarts>>

\* tail->next is loaded here, or has been when the line was written; so with
\* tail->count below.
TailNext(w) ==
  /\ Goto(w, "next", "count")
  /\ \E n \in {tail.next, seen[w].next} :
       tail' = [tail EXCEPT !.next = (n + 1) % TailLines]
  /\ seen' = [seen EXCEPT ![w] = [next |-> 0, count |-> tail.count]]
  /\ mirrored' = IF raced THEN << >> ELSE Append(mirrored, line[w])
  /\ UNCHANGED <<raced, ring, line, reader, clock, restarts>>

TailCount(w) ==
  /\ Goto(w, "count", "idle")
  /\ \E n \in {tail.count, seen[w].count} :
       tail' = IF n < TailLines THEN [tail EXCEPT !.count = n + 1] ELSE tail
  /\ line' = [line EXCEPT ![w] = 0]
  /\ seen' = [seen EXCEPT ![w] = Unseen]
  /\ UNCHANGED <<raced, mirrored, ring, reader, clock, restarts>>

------------------------------------------------------------------------------
(* Restarts *)

\* What recover_rtc_tail finds, oldest first.
Recovered ==
  LET start == IF tail.count = TailLines THEN tail.next ELSE 0
  IN  IF tail.magic
      THEN [i \in 1 .. tail.count |-> tail.lines[(start + i - 1) % TailLines]]
      ELSE << >>

\* The fresh ring after a boot that stores the lines old in it.
Refill(old) ==
  /\ next' = Len(old)
  /\ slot' = [i \in Slots |->
       LET at == {n \in 1 .. Len(old) : (n - 1) % Lines = i}
       IN  IF at = {} THEN Garbage
           ELSE old[CHOOSE n \in at : \A m \in at : m <= n]]
  /\ history' = old
  /\ mux' = {}
  /\ pc' = [w \in Writers |-> "idle"]
  /\ line' = [w \in Writers |-> 0]
  /\ seen' = [w \in Writers |-> Unseen]

\* The request that was being answered fails; the tab keeps what it has.
Restarts ==
  /\ restarts < MaxRestarts
  /\ restarts' = restarts + 1
  /\ phase' = "away"
  /\ req' = NoRequest
  /\ mixed' = (mixed \/ tab.seq > 0)
  /\ UNCHANGED <<tab, clock>>

\* A reset or a panic, at any moment: RTC memory stays as it is.
Reset ==
  /\ Restarts
  /\ Refill(Recovered)
  /\ UNCHANGED rtc

\* Power fails: RTC memory comes back as anything but the magic number.
PowerCycle ==
  /\ Restarts
  /\ Refill(<< >>)
  /\ tail' = BlankTail
  /\ mirrored' = << >>
  /\ raced' = FALSE

------------------------------------------------------------------------------
(* The /log handler, which asks nobody *)

\* Mutant: the slot that is written next counts as gone.
OldestTooLate(n) == IF n >= Lines THEN n - Lines + 1 ELSE 0

Oldest(n) == IF n > Lines THEN n - Lines ELSE 0

Ask ==
  /\ phase = "away"
  /\ phase' = "oldest"
  /\ req' = [NoRequest EXCEPT !.next = next]
  /\ UNCHANGED <<tab, mixed, ring, rtc, writers, clock, restarts>>

\* s_seq_next is read a second time for the oldest line.
From(since, oldest, end) ==
  LET held == IF since < oldest THEN oldest ELSE since
  IN  IF held > end THEN oldest ELSE held

Begin ==
  /\ phase = "oldest"
  /\ phase' = "rows"
  /\ LET oldest == Oldest(next)
         from == From(tab.seq, oldest, req.next)
     IN  req' = [req EXCEPT !.oldest = oldest, !.from = from, !.seq = from]
  /\ UNCHANGED <<tab, mixed, ring, rtc, writers, clock, restarts>>

MoreRows == req.seq < req.next /\ req.seq - req.from < Batch

Row ==
  /\ phase = "rows"
  /\ MoreRows
  /\ req' = [req EXCEPT !.seq = @ + 1,
                        !.rows = Append(@, [s |-> req.seq, m |-> slot[req.seq % Lines]])]
  /\ UNCHANGED <<phase, tab, mixed, ring, rtc, writers, clock, restarts>>

\* Mutant: with nothing to send, the caller is told to stay where it is.
ServedAsAsked == IF req.seq > req.from THEN req.seq ELSE tab.seq

Served ==
  CASE req.seq > req.from -> req.seq
    [] req.seq <= req.from /\ tab.seq < req.oldest -> req.oldest
    [] req.seq <= req.from /\ tab.seq >= req.oldest ->
         IF tab.seq > req.next THEN req.next ELSE tab.seq

\* Mutant: a tab that finds itself too far back counts from its own place
\* to the end.
ShowWithoutGap ==
  [seq |-> Served, first |-> IF tab.seq = 0 THEN req.oldest ELSE tab.first,
   rows |-> tab.rows + Len(req.rows), missed |-> tab.missed]

\* The tab adds the rows and counts the ones that scrolled out before it
\* asked.
Show ==
  [seq |-> Served,
   first |-> IF tab.seq = 0 THEN req.oldest ELSE tab.first,
   rows |-> tab.rows + Len(req.rows),
   missed |-> IF tab.seq > 0 /\ req.oldest > tab.seq
              THEN tab.missed + req.oldest - tab.seq ELSE tab.missed]

\* A number that went backwards means a restart: the tab starts over.
Answer ==
  /\ phase = "rows"
  /\ ~MoreRows
  /\ phase' = "away"
  /\ req' = NoRequest
  /\ IF Served < tab.seq
     THEN tab' = FreshTab /\ mixed' = FALSE
     ELSE tab' = Show /\ UNCHANGED mixed
  /\ UNCHANGED <<ring, rtc, writers, clock, restarts>>

------------------------------------------------------------------------------

Store(w) == Publish(w) \/ CheckTail(w) \/ TailLine(w) \/ TailNext(w) \/ TailCount(w)
Poll == Ask \/ Begin \/ Row \/ Answer

Next ==
  \/ \E w \in Writers : StoreSlot(w) \/ Store(w)
  \/ Poll
  \/ Reset
  \/ PowerCycle

Spec == Init /\ [][Next]_vars

\* A task that has begun to store a line goes on; the tab polls for as long
\* as it is open.
FairSpec == Spec /\ (\A w \in Writers : WF_vars(Store(w))) /\ WF_vars(Poll)
------------------------------------------------------------------------------
(* Properties *)

\* Nothing is missed silently: within one boot, the lines between the first
\* number the tab was given and the one it asks for next were all shown or
\* counted as missed (log_get_handler's "oldest" and "seq", Debug.svelte's
\* poll), however many lines arrive while an answer is being built.
NothingMissedSilently ==
  ~mixed => tab.seq = tab.first + tab.rows + tab.missed

\* What the ring holds or is about to: history and the line being stored.
Storing == {line[w] : w \in mux}

\* A row carries the line its number was given to.  The only other line it
\* can carry is a later one that has taken its slot since: reading without
\* the lock never shows an older line, nor memory nobody wrote.
RowsTellTheTruth ==
  \A r \in {req.rows[i] : i \in 1 .. Len(req.rows)} :
    \/ \E n \in r.s .. next - 1 :
         n % Lines = r.s % Lines /\ r.m = history[n + 1]
    \/ (next - r.s) % Lines = 0 /\ next > r.s /\ r.m \in Storing

\* The line k places before the newest in the tail.
TailBack(k) == tail.lines[(tail.next + TailLines - 1 - k) % TailLines]

\* As long as no two tasks have been in the tail code at once: whenever the
\* chip resets, also in the middle of storing a line, the tail holds the
\* newest lines but one in their order.  (The one at the front may be the
\* line that was being written.)
TailHoldsTheNewest ==
  tail.magic /\ ~raced =>
    \A k \in 0 .. TailLines - 2 :
      k < Len(mirrored) => TailBack(k) = mirrored[Len(mirrored) - k]

\* Numbers are given out once and in order, answers skip nothing that is still
\* held, and a tab only starts over because of a restart: the "oldest" and
\* "seq" of log_get_handler and the tab's use of them, whatever is logged
\* between two of the handler's looks at the ring.
Numbered ==
  INSTANCE NumberedLog WITH
    log <- history, Window <- Lines, Kept <- TailLines,
    place <- tab.seq, first <- tab.first, rows <- tab.rows,
    missed <- tab.missed, stale <- mixed

KeepsNumbers == Numbered!Spec

\* While nothing is being logged, a tab that keeps polling gets to the last
\* line there is, also after the numbering went back under it.
TabCatchesUp ==
  []<>(tab.seq = next \/ \E w \in Writers : pc[w] # "idle")
=============================================================================
