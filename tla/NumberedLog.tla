------------------------------ MODULE NumberedLog ------------------------------
(***************************************************************************)
(* What the log promises the tab that follows it (LogBuffer.h: every line  *)
(* of a boot gets the next number; a caller asks for what follows a        *)
(* number): the lines of one boot are numbered from 0 without a gap, an    *)
(* answer takes the reader further over lines it gets and over lines that  *)
(* are no longer held, and over nothing else.  Only a restart makes a      *)
(* reader start over, and only what the tail can hold survives it.         *)
(***************************************************************************)
EXTENDS Integers, Sequences

CONSTANTS
  Window,    (* how many lines are held at least                     *)
  Kept       (* how many lines survive a restart at most             *)

VARIABLES
  log,       (* the lines of this boot, in the order of their numbers *)
  place,     (* the number the reader asks for next; 0 at first       *)
  first,     (* the first number it was given                         *)
  rows,      (* how many lines it has got since                       *)
  missed,    (* how many it has been told it missed                   *)
  stale      (* its numbers are of an earlier boot                    *)

reader == <<place, first, rows, missed, stale>>
vars   == <<log, reader>>

\* The numbers below this one may be held no longer.
Gone == IF Len(log) > Window THEN Len(log) - Window ELSE 0

Init ==
  /\ log = << >>
  /\ place = 0 /\ first = 0 /\ rows = 0 /\ missed = 0
  /\ stale = FALSE

\* A line gets the next number; the others keep theirs.
Number ==
  /\ Len(log') = Len(log) + 1
  /\ \A i \in 1 .. Len(log) : log'[i] = log[i]
  /\ UNCHANGED reader

\* A reader without a place is shown what is left.
Join ==
  /\ place = 0
  /\ first' \in 0 .. Gone
  /\ place' \in first' .. Len(log)
  /\ rows' = rows + (place' - first')
  /\ UNCHANGED <<log, missed, stale>>

\* Lines that are counted as missed had scrolled out; those after them are
\* all there.
Follow ==
  /\ place > 0
  /\ place' \in place .. Len(log)
  /\ missed' \in missed .. missed + (place' - place)
  /\ missed' > missed => place + (missed' - missed) <= Gone
  /\ rows' = rows + ((place' - place) - (missed' - missed))
  /\ UNCHANGED <<log, first, stale>>

\* Only numbers of an earlier boot are given up.
StartOver ==
  /\ stale
  /\ place' = 0 /\ first' = 0 /\ rows' = 0 /\ missed' = 0
  /\ stale' = FALSE
  /\ UNCHANGED log

Restart ==
  /\ Len(log') <= Kept
  /\ stale' = (stale \/ place > 0)
  /\ UNCHANGED <<place, first, rows, missed>>

Next == Number \/ Join \/ Follow \/ StartOver \/ Restart

Spec == Init /\ [][Next]_vars
================================================================================
