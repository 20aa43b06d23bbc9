------------------------------- MODULE MCMotion -------------------------------
(* Motion for TLC: the firmware's three calling tasks and what each calls.  *)
EXTENDS Motion

CONSTANTS main, httpd, calib

MCTasks == {main, httpd, calib}

\* Homing at boot is app_main's only call; the worker runs the zero, sensor
\* and output-angle calibrations, the last of which is a series of moves.
\* What align can do jog can, and what sensor can do zero can: the two are
\* left out to keep the state space small.
MCCanRun ==
  [t \in MCTasks |->
     CASE t = httpd -> {"move", "home", "halt", "jog", "stress"}
       [] t = calib -> {"move", "zero"}
       [] OTHER -> {}]

MCLowest == -1
==============================================================================
