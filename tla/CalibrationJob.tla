---------------------------- MODULE CalibrationJob ----------------------------
(***************************************************************************)
(* Calibration runs off the HTTP server's task (src/main/WebServer.cpp).   *)
(*                                                                         *)
(* The server's one task checks s_calibrationBusy, detaches the request    *)
(* from the server, creates the worker task and only then sets the flag.   *)
(* The worker measures, streams progress to the socket it now owns, gives  *)
(* the socket back and clears the flag.  The two tasks share no lock, and  *)
(* on a dual-core chip nothing orders a worker's step after the server's.  *)
(*                                                                         *)
(* The session table belongs to ESP-IDF's httpd and is modelled from how   *)
(* main.cpp configures it (lru_purge_enable) and WebServer.cpp uses it.    *)
(***************************************************************************)
EXTENDS FiniteSets, Integers

CONSTANTS
  Clients,      (* the browser tabs that may connect; one session each   *)
  MaxSockets    (* max_open_sockets of the server                        *)

ASSUME JobAssumption ==
  /\ IsFiniteSet(Clients)
  /\ MaxSockets \in Nat
  /\ MaxSockets > 1

VARIABLES
  busy,      (* s_calibrationBusy                                          *)
  server,    (* where the server task is in start_calibration              *)
  current,   (* the client whose request start_calibration is handling     *)
  worker,    (* worker[c]: where the worker of c's request is, if any      *)
  gone,      (* gone[c]: its clientGone                                    *)
  session    (* session[c]: c's session                                    *)

vars == <<busy, server, current, worker, gone, session>>

\* A detached session is "async" while its peer is there, "orphan" after.
Sessions == {"none", "open", "async", "orphan"}
Detached(c) == session[c] \in {"async", "orphan"}
Sockets == {c \in Clients : session[c] # "none"}
Running(c) == worker[c] \in {"measure", "complete"}

TypeOK ==
  /\ busy \in BOOLEAN
  /\ server \in {"idle", "detached", "created"}
  /\ current \in Clients
  /\ worker \in [Clients -> {"none", "measure", "complete", "clear"}]
  /\ gone \in [Clients -> BOOLEAN]
  /\ session \in [Clients -> Sessions]

Init ==
  /\ busy = FALSE
  /\ server = "idle"
  /\ current \in Clients
  /\ worker = [c \in Clients |-> "none"]
  /\ gone = [c \in Clients |-> FALSE]
  /\ session = [c \in Clients |-> "none"]

------------------------------------------------------------------------------
(* The server's session table *)

\* Mutant: the purge does not spare detached sessions.
PurgeableAny == Sockets

\* The sessions an LRU purge may close.
Purgeable == {c \in Clients : session[c] = "open"}

\* A client connects; when the table is full a purged session makes room.
Connect(c) ==
  /\ server = "idle"
  /\ session[c] = "none"
  /\ \/ /\ Cardinality(Sockets) < MaxSockets
        /\ session' = [session EXCEPT ![c] = "open"]
     \/ /\ Cardinality(Sockets) = MaxSockets
        /\ \E d \in Purgeable :
             session' = [session EXCEPT ![c] = "open", ![d] = "none"]
  /\ UNCHANGED <<busy, server, current, worker, gone>>

\* The peer goes away.  The server does not watch a detached session.
Disconnect(c) ==
  /\ \/ session[c] = "open" /\ session' = [session EXCEPT ![c] = "none"]
     \/ session[c] = "async" /\ session' = [session EXCEPT ![c] = "orphan"]
  /\ UNCHANGED <<busy, server, current, worker, gone>>

\* httpd_req_async_handler_complete: the session is the server's again, which
\* finds out by itself that the peer is gone.
Reattach(c) ==
  session' = [session EXCEPT ![c] = IF @ = "async" THEN "open" ELSE "none"]

------------------------------------------------------------------------------
(* start_calibration, on the server's task *)

\* Mutant: a request is accepted while a run is going on.
BeginAnyway(c) ==
  /\ server = "idle"
  /\ session[c] = "open"
  /\ session' = [session EXCEPT ![c] = "async"]
  /\ server' = "detached"
  /\ current' = c
  /\ UNCHANGED <<busy, worker, gone>>

\* Not busy: detach the request.  (Busy: answer 409, nothing changes.)
Begin(c) ==
  /\ server = "idle"
  /\ session[c] = "open"
  /\ ~busy
  /\ session' = [session EXCEPT ![c] = "async"]
  /\ server' = "detached"
  /\ current' = c
  /\ UNCHANGED <<busy, worker, gone>>

\* The request cannot be detached: 500, and the server closes the session.
BeginFails(c) ==
  /\ server = "idle"
  /\ session[c] = "open"
  /\ ~busy
  /\ session' = [session EXCEPT ![c] = "none"]
  /\ UNCHANGED <<busy, server, current, worker, gone>>

\* Mutant: the request is not handed back when the worker cannot be created.
CreateFailsStillDetached ==
  /\ server = "detached"
  /\ server' = "idle"
  /\ UNCHANGED <<busy, current, worker, gone, session>>

\* No memory for the job or the task: hand the request back, and fail, upon
\* which the server closes the session.
CreateFails ==
  /\ server = "detached"
  /\ session' = [session EXCEPT ![current] = "none"]
  /\ server' = "idle"
  /\ UNCHANGED <<busy, current, worker, gone>>

Create ==
  /\ server = "detached"
  /\ worker' = [worker EXCEPT ![current] = "measure"]
  /\ gone' = [gone EXCEPT ![current] = FALSE]
  /\ server' = "created"
  /\ UNCHANGED <<busy, current, session>>

SetBusy ==
  /\ server = "created"
  /\ busy' = TRUE
  /\ server' = "idle"
  /\ UNCHANGED <<current, worker, gone, session>>

------------------------------------------------------------------------------
(* calibration_worker *)

\* A progress event.  Sending to a peer that is gone may fail, and the first
\* failure ends the sending, not the run.
Progress(c) ==
  /\ worker[c] = "measure"
  /\ session[c] = "orphan"
  /\ ~gone[c]
  /\ gone' = [gone EXCEPT ![c] = TRUE]
  /\ UNCHANGED <<busy, server, current, worker, session>>

\* The measurement is over, its result stored and reported.  Without an angle
\* source, or with nothing to fit, that is at once.
Finish(c) ==
  /\ worker[c] = "measure"
  /\ worker' = [worker EXCEPT ![c] = "complete"]
  /\ UNCHANGED <<busy, server, current, gone, session>>

Complete(c) ==
  /\ worker[c] = "complete"
  /\ worker' = [worker EXCEPT ![c] = "clear"]
  /\ Reattach(c)
  /\ UNCHANGED <<busy, server, current, gone>>

\* The worker's last statements: clear the flag, delete the task.
ClearBusy(c) ==
  /\ worker[c] = "clear"
  /\ busy' = FALSE
  /\ worker' = [worker EXCEPT ![c] = "none"]
  /\ gone' = [gone EXCEPT ![c] = FALSE]
  /\ UNCHANGED <<server, current, session>>

------------------------------------------------------------------------------

Start == CreateFails \/ Create \/ SetBusy
Work(c) == Finish(c) \/ Complete(c) \/ ClearBusy(c)

Next ==
  \/ \E c \in Clients :
       \/ Connect(c) \/ Disconnect(c)
       \/ Begin(c) \/ BeginFails(c)
       \/ Progress(c) \/ Work(c)
  \/ Start

\* Both tasks are scheduled, and every measurement ends: its loops are bounded
\* and camera_angle_read times out.  Clients owe nothing.
Spec == Init /\ [][Next]_vars
Fairness == WF_vars(Start) /\ \A c \in Clients : WF_vars(Work(c))
FairSpec == Spec /\ Fairness

------------------------------------------------------------------------------
(* Properties *)

\* "One run at a time, because all three drive the same motor"
\* (WebServer.cpp:493), although the flag is set after the worker starts.
OneRunAtATime ==
  \A c, d \in Clients : Running(c) /\ Running(d) => c = d

\* A worker only ever sends to a session that is detached for it: the server
\* neither purges nor reuses it while the run lasts (main.cpp:149-156).
WorkerOwnsItsSession ==
  \A c \in Clients : Running(c) => Detached(c)

\* Abandoned runs do not use up the server's sockets: there is always a free
\* one or one that can be purged (main.cpp:149-156).
ServerHasRoom ==
  Cardinality(Sockets) < MaxSockets \/ Purgeable # {}

\* Every detached request is given back, on every path and whether or not
\* anybody still listens (WebServer.cpp:602-604: "Not optional").
RequestsComeBack ==
  \A c \in Clients : Detached(c) ~> ~Detached(c)

\* "There is no window in which both write it" (WebServer.cpp:505-507): the
\* flag is never left up by the server after the worker has cleared it.
BusyMeansRunning ==
  busy /\ server = "idle" => \E c \in Clients : worker[c] # "none"
==============================================================================
