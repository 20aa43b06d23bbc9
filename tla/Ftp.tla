--------------------------------- MODULE Ftp ---------------------------------
(***************************************************************************)
(* The FTP server (src/components/ftp_server/ftp.c), started by main.cpp.  *)
(*                                                                         *)
(* One task calls ftp_run again and again: a step of the protocol, a step  *)
(* of the data connection, and a check that falls back to READY when the   *)
(* data connection is gone.  Here a call is one action; what can come of   *)
(* each part of it is a set of server states.  A client calls, sends one   *)
(* command after the other, opens a data connection when it has been told  *)
(* a port, and may hang up or fall silent at any time, or leave the data   *)
(* connection open and neither send nor read.                              *)
(*                                                                         *)
(* The open file or directory is one pointer, a union, and beside it a     *)
(* note of what it points to.  Paths and file contents are left out: a     *)
(* call to the file system succeeds or fails.                              *)
(***************************************************************************)
EXTENDS Integers

CONSTANT
  Commands    (* what clients send: a subset of AllCommands *)

AllCommands ==
  {"PASS", "PASV", "LIST", "RETR", "STOR", "CWD", "CWD .", "DELE", "QUIT"}

ASSUME FtpAssumption == Commands \subseteq AllCommands

VARIABLES
  srv,      (* ftp_data                                                 *)
  client,   (* the client: its command and data connection              *)
  want      (* the command it has sent and the server has not read      *)

vars == <<srv, client, want>>

None == "none"

\* ftp_data.  cmd, data, port and door are the sockets c_sd, d_sd, ld_sd and
\* lc_sd; ptr is what the union points to and open what e_open says of it.
\* leaked, confused: an open handle was overwritten; one was closed as what
\* it is not.  bare: a transfer was begun without a data connection.  owed:
\* the client has been told 150 and no more.
Server ==
  [state : {"start", "ready", "end", "list", "tx", "rx"},
   sub : {"off", "listen", "on"},
   cmd : {"none", "open", "closed"},
   data : BOOLEAN, port : BOOLEAN, door : BOOLEAN,
   ptr : {"null", "file", "dir"}, open : {"nothing", "file", "dir"},
   login : BOOLEAN, late : BOOLEAN, idle : BOOLEAN,
   leaked : BOOLEAN, confused : BOOLEAN, bare : BOOLEAN, owed : BOOLEAN]

TypeOK ==
  /\ srv \in Server
  /\ client \in [cmd : {"away", "calling", "in", "left"},
                 data : {"none", "calling", "up", "sent", "held", "done"},
                 silent : BOOLEAN]
  /\ want \in Commands \cup {None}

Away == [cmd |-> "away", data |-> "none", silent |-> FALSE]

\* ftp_init, and ftp_enable before the first call.
Init ==
  /\ srv = [state |-> "start", sub |-> "off", cmd |-> "none", data |-> FALSE,
            port |-> FALSE, door |-> FALSE, ptr |-> "null", open |-> "nothing",
            login |-> FALSE, late |-> FALSE, idle |-> FALSE, leaked |-> FALSE,
            confused |-> FALSE, bare |-> FALSE, owed |-> FALSE]
  /\ client = Away
  /\ want = None

------------------------------------------------------------------------------
(* The handle *)

\* The pointer is overwritten: what it pointed to stays open for ever.
Overwrite(s, ptr) == [s EXCEPT !.leaked = @ \/ s.ptr # "null", !.ptr = ptr]

\* fclose and closedir.  fclose takes NULL, closedir does not.
Fclose(s) == [s EXCEPT !.confused = @ \/ s.ptr = "dir", !.ptr = "null"]
Closedir(s) == [s EXCEPT !.confused = @ \/ s.ptr # "dir", !.ptr = "null"]

\* Mutant: the handle is left to the next command.
CloseNothing(s) == s

\* ftp_close_files_dir: by the note.
CloseHandle(s) ==
  [CASE s.open = "file" -> Fclose(s)
     [] s.open = "dir" -> Closedir(s)
     [] s.open = "nothing" -> s
   EXCEPT !.open = "nothing"]

\* ftp_close_filesystem_on_error: by the note, and what is left as a file.
CloseOnError(s) ==
  LET c == CloseHandle(s)
  IN  IF c.ptr = "null" THEN c ELSE Fclose(c)

\* ftp_open_file: the note is not changed when fopen fails.
OpenFile(s) ==
  {[ok |-> TRUE, s |-> [Overwrite(s, "file") EXCEPT !.open = "file"]],
   [ok |-> FALSE, s |-> Overwrite(s, "null")]}

\* ftp_open_dir_for_listing: whatever the pointer points to is a directory.
OpenDir(s) ==
  LET c == IF s.ptr = "null" THEN s ELSE Closedir(s)
  IN  {[ok |-> TRUE, s |-> [c EXCEPT !.ptr = "dir", !.open = "dir"]],
       [ok |-> FALSE, s |-> c]}

------------------------------------------------------------------------------
(* Connections and replies *)

\* ftp_close_cmd_data
HangUp(s) ==
  [CloseOnError(s) EXCEPT !.cmd = "none", !.data = FALSE, !.owed = FALSE]

\* _ftp_reset
Reset(s) ==
  [HangUp(s) EXCEPT !.door = FALSE, !.port = FALSE, !.open = "nothing",
                    !.state = "start", !.sub = "off"]

\* A reply has been sent.  221 closes the command socket and keeps its number.
Sent(s, code) ==
  CASE code = 221 ->
         [CloseOnError(s) EXCEPT !.data = FALSE, !.port = FALSE,
                                 !.cmd = "closed", !.sub = "off", !.owed = FALSE]
    [] code \in {426, 451, 550} ->
         [CloseOnError(s) EXCEPT !.data = FALSE, !.owed = FALSE]
    [] code = 226 -> [s EXCEPT !.owed = FALSE]
    [] code = 150 -> [s EXCEPT !.owed = TRUE, !.bare = @ \/ ~s.data]
    [] OTHER -> s

\* ftp_send_reply: anything but success, and for 200 ms "try again", resets
\* the server.
Reply(s, code) ==
  {Reset(s)} \cup IF s.cmd = "open" THEN {Sent(s, code)} ELSE {}

Then(states, state) == {[s EXCEPT !.state = state] : s \in states}

\* ftp_wait_for_connection on the command port: the client is there, nobody
\* is, or accept fails.
Welcome(s) ==
  IF s.door /\ client.cmd = "calling"
  THEN Reply([s EXCEPT !.cmd = "open", !.idle = FALSE, !.login = FALSE], 220)
  ELSE IF s.door THEN {s} ELSE {Reset(s)}

------------------------------------------------------------------------------
(* ftp_process_cmd *)

\* A transfer command: opened is what came of opening, to the state that
\* carries the transfer out; otherwise 550 and to the state refused.
Begin(opened, to, refused) ==
  UNION {IF o.ok THEN Reply([o.s EXCEPT !.state = to], 150)
                 ELSE Reply([o.s EXCEPT !.state = refused], 550) : o \in opened}

\* PASV: the old data connection is closed, a port opened unless there is one.
Passive(s) ==
  LET c == [s EXCEPT !.data = FALSE, !.sub = "off"]
  IN  Reply([c EXCEPT !.port = TRUE, !.late = FALSE, !.sub = "listen"], 227)
      \cup IF s.port THEN {} ELSE Reply(c, 425)

Process(s, command) ==
  IF ~s.login /\ command \notin {"PASS", "QUIT"} THEN Reply(s, 332) ELSE
  CASE command = "PASS" -> Reply([s EXCEPT !.login = TRUE], 230) \cup Reply(s, 530)
    [] command = "PASV" -> Passive(s)
    [] command = "LIST" -> Begin(OpenDir(s), "list", "ready")
    [] command = "RETR" -> Begin(OpenFile(s), "tx", "end")
    [] command = "STOR" -> Begin(OpenFile(s), "rx", "end")
    [] command = "CWD"  -> Reply(Closedir(Overwrite(s, "dir")), 250)
                           \cup Reply(Overwrite(s, "null"), 550)
    [] command = "CWD ." -> Reply(Overwrite(s, "null"), 250)
    [] command = "DELE" -> Reply(s, 250) \cup Reply(s, 550)
    [] command = "QUIT" -> Reply(s, 221)

\* recv on the command socket finds a command, an end, or nothing.
Listen(s) ==
  CASE s.cmd = "closed" \/ client.cmd # "in" -> {HangUp(s)}
    [] s.cmd = "open" /\ client.cmd = "in" /\ want # None -> Process(s, want)
    [] s.cmd = "open" /\ client.cmd = "in" /\ want = None ->
         IF s.idle THEN Reply(s, 221) ELSE {s}

------------------------------------------------------------------------------
(* The parts of ftp_run *)

\* The client has stopped reading.  The data socket is a blocking one: send
\* waits for room.
Held == client.data = "held"

\* Sending a block ends well or resets the server; then the final reply, to
\* whatever socket is left.
Last(s, code) == Then(Reply(s, code), "end")

List(s) ==
  LET t == [s EXCEPT !.idle = FALSE]
      c == CloseHandle(t)
  IN  IF Held THEN {}
      ELSE {t, Reset(t)} \cup Last(c, 226) \cup Last(Reset(c), 226)

SendFile(s) ==
  LET t == [s EXCEPT !.idle = FALSE]
      c == CloseHandle(t)
  IN  IF Held THEN {}
      ELSE {t, Reset(t)} \cup Last(c, 226) \cup Last(Reset(c), 226)
                         \cup Last(c, 451)

\* Mutant: a transfer whose last reply is not waited for.
ReceiveFileUnanswered(s) ==
  IF client.data = "sent" THEN {[s EXCEPT !.late = FALSE]}
  ELSE Then({CloseHandle(s)}, "end")

\* Nor does recv return without data or an end: that nothing was received is
\* never seen.
ReceiveFile(s) ==
  LET t == [s EXCEPT !.late = FALSE, !.idle = FALSE]
  IN  CASE client.data = "sent" -> {t} \cup Last(CloseHandle(t), 451)
        [] client.data \in {"none", "done"} -> Last(CloseHandle(s), 226)
        [] OTHER -> {}

Protocol(s) ==
  CASE s.state = "start" -> {s, [s EXCEPT !.door = TRUE, !.state = "ready"]}
    [] s.state = "ready" ->
         IF s.cmd = "none" THEN IF s.sub = "off" THEN Welcome(s) ELSE {s}
         ELSE IF s.sub = "listen" THEN {s} ELSE Listen(s)
    [] s.state = "end" -> {[s EXCEPT !.data = FALSE]}
    [] s.state = "list" -> List(s)
    [] s.state = "tx" -> SendFile(s)
    [] s.state = "rx" -> ReceiveFile(s)

\* Mutant: a port nobody called stays what it waits for.
ConnectionPatient(s) ==
  IF s.sub = "listen" /\ s.port /\ client.data = "calling"
  THEN {[s EXCEPT !.data = TRUE, !.late = FALSE, !.sub = "on"]} ELSE {s}

Connection(s) ==
  CASE s.sub = "listen" /\ s.port /\ client.data = "calling" ->
         {[s EXCEPT !.data = TRUE, !.late = FALSE, !.sub = "on"], Reset(s)}
    [] s.sub = "listen" /\ ~(s.port /\ client.data = "calling") ->
         {Reset(s)} \cup IF s.late
           THEN {[s EXCEPT !.late = FALSE, !.port = FALSE, !.sub = "off"]}
           ELSE {s}
    [] s.sub = "on" /\ s.state = "ready" /\ s.late ->
         {[CloseOnError(s) EXCEPT !.port = FALSE, !.data = FALSE, !.sub = "off"]}
    [] OTHER -> {s}

Check(s) ==
  IF ~s.data /\ s.state \in {"end", "list", "tx", "rx"}
  THEN [s EXCEPT !.sub = "off", !.state = "ready"] ELSE s

\* What the client sees of it: a command read, its call taken, a connection
\* opened or closed.
Heard(s) ==
  LET fresh == srv.cmd # "open" /\ s.cmd = "open"
      lost  == \/ srv.cmd = "open" /\ s.cmd # "open"
               \/ client.cmd \in {"calling", "left"} /\ ~s.door
               \/ client.cmd = "left" /\ s.cmd # "open"
  IN  /\ client' = IF lost THEN Away ELSE
           [client EXCEPT
              !.cmd = IF fresh THEN "in" ELSE @,
              !.data = CASE ~srv.data /\ s.data -> "up"
                         [] srv.data /\ ~s.data -> "none"
                         [] @ = "calling" /\ ~s.port -> "none"
                         [] @ = "sent" /\ srv.state = "rx" -> "up"
                         [] OTHER -> @]
      /\ want' = IF lost \/ (srv.state = "ready" /\ srv.cmd = "open"
                             /\ srv.sub # "listen") THEN None ELSE want

Run ==
  \E p \in Protocol(srv) : \E c \in Connection(p) :
    /\ srv' = Check(c)
    /\ Heard(srv')

\* Ten seconds on the data connection, five minutes on the command one.
DataLate ==
  /\ srv.sub # "off"
  /\ ~srv.late
  /\ srv' = [srv EXCEPT !.late = TRUE]
  /\ UNCHANGED <<client, want>>

CommandIdle ==
  /\ srv.cmd = "open"
  /\ ~srv.idle
  /\ srv' = [srv EXCEPT !.idle = TRUE]
  /\ UNCHANGED <<client, want>>

------------------------------------------------------------------------------
(* The client *)

Call ==
  /\ client.cmd = "away"
  /\ srv.door
  /\ client' = [client EXCEPT !.cmd = "calling"]
  /\ UNCHANGED <<srv, want>>

Command ==
  /\ client.cmd = "in"
  /\ ~client.silent
  /\ want = None
  /\ want' \in Commands
  /\ UNCHANGED <<srv, client>>

\* It closes the command connection, or just sends nothing any more.
Leave ==
  /\ client.cmd \in {"calling", "in"}
  /\ client' = IF srv.cmd = "open" THEN [client EXCEPT !.cmd = "left"] ELSE Away
  /\ want' = None
  /\ UNCHANGED srv

FallSilent ==
  /\ client.cmd = "in"
  /\ ~client.silent
  /\ client' = [client EXCEPT !.silent = TRUE]
  /\ UNCHANGED <<srv, want>>

CallData ==
  /\ client.cmd = "in"
  /\ client.data = "none"
  /\ srv.port
  /\ client' = [client EXCEPT !.data = "calling"]
  /\ UNCHANGED <<srv, want>>

SendData ==
  /\ client.data = "up"
  /\ client' = [client EXCEPT !.data = "sent"]
  /\ UNCHANGED <<srv, want>>

\* It stops reading what it is sent, or goes on.
StopReading ==
  /\ client.data = "up"
  /\ client' = [client EXCEPT !.data = "held"]
  /\ UNCHANGED <<srv, want>>

ReadOn ==
  /\ client.data = "held"
  /\ client' = [client EXCEPT !.data = "up"]
  /\ UNCHANGED <<srv, want>>

\* It closes the data connection, or that breaks.
EndData ==
  /\ client.data \in {"up", "sent", "held"}
  /\ client' = [client EXCEPT !.data = "done"]
  /\ UNCHANGED <<srv, want>>

Next ==
  \/ Run \/ DataLate \/ CommandIdle
  \/ Call \/ Command \/ Leave \/ FallSilent \/ CallData
  \/ SendData \/ StopReading \/ ReadOn \/ EndData

Spec == Init /\ [][Next]_vars

\* Files and directories have an end, and so has the space for an upload.
LastBlock ==
  Run /\ srv.state \in {"list", "tx", "rx"} /\ srv'.state # srv.state

\* The task runs unless it waits for the client, a transfer whose blocks pass
\* comes to its last, time passes, and no client keeps sending commands for
\* ever.  Nothing obliges a client to go on with a transfer or to end it.
FairSpec ==
  /\ Spec
  /\ WF_vars(Run)
  /\ SF_vars(LastBlock)
  /\ WF_vars(DataLate)
  /\ WF_vars(CommandIdle)
  /\ WF_vars(Leave \/ FallSilent)

------------------------------------------------------------------------------
(* Properties *)

\* As long as every transfer command found its data connection: what is open
\* is what the note says, nothing is lost or closed as something else, and
\* between transfers nothing is open at all.
HandlesAccountedFor ==
  ~srv.bare =>
    /\ ~srv.leaked /\ ~srv.confused
    /\ (srv.ptr = "file") = (srv.open = "file")
    /\ (srv.ptr = "dir") = (srv.open = "dir")
    /\ srv.state \in {"start", "ready", "end"} => srv.ptr = "null"

\* And every client that is told 150 is told how the transfer ended before
\* its next command is read, or loses its command connection.
TransfersAreAnswered ==
  ~srv.bare /\ srv.state \in {"start", "ready", "end"} => ~srv.owed

\* ftp_run waits for the client: for data, or for room to send.
Waiting ==
  \/ srv.state = "rx" /\ client.data \in {"up", "held"}
  \/ srv.state \in {"list", "tx"} /\ client.data = "held"

\* Unless a client lets a transfer stand still for ever with its connection
\* open, or sends commands for ever, the server is ready for the next one again
\* and again, whatever is left undone or broken off and whichever reply fails
\* (ftp_run's two timeouts, ftp_process_cmd's, and every reset).
ServerListensAgain ==
  []<>~Waiting =>
    []<>(srv.state = "ready" /\ srv.door /\ srv.cmd = "none" /\ srv.sub = "off")
==============================================================================
