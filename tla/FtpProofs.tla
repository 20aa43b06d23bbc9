------------------------------- MODULE FtpProofs -------------------------------
(***************************************************************************)
(* Proofs about the FTP server: whatever clients do, as long as transfer   *)
(* commands find a data connection, file handles are accounted for and     *)
(* transfers answered.                                                     *)
(***************************************************************************)
EXTENDS Ftp, TLAPS

Busy == {"list", "tx", "rx"}

\* What the handle and its note have to do with each other.
Matched(s) ==
  /\ s \in Server
  /\ ~s.bare =>
       /\ ~s.leaked /\ ~s.confused
       /\ (s.ptr = "file") <=> (s.open = "file")
       /\ (s.ptr = "dir") <=> (s.open = "dir")

\* Nothing is open.
Closed(s) == Matched(s) /\ (~s.bare => s.ptr = "null")

\* The same server but for the handle and its note.
SameButHandle(t, s) ==
  /\ t.state = s.state /\ t.data = s.data /\ t.owed = s.owed /\ t.bare = s.bare

\* The strengthening: a transfer has its data connection; between transfers
\* nothing is open and nobody waits for an answer.
Orderly(s) ==
  /\ Matched(s)
  /\ ~s.bare =>
       /\ s.state \notin Busy => s.ptr = "null" /\ ~s.owed
       /\ s.state \in Busy => s.data

IInv == Orderly(srv) /\ want \in Commands \cup {None}

------------------------------------------------------------------------------
(* The handle *)

LEMMA ClosingANote ==
  ASSUME NEW s, Matched(s)
  PROVE  Closed(CloseHandle(s)) /\ SameButHandle(CloseHandle(s), s)
<1>1. CASE s.open = "file"
  BY <1>1 DEF Matched, Closed, SameButHandle, CloseHandle, Fclose, Server
<1>2. CASE s.open = "dir"
  BY <1>2 DEF Matched, Closed, SameButHandle, CloseHandle, Closedir, Server
<1>3. CASE s.open = "nothing"
  BY <1>3 DEF Matched, Closed, SameButHandle, CloseHandle, Server
<1> QED BY <1>1, <1>2, <1>3 DEF Matched, Server

LEMMA ClosingOnError ==
  ASSUME NEW s, Matched(s)
  PROVE  Closed(CloseOnError(s)) /\ SameButHandle(CloseOnError(s), s)
<1> DEFINE c == CloseHandle(s)
<1>1. Closed(c) /\ SameButHandle(c, s)
  BY ClosingANote
<1>2. CloseOnError(s) = IF c.ptr = "null" THEN c ELSE Fclose(c)
  BY DEF CloseOnError
<1> HIDE DEF c
<1>3. CASE c.ptr = "null"
  BY <1>1, <1>2, <1>3
<1>4. CASE c.ptr # "null"
  <2>1. c \in Server /\ c.bare
    BY <1>1, <1>4 DEF Closed, Matched, Server
  <2>2. Fclose(c) \in Server
    BY <2>1 DEF Fclose, Server
  <2>3. SameButHandle(Fclose(c), c)
    BY <2>1 DEF Fclose, SameButHandle, Server
  <2>4. Fclose(c).bare
    BY <2>1, <2>3 DEF SameButHandle
  <2>5. CloseOnError(s) = Fclose(c)
    BY <1>2, <1>4
  <2>6. Closed(Fclose(c))
    BY <2>2, <2>4 DEF Closed, Matched
  <2> QED BY <1>1, <2>3, <2>5, <2>6 DEF SameButHandle
<1> QED BY <1>3, <1>4

LEMMA Overwriting ==
  ASSUME NEW s, Closed(s), NEW ptr \in {"null", "file", "dir"}
  PROVE  /\ Overwrite(s, ptr) \in Server
         /\ Overwrite(s, ptr).ptr = ptr
         /\ Overwrite(s, ptr).open = s.open
         /\ ~s.bare => ~Overwrite(s, ptr).leaked /\ ~Overwrite(s, ptr).confused
         /\ SameButHandle(Overwrite(s, ptr), s)
BY DEF Closed, Matched, Overwrite, SameButHandle, Server

------------------------------------------------------------------------------
(* Connections and replies *)

LEMMA HangingUp ==
  ASSUME NEW s, Matched(s)
  PROVE  Closed(HangUp(s)) /\ ~HangUp(s).owed
         /\ HangUp(s).state = s.state /\ HangUp(s).bare = s.bare
<1>1. Closed(CloseOnError(s)) /\ SameButHandle(CloseOnError(s), s)
  BY ClosingOnError
<1> QED BY <1>1 DEF HangUp, Closed, Matched, SameButHandle, Server

LEMMA Resetting ==
  ASSUME NEW s, Matched(s)
  PROVE  Closed(Reset(s)) /\ ~Reset(s).owed
         /\ Reset(s).state = "start" /\ Reset(s).bare = s.bare
<1>1. Closed(HangUp(s)) /\ ~HangUp(s).owed /\ HangUp(s).bare = s.bare
  BY HangingUp
<1> DEFINE h == HangUp(s)
<1>2. h \in Server /\ Reset(s) = [h EXCEPT !.door = FALSE, !.port = FALSE,
                                   !.open = "nothing", !.state = "start", !.sub = "off"]
  BY <1>1 DEF Reset, Closed, Matched
<1> HIDE DEF h
<1>3. Closed(h) /\ ~h.owed /\ h.bare = s.bare
  BY <1>1 DEF h
<1>4. /\ Reset(s) \in Server
      /\ Reset(s).state = "start" /\ Reset(s).open = "nothing"
      /\ Reset(s).ptr = h.ptr /\ Reset(s).owed = h.owed /\ Reset(s).bare = h.bare
      /\ Reset(s).leaked = h.leaked /\ Reset(s).confused = h.confused
  BY <1>2 DEF Server
<1> QED BY <1>3, <1>4 DEF Closed, Matched

\* A reply leaves what is closed closed; an error closes; 150 makes sure that
\* there is a data connection or notes that there is none.
LEMMA Sending ==
  ASSUME NEW s, Matched(s), NEW code \in Int
  PROVE  /\ Matched(Sent(s, code))
         /\ Sent(s, code).state = s.state
         /\ Closed(s) => Closed(Sent(s, code))
         /\ code \in {221, 426, 451, 550} => Closed(Sent(s, code))
         /\ code \in {221, 226, 426, 451, 550} => ~Sent(s, code).owed
         /\ code = 150 => (~Sent(s, code).bare => Sent(s, code).data)
         /\ code # 150 => Sent(s, code).bare = s.bare
         /\ code # 150 /\ ~s.owed => ~Sent(s, code).owed
<1> DEFINE e == CloseOnError(s)
           t == Sent(s, code)
<1>1. Closed(e) /\ SameButHandle(e, s)
  BY ClosingOnError
<1>2. CASE code \in {221, 426, 451, 550}
  <2>1. \/ t = [e EXCEPT !.data = FALSE, !.port = FALSE, !.cmd = "closed",
                         !.sub = "off", !.owed = FALSE]
        \/ t = [e EXCEPT !.data = FALSE, !.owed = FALSE]
    BY <1>2 DEF Sent
  <2> HIDE DEF e, t
  <2>2. e \in Server
    BY <1>1 DEF Closed, Matched
  <2>3. /\ t \in Server /\ ~t.owed
        /\ t.state = e.state /\ t.bare = e.bare /\ t.ptr = e.ptr
        /\ t.open = e.open /\ t.leaked = e.leaked /\ t.confused = e.confused
    BY <2>1, <2>2 DEF Server
  <2>4. Closed(t) /\ Matched(t)
    BY <1>1, <2>3 DEF Closed, Matched
  <2> QED BY <1>1, <1>2, <2>3, <2>4 DEF SameButHandle, t
<1>3. CASE code \in {150, 226}
  <2>1. \/ code = 226 /\ t = [s EXCEPT !.owed = FALSE]
        \/ code = 150 /\ t = [s EXCEPT !.owed = TRUE, !.bare = @ \/ ~s.data]
    BY <1>3 DEF Sent
  <2> HIDE DEF e, t
  <2>2. s \in Server
    BY DEF Matched
  <2>3. /\ t \in Server
        /\ t.state = s.state /\ t.data = s.data /\ t.ptr = s.ptr
        /\ t.open = s.open /\ t.leaked = s.leaked /\ t.confused = s.confused
        /\ ~t.bare => ~s.bare
    <3>1. CASE t = [s EXCEPT !.owed = FALSE]
      BY <2>2, <3>1 DEF Server
    <3>2. CASE t = [s EXCEPT !.owed = TRUE, !.bare = @ \/ ~s.data]
      <4>1. (s.bare \/ ~s.data) \in BOOLEAN
        OBVIOUS
      <4>2. t \in Server
        BY <2>2, <3>2, <4>1 DEF Server
      <4> QED BY <2>2, <3>2, <4>2 DEF Server
    <3> QED BY <2>1, <3>1, <3>2
  <2>4. code = 226 => t.bare = s.bare /\ ~t.owed
    BY <2>1, <2>2 DEF Server
  <2>5. code = 150 => (~t.bare => t.data)
    <3>1. CASE t = [s EXCEPT !.owed = TRUE, !.bare = @ \/ ~s.data]
      <4>1. t.data = s.data /\ t.bare = (s.bare \/ ~s.data)
        BY <2>2, <3>1 DEF Server
      <4> QED BY <4>1
    <3> QED BY <2>1, <3>1
  <2>6. Matched(t) /\ (Closed(s) => Closed(t))
    BY <2>3 DEF Closed, Matched
  <2> QED BY <1>3, <2>3, <2>4, <2>5, <2>6 DEF t
<1>4. CASE code \notin {150, 221, 226, 426, 451, 550}
  BY <1>4 DEF Sent
<1> QED BY <1>2, <1>3, <1>4

\* A reply between transfers.
LEMMA Replying ==
  ASSUME NEW s, Closed(s), s.state \notin Busy, ~s.bare => ~s.owed,
         NEW code \in Int \ {150}, NEW r \in Reply(s, code)
  PROVE  Orderly(r) /\ Closed(r) /\ (~r.bare => ~r.owed)
<1>1. Matched(s)
  BY DEF Closed
<1>2. r = Reset(s) \/ r = Sent(s, code)
  BY DEF Reply
<1>3. CASE r = Reset(s)
  BY <1>1, <1>3, Resetting DEF Orderly, Closed, Busy
<1>4. CASE r = Sent(s, code)
  BY <1>1, <1>4, Sending DEF Orderly, Closed
<1> QED BY <1>2, <1>3, <1>4

\* A reply that ends a transfer.
LEMMA Ending ==
  ASSUME NEW s, Closed(s), NEW code \in {226, 451}, NEW r \in Last(s, code)
  PROVE  Orderly(r)
<1>1. Matched(s)
  BY DEF Closed
<1>2. PICK t \in Reply(s, code) : r = [t EXCEPT !.state = "end"]
  BY DEF Last, Then
<1>3. t = Reset(s) \/ t = Sent(s, code)
  BY DEF Reply
<1>4. Closed(t) /\ ~t.owed
  <2>1. CASE t = Reset(s)
    BY <1>1, <2>1, Resetting
  <2>2. CASE t = Sent(s, code)
    BY <1>1, <2>2, Sending
  <2> QED BY <1>3, <2>1, <2>2
<1> QED BY <1>2, <1>4 DEF Orderly, Closed, Matched, Busy, Server

------------------------------------------------------------------------------
(* Commands *)

\* The server between transfers.
Ready(s) == Closed(s) /\ s.state = "ready" /\ (~s.bare => ~s.owed)

\* Opening, and the reply: a transfer, or none.
LEMMA Beginning ==
  ASSUME NEW s, Ready(s), NEW opened, NEW to \in Busy,
         NEW refused \in {"ready", "end"},
         \A o \in opened :
           /\ Matched(o.s) /\ SameButHandle(o.s, s)
           /\ ~o.ok => Closed(o.s),
         NEW r \in Begin(opened, to, refused)
  PROVE  Orderly(r)
<1> DEFINE F(o) == IF o.ok THEN Reply([o.s EXCEPT !.state = to], 150)
                           ELSE Reply([o.s EXCEPT !.state = refused], 550)
<1>0. r \in UNION {F(o) : o \in opened}
  BY DEF Begin
<1> HIDE DEF F
<1>1. PICK o \in opened : r \in F(o)
  BY <1>0
<1> USE DEF F
<1>2. Matched(o.s) /\ SameButHandle(o.s, s) /\ (~o.ok => Closed(o.s))
  OBVIOUS
<1>3. CASE o.ok
  <2> DEFINE t == [o.s EXCEPT !.state = to]
  <2>1. Matched(t) /\ t.state = to
    BY <1>2 DEF Matched, Server, Busy
  <2>2. r = Reset(t) \/ r = Sent(t, 150)
    BY <1>1, <1>3 DEF Reply
  <2> HIDE DEF t
  <2>3. CASE r = Reset(t)
    BY <2>1, <2>3, Resetting DEF Orderly, Closed, Busy
  <2>4. CASE r = Sent(t, 150)
    BY <2>1, <2>4, Sending DEF Orderly, Busy
  <2> QED BY <2>2, <2>3, <2>4
<1>4. CASE ~o.ok
  <2> DEFINE t == [o.s EXCEPT !.state = refused]
  <2>1. Closed(t) /\ t.state = refused /\ (~t.bare => ~t.owed)
    <3>1. Closed(o.s) /\ (~o.s.bare => ~o.s.owed) /\ o.s \in Server
      BY <1>2, <1>4 DEF Closed, Matched, SameButHandle, Ready
    <3>2. /\ t \in Server /\ t.state = refused
          /\ t.bare = o.s.bare /\ t.owed = o.s.owed /\ t.ptr = o.s.ptr
          /\ t.open = o.s.open /\ t.leaked = o.s.leaked /\ t.confused = o.s.confused
      BY <3>1 DEF Server
    <3> QED BY <3>1, <3>2 DEF Closed, Matched
  <2>2. r \in Reply(t, 550)
    BY <1>1, <1>4
  <2> HIDE DEF t
  <2>3. t.state \notin Busy
    BY <2>1 DEF Busy
  <2> QED BY <2>1, <2>2, <2>3, Replying
<1> QED BY <1>3, <1>4

LEMMA Processing ==
  ASSUME NEW s, Ready(s), NEW command \in AllCommands,
         NEW r \in Process(s, command)
  PROVE  Orderly(r)
<1>1. Closed(s) /\ s \in Server /\ s.state \notin Busy /\ (~s.bare => ~s.owed)
  BY DEF Ready, Closed, Matched, Busy
<1>2. CASE ~s.login /\ command \notin {"PASS", "QUIT"}
  <2>1. r \in Reply(s, 332)
    BY <1>2 DEF Process
  <2> QED BY <1>1, <2>1, Replying
<1> DEFINE live == ~(~s.login /\ command \notin {"PASS", "QUIT"})
<1>3. CASE live /\ command \in {"PASS", "DELE", "QUIT"}
  <2> DEFINE t == [s EXCEPT !.login = TRUE]
  <2>1. Closed(t) /\ t.state \notin Busy /\ (~t.bare => ~t.owed)
    BY <1>1 DEF Closed, Matched, Server
  <2>2. \/ r \in Reply(t, 230) \/ r \in Reply(s, 530) \/ r \in Reply(s, 250)
        \/ r \in Reply(s, 550) \/ r \in Reply(s, 221)
    BY <1>3 DEF Process
  <2> HIDE DEF t
  <2>3. CASE r \in Reply(t, 230)
    BY <2>1, <2>3, Replying
  <2> QED BY <1>1, <2>2, <2>3, Replying
<1>4. CASE live /\ command = "PASV"
  <2> DEFINE c == [s EXCEPT !.data = FALSE, !.sub = "off"]
             t == [c EXCEPT !.port = TRUE, !.late = FALSE, !.sub = "listen"]
  <2>1. Closed(c) /\ c.state \notin Busy /\ (~c.bare => ~c.owed)
    BY <1>1 DEF Closed, Matched, Server
  <2>2. Closed(t) /\ t.state \notin Busy /\ (~t.bare => ~t.owed)
    BY <1>1 DEF Closed, Matched, Server
  <2>3. r \in Passive(s)
    BY <1>4 DEF Process
  <2>4. r \in Reply(t, 227) \/ r \in Reply(c, 425)
    BY <2>3 DEF Passive
  <2> HIDE DEF c, t
  <2> QED BY <2>1, <2>2, <2>4, Replying
<1>5. CASE live /\ command = "LIST"
  <2> DEFINE c == IF s.ptr = "null" THEN s ELSE Closedir(s)
  <2>1. Closed(c) /\ SameButHandle(c, s)
    <3>1. CASE s.ptr = "null"
      BY <1>1, <3>1 DEF SameButHandle
    <3>2. CASE s.ptr # "null"
      <4>1. s.bare
        BY <1>1, <3>2 DEF Closed
      <4>2. Closedir(s) \in Server /\ SameButHandle(Closedir(s), s)
        BY <1>1 DEF Closedir, Server, SameButHandle
      <4> QED BY <3>2, <4>1, <4>2 DEF Closed, Matched, SameButHandle
    <3> QED BY <3>1, <3>2
  <2>2. r \in Begin(OpenDir(s), "list", "ready")
    BY <1>5 DEF Process
  <2>3. \A o \in OpenDir(s) :
          \/ o = [ok |-> TRUE, s |-> [c EXCEPT !.ptr = "dir", !.open = "dir"]]
          \/ o = [ok |-> FALSE, s |-> c]
    BY DEF OpenDir
  <2> HIDE DEF c
  <2> DEFINE d == [c EXCEPT !.ptr = "dir", !.open = "dir"]
  <2>4. c \in Server
    BY <2>1 DEF Closed, Matched
  <2>5. /\ d \in Server /\ d.ptr = "dir" /\ d.open = "dir"
        /\ d.leaked = c.leaked /\ d.confused = c.confused /\ d.bare = c.bare
        /\ d.state = c.state /\ d.data = c.data /\ d.owed = c.owed
    BY <2>4 DEF Server
  <2>6. \A o \in OpenDir(s) :
          \/ o.ok = TRUE /\ o.s = d
          \/ o.ok = FALSE /\ o.s = c
    BY <2>3
  <2> HIDE DEF d
  <2>7. Matched(d) /\ SameButHandle(d, s) /\ Matched(c)
    BY <2>1, <2>5 DEF Closed, Matched, SameButHandle
  <2>8. \A o \in OpenDir(s) :
          /\ Matched(o.s) /\ SameButHandle(o.s, s)
          /\ ~o.ok => Closed(o.s)
    BY <2>1, <2>6, <2>7
  <2> QED BY <2>2, <2>8, Beginning DEF Busy
<1>6. CASE live /\ command \in {"RETR", "STOR"}
  <2> DEFINE f == Overwrite(s, "file")
             n == Overwrite(s, "null")
  <2>1. r \in Begin(OpenFile(s), "tx", "end") \/ r \in Begin(OpenFile(s), "rx", "end")
    BY <1>6 DEF Process
  <2>2. \A o \in OpenFile(s) :
          \/ o = [ok |-> TRUE, s |-> [f EXCEPT !.open = "file"]]
          \/ o = [ok |-> FALSE, s |-> n]
    BY DEF OpenFile
  <2>3. f \in Server /\ f.ptr = "file" /\ SameButHandle(f, s)
        /\ (~s.bare => ~f.leaked /\ ~f.confused)
    BY <1>1, Overwriting
  <2>4. n \in Server /\ n.ptr = "null" /\ n.open = s.open /\ SameButHandle(n, s)
        /\ (~s.bare => ~n.leaked /\ ~n.confused)
    BY <1>1, Overwriting
  <2> HIDE DEF f, n
  <2>5. \A o \in OpenFile(s) :
          /\ Matched(o.s) /\ SameButHandle(o.s, s)
          /\ ~o.ok => Closed(o.s)
    BY <1>1, <2>2, <2>3, <2>4 DEF Closed, Matched, SameButHandle, Server
  <2> QED BY <2>1, <2>5, Beginning DEF Busy
<1>7. CASE live /\ command \in {"CWD", "CWD ."}
  <2> DEFINE d == Overwrite(s, "dir")
             c == Closedir(d)
             n == Overwrite(s, "null")
  <2>1. r \in Reply(c, 250) \/ r \in Reply(n, 550) \/ r \in Reply(n, 250)
    BY <1>7 DEF Process
  <2>2. d \in Server /\ d.ptr = "dir" /\ d.open = s.open /\ SameButHandle(d, s)
        /\ (~s.bare => ~d.leaked /\ ~d.confused)
    BY <1>1, Overwriting
  <2>3. n \in Server /\ n.ptr = "null" /\ n.open = s.open /\ SameButHandle(n, s)
        /\ (~s.bare => ~n.leaked /\ ~n.confused)
    BY <1>1, Overwriting
  <2>4. Closed(n) /\ n.state \notin Busy /\ (~n.bare => ~n.owed)
    BY <1>1, <2>3 DEF Closed, Matched, SameButHandle
  <2> HIDE DEF d, n
  <2>5. /\ c \in Server /\ c.ptr = "null"
        /\ c.open = d.open /\ c.leaked = d.leaked /\ (~d.confused => ~c.confused)
        /\ c.state = d.state /\ c.bare = d.bare /\ c.owed = d.owed
    BY <2>2 DEF Closedir, Server
  <2>6. Closed(c) /\ c.state \notin Busy /\ (~c.bare => ~c.owed)
    BY <1>1, <2>2, <2>5 DEF Closed, Matched, SameButHandle
  <2> HIDE DEF c
  <2> QED BY <2>1, <2>4, <2>6, Replying
<1> QED BY <1>2, <1>3, <1>4, <1>5, <1>6, <1>7 DEF AllCommands

------------------------------------------------------------------------------
(* The parts of ftp_run *)

\* Fields the invariant says nothing about.
LEMMA Unnoticed ==
  ASSUME NEW s, Orderly(s), NEW t \in Server,
         t.state = s.state, t.data = s.data, t.owed = s.owed, t.bare = s.bare,
         t.ptr = s.ptr, t.open = s.open, t.leaked = s.leaked,
         t.confused = s.confused
  PROVE  Orderly(t)
BY DEF Orderly, Matched

LEMMA ResetIsOrderly ==
  ASSUME NEW s, Matched(s)
  PROVE  Orderly(Reset(s))
BY Resetting DEF Orderly, Closed, Busy

LEMMA Listening ==
  ASSUME NEW s, Orderly(s), s.state = "ready", s.cmd # "none",
         want \in Commands \cup {None}, NEW r \in Listen(s)
  PROVE  Orderly(r)
<1>1. Ready(s) /\ Matched(s)
  BY DEF Orderly, Ready, Closed, Busy
<1>2. r = HangUp(s) \/ (want # None /\ r \in Process(s, want)) \/ r \in Reply(s, 221) \/ r = s
  <2>1. CASE s.cmd = "closed" \/ client.cmd # "in"
    BY <2>1 DEF Listen
  <2>2. CASE s.cmd = "open" /\ client.cmd = "in" /\ want # None
    BY <2>2 DEF Listen
  <2>3. CASE s.cmd = "open" /\ client.cmd = "in" /\ want = None
    BY <2>3 DEF Listen
  <2>4. s.cmd \in {"open", "closed"}
    BY <1>1 DEF Matched, Server
  <2> QED BY <2>1, <2>2, <2>3, <2>4
<1>3. CASE r = HangUp(s)
  BY <1>1, <1>3, HangingUp DEF Orderly, Closed, Ready, Busy
<1>4. CASE want # None /\ r \in Process(s, want)
  BY <1>1, <1>4, FtpAssumption, Processing
<1>5. CASE r \in Reply(s, 221)
  BY <1>1, <1>5, Replying DEF Ready, Busy
<1> QED BY <1>2, <1>3, <1>4, <1>5

LEMMA Welcoming ==
  ASSUME NEW s, Orderly(s), s.state = "ready", NEW r \in Welcome(s)
  PROVE  Orderly(r)
<1> DEFINE t == [s EXCEPT !.cmd = "open", !.idle = FALSE, !.login = FALSE]
<1>1. Closed(s) /\ s \in Server /\ (~s.bare => ~s.owed)
  BY DEF Orderly, Closed, Matched, Busy
<1>2. /\ t \in Server /\ t.state = s.state /\ t.owed = s.owed /\ t.bare = s.bare
      /\ t.ptr = s.ptr /\ t.open = s.open /\ t.leaked = s.leaked
      /\ t.confused = s.confused
  BY <1>1 DEF Server
<1>3. r \in Reply(t, 220) \/ r = s \/ r = Reset(s)
  BY DEF Welcome
<1> HIDE DEF t
<1>4. Closed(t)
  BY <1>1, <1>2 DEF Closed, Matched
<1>5. CASE r \in Reply(t, 220)
  BY <1>1, <1>2, <1>4, <1>5, Replying DEF Busy
<1> QED BY <1>3, <1>5, ResetIsOrderly DEF Orderly

\* A transfer: a block, a reset, or the end and the last reply.
LEMMA Transferring ==
  ASSUME NEW s, Orderly(s), s.state \in Busy,
         NEW r \in List(s) \cup SendFile(s) \cup ReceiveFile(s)
  PROVE  Orderly(r)
<1> DEFINE t == [s EXCEPT !.idle = FALSE]
           u == [s EXCEPT !.late = FALSE, !.idle = FALSE]
<1>1. s \in Server
  BY DEF Orderly, Matched
<1>2. /\ t \in Server /\ t.state = s.state /\ t.data = s.data /\ t.owed = s.owed
      /\ t.bare = s.bare /\ t.ptr = s.ptr /\ t.open = s.open
      /\ t.leaked = s.leaked /\ t.confused = s.confused
  BY <1>1 DEF Server
<1>3. /\ u \in Server /\ u.state = s.state /\ u.data = s.data /\ u.owed = s.owed
      /\ u.bare = s.bare /\ u.ptr = s.ptr /\ u.open = s.open
      /\ u.leaked = s.leaked /\ u.confused = s.confused
  BY <1>1 DEF Server
<1>4. \/ r \in {t, Reset(t), u}
      \/ r \in Last(CloseHandle(t), 226) \/ r \in Last(Reset(CloseHandle(t)), 226)
      \/ r \in Last(CloseHandle(t), 451)
      \/ r \in Last(CloseHandle(u), 451) \/ r \in Last(CloseHandle(s), 226)
  <2>1. CASE r \in List(s)
    BY <2>1 DEF List
  <2>2. CASE r \in SendFile(s)
    BY <2>2 DEF SendFile
  <2>3. CASE r \in ReceiveFile(s)
    <3>1. CASE client.data = "sent"
      BY <2>3, <3>1 DEF ReceiveFile
    <3>2. CASE client.data \in {"none", "done"}
      BY <2>3, <3>2 DEF ReceiveFile
    <3>3. CASE client.data \notin {"sent", "none", "done"}
      BY <2>3, <3>3 DEF ReceiveFile
    <3> QED BY <3>1, <3>2, <3>3
  <2> QED BY <2>1, <2>2, <2>3
<1> HIDE DEF t, u
<1>5. Orderly(t) /\ Orderly(u)
  BY <1>2, <1>3, Unnoticed
<1>6. Matched(s) /\ Matched(t) /\ Matched(u)
  BY <1>5 DEF Orderly
<1>7. /\ Closed(CloseHandle(s)) /\ Closed(CloseHandle(t)) /\ Closed(CloseHandle(u))
  BY <1>6, ClosingANote
<1>8. Closed(Reset(CloseHandle(t)))
  BY <1>7, Resetting DEF Closed
<1>9. CASE r \in {t, Reset(t), u}
  BY <1>5, <1>6, <1>9, ResetIsOrderly
<1> QED BY <1>4, <1>7, <1>8, <1>9, Ending

\* Each call of ftp_run takes one step of the protocol.
LEMMA ProtocolIsOrderly ==
  ASSUME NEW s, Orderly(s), want \in Commands \cup {None}, NEW r \in Protocol(s)
  PROVE  Orderly(r)
<1>1. Matched(s) /\ s \in Server
  BY DEF Orderly, Matched
<1>2. CASE s.state = "start"
  <2> DEFINE t == [s EXCEPT !.door = TRUE, !.state = "ready"]
  <2>1. r = s \/ r = t
    BY <1>2 DEF Protocol
  <2>2. /\ t \in Server /\ t.state = "ready" /\ t.owed = s.owed /\ t.bare = s.bare
        /\ t.ptr = s.ptr /\ t.open = s.open /\ t.leaked = s.leaked
        /\ t.confused = s.confused
    BY <1>1 DEF Server
  <2> HIDE DEF t
  <2>3. Orderly(t)
    BY <1>2, <2>2 DEF Orderly, Matched, Busy
  <2> QED BY <2>1, <2>3
<1>3. CASE s.state = "ready"
  <2>1. r = s \/ r \in Welcome(s) \/ (s.cmd # "none" /\ r \in Listen(s))
    BY <1>3 DEF Protocol
  <2> QED BY <1>3, <2>1, Welcoming, Listening
<1>4. CASE s.state = "end"
  <2> DEFINE t == [s EXCEPT !.data = FALSE]
  <2>1. r = t
    BY <1>4 DEF Protocol
  <2>2. /\ t \in Server /\ t.state = s.state /\ t.owed = s.owed /\ t.bare = s.bare
        /\ t.ptr = s.ptr /\ t.open = s.open /\ t.leaked = s.leaked
        /\ t.confused = s.confused
    BY <1>1 DEF Server
  <2> HIDE DEF t
  <2> QED BY <1>4, <2>1, <2>2 DEF Orderly, Matched, Busy
<1>5. CASE s.state \in Busy
  <2>1. r \in List(s) \cup SendFile(s) \cup ReceiveFile(s)
    BY <1>5 DEF Protocol, Busy
  <2> QED BY <1>5, <2>1, Transferring
<1> QED BY <1>1, <1>2, <1>3, <1>4, <1>5 DEF Server, Busy

\* Then the data connection is looked after.
LEMMA ConnectionIsOrderly ==
  ASSUME NEW s, Orderly(s), NEW r \in Connection(s)
  PROVE  Orderly(r)
<1> DEFINE called == s.sub = "listen" /\ s.port /\ client.data = "calling"
           t == [s EXCEPT !.data = TRUE, !.late = FALSE, !.sub = "on"]
           u == [s EXCEPT !.late = FALSE, !.port = FALSE, !.sub = "off"]
           e == CloseOnError(s)
           v == [e EXCEPT !.port = FALSE, !.data = FALSE, !.sub = "off"]
<1>1. Matched(s) /\ s \in Server
  BY DEF Orderly, Matched
<1>2. \/ r \in {s, t, u, Reset(s)}
      \/ s.state = "ready" /\ r = v
  <2>1. CASE called
    BY <2>1 DEF Connection
  <2>2. CASE s.sub = "listen" /\ ~(s.port /\ client.data = "calling")
    BY <2>2 DEF Connection
  <2>3. CASE s.sub = "on" /\ s.state = "ready" /\ s.late
    BY <2>3 DEF Connection
  <2>4. CASE s.sub # "listen" /\ ~(s.sub = "on" /\ s.state = "ready" /\ s.late)
    BY <2>4 DEF Connection
  <2> QED BY <2>1, <2>2, <2>3, <2>4
<1>3. CASE r = t
  <2>1. /\ t \in Server /\ t.state = s.state /\ t.data /\ t.owed = s.owed
        /\ t.bare = s.bare /\ t.ptr = s.ptr /\ t.open = s.open
        /\ t.leaked = s.leaked /\ t.confused = s.confused
    BY <1>1 DEF Server
  <2> HIDE DEF t
  <2> QED BY <1>3, <2>1 DEF Orderly, Matched
<1>4. CASE r = u
  <2>1. /\ u \in Server /\ u.state = s.state /\ u.data = s.data /\ u.owed = s.owed
        /\ u.bare = s.bare /\ u.ptr = s.ptr /\ u.open = s.open
        /\ u.leaked = s.leaked /\ u.confused = s.confused
    BY <1>1 DEF Server
  <2> HIDE DEF u
  <2> QED BY <1>4, <2>1, Unnoticed
<1>5. CASE s.state = "ready" /\ r = v
  <2>1. Closed(e) /\ SameButHandle(e, s)
    BY <1>1, ClosingOnError
  <2> HIDE DEF e
  <2>2. e \in Server
    BY <2>1 DEF Closed, Matched
  <2>3. /\ v \in Server /\ v.state = e.state /\ v.owed = e.owed
        /\ v.bare = e.bare /\ v.ptr = e.ptr /\ v.open = e.open
        /\ v.leaked = e.leaked /\ v.confused = e.confused
    BY <2>2 DEF Server
  <2> HIDE DEF v
  <2>4. ~s.bare => ~s.owed
    BY <1>5 DEF Orderly, Busy
  <2> QED BY <1>5, <2>1, <2>3, <2>4 DEF Orderly, Closed, Matched, SameButHandle, Busy
<1> QED BY <1>1, <1>2, <1>3, <1>4, <1>5, ResetIsOrderly

\* And without one there is no transfer.
LEMMA CheckIsOrderly ==
  ASSUME NEW s, Orderly(s)
  PROVE  Orderly(Check(s))
<1> DEFINE t == [s EXCEPT !.sub = "off", !.state = "ready"]
<1>1. s \in Server
  BY DEF Orderly, Matched
<1>2. /\ t \in Server /\ t.state = "ready" /\ t.owed = s.owed /\ t.bare = s.bare
      /\ t.ptr = s.ptr /\ t.open = s.open /\ t.leaked = s.leaked
      /\ t.confused = s.confused
  BY <1>1 DEF Server
<1>3. CASE ~s.data /\ s.state \in {"end", "list", "tx", "rx"}
  <2>1. Check(s) = t
    BY <1>3 DEF Check
  <2> HIDE DEF t
  <2> QED BY <1>2, <1>3, <2>1 DEF Orderly, Matched, Busy
<1>4. CASE ~(~s.data /\ s.state \in {"end", "list", "tx", "rx"})
  BY <1>4 DEF Check
<1> QED BY <1>3, <1>4

------------------------------------------------------------------------------
(* The invariant *)

LEMMA IInvInit == Init => IInv
BY DEF Init, IInv, Orderly, Matched, Server, Busy, None

LEMMA IInvNext == IInv /\ [Next]_vars => IInv'
<1> SUFFICES ASSUME IInv, [Next]_vars
             PROVE  IInv'
  OBVIOUS
<1>0. Orderly(srv) /\ srv \in Server /\ want \in Commands \cup {None}
  BY DEF IInv, Orderly, Matched
<1>1. CASE Run
  <2>1. PICK p \in Protocol(srv) : \E c \in Connection(p) :
          srv' = Check(c) /\ Heard(srv')
    BY <1>1 DEF Run
  <2>2. PICK c \in Connection(p) : srv' = Check(c) /\ Heard(srv')
    BY <2>1
  <2>3. Orderly(p)
    BY <1>0, ProtocolIsOrderly
  <2>4. Orderly(c)
    BY <2>3, ConnectionIsOrderly
  <2>5. Orderly(srv')
    BY <2>2, <2>4, CheckIsOrderly
  <2>6. want' \in Commands \cup {None}
    BY <1>0, <2>2 DEF Heard
  <2> QED BY <2>5, <2>6 DEF IInv, Orderly, Matched
<1>2. CASE DataLate \/ CommandIdle
  <2>1. /\ srv' \in Server /\ srv'.state = srv.state /\ srv'.data = srv.data
        /\ srv'.owed = srv.owed /\ srv'.bare = srv.bare /\ srv'.ptr = srv.ptr
        /\ srv'.open = srv.open /\ srv'.leaked = srv.leaked
        /\ srv'.confused = srv.confused
    BY <1>0, <1>2 DEF DataLate, CommandIdle, Server
  <2>2. Orderly(srv')
    BY <1>0, <2>1, Unnoticed
  <2>3. want' = want
    BY <1>2 DEF DataLate, CommandIdle
  <2> QED BY <1>0, <2>2, <2>3 DEF IInv, Orderly, Matched
<1>3. CASE \/ Call \/ Command \/ Leave \/ FallSilent \/ CallData
           \/ SendData \/ StopReading \/ ReadOn \/ EndData
  <2>1. srv' = srv /\ want' \in Commands \cup {None}
    BY <1>0, <1>3 DEF Call, Command, Leave, FallSilent, CallData, SendData,
       StopReading, ReadOn, EndData
  <2> QED BY <1>0, <2>1 DEF IInv, Orderly, Matched
<1>4. CASE UNCHANGED vars
  BY <1>0, <1>4 DEF vars, IInv, Orderly, Matched
<1> QED BY <1>1, <1>2, <1>3, <1>4 DEF Next

LEMMA Invariant == Spec => []IInv
BY IInvInit, IInvNext, PTL DEF Spec

\* Handles: whatever ftp_process_cmd and ftp_run go through, what is open is
\* what the note says it is, and it is closed once and as what it is.
THEOREM HandlesAreSafe == Spec => []HandlesAccountedFor
<1>1. IInv => HandlesAccountedFor
  BY DEF IInv, Orderly, Matched, HandlesAccountedFor, Busy
<1> QED BY <1>1, Invariant, PTL

\* Answers: a client that is told 150 is told the end, or loses its connection.
THEOREM AnswersAreSafe == Spec => []TransfersAreAnswered
<1>1. IInv => TransfersAreAnswered
  BY DEF IInv, Orderly, TransfersAreAnswered, Busy
<1> QED BY <1>1, Invariant, PTL
==============================================================================
