-------------------------------- MODULE Files --------------------------------
(***************************************************************************)
(* Replacing a file on the rotator's volume (src/main/FileRoutes.c).       *)
(*                                                                         *)
(* The routes of the file explorer all run in the web server's one task:   *)
(* upload and save write <name>.part, unlink the old file and rename the   *)
(* new one; delete and mkdir are a single call.  Meanwhile the FTP task    *)
(* writes, reads, deletes and renames the same names in place, every call  *)
(* to the file system may fail, and power may fail between two of them.    *)
(*                                                                         *)
(* LittleFS is external: a call happens or fails as a whole, what is       *)
(* written to an open file counts from fclose on, and a name somebody has  *)
(* open can be neither unlinked nor renamed.  Contents are numbered by the *)
(* write that brings them; paths are always valid and the lock is open.    *)
(***************************************************************************)
EXTENDS Integers

CONSTANTS
  Names,       (* the paths requests and FTP commands name            *)
  Absent,      (* no such entry                                       *)
  Directory,   (* an empty directory                                  *)
  Nobody,      (* no file is open                                     *)
  MaxWrites,   (* bound: writes begun                                 *)
  MaxCuts      (* bound: power failures                               *)

ASSUME FilesAssumption ==
  /\ MaxWrites \in Nat
  /\ MaxCuts \in Nat
  /\ Absent # Directory
  /\ {Absent, Directory} \cap [v : Nat, whole : BOOLEAN] = {}
  /\ Nobody \notin Names

VARIABLES
  target,    (* target[n]: what the volume holds under n              *)
  part,      (* part[n]: what it holds under n.part                   *)
  pc,        (* where the handler of upload or save is                *)
  cur,       (* its name and the number of what it writes             *)
  ftp,       (* the name the FTP task has open, and for what          *)
  writes,    (* writes begun                                          *)
  cuts,      (* power failures                                        *)
  promised,  (* promised[n]: what the last request acknowledged for n *)
  cut,       (* numbers whose fclose failed, unseen                   *)
  stray      (* names whose .part no handler could remove             *)

disk    == <<target, part>>
handler == <<pc, cur>>
ghosts  == <<promised, cut, stray>>
vars    == <<disk, handler, ftp, writes, cuts, ghosts>>

Entry(v, whole) == [v |-> v, whole |-> whole]
File == [v : 0 .. MaxWrites, whole : BOOLEAN]
Contents == File \cup {Absent, Directory}
Closed == [name |-> Nobody, mode |-> "r", v |-> 0]

TypeOK ==
  /\ target \in [Names -> Contents]
  /\ part \in [Names -> Contents]
  /\ pc \in {"idle", "receive", "close", "unlink", "rename"}
  /\ cur \in [name : Names \cup {Nobody}, v : 0 .. MaxWrites]
  /\ ftp \in [name : Names \cup {Nobody}, mode : {"r", "w"}, v : 0 .. MaxWrites]
  /\ writes \in 0 .. MaxWrites
  /\ cuts \in 0 .. MaxCuts
  /\ promised \in [Names -> Contents \cup {Nobody}]
  /\ cut \subseteq 0 .. MaxWrites
  /\ stray \subseteq Names

\* A volume as the firmware's image brings it: everything is there.
Init ==
  /\ target = [n \in Names |-> Entry(0, TRUE)]
  /\ part = [n \in Names |-> Absent]
  /\ pc = "idle"
  /\ cur = [name |-> Nobody, v |-> 0]
  /\ ftp = Closed
  /\ writes = 0
  /\ cuts = 0
  /\ promised = target
  /\ cut = {}
  /\ stray = {}

IsFile(entry) == entry \in File
Busy(n) == ftp.name = n

\* Nothing is known of n any more: a request or the FTP task changes it.
Forget(n) == promised' = [promised EXCEPT ![n] = Nobody]

Stop ==
  /\ pc' = "idle"
  /\ cur' = [name |-> Nobody, v |-> 0]

------------------------------------------------------------------------------
(* upload_handler and save_text *)

\* fopen(part, "wb"): a new file is there at once, empty; an old one stays
\* until the new one is closed.
OpenPart(n, at) ==
  /\ pc = "idle"
  /\ writes < MaxWrites
  /\ part[n] # Directory
  /\ writes' = writes + 1
  /\ pc' = at
  /\ cur' = [name |-> n, v |-> writes + 1]
  /\ part' = [part EXCEPT ![n] = IF @ = Absent THEN Entry(writes + 1, FALSE) ELSE @]
  /\ stray' = stray \ {n}
  /\ IF target[n] = Absent THEN Forget(n) ELSE UNCHANGED promised
  /\ UNCHANGED <<target, ftp, cuts, cut>>

Upload(n) == OpenPart(n, "receive")

\* The body of a save is in memory: one fwrite.
Save(n) == OpenPart(n, "close")

\* Mutant: what has been received stays behind.
ReceiveFailsAndLeaves ==
  /\ pc = "receive"
  /\ part' = [part EXCEPT ![cur.name] = Entry(cur.v, FALSE)]
  /\ Stop
  /\ UNCHANGED <<target, ftp, writes, cuts, ghosts>>

\* unlink(part) after an error; its result is not looked at.
RemovePart ==
  \/ part' = [part EXCEPT ![cur.name] = Absent] /\ UNCHANGED stray
  \/ /\ part' = [part EXCEPT ![cur.name] = IF @ = Absent THEN @ ELSE Entry(cur.v, FALSE)]
     /\ stray' = stray \cup {cur.name}

\* httpd_req_recv or fwrite fails: the part is closed and removed.
ReceiveFails ==
  /\ pc = "receive"
  /\ RemovePart
  /\ Stop
  /\ UNCHANGED <<target, ftp, writes, cuts, promised, cut>>

Received ==
  /\ pc = "receive"
  /\ pc' = "close"
  /\ UNCHANGED <<disk, cur, ftp, writes, cuts, ghosts>>

\* save_text: fwrite wrote less than the text.
SaveFails ==
  /\ pc = "close"
  /\ RemovePart
  /\ Stop
  /\ UNCHANGED <<target, ftp, writes, cuts, promised, cut>>

\* fclose(file): what was buffered may not fit any more, and nobody looks.
ClosePart ==
  /\ pc = "close"
  /\ pc' = "unlink"
  /\ \E whole \in BOOLEAN :
       /\ part' = [part EXCEPT ![cur.name] = Entry(cur.v, whole)]
       /\ cut' = IF whole THEN cut ELSE cut \cup {cur.v}
  /\ UNCHANGED <<target, cur, ftp, writes, cuts, promised, stray>>

\* unlink(target), failing unseen on a directory or an open file.
Unlink ==
  /\ pc = "unlink"
  /\ pc' = "rename"
  /\ \/ /\ target[cur.name] # Directory
        /\ ~Busy(cur.name)
        /\ target' = [target EXCEPT ![cur.name] = Absent]
     \/ UNCHANGED target
  /\ UNCHANGED <<part, cur, ftp, writes, cuts, ghosts>>

\* Mutant: the answer is sent whatever rename said.
RenameFailsUnseen ==
  /\ pc = "rename"
  /\ RemovePart
  /\ promised' = [promised EXCEPT ![cur.name] = Entry(cur.v, TRUE)]
  /\ Stop
  /\ UNCHANGED <<target, ftp, writes, cuts, cut>>

\* rename(part, target) replaces what is there, and the client is told.
Rename ==
  /\ pc = "rename"
  /\ target[cur.name] # Directory
  /\ ~Busy(cur.name)
  /\ target' = [target EXCEPT ![cur.name] = part[cur.name]]
  /\ part' = [part EXCEPT ![cur.name] = Absent]
  /\ promised' = [promised EXCEPT ![cur.name] = Entry(cur.v, TRUE)]
  /\ Stop
  /\ UNCHANGED <<ftp, writes, cuts, cut, stray>>

\* rename fails: the new file is removed as well, and the client is told so.
RenameFails ==
  /\ pc = "rename"
  /\ RemovePart
  /\ IF target[cur.name] = Absent THEN Forget(cur.name) ELSE UNCHANGED promised
  /\ Stop
  /\ UNCHANGED <<target, ftp, writes, cuts, cut>>

------------------------------------------------------------------------------
(* remove_entry and make_dir *)

\* stat, then unlink or rmdir.
Remove(n) ==
  /\ pc = "idle"
  /\ target[n] # Absent
  /\ ~Busy(n)
  /\ target' = [target EXCEPT ![n] = Absent]
  /\ promised' = [promised EXCEPT ![n] = Absent]
  /\ UNCHANGED <<part, handler, ftp, writes, cuts, cut, stray>>

MakeDir(n) ==
  /\ pc = "idle"
  /\ target[n] = Absent
  /\ target' = [target EXCEPT ![n] = Directory]
  /\ promised' = [promised EXCEPT ![n] = Directory]
  /\ UNCHANGED <<part, handler, ftp, writes, cuts, cut, stray>>

------------------------------------------------------------------------------
(* The FTP task on the same names *)

FtpPut(n) ==
  /\ ftp = Closed
  /\ writes < MaxWrites
  /\ target[n] # Directory
  /\ writes' = writes + 1
  /\ ftp' = [name |-> n, mode |-> "w", v |-> writes + 1]
  /\ target' = [target EXCEPT ![n] = IF @ = Absent THEN Entry(writes + 1, FALSE) ELSE @]
  /\ Forget(n)
  /\ UNCHANGED <<part, handler, cuts, cut, stray>>

FtpGet(n) ==
  /\ ftp = Closed
  /\ IsFile(target[n])
  /\ ftp' = [name |-> n, mode |-> "r", v |-> 0]
  /\ UNCHANGED <<disk, handler, writes, cuts, ghosts>>

\* The transfer ends or breaks off: what came of a file is stored as it is.
FtpClose ==
  /\ ftp # Closed
  /\ \/ ftp.mode = "r" /\ UNCHANGED target
     \/ /\ ftp.mode = "w"
        /\ \E whole \in BOOLEAN :
             target' = [target EXCEPT ![ftp.name] = Entry(ftp.v, whole)]
  /\ ftp' = Closed
  /\ UNCHANGED <<part, handler, writes, cuts, ghosts>>

FtpDelete(n) ==
  /\ ftp = Closed
  /\ target[n] # Absent
  /\ target' = [target EXCEPT ![n] = Absent]
  /\ Forget(n)
  /\ UNCHANGED <<part, handler, ftp, writes, cuts, cut, stray>>

FtpRename(n, m) ==
  /\ ftp = Closed
  /\ n # m
  /\ IsFile(target[n])
  /\ target[m] # Directory
  /\ target' = [target EXCEPT ![m] = target[n], ![n] = Absent]
  /\ promised' = [promised EXCEPT ![n] = Nobody, ![m] = Nobody]
  /\ UNCHANGED <<part, handler, ftp, writes, cuts, cut, stray>>

------------------------------------------------------------------------------

\* Power fails: what was open is as it was when last closed.
PowerCut ==
  /\ cuts < MaxCuts
  /\ cuts' = cuts + 1
  /\ Stop
  /\ ftp' = Closed
  /\ stray' = IF cur.name \in Names /\ part[cur.name] # Absent
              THEN stray \cup {cur.name} ELSE stray
  /\ UNCHANGED <<disk, writes, promised, cut>>

Handler ==
  ReceiveFails \/ Received \/ SaveFails \/ ClosePart \/ Unlink \/ Rename \/ RenameFails

Next ==
  \/ Handler
  \/ \E n \in Names : \/ Upload(n) \/ Save(n) \/ Remove(n) \/ MakeDir(n)
                      \/ FtpPut(n) \/ FtpGet(n) \/ FtpDelete(n)
                      \/ \E m \in Names : FtpRename(n, m)
  \/ FtpClose
  \/ PowerCut

Spec == Init /\ [][Next]_vars

------------------------------------------------------------------------------
(* Properties *)

\* What a request acknowledged is what the volume holds under the name, after
\* any failed request, power failure or FTP command for another name, until
\* somebody changes the name.  Three exceptions: between unlink and rename, or
\* after power failed there, the name is missing and its replacement lies in
\* the .part file until the next upload; a rename that fails has lost both;
\* and a file may be short if the volume was full when it was closed.
Kept(n) == target[n] = promised[n] \/ (IsFile(promised[n]) /\ IsFile(target[n])
             /\ target[n].v = promised[n].v /\ target[n].v \in cut)
AcknowledgedMeansStored ==
  \A n \in Names : promised[n] # Nobody =>
    \/ Kept(n)
    \/ target[n] = Absent /\ IsFile(part[n]) /\ (part[n].whole \/ part[n].v \in cut)

\* Nothing stays behind under .part once a request is over, except where
\* power failed or the file system refused to remove it: a volume does not
\* fill up with uploads that broke off.
NoPartLeftBehind ==
  \A n \in Names :
    part[n] # Absent => n \in stray \/ (pc # "idle" /\ cur.name = n)
==============================================================================
