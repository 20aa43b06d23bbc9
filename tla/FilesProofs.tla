------------------------------ MODULE FilesProofs ------------------------------
(***************************************************************************)
(* Proofs about replacing files, for any names and any number of requests, *)
(* FTP commands and power failures.                                        *)
(***************************************************************************)
EXTENDS Files, TLAPS

LEMMA EntryIsFile ==
  ASSUME NEW v \in 0 .. MaxWrites, NEW whole \in BOOLEAN
  PROVE  /\ Entry(v, whole) \in File /\ Entry(v, whole) \in Contents
         /\ Entry(v, whole).v = v /\ Entry(v, whole).whole = whole
         /\ IsFile(Entry(v, whole))
         /\ Entry(v, whole) # Absent /\ Entry(v, whole) # Directory
<1>1. Entry(v, whole) \in [v : Nat, whole : BOOLEAN]
  BY FilesAssumption DEF Entry
<1>2. Entry(v, whole) \notin {Absent, Directory}
  BY <1>1, FilesAssumption
<1> QED BY <1>2 DEF Entry, File, Contents, IsFile

LEMMA FilesAreEntries ==
  /\ ~IsFile(Absent) /\ ~IsFile(Directory)
  /\ \A e \in File : e \in Contents /\ e # Absent /\ e # Directory
                     /\ e.v \in 0 .. MaxWrites
<1>1. File \subseteq [v : Nat, whole : BOOLEAN]
  BY FilesAssumption DEF File
<1> QED BY <1>1, FilesAssumption DEF File, IsFile, Contents

\* A handler that is at work has a name.
AtWork == pc # "idle" => cur.name \in Names

\* The strengthening of the type invariant that the steps need.
Typed == TypeOK /\ AtWork

LEMMA Entries == Absent \in Contents /\ Directory \in Contents /\ 0 \in 0 .. MaxWrites
BY FilesAssumption DEF Contents

LEMMA TypedInit == Init => Typed
<1>1. Entry(0, TRUE) \in Contents
  BY Entries, EntryIsFile
<1>2. MaxWrites \in Nat /\ MaxCuts \in Nat
  BY FilesAssumption
<1> SUFFICES ASSUME Init PROVE Typed
  OBVIOUS
<1>3. target \in [Names -> Contents] /\ part \in [Names -> Contents]
  BY <1>1, Entries DEF Init
<1>4. promised \in [Names -> Contents \cup {Nobody}]
  BY <1>3 DEF Init
<1>5. /\ cur \in [name : Names \cup {Nobody}, v : 0 .. MaxWrites]
      /\ ftp \in [name : Names \cup {Nobody}, mode : {"r", "w"}, v : 0 .. MaxWrites]
  BY Entries DEF Init, Closed
<1>6. /\ pc = "idle" /\ writes \in 0 .. MaxWrites /\ cuts \in 0 .. MaxCuts
      /\ cut \subseteq 0 .. MaxWrites /\ stray \subseteq Names
  BY <1>2 DEF Init
<1> QED BY <1>3, <1>4, <1>5, <1>6 DEF Typed, TypeOK, AtWork

LEMMA RemovePartTyped ==
  ASSUME Typed, cur.name \in Names, RemovePart
  PROVE  part' \in [Names -> Contents] /\ stray' \subseteq Names
<1>1. Entry(cur.v, FALSE) \in Contents
  BY EntryIsFile DEF Typed, TypeOK
<1>2. part \in [Names -> Contents] /\ stray \subseteq Names
  BY DEF Typed, TypeOK
<1>3. CASE part' = [part EXCEPT ![cur.name] = Absent] /\ UNCHANGED stray
  BY <1>2, <1>3, Entries
<1>4. CASE /\ part' = [part EXCEPT ![cur.name] = IF @ = Absent THEN @ ELSE Entry(cur.v, FALSE)]
           /\ stray' = stray \cup {cur.name}
  BY <1>1, <1>2, <1>4
<1> QED BY <1>3, <1>4 DEF RemovePart

LEMMA TypedNext == Typed /\ [Next]_vars => Typed'
<1> SUFFICES ASSUME Typed, [Next]_vars
             PROVE  Typed'
  OBVIOUS
<1> MaxWrites \in Nat /\ MaxCuts \in Nat
  BY FilesAssumption
<1> USE Entries
<1>1. ASSUME NEW n \in Names, Upload(n) \/ Save(n)
      PROVE  Typed'
  <2>1. PICK at \in {"receive", "close"} : OpenPart(n, at)
    BY <1>1 DEF Upload, Save
  <2>2. writes + 1 \in 0 .. MaxWrites
    BY <2>1 DEF Typed, TypeOK, OpenPart
  <2>3. Entry(writes + 1, FALSE) \in Contents
    BY <2>2, EntryIsFile
  <2>4. part' \in [Names -> Contents]
    BY <2>1, <2>3 DEF Typed, TypeOK, OpenPart
  <2>5. promised' \in [Names -> Contents \cup {Nobody}]
    BY <2>1 DEF Typed, TypeOK, OpenPart, Forget
  <2>6. /\ cur' \in [name : Names \cup {Nobody}, v : 0 .. MaxWrites]
        /\ cur'.name \in Names
    BY <2>1, <2>2 DEF OpenPart
  <2>7. stray' \subseteq Names /\ writes' \in 0 .. MaxWrites
        /\ pc' \in {"receive", "close"}
    BY <2>1, <2>2 DEF Typed, TypeOK, OpenPart
  <2>8. UNCHANGED <<target, ftp, cuts, cut>>
    BY <2>1 DEF OpenPart
  <2> QED
    BY <2>4, <2>5, <2>6, <2>7, <2>8 DEF Typed, TypeOK, AtWork
<1>2. CASE ReceiveFails \/ SaveFails \/ RenameFails
  <2>1. cur.name \in Names /\ RemovePart
    BY <1>2 DEF Typed, AtWork, ReceiveFails, SaveFails, RenameFails
  <2>2. part' \in [Names -> Contents] /\ stray' \subseteq Names
    BY <2>1, RemovePartTyped
  <2>3. promised' \in [Names -> Contents \cup {Nobody}]
    BY <1>2 DEF Typed, TypeOK, ReceiveFails, SaveFails, RenameFails, Forget
  <2>4. /\ cur' \in [name : Names \cup {Nobody}, v : 0 .. MaxWrites]
        /\ pc' = "idle"
    BY <1>2 DEF ReceiveFails, SaveFails, RenameFails, Stop
  <2>5. UNCHANGED <<target, ftp, writes, cuts, cut>>
    BY <1>2 DEF ReceiveFails, SaveFails, RenameFails
  <2> QED BY <2>2, <2>3, <2>4, <2>5 DEF Typed, TypeOK, AtWork
<1>3. CASE Received
  BY <1>3 DEF Typed, TypeOK, AtWork, Received, disk, ghosts
<1>4. CASE ClosePart
  <2>1. \A whole \in BOOLEAN : Entry(cur.v, whole) \in Contents
    BY EntryIsFile DEF Typed, TypeOK
  <2>2. part' \in [Names -> Contents]
    BY <1>4, <2>1 DEF Typed, TypeOK, AtWork, ClosePart
  <2>3. cut' \subseteq 0 .. MaxWrites
    BY <1>4, <2>1 DEF Typed, TypeOK, AtWork, ClosePart
  <2>4. pc' = "unlink" /\ UNCHANGED <<target, cur, ftp, writes, cuts, promised, stray>> /\ cur.name \in Names
    BY <1>4, <2>1 DEF Typed, TypeOK, AtWork, ClosePart
  <2> QED BY <2>2, <2>3, <2>4 DEF Typed, TypeOK, AtWork
<1>5. CASE Unlink
  BY <1>5 DEF Typed, TypeOK, AtWork, Unlink, ghosts
<1>6. CASE Rename
  <2>1. Entry(cur.v, TRUE) \in Contents
    BY EntryIsFile DEF Typed, TypeOK
  <2> QED BY <1>6, <2>1 DEF Typed, TypeOK, AtWork, Rename, Stop
<1>7. ASSUME NEW n \in Names, Remove(n) \/ MakeDir(n)
      PROVE  Typed'
  BY <1>7 DEF Typed, TypeOK, AtWork, Remove, MakeDir, handler
<1>8. ASSUME NEW n \in Names, FtpPut(n)
      PROVE  Typed'
  <2>0. writes + 1 \in 0 .. MaxWrites
    BY <1>8 DEF Typed, TypeOK, FtpPut
  <2>1. Entry(writes + 1, FALSE) \in Contents /\ writes + 1 \in 0 .. MaxWrites
    BY <2>0, EntryIsFile
  <2> QED
    BY <1>8, <2>1 DEF Typed, TypeOK, AtWork, FtpPut, Forget, handler
<1>9. ASSUME NEW n \in Names, FtpGet(n)
      PROVE  Typed'
  BY <1>9 DEF Typed, TypeOK, AtWork, FtpGet, handler, disk, ghosts
<1>14. ASSUME NEW n \in Names, FtpDelete(n)
       PROVE  Typed'
  BY <1>14 DEF Typed, TypeOK, AtWork, FtpDelete, Forget, handler
<1>10. ASSUME NEW n \in Names, NEW m \in Names, FtpRename(n, m)
       PROVE  Typed'
  BY <1>10 DEF Typed, TypeOK, AtWork, FtpRename, handler
<1>11. CASE FtpClose
  <2>1. \A whole \in BOOLEAN : Entry(ftp.v, whole) \in Contents
    BY EntryIsFile DEF Typed, TypeOK
  <2> QED BY <1>11, <2>1 DEF Typed, TypeOK, AtWork, FtpClose, Closed, handler, ghosts
<1>12. CASE PowerCut
  BY <1>12 DEF Typed, TypeOK, AtWork, PowerCut, Stop, Closed, disk
<1>13. CASE UNCHANGED vars
  BY <1>13 DEF Typed, TypeOK, AtWork, vars, disk, handler, ghosts
<1> QED BY <1>1, <1>2, <1>3, <1>4, <1>5, <1>6, <1>7, <1>8, <1>9, <1>10, <1>11,
           <1>12, <1>13, <1>14 DEF Next, Handler

LEMMA AlwaysTyped == Spec => []Typed
BY TypedInit, TypedNext, PTL DEF Spec

------------------------------------------------------------------------------
(* What stays behind *)

\* A .part file is the current request's, or is where power or the file
\* system left it.
THEOREM PartsAreAccountedFor == Spec => []NoPartLeftBehind
<1>1. Init => NoPartLeftBehind
  BY DEF Init, NoPartLeftBehind
<1>2. Typed /\ NoPartLeftBehind /\ [Next]_vars => NoPartLeftBehind'
  <2> SUFFICES ASSUME Typed, NoPartLeftBehind, [Next]_vars
               PROVE  NoPartLeftBehind'
    OBVIOUS
  <2> USE DEF Typed, TypeOK, AtWork, NoPartLeftBehind
  <2>1. ASSUME NEW n \in Names, Upload(n) \/ Save(n)
        PROVE  NoPartLeftBehind'
    <3>1. PICK at \in {"receive", "close"} : OpenPart(n, at)
      BY <2>1 DEF Upload, Save
    <3>2. /\ pc' # "idle" /\ cur'.name = n /\ stray' = stray \ {n}
          /\ \A m \in Names \ {n} : part'[m] = part[m]
          /\ pc = "idle"
      BY <3>1 DEF OpenPart
    <3> QED BY <3>2
  <2>2. CASE ReceiveFails \/ SaveFails \/ RenameFails
    BY <2>2 DEF ReceiveFails, SaveFails, RenameFails, RemovePart, Stop
  <2>3. CASE Received
    BY <2>3 DEF Received, disk, ghosts
  <2>4. CASE ClosePart
    BY <2>4 DEF ClosePart
  <2>5. CASE Unlink
    BY <2>5 DEF Unlink, ghosts
  <2>6. CASE Rename
    BY <2>6 DEF Rename, Stop
  <2>7. ASSUME NEW n \in Names,
               \/ Remove(n) \/ MakeDir(n) \/ FtpPut(n) \/ FtpGet(n) \/ FtpDelete(n)
               \/ \E m \in Names : FtpRename(n, m)
        PROVE  NoPartLeftBehind'
    BY <2>7 DEF Remove, MakeDir, FtpPut, FtpGet, FtpDelete, FtpRename, handler,
                disk, ghosts
  <2>8. CASE FtpClose
    BY <2>8 DEF FtpClose, handler, ghosts
  <2>9. CASE PowerCut
    BY <2>9 DEF PowerCut, Stop, disk
  <2>10. CASE UNCHANGED vars
    BY <2>10 DEF vars, disk, handler, ghosts
  <2> QED BY <2>1, <2>2, <2>3, <2>4, <2>5, <2>6, <2>7, <2>8, <2>9, <2>10
          DEF Next, Handler
<1> QED BY <1>1, <1>2, AlwaysTyped, PTL DEF Spec

------------------------------------------------------------------------------
(* What is acknowledged is stored *)

Acknowledged(n) ==
  promised[n] # Nobody =>
    \/ Kept(n)
    \/ target[n] = Absent /\ IsFile(part[n]) /\ (part[n].whole \/ part[n].v \in cut)

\* While the new file is written the old one is there, if anybody was told so.
OldIsThere ==
  pc \in {"receive", "close"} /\ promised[cur.name] # Nobody =>
    Kept(cur.name) /\ target[cur.name] # Absent

\* From fclose on the new one is, short only if the volume was full.
NewIsThere ==
  pc \in {"unlink", "rename"} =>
    /\ IsFile(part[cur.name])
    /\ part[cur.name].v = cur.v
    /\ part[cur.name].whole \/ cur.v \in cut

\* A name the FTP task writes has lost what was promised, and cannot vanish.
FtpWrites ==
  ftp.mode = "w" =>
    ftp.name \in Names /\ promised[ftp.name] = Nobody /\ target[ftp.name] # Absent

IInv ==
  /\ Typed
  /\ \A n \in Names : Acknowledged(n)
  /\ OldIsThere
  /\ NewIsThere
  /\ FtpWrites

LEMMA IInvInit == Init => IInv
<1> SUFFICES ASSUME Init PROVE IInv
  OBVIOUS
<1>1. Typed
  BY TypedInit
<1> QED BY <1>1 DEF Init, IInv, Acknowledged, Kept, OldIsThere, NewIsThere,
                    FtpWrites, Closed

\* A step that leaves a name alone keeps its promise.
LEMMA Alone ==
  ASSUME NEW n \in Names, Acknowledged(n),
         target'[n] = target[n], part'[n] = part[n],
         promised'[n] \in {promised[n], Nobody}, cut \subseteq cut'
  PROVE  Acknowledged(n)'
BY DEF Acknowledged, Kept, IsFile, File

LEMMA IInvNext == IInv /\ [Next]_vars => IInv'
<1> SUFFICES ASSUME IInv, [Next]_vars
             PROVE  IInv'
  OBVIOUS
<1>0. Typed /\ Typed'
  BY TypedNext DEF IInv
<1>1. /\ target \in [Names -> Contents] /\ part \in [Names -> Contents]
      /\ DOMAIN promised = Names
      /\ pc # "idle" => cur.name \in Names
  BY <1>0 DEF Typed, TypeOK, AtWork
<1>2. ASSUME NEW n \in Names, Upload(n) \/ Save(n)
      PROVE  IInv'
  <2>1. PICK at \in {"receive", "close"} : OpenPart(n, at)
    BY <1>2 DEF Upload, Save
  <2>2. /\ pc' \in {"receive", "close"} /\ cur'.name = n
        /\ UNCHANGED <<target, ftp, cut>>
        /\ \A m \in Names \ {n} : part'[m] = part[m] /\ promised'[m] = promised[m]
        /\ promised'[n] = IF target[n] = Absent THEN Nobody ELSE promised[n]
    BY <1>1, <2>1 DEF OpenPart, Forget
  <2>3. \A m \in Names \ {n} : Acknowledged(m)'
    BY <2>2, Alone DEF IInv
  <2>4. promised'[n] # Nobody => Kept(n)' /\ target'[n] # Absent
    BY <2>2 DEF IInv, Acknowledged, Kept
  <2>5. Acknowledged(n)'
    BY <2>4 DEF Acknowledged
  <2>6. OldIsThere'
    BY <2>2, <2>4 DEF OldIsThere, Kept
  <2>7. FtpWrites'
    BY <2>2 DEF IInv, FtpWrites
  <2>8. NewIsThere'
    BY <2>2 DEF NewIsThere
  <2> QED BY <1>0, <2>3, <2>5, <2>6, <2>7, <2>8 DEF IInv
<1>3. CASE ReceiveFails \/ SaveFails
  <2>0. PICK c \in Names : c = cur.name
    BY <1>1, <1>3 DEF ReceiveFails, SaveFails
  <2>1. /\ pc \in {"receive", "close"} /\ pc' = "idle"
        /\ UNCHANGED <<target, ftp, cut, promised>> /\ c = cur.name
        /\ \A m \in Names \ {c} : part'[m] = part[m]
    BY <2>0, <1>1, <1>3 DEF ReceiveFails, SaveFails, Stop, RemovePart
  <2>2. \A m \in Names \ {c} : Acknowledged(m)'
    BY <2>1, Alone DEF IInv
  <2>3. Acknowledged(c)'
    BY <2>1 DEF IInv, OldIsThere, Acknowledged, Kept
  <2> QED BY <1>0, <2>1, <2>2, <2>3 DEF IInv, OldIsThere, NewIsThere, FtpWrites
<1>4. CASE RenameFails
  <2>0. PICK c \in Names : c = cur.name
    BY <1>1, <1>4 DEF RenameFails
  <2>1. /\ pc' = "idle"
        /\ UNCHANGED <<target, ftp, cut>>
        /\ \A m \in Names \ {c} :
             part'[m] = part[m] /\ promised'[m] = promised[m]
        /\ promised'[c] =
             IF target[c] = Absent THEN Nobody ELSE promised[c]
        /\ c = cur.name
    BY <2>0, <1>1, <1>4 DEF RenameFails, Stop, RemovePart, Forget
  <2>2. \A m \in Names \ {c} : Acknowledged(m)'
    BY <2>1, Alone DEF IInv
  <2>3. Acknowledged(c)'
    BY <2>1 DEF IInv, Acknowledged, Kept
  <2>4. FtpWrites'
    BY <2>1 DEF IInv, FtpWrites
  <2> QED BY <1>0, <2>1, <2>2, <2>3, <2>4 DEF IInv, OldIsThere, NewIsThere
<1>5. CASE Received
  BY <1>0, <1>5 DEF Received, disk, ghosts, IInv, Acknowledged, Kept, OldIsThere,
                    NewIsThere, FtpWrites
<1>6. CASE ClosePart
  <2>1. PICK whole \in BOOLEAN :
          /\ part' = [part EXCEPT ![cur.name] = Entry(cur.v, whole)]
          /\ cut' = IF whole THEN cut ELSE cut \cup {cur.v}
    BY <1>6 DEF ClosePart
  <2>2. /\ pc = "close" /\ pc' = "unlink"
        /\ UNCHANGED <<target, cur, ftp, promised>>
        /\ cut \subseteq cut'
        /\ \A m \in Names \ {cur.name} : part'[m] = part[m]
    BY <1>1, <1>6, <2>1 DEF ClosePart
  <2>3. \A m \in Names \ {cur.name} : Acknowledged(m)'
    BY <2>2, Alone DEF IInv
  <2>4. Acknowledged(cur.name)'
    BY <2>2 DEF IInv, OldIsThere, Acknowledged, Kept
  <2>5. part'[cur.name] = Entry(cur.v, whole) /\ cur.v \in 0 .. MaxWrites
    BY <1>0, <1>1, <2>1, <2>2 DEF Typed, TypeOK
  <2>6. NewIsThere'
    BY <2>1, <2>2, <2>5, EntryIsFile DEF NewIsThere, IsFile
  <2> QED BY <1>0, <2>2, <2>3, <2>4, <2>6 DEF IInv, OldIsThere, FtpWrites
<1>7. CASE Unlink
  <2>1. /\ pc = "unlink" /\ pc' = "rename"
        /\ UNCHANGED <<part, cur, ftp, promised, cut>>
        /\ \A m \in Names \ {cur.name} : target'[m] = target[m]
        /\ \/ target'[cur.name] = target[cur.name]
           \/ ftp.name # cur.name /\ target'[cur.name] = Absent
        /\ cur.name \in Names
    BY <1>1, <1>7 DEF Unlink, ghosts, Busy
  <2>2. \A m \in Names \ {cur.name} : Acknowledged(m)'
    BY <2>1, Alone DEF IInv
  <2>3. Acknowledged(cur.name)'
    BY <2>1 DEF IInv, NewIsThere, Acknowledged, Kept
  <2>4. FtpWrites'
    BY <2>1 DEF IInv, FtpWrites
  <2> QED BY <1>0, <2>1, <2>2, <2>3, <2>4 DEF IInv, OldIsThere, NewIsThere
<1>8. CASE Rename
  <2>0. PICK c \in Names : c = cur.name
    BY <1>1, <1>8 DEF Rename
  <2>1. /\ pc = "rename" /\ pc' = "idle" /\ c = cur.name
        /\ UNCHANGED <<ftp, cut>>
        /\ \A m \in Names \ {c} :
             target'[m] = target[m] /\ part'[m] = part[m] /\ promised'[m] = promised[m]
        /\ target'[c] = part[c]
        /\ promised'[c] = Entry(cur.v, TRUE)
        /\ ftp.name # c
    BY <2>0, <1>1, <1>8 DEF Rename, Stop, Busy
  <2>2. \A m \in Names \ {c} : Acknowledged(m)'
    BY <2>1, Alone DEF IInv
  <2>3. Kept(c)'
    <3>1. cur.v \in 0 .. MaxWrites
      BY <1>0 DEF Typed, TypeOK
    <3>2. IsFile(Entry(cur.v, TRUE)) /\ Entry(cur.v, TRUE).v = cur.v
      BY <3>1, EntryIsFile
    <3>3. IsFile(part[c]) /\ part[c].v = cur.v
          /\ (part[c].whole \/ cur.v \in cut)
      BY <2>1 DEF IInv, NewIsThere
    <3>4. CASE part[c].whole
      <4>1. part[c] = Entry(cur.v, TRUE)
        BY <3>3, <3>4 DEF IsFile, File, Entry
      <4> QED BY <2>1, <4>1 DEF Kept
    <3>5. CASE cur.v \in cut
      BY <2>1, <3>2, <3>3, <3>5 DEF Kept, IsFile
    <3> QED BY <3>3, <3>4, <3>5
  <2>4. FtpWrites'
    BY <2>1 DEF IInv, FtpWrites
  <2> QED BY <1>0, <2>1, <2>2, <2>3, <2>4 DEF IInv, OldIsThere, NewIsThere, Acknowledged
<1>9. ASSUME NEW n \in Names, Remove(n) \/ MakeDir(n)
      PROVE  IInv'
  <2>1. /\ pc = "idle" /\ UNCHANGED <<pc, part, ftp, cut>>
        /\ \A m \in Names \ {n} : target'[m] = target[m] /\ promised'[m] = promised[m]
        /\ target'[n] = promised'[n]
        /\ ftp.name # n \/ target[n] = Absent
    BY <1>1, <1>9 DEF Remove, MakeDir, handler, Busy
  <2>2. \A m \in Names \ {n} : Acknowledged(m)'
    BY <2>1, Alone DEF IInv
  <2>3. Acknowledged(n)'
    BY <2>1 DEF Acknowledged, Kept
  <2>4. FtpWrites'
    BY <2>1 DEF IInv, FtpWrites
  <2> QED BY <1>0, <2>1, <2>2, <2>3, <2>4 DEF IInv, OldIsThere, NewIsThere
\* The FTP task: names it changes are forgotten, the others left alone.
<1>10. ASSUME \/ \E n \in Names : FtpPut(n) \/ FtpGet(n) \/ FtpDelete(n)
              \/ \E n, m \in Names : FtpRename(n, m)
       PROVE  IInv'
  <2>1. UNCHANGED <<pc, cur, part, cut>>
    BY <1>10 DEF FtpPut, FtpGet, FtpDelete, FtpRename, handler, disk, ghosts
  <2>2. \A m \in Names : \/ promised'[m] = Nobody
                         \/ target'[m] = target[m] /\ promised'[m] = promised[m]
    BY <1>1, <1>10 DEF FtpPut, FtpGet, FtpDelete, FtpRename, Forget, disk, ghosts
  <2>3. \A m \in Names : Acknowledged(m)'
    BY <2>1, <2>2, Alone DEF IInv, Acknowledged
  <2>4. OldIsThere'
    BY <1>1, <2>1, <2>2 DEF IInv, OldIsThere, Kept
  <2>5. FtpWrites'
    <3>1. CASE \E n \in Names : FtpPut(n)
      <4>1. PICK n \in Names : FtpPut(n)
        BY <3>1
      <4>2. writes + 1 \in 0 .. MaxWrites
        BY <1>0, <4>1, FilesAssumption DEF Typed, TypeOK, FtpPut
      <4>3. Entry(writes + 1, FALSE) # Absent
        BY <4>2, EntryIsFile
      <4>4. target'[n] # Absent /\ promised'[n] = Nobody /\ ftp'.name = n
        BY <1>1, <4>1, <4>3 DEF FtpPut, Forget
      <4> QED BY <4>4 DEF FtpWrites
    <3>2. CASE \E n \in Names : FtpGet(n)
      BY <3>2 DEF FtpWrites, FtpGet
    <3>3. CASE \/ \E n \in Names : FtpDelete(n)
               \/ \E n, m \in Names : FtpRename(n, m)
      BY <3>3 DEF FtpWrites, FtpDelete, FtpRename, Closed
    <3> QED BY <1>10, <3>1, <3>2, <3>3
  <2> QED BY <1>0, <2>1, <2>3, <2>4, <2>5 DEF IInv, NewIsThere
<1>11. CASE FtpClose
  <2>1. UNCHANGED <<pc, cur, part, cut, promised>> /\ ftp'.mode = "r"
    BY <1>11 DEF FtpClose, Closed, handler, ghosts
  <2>2. \A m \in Names : promised[m] # Nobody => target'[m] = target[m]
    BY <1>1, <1>11 DEF FtpClose, IInv, FtpWrites
  <2>3. \A m \in Names : Acknowledged(m)'
    BY <2>1, <2>2, Alone DEF IInv, Acknowledged
  <2> QED BY <1>0, <1>1, <2>1, <2>2, <2>3 DEF IInv, OldIsThere, NewIsThere, FtpWrites, Kept
<1>12. CASE PowerCut
  BY <1>0, <1>12 DEF PowerCut, Stop, Closed, disk, IInv, Acknowledged, Kept,
                     OldIsThere, NewIsThere, FtpWrites
<1>13. CASE UNCHANGED vars
  BY <1>0, <1>13 DEF vars, disk, handler, ghosts, IInv, Acknowledged, Kept,
                     OldIsThere, NewIsThere, FtpWrites
<1> QED BY <1>2, <1>3, <1>4, <1>5, <1>6, <1>7, <1>8, <1>9, <1>10, <1>11, <1>12,
           <1>13 DEF Next, Handler

\* Whatever fails, and whenever power does: what a request acknowledged is on
\* the volume, or its replacement is under .part.
THEOREM AcknowledgedIsStored == Spec => []AcknowledgedMeansStored
<1>1. Spec => []IInv
  BY IInvInit, IInvNext, PTL DEF Spec
<1>2. IInv => AcknowledgedMeansStored
  BY DEF IInv, Acknowledged, AcknowledgedMeansStored
<1> QED BY <1>1, <1>2, PTL
==============================================================================
