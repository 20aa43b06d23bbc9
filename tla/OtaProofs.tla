------------------------------- MODULE OtaProofs -------------------------------
(***************************************************************************)
(* Theorems about Ota, for any set of releases.                            *)
(***************************************************************************)
EXTENDS Ota, TLAPS

\* A task that writes holds the lock, and only one does.
LockHeld ==
  /\ \A t \in Writers : pc[t] \in Writing => lock
  /\ OneWriter
  /\ pc["poll"] \notin Writing

\* What is being received is a release.
Receiving ==
  \A t \in Writers : pc[t] \in {"fw", "fs"} => get[t] \in Releases

\* What the writer has got done when it gets to where it is.
Progress ==
  /\ pc["install"] \in
       {"idle", "decideFw", "fw", "decideFs", "fs", "activate"} =>
         ok["install"]
  /\ "firmware" \in wrote =>
       pc["install"] \in Writing /\ slot[NextSlot] # Broken
  /\ pc["web"] = "activate" => slot[NextSlot] # Broken
  /\ pc["install"] \in {"idle", "decideFw", "fw", "decideFs"} =>
       "filesystem" \notin wrote
  /\ pc["install"] \in {"idle", "decideFw", "fw"} => "firmware" \notin wrote
  /\ pc["install"] \in {"remount", "save"} /\ ok["install"] => image # Broken
  /\ pc["install"] \in {"save", "activate"} /\ "filesystem" \in wrote =>
       mounted
  /\ pc["install"] = "activate" /\ "filesystem" \in wrote => image # Broken

\* A mounted file system holds the live configuration, until a new image has
\* been mounted and it is written again.
Stored ==
  mounted /\ (\A t \in Writers : pc[t] # "save") => stored = live

IInv ==
  TypeOK /\ LockHeld /\ Receiving /\ Progress /\ Stored /\ RunningSlotIntact

\* Flash without a whole image is not an image.
LEMMA NoImage == Broken \notin Releases
<1>1. \A r \in Releases : r \in Int
  BY OtaAssumption
<1> QED BY <1>1, OtaAssumption

\* A device that has just come from the factory.
LEMMA InvInit == Init => IInv
<1> SUFFICES ASSUME Init PROVE IInv
  OBVIOUS
<1> USE OtaAssumption DEF Init, Writers, Tasks, Labels
<1>1. TypeOK
  BY DEF TypeOK, Slots, Versions
<1>2. LockHeld /\ Receiving
  BY DEF LockHeld, OneWriter, Writing, Receiving
<1>3. Progress /\ Stored /\ RunningSlotIntact
  BY DEF Progress, Stored, RunningSlotIntact, Slots
<1> QED BY <1>1, <1>2, <1>3 DEF IInv

\* Every step keeps the types.
LEMMA TypeStep == TypeOK /\ Receiving /\ [Next]_vars => TypeOK'
<1> SUFFICES ASSUME TypeOK, Receiving, [Next]_vars
             PROVE  TypeOK'
  OBVIOUS
<1> USE OtaAssumption DEF Goto, flash, offers, locals, booted
<1>p. pc \in [Tasks -> Labels]
  BY DEF TypeOK
<1>g. /\ get \in [Writers -> Versions] /\ ok \in [Writers -> BOOLEAN]
      /\ offer \in Versions
      /\ Releases \subseteq Versions /\ Blank \in Versions
  BY DEF TypeOK, Versions
<1>w. /\ {"install", "web", "poll"} \subseteq Tasks
      /\ Writers = {"install", "web"} /\ Writers \subseteq Tasks
  BY DEF Tasks, Writers
<1>1. ASSUME NEW t \in {"web", "poll"}, Check(t)
      PROVE  TypeOK'
  BY <1>1, <1>w, <1>p DEF TypeOK, Slots, Versions, Labels, Check
<1>2. ASSUME NEW t \in {"web", "poll"}, Fetched(t)
      PROVE  TypeOK'
  <2>1. pc' \in [Tasks -> Labels]
    BY <1>2, <1>p, <1>w DEF Labels, Fetched
  <2> QED
    BY <1>2, <2>1 DEF TypeOK, Versions, Fetched
<1>3. CASE ConfigBegin
  BY <1>3, <1>w, <1>p DEF TypeOK, Slots, Versions, Labels, ConfigBegin
<1>4. CASE ConfigEnd
  <2>1. pc' \in [Tasks -> Labels]
    BY <1>4, <1>p, <1>w DEF Labels, ConfigEnd
  <2> QED
    BY <1>4, <2>1 DEF TypeOK, Versions, ConfigEnd
<1>5. ASSUME NEW t \in {"web", "poll"}, Install(t)
      PROVE  TypeOK'
  <2>1. pc' \in [Tasks -> Labels]
    BY <1>5, <1>p, <1>w DEF Labels, Install, BeginWrite
  <2>2. get' \in [Writers -> Versions] /\ ok' \in [Writers -> BOOLEAN]
    BY <1>5, <1>g, <1>w DEF Install, BeginWrite
  <2>3. /\ slot' \in [Slots -> Releases \cup {Broken}]
        /\ selected' \in Slots /\ running' \in Slots
    BY <1>5
    DEF TypeOK, Receiving, Versions, Slots, NextSlot, Install, BeginWrite
  <2>4. /\ wrote' \subseteq {"firmware", "filesystem"}
        /\ image' \in Versions \cup {Broken}
        /\ mounted' \in BOOLEAN /\ stored' \in BOOLEAN
    BY <1>5 DEF TypeOK, Receiving, Versions, Install, BeginWrite
  <2> QED
    BY <1>5, <2>1, <2>2, <2>3, <2>4 DEF TypeOK, Versions, Install, BeginWrite
<1>6. CASE Upload
  BY <1>6, <1>w, <1>p DEF TypeOK, Slots, Versions, Labels, Upload, BeginWrite
<1>7. CASE DecideFirmware
  <2>1. pc' \in [Tasks -> Labels]
    BY <1>7, <1>p, <1>w DEF Labels, DecideFirmware, OpenSlot, Fail
  <2>2. get' \in [Writers -> Versions] /\ ok' \in [Writers -> BOOLEAN]
    BY <1>7, <1>g, <1>w DEF DecideFirmware, OpenSlot, Fail
  <2>3. /\ slot' \in [Slots -> Releases \cup {Broken}]
        /\ selected' \in Slots /\ running' \in Slots
    BY <1>7
    DEF TypeOK, Receiving, Versions, Slots, NextSlot, DecideFirmware,
       OpenSlot, Fail
  <2>4. /\ wrote' \subseteq {"firmware", "filesystem"}
        /\ image' \in Versions \cup {Broken}
        /\ mounted' \in BOOLEAN /\ stored' \in BOOLEAN
    BY <1>7 DEF TypeOK, Receiving, Versions, DecideFirmware, OpenSlot, Fail
  <2> QED
    BY <1>7, <2>1, <2>2, <2>3, <2>4
    DEF TypeOK, Versions, DecideFirmware, OpenSlot, Fail
<1>8. CASE UploadRefused
  <2>1. pc' \in [Tasks -> Labels]
    BY <1>8, <1>p, <1>w DEF Labels, UploadRefused, Fail
  <2>2. get' \in [Writers -> Versions] /\ ok' \in [Writers -> BOOLEAN]
    BY <1>8, <1>g, <1>w DEF UploadRefused, Fail
  <2>3. /\ slot' \in [Slots -> Releases \cup {Broken}]
        /\ selected' \in Slots /\ running' \in Slots
    BY <1>8
    DEF TypeOK, Receiving, Versions, Slots, NextSlot, UploadRefused, Fail
  <2>4. /\ wrote' \subseteq {"firmware", "filesystem"}
        /\ image' \in Versions \cup {Broken}
        /\ mounted' \in BOOLEAN /\ stored' \in BOOLEAN
    BY <1>8 DEF TypeOK, Receiving, Versions, UploadRefused, Fail
  <2> QED
    BY <1>8, <2>1, <2>2, <2>3, <2>4 DEF TypeOK, Versions, UploadRefused, Fail
<1>9. CASE UploadFirmware
  <2>1. pc' \in [Tasks -> Labels]
    BY <1>9, <1>p, <1>w DEF Labels, UploadFirmware, OpenSlot
  <2>2. get' \in [Writers -> Versions] /\ ok' \in [Writers -> BOOLEAN]
    BY <1>9, <1>g, <1>w DEF UploadFirmware, OpenSlot
  <2>3. /\ slot' \in [Slots -> Releases \cup {Broken}]
        /\ selected' \in Slots /\ running' \in Slots
    BY <1>9
    DEF TypeOK, Receiving, Versions, Slots, NextSlot, UploadFirmware, OpenSlot
  <2>4. /\ wrote' \subseteq {"firmware", "filesystem"}
        /\ image' \in Versions \cup {Broken}
        /\ mounted' \in BOOLEAN /\ stored' \in BOOLEAN
    BY <1>9 DEF TypeOK, Receiving, Versions, UploadFirmware, OpenSlot
  <2> QED
    BY <1>9, <2>1, <2>2, <2>3, <2>4
    DEF TypeOK, Versions, UploadFirmware, OpenSlot
<1>10. ASSUME NEW t \in Writers, FirmwareReceived(t)
      PROVE  TypeOK'
  <2>1. pc' \in [Tasks -> Labels]
    BY <1>10, <1>p, <1>w DEF Labels, FirmwareReceived, Fail
  <2>2. get' \in [Writers -> Versions] /\ ok' \in [Writers -> BOOLEAN]
    BY <1>10, <1>g, <1>w DEF FirmwareReceived, Fail
  <2>3. /\ slot' \in [Slots -> Releases \cup {Broken}]
        /\ selected' \in Slots /\ running' \in Slots
    BY <1>10
    DEF TypeOK, Receiving, Versions, Slots, NextSlot, FirmwareReceived, Fail
  <2>4. /\ wrote' \subseteq {"firmware", "filesystem"}
        /\ image' \in Versions \cup {Broken}
        /\ mounted' \in BOOLEAN /\ stored' \in BOOLEAN
    BY <1>10 DEF TypeOK, Receiving, Versions, FirmwareReceived, Fail
  <2> QED
    BY <1>10, <2>1, <2>2, <2>3, <2>4
    DEF TypeOK, Versions, FirmwareReceived, Fail
<1>11. CASE DecideFilesystem
  <2>1. pc' \in [Tasks -> Labels]
    BY <1>11, <1>p, <1>w DEF Labels, DecideFilesystem, OpenFilesystem, Fail
  <2>2. get' \in [Writers -> Versions] /\ ok' \in [Writers -> BOOLEAN]
    BY <1>11, <1>g, <1>w DEF DecideFilesystem, OpenFilesystem, Fail
  <2>3. /\ slot' \in [Slots -> Releases \cup {Broken}]
        /\ selected' \in Slots /\ running' \in Slots
    BY <1>11
    DEF TypeOK, Receiving, Versions, Slots, NextSlot, DecideFilesystem,
       OpenFilesystem, Fail
  <2>4. /\ wrote' \subseteq {"firmware", "filesystem"}
        /\ image' \in Versions \cup {Broken}
        /\ mounted' \in BOOLEAN /\ stored' \in BOOLEAN
    BY <1>11
    DEF TypeOK, Receiving, Versions, DecideFilesystem, OpenFilesystem, Fail
  <2> QED
    BY <1>11, <2>1, <2>2, <2>3, <2>4
    DEF TypeOK, Versions, DecideFilesystem, OpenFilesystem, Fail
<1>12. CASE UploadFilesystem
  <2>1. pc' \in [Tasks -> Labels]
    BY <1>12, <1>p, <1>w DEF Labels, UploadFilesystem, OpenFilesystem
  <2>2. get' \in [Writers -> Versions] /\ ok' \in [Writers -> BOOLEAN]
    BY <1>12, <1>g, <1>w DEF UploadFilesystem, OpenFilesystem
  <2>3. /\ slot' \in [Slots -> Releases \cup {Broken}]
        /\ selected' \in Slots /\ running' \in Slots
    BY <1>12
    DEF TypeOK, Receiving, Versions, Slots, NextSlot, UploadFilesystem,
       OpenFilesystem
  <2>4. /\ wrote' \subseteq {"firmware", "filesystem"}
        /\ image' \in Versions \cup {Broken}
        /\ mounted' \in BOOLEAN /\ stored' \in BOOLEAN
    BY <1>12 DEF TypeOK, Receiving, Versions, UploadFilesystem, OpenFilesystem
  <2> QED
    BY <1>12, <2>1, <2>2, <2>3, <2>4
    DEF TypeOK, Versions, UploadFilesystem, OpenFilesystem
<1>13. ASSUME NEW t \in Writers, FilesystemReceived(t)
      PROVE  TypeOK'
  <2>1. pc' \in [Tasks -> Labels]
    BY <1>13, <1>p, <1>w DEF Labels, FilesystemReceived
  <2>2. get' \in [Writers -> Versions] /\ ok' \in [Writers -> BOOLEAN]
    BY <1>13, <1>g, <1>w DEF FilesystemReceived
  <2>3. /\ slot' \in [Slots -> Releases \cup {Broken}]
        /\ selected' \in Slots /\ running' \in Slots
    BY <1>13
    DEF TypeOK, Receiving, Versions, Slots, NextSlot, FilesystemReceived
  <2>4. /\ wrote' \subseteq {"firmware", "filesystem"}
        /\ image' \in Versions \cup {Broken}
        /\ mounted' \in BOOLEAN /\ stored' \in BOOLEAN
    BY <1>13 DEF TypeOK, Receiving, Versions, FilesystemReceived
  <2> QED
    BY <1>13, <2>1, <2>2, <2>3, <2>4 DEF TypeOK, Versions, FilesystemReceived
<1>14. ASSUME NEW t \in Writers, Remount(t)
      PROVE  TypeOK'
  <2>1. pc' \in [Tasks -> Labels]
    BY <1>14, <1>p, <1>w DEF Labels, Remount, Fail
  <2>2. get' \in [Writers -> Versions] /\ ok' \in [Writers -> BOOLEAN]
    BY <1>14, <1>g, <1>w DEF Remount, Fail
  <2>3. /\ slot' \in [Slots -> Releases \cup {Broken}]
        /\ selected' \in Slots /\ running' \in Slots
    BY <1>14 DEF TypeOK, Receiving, Versions, Slots, NextSlot, Remount, Fail
  <2>4. /\ wrote' \subseteq {"firmware", "filesystem"}
        /\ image' \in Versions \cup {Broken}
        /\ mounted' \in BOOLEAN /\ stored' \in BOOLEAN
    BY <1>14 DEF TypeOK, Receiving, Versions, Remount, Fail
  <2> QED
    BY <1>14, <2>1, <2>2, <2>3, <2>4 DEF TypeOK, Versions, Remount, Fail
<1>15. ASSUME NEW t \in Writers, SaveConfiguration(t)
      PROVE  TypeOK'
  BY <1>15, <1>w, <1>p DEF TypeOK, Slots, Versions, Labels, SaveConfiguration
<1>16. ASSUME NEW t \in Writers, Activate(t)
      PROVE  TypeOK'
  <2>1. pc' \in [Tasks -> Labels]
    BY <1>16, <1>p, <1>w DEF Labels, Activate, Fail
  <2>2. get' \in [Writers -> Versions] /\ ok' \in [Writers -> BOOLEAN]
    BY <1>16, <1>g, <1>w DEF Activate, Fail
  <2>3. /\ slot' \in [Slots -> Releases \cup {Broken}]
        /\ selected' \in Slots /\ running' \in Slots
    BY <1>16 DEF TypeOK, Receiving, Versions, Slots, NextSlot, Activate, Fail
  <2>4. /\ wrote' \subseteq {"firmware", "filesystem"}
        /\ image' \in Versions \cup {Broken}
        /\ mounted' \in BOOLEAN /\ stored' \in BOOLEAN
    BY <1>16 DEF TypeOK, Receiving, Versions, Activate, Fail
  <2> QED
    BY <1>16, <2>1, <2>2, <2>3, <2>4 DEF TypeOK, Versions, Activate, Fail
<1>17. ASSUME NEW t \in Writers, Release(t)
      PROVE  TypeOK'
  <2>1. pc' \in [Tasks -> Labels]
    BY <1>17, <1>p, <1>w DEF Labels, Release
  <2>2. get' \in [Writers -> Versions] /\ ok' \in [Writers -> BOOLEAN]
    BY <1>17, <1>g, <1>w DEF Release
  <2>3. /\ slot' \in [Slots -> Releases \cup {Broken}]
        /\ selected' \in Slots /\ running' \in Slots
    BY <1>17 DEF TypeOK, Receiving, Versions, Slots, NextSlot, Release
  <2>4. /\ wrote' \subseteq {"firmware", "filesystem"}
        /\ image' \in Versions \cup {Broken}
        /\ mounted' \in BOOLEAN /\ stored' \in BOOLEAN
    BY <1>17 DEF TypeOK, Receiving, Versions, Release
  <2> QED
    BY <1>17, <2>1, <2>2, <2>3, <2>4 DEF TypeOK, Versions, Release
<1>18. CASE Restart
  BY <1>18, <1>w, <1>p DEF TypeOK, Slots, Versions, Labels, Restart
<1>19. CASE UNCHANGED vars
  BY <1>19 DEF vars, TypeOK
<1> QED
  BY <1>1, <1>2, <1>3, <1>4, <1>5, <1>6, <1>7, <1>8, <1>9, <1>10, <1>11,
     <1>12, <1>13, <1>14, <1>15, <1>16, <1>17, <1>18, <1>19
     , <1>w DEF Next, Proceed, Write

\* The lock is handed from task to task: end_write is called by the task that
\* won begin_write.
LEMMA LockStep == IInv /\ [Next]_vars => LockHeld'
<1> SUFFICES ASSUME IInv, [Next]_vars
             PROVE  LockHeld'
  OBVIOUS
<1> USE OtaAssumption
    DEF TypeOK, Writers, Tasks, Labels, Goto, LockHeld, OneWriter, Writing
<1>1. ASSUME NEW t \in {"web", "poll"}, Check(t)
      PROVE  LockHeld'
  BY <1>1 DEF Check, IInv
<1>2. ASSUME NEW t \in {"web", "poll"}, Fetched(t)
      PROVE  LockHeld'
  BY <1>2 DEF Fetched, IInv
<1>3. CASE ConfigBegin
  BY <1>3 DEF ConfigBegin, IInv
<1>4. CASE ConfigEnd
  BY <1>4 DEF ConfigEnd, IInv
<1>5. ASSUME NEW t \in {"web", "poll"}, Install(t)
      PROVE  LockHeld'
  BY <1>5 DEF Install, BeginWrite, IInv
<1>6. CASE Upload
  BY <1>6 DEF Upload, BeginWrite, IInv
<1>7. CASE DecideFirmware
  BY <1>7 DEF DecideFirmware, OpenSlot, Fail, IInv
<1>8. CASE UploadRefused
  BY <1>8 DEF UploadRefused, Fail, IInv
<1>9. CASE UploadFirmware
  BY <1>9 DEF UploadFirmware, OpenSlot, IInv
<1>10. ASSUME NEW t \in Writers, FirmwareReceived(t)
      PROVE  LockHeld'
  BY <1>10 DEF FirmwareReceived, Fail, IInv
<1>11. CASE DecideFilesystem
  BY <1>11 DEF DecideFilesystem, OpenFilesystem, Fail, IInv
<1>12. CASE UploadFilesystem
  BY <1>12 DEF UploadFilesystem, OpenFilesystem, IInv
<1>13. ASSUME NEW t \in Writers, FilesystemReceived(t)
      PROVE  LockHeld'
  BY <1>13 DEF FilesystemReceived, IInv
<1>14. ASSUME NEW t \in Writers, Remount(t)
      PROVE  LockHeld'
  BY <1>14 DEF Remount, Fail, IInv
<1>15. ASSUME NEW t \in Writers, SaveConfiguration(t)
      PROVE  LockHeld'
  BY <1>15 DEF SaveConfiguration, IInv
<1>16. ASSUME NEW t \in Writers, Activate(t)
      PROVE  LockHeld'
  BY <1>16 DEF Activate, Fail, IInv
<1>17. ASSUME NEW t \in Writers, Release(t)
      PROVE  LockHeld'
  BY <1>17 DEF Release, IInv
<1>18. CASE Restart
  BY <1>18 DEF Restart, IInv
<1>19. CASE UNCHANGED vars
  BY <1>19 DEF vars, IInv
<1> QED
  BY <1>1, <1>2, <1>3, <1>4, <1>5, <1>6, <1>7, <1>8, <1>9, <1>10, <1>11,
     <1>12, <1>13, <1>14, <1>15, <1>16, <1>17, <1>18, <1>19
  DEF Next, Proceed, Write
\* What is being received stays a release.
LEMMA ReceivingStep == TypeOK /\ Receiving /\ [Next]_vars => Receiving'
<1> SUFFICES ASSUME TypeOK, Receiving, [Next]_vars
             PROVE  Receiving'
  OBVIOUS
<1> USE OtaAssumption
   
    DEF TypeOK, Writers, Tasks, Goto, Receiving, Versions, flash, offers,
       locals, booted, ShouldReplace, Available
<1>1. ASSUME NEW t \in {"web", "poll"}, Check(t)
      PROVE  Receiving'
  BY <1>1 DEF Check
<1>2. ASSUME NEW t \in {"web", "poll"}, Fetched(t)
      PROVE  Receiving'
  BY <1>2 DEF Fetched
<1>3. CASE ConfigBegin
  BY <1>3 DEF ConfigBegin
<1>4. CASE ConfigEnd
  BY <1>4 DEF ConfigEnd
<1>5. ASSUME NEW t \in {"web", "poll"}, Install(t)
      PROVE  Receiving'
  BY <1>5 DEF Install, BeginWrite
<1>6. CASE Upload
  BY <1>6 DEF Upload, BeginWrite
<1>7. CASE DecideFirmware
  BY <1>7 DEF DecideFirmware, OpenSlot, Fail
<1>8. CASE UploadRefused
  BY <1>8 DEF UploadRefused, Fail
<1>9. CASE UploadFirmware
  BY <1>9 DEF UploadFirmware, OpenSlot
<1>10. ASSUME NEW t \in Writers, FirmwareReceived(t)
      PROVE  Receiving'
  BY <1>10 DEF FirmwareReceived, Fail
<1>11. CASE DecideFilesystem
  BY <1>11 DEF DecideFilesystem, OpenFilesystem, Fail
<1>12. CASE UploadFilesystem
  BY <1>12 DEF UploadFilesystem, OpenFilesystem
<1>13. ASSUME NEW t \in Writers, FilesystemReceived(t)
      PROVE  Receiving'
  BY <1>13 DEF FilesystemReceived
<1>14. ASSUME NEW t \in Writers, Remount(t)
      PROVE  Receiving'
  BY <1>14 DEF Remount, Fail
<1>15. ASSUME NEW t \in Writers, SaveConfiguration(t)
      PROVE  Receiving'
  BY <1>15 DEF SaveConfiguration
<1>16. ASSUME NEW t \in Writers, Activate(t)
      PROVE  Receiving'
  BY <1>16 DEF Activate, Fail
<1>17. ASSUME NEW t \in Writers, Release(t)
      PROVE  Receiving'
  BY <1>17 DEF Release
<1>18. CASE Restart
  BY <1>18 DEF Restart
<1>19. CASE UNCHANGED vars
  BY <1>19 DEF vars
<1> QED
  BY <1>1, <1>2, <1>3, <1>4, <1>5, <1>6, <1>7, <1>8, <1>9, <1>10, <1>11,
     <1>12, <1>13, <1>14, <1>15, <1>16, <1>17, <1>18, <1>19
  DEF Next, Proceed, Write

\* The live configuration is written to every file system that is mounted.
LEMMA StoredStep == TypeOK /\ LockHeld /\ Stored /\ [Next]_vars => Stored'
<1> SUFFICES ASSUME TypeOK, LockHeld, Stored, [Next]_vars
             PROVE  Stored'
  OBVIOUS
<1> USE OtaAssumption
   
    DEF TypeOK, Writers, Tasks, Goto, Stored, flash, offers, locals, booted,
       LockHeld, OneWriter, Writing, Labels
<1>1. ASSUME NEW t \in {"web", "poll"}, Check(t)
      PROVE  Stored'
  BY <1>1 DEF Check
<1>2. ASSUME NEW t \in {"web", "poll"}, Fetched(t)
      PROVE  Stored'
  BY <1>2 DEF Fetched
<1>3. CASE ConfigBegin
  BY <1>3 DEF ConfigBegin
<1>4. CASE ConfigEnd
  BY <1>4 DEF ConfigEnd
<1>5. ASSUME NEW t \in {"web", "poll"}, Install(t)
      PROVE  Stored'
  BY <1>5 DEF Install, BeginWrite
<1>6. CASE Upload
  BY <1>6 DEF Upload, BeginWrite
<1>7. CASE DecideFirmware
  BY <1>7 DEF DecideFirmware, OpenSlot, Fail
<1>8. CASE UploadRefused
  BY <1>8 DEF UploadRefused, Fail
<1>9. CASE UploadFirmware
  BY <1>9 DEF UploadFirmware, OpenSlot
<1>10. ASSUME NEW t \in Writers, FirmwareReceived(t)
      PROVE  Stored'
  BY <1>10 DEF FirmwareReceived, Fail
<1>11. CASE DecideFilesystem
  BY <1>11 DEF DecideFilesystem, OpenFilesystem, Fail
<1>12. CASE UploadFilesystem
  BY <1>12 DEF UploadFilesystem, OpenFilesystem
<1>13. ASSUME NEW t \in Writers, FilesystemReceived(t)
      PROVE  Stored'
  BY <1>13 DEF FilesystemReceived
<1>14. ASSUME NEW t \in Writers, Remount(t)
      PROVE  Stored'
  BY <1>14 DEF Remount, Fail
<1>15. ASSUME NEW t \in Writers, SaveConfiguration(t)
      PROVE  Stored'
  BY <1>15 DEF SaveConfiguration
<1>16. ASSUME NEW t \in Writers, Activate(t)
      PROVE  Stored'
  BY <1>16 DEF Activate, Fail
<1>17. ASSUME NEW t \in Writers, Release(t)
      PROVE  Stored'
  BY <1>17 DEF Release
<1>18. CASE Restart
  BY <1>18 DEF Restart
<1>19. CASE UNCHANGED vars
  BY <1>19 DEF vars
<1> QED
  BY <1>1, <1>2, <1>3, <1>4, <1>5, <1>6, <1>7, <1>8, <1>9, <1>10, <1>11,
     <1>12, <1>13, <1>14, <1>15, <1>16, <1>17, <1>18, <1>19
  DEF Next, Proceed, Write

\* No image is written to the slot the firmware runs from.
LEMMA RunningStep ==
  TypeOK /\ Receiving /\ RunningSlotIntact /\ [Next]_vars => RunningSlotIntact'
<1> SUFFICES ASSUME TypeOK, Receiving, RunningSlotIntact, [Next]_vars
             PROVE  RunningSlotIntact'
  OBVIOUS
<1> USE OtaAssumption
   
    DEF TypeOK, Writers, Tasks, Goto, Receiving, Slots, NextSlot,
       RunningSlotIntact, flash, offers, locals, booted
<1>1. ASSUME NEW t \in {"web", "poll"}, Check(t)
      PROVE  RunningSlotIntact'
  BY <1>1 DEF Check
<1>2. ASSUME NEW t \in {"web", "poll"}, Fetched(t)
      PROVE  RunningSlotIntact'
  BY <1>2 DEF Fetched
<1>3. CASE ConfigBegin
  BY <1>3 DEF ConfigBegin
<1>4. CASE ConfigEnd
  BY <1>4 DEF ConfigEnd
<1>5. ASSUME NEW t \in {"web", "poll"}, Install(t)
      PROVE  RunningSlotIntact'
  BY <1>5 DEF Install, BeginWrite
<1>6. CASE Upload
  BY <1>6 DEF Upload, BeginWrite
<1>7. CASE DecideFirmware
  BY <1>7 DEF DecideFirmware, OpenSlot, Fail
<1>8. CASE UploadRefused
  BY <1>8 DEF UploadRefused, Fail
<1>9. CASE UploadFirmware
  BY <1>9 DEF UploadFirmware, OpenSlot
<1>10. ASSUME NEW t \in Writers, FirmwareReceived(t)
      PROVE  RunningSlotIntact'
  BY <1>10 DEF FirmwareReceived, Fail
<1>11. CASE DecideFilesystem
  BY <1>11 DEF DecideFilesystem, OpenFilesystem, Fail
<1>12. CASE UploadFilesystem
  BY <1>12 DEF UploadFilesystem, OpenFilesystem
<1>13. ASSUME NEW t \in Writers, FilesystemReceived(t)
      PROVE  RunningSlotIntact'
  BY <1>13 DEF FilesystemReceived
<1>14. ASSUME NEW t \in Writers, Remount(t)
      PROVE  RunningSlotIntact'
  BY <1>14 DEF Remount, Fail
<1>15. ASSUME NEW t \in Writers, SaveConfiguration(t)
      PROVE  RunningSlotIntact'
  BY <1>15 DEF SaveConfiguration
<1>16. ASSUME NEW t \in Writers, Activate(t)
      PROVE  RunningSlotIntact'
  BY <1>16 DEF Activate, Fail
<1>17. ASSUME NEW t \in Writers, Release(t)
      PROVE  RunningSlotIntact'
  BY <1>17 DEF Release
<1>18. CASE Restart
  BY <1>18 DEF Restart
<1>19. CASE UNCHANGED vars
  BY <1>19 DEF vars
<1> QED
  BY <1>1, <1>2, <1>3, <1>4, <1>5, <1>6, <1>7, <1>8, <1>9, <1>10, <1>11,
     <1>12, <1>13, <1>14, <1>15, <1>16, <1>17, <1>18, <1>19
  DEF Next, Proceed, Write

\* The install task gets to where it is by doing one thing after another.
LEMMA ProgressStep ==
  TypeOK /\ LockHeld /\ Receiving /\ Progress /\ [Next]_vars => Progress'
<1> SUFFICES ASSUME TypeOK, LockHeld, Receiving, Progress, [Next]_vars
             PROVE  Progress'
  OBVIOUS
<1> USE OtaAssumption
   
    DEF TypeOK, Writers, Tasks, Goto, Receiving, Slots, NextSlot, Progress,
       flash, offers, locals, booted, LockHeld, OneWriter, Writing, Labels
<1>r. Broken \notin Releases
  BY NoImage
<1>1. ASSUME NEW t \in {"web", "poll"}, Check(t)
      PROVE  Progress'
  BY <1>1 DEF Check
<1>2. ASSUME NEW t \in {"web", "poll"}, Fetched(t)
      PROVE  Progress'
  BY <1>2 DEF Fetched
<1>3. CASE ConfigBegin
  BY <1>3 DEF ConfigBegin
<1>4. CASE ConfigEnd
  BY <1>4 DEF ConfigEnd
<1>5. ASSUME NEW t \in {"web", "poll"}, Install(t)
      PROVE  Progress'
  BY <1>5 DEF Install, BeginWrite
<1>6. CASE Upload
  BY <1>6 DEF Upload, BeginWrite
<1>7. CASE DecideFirmware
  BY <1>7 DEF DecideFirmware, OpenSlot, Fail
<1>8. CASE UploadRefused
  BY <1>8 DEF UploadRefused, Fail
<1>9. CASE UploadFirmware
  BY <1>9 DEF UploadFirmware, OpenSlot
<1>10. ASSUME NEW t \in Writers, FirmwareReceived(t)
      PROVE  Progress'
  <2>0. pc \in [Tasks -> Labels] /\ ok \in [Writers -> BOOLEAN]
    OBVIOUS
  <2>1. /\ pc' = [pc EXCEPT ![t] = pc'[t]]
        /\ pc[t] = "fw" /\ pc'[t] \in {"release", "decideFs", "activate"}
        /\ pc'[t] = "decideFs" => t = "install"
        /\ pc'[t] = "activate" => t = "web"
    BY <1>10 DEF FirmwareReceived, Fail
  <2>2. /\ UNCHANGED <<image, mounted, running>>
        /\ ok' = [ok EXCEPT ![t] = ok'[t]]
        /\ \/ pc'[t] = "release" /\ wrote' = wrote
           \/ /\ slot'[NextSlot] \in Releases
              /\ ok'[t] = ok[t]
              /\ wrote' = IF t = "install" THEN {"firmware"} ELSE wrote
    BY <1>10 DEF FirmwareReceived, Fail
  <2>3. pc["install"] = "fw" => wrote = {}
    OBVIOUS
  <2> HIDE DEF TypeOK, Goto
  <2>4. CASE t = "install"
    <3>1. /\ pc["install"] = "fw" /\ pc["web"] \notin Writing
          /\ pc'["web"] = pc["web"]
          /\ pc'["install"] \in {"release", "decideFs"}
      BY <2>0, <2>1, <2>4
    <3>2. /\ pc'["install"] = "decideFs" => ok'["install"]
          /\ "filesystem" \notin wrote'
          /\ "firmware" \in wrote' => slot'[NextSlot] # Broken
          /\ NextSlot' = NextSlot
      BY <1>r, <2>1, <2>2, <2>3, <2>4, <3>1
    <3> HIDE DEF NextSlot
    <3> QED BY <3>1, <3>2
  <2>5. CASE t = "web"
    <3>1. /\ pc["install"] \notin Writing
          /\ pc'["install"] = pc["install"]
          /\ pc'["web"] \in {"release", "activate"}
      BY <2>0, <2>1, <2>5
    <3>2. /\ ok'["install"] = ok["install"] /\ wrote' = wrote
          /\ pc'["web"] = "activate" => slot'[NextSlot] # Broken
          /\ NextSlot' = NextSlot
      BY <1>r, <2>0, <2>1, <2>2, <2>5, <3>1
    <3> HIDE DEF NextSlot
    <3> QED BY <3>1, <3>2
  <2> QED BY <2>4, <2>5
<1>11. CASE DecideFilesystem
  BY <1>11 DEF DecideFilesystem, OpenFilesystem, Fail
<1>12. CASE UploadFilesystem
  BY <1>12 DEF UploadFilesystem, OpenFilesystem
<1>13. ASSUME NEW t \in Writers, FilesystemReceived(t)
      PROVE  Progress'
  <2>0. pc \in [Tasks -> Labels] /\ ok \in [Writers -> BOOLEAN]
    OBVIOUS
  <2>1. /\ pc' = [pc EXCEPT ![t] = "remount"] /\ pc[t] = "fs"
        /\ UNCHANGED <<slot, running, mounted, wrote>>
        /\ ok' = [ok EXCEPT ![t] = ok'[t]]
    BY <1>13 DEF FilesystemReceived
  <2>2. ok'[t] => image' \in Releases
    BY <1>13 DEF FilesystemReceived
  <2> HIDE DEF TypeOK, Goto
  <2>3. CASE t = "install"
    <3>1. /\ pc'["install"] = "remount" /\ pc'["web"] = pc["web"]
          /\ pc["web"] \notin Writing
      BY <2>0, <2>1, <2>3
    <3>2. ok'["install"] => image' # Broken
      BY <1>r, <2>2, <2>3
    <3>3. /\ pc["install"] = "fs" /\ slot' = slot
          /\ NextSlot' = NextSlot /\ wrote' = wrote
      BY <2>1, <2>3
    <3> HIDE DEF NextSlot
    <3> QED BY <3>1, <3>2, <3>3
  <2>4. CASE t = "web"
    BY <2>0, <2>1, <2>4
  <2> QED BY <2>3, <2>4
<1>14. ASSUME NEW t \in Writers, Remount(t)
      PROVE  Progress'
  BY <1>14 DEF Remount, Fail
<1>15. ASSUME NEW t \in Writers, SaveConfiguration(t)
      PROVE  Progress'
  BY <1>15 DEF SaveConfiguration
<1>16. ASSUME NEW t \in Writers, Activate(t)
      PROVE  Progress'
  BY <1>16 DEF Activate, Fail
<1>17. ASSUME NEW t \in Writers, Release(t)
      PROVE  Progress'
  BY <1>17 DEF Release
<1>18. CASE Restart
  BY <1>18 DEF Restart
<1>19. CASE UNCHANGED vars
  BY <1>19 DEF vars
<1> QED
  BY <1>1, <1>2, <1>3, <1>4, <1>5, <1>6, <1>7, <1>8, <1>9, <1>10, <1>11,
     <1>12, <1>13, <1>14, <1>15, <1>16, <1>17, <1>18, <1>19
  DEF Next, Proceed, Write

\* The invariant is inductive.
LEMMA Invariant == Spec => []IInv
<1>1. IInv /\ [Next]_vars => IInv'
  BY TypeStep, LockStep, ReceivingStep, StoredStep, RunningStep, ProgressStep
  DEF IInv
<1> QED BY InvInit, <1>1, PTL DEF Spec

\* Every variable keeps its type; in particular what is being received is a
\* release, although the offer is replaced without the lock.
THEOREM TypeCorrect == Spec => []TypeOK
<1>1. IInv => TypeOK
  BY DEF IInv
<1> QED BY <1>1, Invariant, PTL

\* An installation and an upload never write at the same time.
THEOREM OneWriterHolds == Spec => []OneWriter
<1>1. IInv => OneWriter
  BY DEF IInv, LockHeld
<1> QED BY <1>1, Invariant, PTL

\* There is always an image to boot: the slot the firmware runs from keeps its
\* image through every update, failure and restart.
THEOREM RunningIntact == Spec => []RunningSlotIntact
<1>1. IInv => RunningSlotIntact
  BY DEF IInv
<1> QED BY <1>1, Invariant, PTL

\* Once a writer is done, a mounted file system holds the configuration that
\* is in memory.
THEOREM MountedStored == Spec => []MountedMeansStored
<1>1. IInv => MountedMeansStored
  <2> SUFFICES ASSUME IInv, ~lock, mounted PROVE stored = live
    BY DEF MountedMeansStored
  <2>1. \A t \in Writers : pc[t] \notin Writing
    BY DEF IInv, LockHeld
  <2>2. \A t \in Writers : pc[t] # "save"
    BY <2>1 DEF Writing, Labels
  <2> QED BY <2>2 DEF IInv, Stored
<1> QED BY <1>1, Invariant, PTL

\* "Only activate the new firmware after every requested image has passed its
\* size/hash check and the filesystem is mounted again" (OTAUpdate.c:601-602),
\* whatever happens to the offer, the channel and the lock meanwhile.
THEOREM Verified == Spec => ActivatesOnlyVerified
<1> DEFINE Checked ==
      /\ slot[selected'] # Broken
      /\ pc["install"] = "activate" =>
           /\ ok["install"]
           /\ "filesystem" \in wrote => mounted /\ image # Broken
<1>1. IInv /\ [Next]_vars => [selected' # selected => Checked]_vars
  <2> SUFFICES ASSUME IInv, [Next]_vars, selected' # selected
               PROVE  Checked
    OBVIOUS
  <2>1. PICK t \in Writers : Activate(t) /\ selected' = NextSlot
    <3> USE DEF Writers, flash, offers, locals, booted
    <3>1. UNCHANGED selected \/ \E t \in Writers : Activate(t)
      BY DEF Next, Proceed, Write, Check, Fetched, ConfigBegin, ConfigEnd,
             Install, Upload, DecideFirmware, UploadRefused, UploadFirmware,
             FirmwareReceived, DecideFilesystem, UploadFilesystem,
             FilesystemReceived, Remount, SaveConfiguration, Release, Restart,
             vars
    <3> QED BY <3>1 DEF Activate
  <2>2. CASE t = "install"
    <3>1. "firmware" \in wrote /\ pc["install"] = "activate"
      BY <2>1, <2>2 DEF Activate, Goto, Fail
    <3> QED BY <2>1, <2>2, <3>1 DEF IInv, Progress
  <2>3. CASE t = "web"
    <3>1. pc["web"] = "activate"
      BY <2>1, <2>3 DEF Activate, Goto, Fail
    <3>2. pc["install"] # "activate"
      BY <3>1 DEF IInv, LockHeld, OneWriter, Writing, Labels
    <3> QED BY <2>1, <3>1, <3>2 DEF IInv, Progress
  <2> QED BY <2>2, <2>3 DEF Writers
<1> QED BY <1>1, Invariant, PTL DEF Spec, ActivatesOnlyVerified
==============================================================================
