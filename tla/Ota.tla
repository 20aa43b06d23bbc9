--------------------------------- MODULE Ota ---------------------------------
(***************************************************************************)
(* Updating the firmware and the file system (src/main/OTAUpdate.c).       *)
(*                                                                         *)
(* Three tasks take part.  The HTTP server's task checks for a release,    *)
(* changes the channel, starts an installation or receives an uploaded     *)
(* image itself; the polling task checks and, by night, starts an          *)
(* installation; the install task writes a firmware slot and the file      *)
(* system and then selects the slot.  s_install_running keeps installation *)
(* and upload apart.  What is on offer is shared without it.               *)
(*                                                                         *)
(* The chip may restart between any two steps: because an update asked for *)
(* it, or because the power failed.  Releases are numbered in the order of *)
(* their versions; an image is the release it belongs to.                  *)
(***************************************************************************)
EXTENDS Integers

CONSTANTS
  Checkers,   (* the tasks that check for a release: web, poll     *)
  Releases,   (* the releases that may be published or uploaded      *)
  Factory,    (* the release in the factory slot                     *)
  Broken,     (* flash that holds no whole image                     *)
  Blank       (* a freshly formatted file system, also: no version   *)

ASSUME OtaAssumption ==
  /\ Checkers \subseteq {"web", "poll"}
  /\ Releases \subseteq Nat \ {0}
  /\ Factory \in Releases
  /\ Blank = 0
  /\ Broken \notin Int

VARIABLES
  running,    (* the slot this firmware was started from                  *)
  slot,       (* slot[s]: the image in slot s                             *)
  selected,   (* the boot partition                                       *)
  image,      (* what the file system partition holds                     *)
  mounted,    (* the file system is registered                            *)
  stored,     (* config.json on it is the owner's configuration           *)
  live,       (* the configuration in memory is the owner's               *)
  fsVersion,  (* s_fs_version                                             *)
  offer,      (* the release s_..._url and s_..._sha belong to            *)
  listed,     (* s_available_version is that release's, not empty         *)
  channel,    (* s_channel                                                *)
  lock,       (* s_install_running                                        *)
  pc,         (* pc[t]: where task t is                                   *)
  get,        (* get[t]: the release whose image t is receiving           *)
  ok,         (* ok[t]: no error so far                                   *)
  wrote       (* which parts the install task has written; firmware in it *)
              (* is firmware_written                                      *)

flash   == <<slot, selected, image, mounted, stored>>
offers  == <<offer, listed, channel>>
locals  == <<get, ok, wrote>>
booted  == <<running, live, fsVersion>>
vars    == <<flash, offers, locals, booted, lock, pc>>

Slots == {"factory", "ota_0", "ota_1"}
Writers == {"install", "web"}
Tasks == Writers \cup {"poll"}
Labels ==
  {"idle", "check", "config", "first", "decideFw", "fw", "decideFs", "fs",
   "remount", "save", "activate", "release"}
Versions == Releases \cup {Blank}

\* Where a task that writes images holds s_install_running.
Writing == Labels \ {"idle", "check", "config"}

TypeOK ==
  /\ running \in Slots
  /\ slot \in [Slots -> Releases \cup {Broken}]
  /\ selected \in Slots
  /\ image \in Versions \cup {Broken}
  /\ mounted \in BOOLEAN
  /\ stored \in BOOLEAN
  /\ live \in BOOLEAN
  /\ fsVersion \in Versions
  /\ offer \in Versions
  /\ listed \in BOOLEAN
  /\ channel \in {"stable", "edge"}
  /\ lock \in BOOLEAN
  /\ pc \in [Tasks -> Labels]
  /\ get \in [Writers -> Versions]
  /\ ok \in [Writers -> BOOLEAN]
  /\ wrote \subseteq {"firmware", "filesystem"}

\* A device that runs from its factory slot with the matching file system.
Init ==
  /\ running = "factory"
  /\ slot = [s \in Slots |-> IF s = "factory" THEN Factory ELSE Broken]
  /\ selected = "factory"
  /\ image = Factory
  /\ mounted = TRUE
  /\ stored = TRUE
  /\ live = TRUE
  /\ fsVersion = Factory
  /\ offer = Blank
  /\ listed = FALSE
  /\ channel \in {"stable", "edge"}
  /\ lock = FALSE
  /\ pc = [t \in Tasks |-> "idle"]
  /\ get = [t \in Writers |-> Blank]
  /\ ok = [t \in Writers |-> TRUE]
  /\ wrote = {}

Goto(t, from, to) ==
  /\ pc[t] = from
  /\ pc' = [pc EXCEPT ![t] = to]

\* t goes to the end with an error.
Fail(t, from) ==
  /\ Goto(t, from, "release")
  /\ ok' = [ok EXCEPT ![t] = FALSE]

------------------------------------------------------------------------------
(* Versions and slots *)

\* s_available_version, "" as Blank.
Available == IF listed THEN offer ELSE Blank

ShouldReplace(installed) ==
  /\ Available # Blank
  /\ IF channel = "edge" THEN Available # installed ELSE Available > installed

UpdateAvailable == ShouldReplace(slot[running]) \/ ShouldReplace(fsVersion)

\* Mutant: the slot after the selected one, rather than the running one.
NextSlotSelected == IF selected = "ota_0" THEN "ota_1" ELSE "ota_0"

\* esp_ota_get_next_update_partition(NULL)
NextSlot == IF running = "ota_0" THEN "ota_1" ELSE "ota_0"

------------------------------------------------------------------------------
(* What is on offer *)

\* check_handler and periodic_task look at the lock, then fetch_manifest
\* waits for the network.
Check(t) ==
  /\ t \in Checkers
  /\ Goto(t, "idle", "check")
  /\ ~lock
  /\ UNCHANGED <<flash, offers, locals, booted, lock>>

\* A manifest arrives and replaces the offer, whatever goes on meanwhile; or
\* nothing usable arrives.
Fetched(t) ==
  /\ Goto(t, "check", "idle")
  /\ \/ offer' \in Releases /\ listed' = TRUE
     \/ UNCHANGED <<offer, listed>>
  /\ UNCHANGED <<flash, channel, locals, booted, lock>>

\* config_handler, up to where it waits for the request's body.
ConfigBegin ==
  /\ Goto("web", "idle", "config")
  /\ ~lock
  /\ UNCHANGED <<flash, offers, locals, booted, lock>>

\* The body names a channel, which withdraws the offered version; or it names
\* none, or does not arrive.
ConfigEnd ==
  /\ Goto("web", "config", "idle")
  /\ \/ channel' \in {"stable", "edge"} /\ listed' = FALSE
     \/ UNCHANGED <<channel, listed>>
  /\ UNCHANGED <<flash, offer, locals, booted, lock>>

------------------------------------------------------------------------------
(* Taking the lock, and starting *)

\* Mutant: whoever comes gets it.
BeginWriteAlways == lock' = TRUE

BeginWrite == ~lock /\ lock' = TRUE

\* install_handler, and periodic_task at night.  (If the task cannot be
\* created the lock is given back at once.)
Install(t) ==
  /\ t \in {"web", "poll"}
  /\ pc[t] = "idle"
  /\ UpdateAvailable
  /\ BeginWrite
  /\ Goto("install", "idle", "decideFw")
  /\ UNCHANGED <<flash, offers, locals, booted>>

Upload ==
  /\ BeginWrite
  /\ Goto("web", "idle", "first")
  /\ UNCHANGED <<flash, offers, locals, booted>>

------------------------------------------------------------------------------
(* The firmware slot *)

\* The target slot is erased and t starts to receive release r.
OpenSlot(t, from, r) ==
  /\ Goto(t, from, "fw")
  /\ slot' = [slot EXCEPT ![NextSlot] = Broken]
  /\ get' = [get EXCEPT ![t] = r]

\* install_task: is there newer firmware?  The download may fail to open.
DecideFirmware ==
  /\ \/ /\ ShouldReplace(slot[running])
        /\ \/ OpenSlot("install", "decideFw", offer) /\ UNCHANGED ok
           \/ Fail("install", "decideFw") /\ UNCHANGED <<slot, get>>
     \/ /\ ~ShouldReplace(slot[running])
        /\ Goto("install", "decideFw", "decideFs")
        /\ UNCHANGED <<slot, get, ok>>
  /\ UNCHANGED <<selected, image, mounted, stored, offers, booted, lock,
                 wrote>>

\* upload_handler: nothing arrives, or nothing that is an image.
UploadRefused ==
  /\ Fail("web", "first")
  /\ UNCHANGED <<flash, offers, get, wrote, booted, lock>>

UploadFirmware ==
  /\ \E r \in Releases : OpenSlot("web", "first", r)
  /\ UNCHANGED <<selected, image, mounted, stored, offers, ok, wrote, booted,
                 lock>>

\* The stream breaks off, or the image is whole.  A download is compared with
\* the checksum that is on offer by now.
FirmwareReceived(t) ==
  /\ \/ Fail(t, "fw") /\ UNCHANGED <<slot, wrote>>
     \/ /\ slot' = [slot EXCEPT ![NextSlot] = get[t]]
        /\ \/ /\ t = "web"
              /\ Goto(t, "fw", "activate")
              /\ UNCHANGED <<ok, wrote>>
           \/ /\ t = "install"
              /\ get[t] = offer
              /\ Goto(t, "fw", "decideFs")
              /\ wrote' = {"firmware"}
              /\ UNCHANGED ok
           \/ /\ t = "install"
              /\ get[t] # offer
              /\ Fail(t, "fw")
              /\ UNCHANGED wrote
  /\ UNCHANGED <<selected, image, mounted, stored, offers, get, booted, lock>>

------------------------------------------------------------------------------
(* The file system *)

\* Unmounted and erased, config.json with it, to receive release r.
OpenFilesystem(t, from, r) ==
  /\ mounted
  /\ Goto(t, from, "fs")
  /\ mounted' = FALSE
  /\ image' = Broken
  /\ stored' = FALSE
  /\ get' = [get EXCEPT ![t] = r]
  /\ wrote' = IF t = "install" THEN wrote \cup {"filesystem"} ELSE wrote
  /\ UNCHANGED ok

\* install_task.  The download may fail to open, and a file system that is
\* not mounted cannot be unregistered.
DecideFilesystem ==
  /\ \/ /\ ShouldReplace(fsVersion)
        /\ \/ OpenFilesystem("install", "decideFs", offer)
           \/ /\ Fail("install", "decideFs")
              /\ UNCHANGED <<mounted, image, stored, get, wrote>>
     \/ /\ ~ShouldReplace(fsVersion)
        /\ Goto("install", "decideFs", "activate")
        /\ UNCHANGED <<mounted, image, stored, get, ok, wrote>>
  /\ UNCHANGED <<slot, selected, offers, booted, lock>>

\* upload_handler goes on to mount the file system even if it could not be
\* unregistered.
UploadFilesystem ==
  /\ \/ \E r \in Releases : OpenFilesystem("web", "first", r)
     \/ /\ ~mounted
        /\ Goto("web", "first", "remount")
        /\ ok' = [ok EXCEPT !["web"] = FALSE]
        /\ UNCHANGED <<mounted, image, stored, get, wrote>>
  /\ UNCHANGED <<slot, selected, offers, booted, lock>>

FilesystemReceived(t) ==
  /\ Goto(t, "fs", "remount")
  /\ \/ ok' = [ok EXCEPT ![t] = FALSE] /\ UNCHANGED image
     \/ /\ image' = get[t]
        /\ ok' = [ok EXCEPT ![t] = t = "web" \/ get[t] = offer]
  /\ UNCHANGED <<slot, selected, mounted, stored, offers, get, wrote, booted,
                 lock>>

\* Mutant: the install task does not look at what mounting returned.
RemountUnchecked(t) ==
  /\ \/ mounted' = TRUE /\ Goto(t, "remount", "save") /\ UNCHANGED ok
     \/ /\ Goto(t, "remount", IF t = "install" THEN "activate" ELSE "release")
        /\ UNCHANGED <<mounted, ok>>
  /\ UNCHANGED <<slot, selected, image, stored, offers, get, wrote, booted,
                 lock>>

\* Without formatting: part of an image may be enough to mount, or not.
Remount(t) ==
  /\ \/ mounted' = TRUE /\ Goto(t, "remount", "save") /\ UNCHANGED ok
     \/ Fail(t, "remount") /\ UNCHANGED mounted
  /\ UNCHANGED <<slot, selected, image, stored, offers, get, wrote, booted,
                 lock>>

\* Mutant: the configuration is recreated only after a success.
SaveConfigurationIfOk(t) ==
  /\ Goto(t, "save", IF t = "install" /\ ok[t] THEN "activate" ELSE "release")
  /\ stored' = IF ok[t] THEN live ELSE stored
  /\ UNCHANGED <<slot, selected, image, mounted, offers, locals, booted, lock>>

\* The image has replaced config.json: recreate it from memory.
SaveConfiguration(t) ==
  /\ Goto(t, "save", IF t = "install" /\ ok[t] THEN "activate" ELSE "release")
  /\ stored' = live
  /\ UNCHANGED <<slot, selected, image, mounted, offers, locals, booted, lock>>

------------------------------------------------------------------------------
(* Activating, releasing, restarting *)

\* Select the slot if it was written; that can fail.
Activate(t) ==
  /\ \/ /\ t = "web" \/ "firmware" \in wrote
        /\ selected' = NextSlot
        /\ Goto(t, "activate", "release")
        /\ UNCHANGED ok
     \/ /\ t = "web" \/ "firmware" \in wrote
        /\ Fail(t, "activate")
        /\ UNCHANGED selected
     \/ /\ t = "install"
        /\ "firmware" \notin wrote
        /\ Goto(t, "activate", "release")
        /\ UNCHANGED <<selected, ok>>
  /\ UNCHANGED <<slot, image, mounted, stored, offers, get, wrote, booted,
                 lock>>

\* Mutant: a refused upload returns without end_write.
ReleaseUnlessRefused(t) ==
  /\ Goto(t, "release", "idle")
  /\ lock' = (t = "web" /\ get[t] = Blank)
  /\ get' = [get EXCEPT ![t] = Blank]
  /\ ok' = [ok EXCEPT ![t] = TRUE]
  /\ wrote' = IF t = "install" THEN {} ELSE wrote
  /\ UNCHANGED <<flash, offers, booted>>

\* end_write.  After a success a task is created that restarts the chip a
\* moment later, unless something else does.
Release(t) ==
  /\ Goto(t, "release", "idle")
  /\ lock' = FALSE
  /\ get' = [get EXCEPT ![t] = Blank]
  /\ ok' = [ok EXCEPT ![t] = TRUE]
  /\ wrote' = IF t = "install" THEN {} ELSE wrote
  /\ UNCHANGED <<flash, offers, booted>>

\* reboot_task's esp_restart, or a power failure.  The bootloader passes over
\* a slot without a whole image.  The boot formats a file system it cannot
\* mount; a configuration that is not stored is replaced by the defaults.
Restart ==
  /\ \E s \in Slots :
       /\ slot[s] # Broken
       /\ slot[selected] # Broken => s = selected
       /\ running' = s
  /\ \/ image' = image /\ live' = stored
     \/ image = Broken /\ image' = Blank /\ live' = FALSE
  /\ fsVersion' = IF image' = Broken THEN Blank ELSE image'
  /\ stored' = live'
  /\ mounted' = TRUE
  /\ offer' = Blank
  /\ listed' = FALSE
  /\ lock' = FALSE
  /\ pc' = [t \in Tasks |-> "idle"]
  /\ get' = [t \in Writers |-> Blank]
  /\ ok' = [t \in Writers |-> TRUE]
  /\ wrote' = {}
  /\ UNCHANGED <<slot, selected, channel>>

------------------------------------------------------------------------------

Write(t) ==
  \/ FirmwareReceived(t) \/ FilesystemReceived(t)
  \/ Remount(t) \/ SaveConfiguration(t) \/ Activate(t) \/ Release(t)

Proceed ==
  \/ DecideFirmware \/ DecideFilesystem \/ Write("install")
  \/ UploadRefused \/ UploadFirmware \/ UploadFilesystem \/ Write("web")

Next ==
  \/ \E t \in {"web", "poll"} : Check(t) \/ Fetched(t) \/ Install(t)
  \/ ConfigBegin \/ ConfigEnd \/ Upload
  \/ Proceed \/ Restart

Spec == Init /\ [][Next]_vars

\* Every wait for the network ends: the clients and the server's sockets have
\* timeouts.  Nobody has to ask for anything, and the power may stay on.
FairSpec == Spec /\ WF_vars(Proceed)

------------------------------------------------------------------------------
(* Properties *)

\* s_install_running: two tasks never write images at the same time.
OneWriter ==
  pc["install"] \in Writing => pc["web"] \notin Writing

\* The slot the firmware runs from is never written, even when an update is
\* uploaded on top of one that waits for its restart: whatever happens, there
\* is an image to boot.
RunningSlotIntact == slot[running] # Broken

\* "Only activate the new firmware after every requested image has passed its
\* size/hash check and the filesystem is mounted again"
\* (OTAUpdate.c:601-602): whoever selects a slot has filled it, and an
\* installation that wrote the file system has mounted it.
ActivatesOnlyVerified ==
  [][selected' # selected =>
       /\ slot[selected'] # Broken
       /\ pc["install"] = "activate" =>
            /\ ok["install"]
            /\ "filesystem" \in wrote => mounted /\ image # Broken]_vars

\* Every path out of an upload or an installation gives the lock back.
LockComesBack == lock ~> ~lock

\* "The raw image replaces config.json too. Recreate it from the live
\* configuration" (OTAUpdate.c:568-569): once a writer is done, a mounted
\* file system holds the configuration that is in memory.
MountedMeansStored == ~lock /\ mounted => stored = live
==============================================================================
