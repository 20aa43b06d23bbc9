# Formal models of the Rotator firmware

TLA+ models of the ESP32-S3 firmware of an ASCOM Alpaca camera rotator
(`src/main/`), checked with TLC and, for the results that matter most, proved
with TLAPS for every value of the constants. `PROJECT.json` lists the runs, the
mutants that show each property can fail, the source lines of every definition,
the known disagreements between code and comments, and the hazards.

## 1. The system

A stepper motor turns a camera through a gear (ten motor turns to one of the
output). An AS5600 angle sensor on the *motor* shaft knows the shaft's phase
but not the turn; a Hall sensor on the output marks mechanical zero; a step
counter knows the rest. A cable limits the output to 190 degrees either way.

FreeRTOS tasks on two cores share all of this:

| task | started by | does |
|---|---|---|
| `app_main` | boot | mounts LittleFS, loads the configuration, starts the server, homes |
| httpd (one task) | `start_webserver` | every HTTP handler, including moves that block it |
| `calibration_worker` | a calibration request | minutes of measuring, progress on the detached socket |
| `holdTask` | `RotatorHW::begin` | every 150 ms: holds the last target |
| `angle_producer_task`, `angle_event_broadcast` | server start | position stream to WebSockets |
| `otaPoll`, `otaInstall`, `otaReboot` | server start, a request, the end of an update | checks, installs, restarts |
| `ftp_task` | boot | the FTP server, on the same volume as the file routes |
| UDP server, discovery, log drain | boot | I/O |

Every one of them logs, from both cores, into one ring.

### Components

| component | state | operations | what makes it correct |
|---|---|---|---|
| Motion lock (`RotatorHW.cpp`, `MotionLock`) | `motionMutex`, `_isMoving`, `_holdActive`, `_holdTargetSteps`, step counter | three `put...Position`, homing, jog, align, stress, `putHalt`, the hold cycle | one driver at a time; holding corrects towards the present target; every operation returns; a held motor stays legal, an unheld one does not move |
| Cable limit (`legalMotorStepsForAngle`) | none | choose among three candidates | never beyond the limit; shortest legal way; never refuse what is reachable |
| One-sided approach (`refineToTarget`, hold control law) | Kalman estimate, integral, budgets | start, correct, back off, converge, give up; hold cycle | end near the target, loaded upwards; take the slack up again after going down; come to rest |
| Frames (`getPosition`, `syncPosition`, Reverse, output correction) | offset, direction, counter, sensor, correction table | Sync, Reverse, moves in three frames, homing | getters and setters are inverses; Position follows the sensor; the camera ends where it was sent |
| Homing (`gotoMechanicalZero`) | Hall window, sensor zero, where the search began | sweep both ways, direct move, up to three attempts, restart | zero is the index; gives up only on glitches; stays in the turn it began in |
| Calibration jobs (`WebServer.cpp`) | `s_calibrationBusy`, the detached request, httpd's sessions | start, progress, complete | one run at a time; the worker's socket stays its own; requests come back |
| Calibration data (`Configuration.cpp`, NVS) | coefficients, table, zero, output table, a generation and three stamps, in memory and in flash | recalibrate, upload, set, save, load, migrate | a stamp that says current tells the truth, through restarts between any two writes; no generation is given twice |
| Update (`OTAUpdate.c`) | three slots, boot partition, LittleFS, the offer, `s_install_running` | check, choose channel, install, upload, restart | one writer; a bootable image always; activate only what was verified; the configuration survives |
| Log buffer (`LogBuffer.c`, `Debug.svelte`) | ring in PSRAM under a spinlock, tail in RTC memory without one, the tab's place and count | store a line, answer a poll, recover after a reset | a row is the line its number was given to; nothing is missed silently; the tab catches up; a reset leaves a tail that can be replayed |
| File routes (`FileRoutes.c`) | names on LittleFS and their `.part` files | upload, save, delete, mkdir | what was acknowledged is stored; nothing is left behind |
| FTP server (`ftp.c`) | state and substate, four sockets, one union of FILE and DIR with a note | call, commands, data connection, timeouts | the handle is accounted for; transfers are answered; the server is free again unless a client blocks it |
| Expert lock (`ExpertLock.c`) | PIN, grace, lock-out | enrol, unlock | wrong PINs are counted (not modelled) |
| Alpaca API, NVS routes, discovery, Wi-Fi, web UI, scripts | requests | parse and answer | outside these models |

Components interact through `motionMutex` (everything that moves), through the
Configuration singleton and its mutex, through `s_install_running`, through
the detached HTTP request a worker answers, through the names on the volume
that file routes and FTP share, and through flash and RTC memory, which outlive
all of them.

### What is hard

Operations that take minutes and share a motor with a background loop; a
counter that is wrong and a sensor that is ambiguous; slack no sensor sees; a
flag set after the task it describes was started; four related values in
separate NVS entries; an offer replaced while it is being installed; readers
that take no lock; a search that does not know where it begins; a file that is
replaced in two calls; a client that falls silent; a restart between any two
steps. `hazards` in `PROJECT.json` names the line of each.

## 2. Modules

| module | models | state corresponds to |
|---|---|---|
| `CableLimit` | the choice of a motor position for an angle, as operators | – |
| `TwoState` | abstract: driven, held or idle; idle does not move, held moves only to legal positions | `mode`, `position`, `anchor` |
| `Motion` | the motor lock: one action per section of each operation between two points where another task can run; implements `TwoState` | `mutex` = owner of `motionMutex`; `holdActive`, `holdTarget`, `isMoving`, `steps` = the members; `pc`, `hpc` = where each task is |
| `Approach` | `refineToTarget` and the hold control law against a gear | `motor` and `play` = the physical shaft and slack; `x`, `integral`, `iter`, `backOffs` = the locals |
| `Pointing` | the four frames | `steps`, `offset`, `direction`, `target` = the members; `bias` = sensor minus counter; `asked` = what the held move was for |
| `CalibrationJob` | the server, the worker and httpd's session table | `busy`, `gone` = the flags; `server`, `worker` = program points; `session` = httpd's table (external) |
| `CalGeneration` | coefficients, artefacts and stamps in memory and in flash | `flash` = NVS entries; `cfg`, `hw` = members; `mtx` = the configuration lock; `pc`, `arg` = where each of two tasks is and what it is about; an artefact is the correction it was measured with; `crossed` is a history variable |
| `Ota` | slots, file system, offer, installation, upload, restart | `slot`, `selected`, `image`, `mounted`, `stored` = flash and mount; `offer`, `listed`, `channel`, `lock` = the statics; a release stands for its version, URL and checksum |
| `Homing` | finding mechanical zero, chunk by chunk | `at` = where the output is along the cable (external); `origin` = where the counter is 0; `start`, `traveled`, `startState`, `viaCCW`, `attempt` = the locals; `phase` = program point |
| `NumberedLog` | abstract: lines of a boot numbered without a gap, a reader that goes on over what it gets and what is no longer held | `log`, `place` |
| `LogRing` | storing a line, recovering the tail, the `/log` handler, the tab; implements `NumberedLog` | `next`, `slot`, `mux`, `tail` = the statics; `pc`, `line`, `seen` = each writer in `store_line`; `req` = the handler's locals; `tab` = the browser's |
| `Files` | the routes that change the volume, with FTP beside them | `target`, `part` = the volume; `pc`, `cur` = the handler; `ftp` = what FTP has open; `promised`, `cut`, `stray` record what was acknowledged, cut short or left |
| `Ftp` | `ftp_run` and a client | `srv` = `ftp_data`; `client`, `want` = the other end |
| `MCMotion`, `MCApproach`, `MCPointing` | constants for TLC that a .cfg cannot write | |
| `MotionProofs`, `CalibrationProofs`, `PointingProofs`, `OtaProofs`, `HomingProofs`, `LogRingProofs`, `FilesProofs`, `FtpProofs` | theorems | |

`Motion`, `Approach` and `Pointing` extend `CableLimit`. They cut the motion
layer at three depths: `Motion` keeps who runs when and forgets measurement,
`Approach` keeps one move's control loop and forgets other tasks, `Pointing`
keeps what positions mean and takes a finished, refined move as one step.
`Homing` opens up the step that `Motion` has as found or lost and `Pointing` as
counter zero. `Files` takes an FTP transfer as open and close; `Ftp` has what
happens between.

In `Ftp` a call of `ftp_run` is one action, made of the sets of server states each
part of it can lead to: `Protocol` (the state's switch), `Connection` (the
substate's) and `Check` (the last `if`). Everything below `ftp_run` is an operator
from a server to a set of servers, because a reply that cannot be sent resets the
server wherever it is called. The nine commands stand for the classes that treat
the state differently: `CWD .` also for the root, `DELE` for the commands that only
succeed or fail, `STOR` for `APPE`, `LIST` for `NLST`, `PASS` for the log-in.

## 3. What is checked

| run | bounds | distinct states | shows |
|---|---|---|---|
| `motion` | three tasks, a turn of two positions, limit 1, positions -1..3, one motor command per operation beyond its first | 65,616 | `MotorExclusion`, `HoldSeesTheTarget`, `HaltFindsMotorStopped`, refinement of `TwoState`, `OperationsReturn`, `HoldTakesOver` |
| `caljob` | three clients, two sockets | 255 | `OneRunAtATime`, `WorkerOwnsItsSession`, `RequestsComeBack` |
| `calgen` | two corrections, generations replaced up to the third, two tasks that overlap, any write failing, up to where an artefact meets changing coefficients (`Onward` FALSE) | 5,869,828 | `StampsTellTheTruth`, `GenerationsAreNew` |
| `approach` | tolerance 2, band 5, margin 10, slack 4, noise 1, landing within 3, five iterations, two back-offs, one disturbance of any size up to the margin | 45,025 | `BackOffTakesUpSlack`, `RefineEndsNear`, `HoldSettles`, `HoldComesToRest`, `HoldNeverBacksOff`, `HoldLeavesGearLoaded` |
| `pointing` | a turn of 12, three sensor periods of 4, limit 7, lost steps up to 1, jogs up to 13 from zero | 167,220 | `ArrivesAtTarget`, `PositionFollowsSensor`, `NeverRefused`, `ShortestLegalWay`, `CameraEndsAtTarget` |
| `ota` | two releases, three slots, the polling task as checker | 402,086 | `OneWriter`, `RunningSlotIntact`, `ActivatesOnlyVerified`, `MountedMeansStored`, `LockComesBack` |
| `homing` | the firmware's sizes in units of 2048 microsteps (turn 250, motor turn 25, chunk 2, debounce 1, limit 131), three attempts, one wrong Hall reading, two homings with a drive or a restart between | 2,637,542 | `ZeroIsTheIndex`, `AbortsOnlyOnGlitches`, `StaysInItsTurn` |
| `log` | two writers, ring of two, batches of one, tail of two, four lines, one restart | 843,876 | `RowsTellTheTruth`, `NothingMissedSilently`, `TailHoldsTheNewest`, refinement of `NumberedLog`, `TabCatchesUp` |
| `files` | two names, three writes, two power failures | 203,408 | `AcknowledgedMeansStored`, `NoPartLeftBehind` |
| `ftp` | one client at a time, nine commands, no bound on their number; transfers that stand still | 25,508 | `HandlesAccountedFor`, `TransfersAreAnswered`, `ServerListensAgain` |

Every property of these runs is paired with a mutant of the code it is about,
defined next to the original, that the same run rejects.

Why the bounds are enough: `motion` needs two tasks that queue for the motor and
one that holds it, and a cable on which some positions are legal twice and some
moves leave the range. `caljob` needs more clients than sockets. `calgen` needs
a stale generation, a current one and one to come, and coefficients that come back
(three generations of two corrections). Its run stops where `crossed` would become
true: `StampsTellTheTruth` says nothing of what follows, and `GenerationsAreNew` is
proved for what follows as well. In `approach` the proportions
are those of the firmware (margin more than twice the slack, slack more than the
tolerance, band between tolerance and margin); in `pointing` the limit exceeds
half a turn as 190 exceeds 180, there are several motor turns to an output turn
and `2 * Far` is exactly the bound under which no angle is refused. `ota` needs
an old and a new release and an offer that changes on the way. `homing` needs no
scaling: every microstep position that is a multiple of 2048 within the limit is a
place to begin, and a second homing begins wherever the first one or a restart
left the output. `log` needs more lines than the ring holds, while an answer of
more than one batch is being built, and a number that is ahead of the ring after a
restart. `files` needs a name to be written again after each way of failing, and
another name that must not notice. `ftp` is finite as it stands: what is counted in
the code (bytes, milliseconds) only matters as over a limit or not.

### Where the code disagrees with its comments

Two more runs check one property each that a comment states and the code does
not keep. TLC's counterexample is the scenario.

| run | property | scenario |
|---|---|---|
| `caljob_busy` | `BusyMeansRunning` | the worker ends before the server sets the flag: 409 until a restart |
| `homing_cable` | `HomesWithinLimit` | from -190 degrees the first sweep reaches the window of the turn below; homing ends there, and the cable is a turn further wound than the counter says |

Others are visible in the models without a run of their own:

- The artefacts "carry the generation they were made with" (`Configuration.cpp:12-14`),
  so that a boot can tell what is stale. Not when one is in hand while coefficients
  change. `setAngleCalCoefficients` puts them to use in `RotatorHW`
  before Configuration has them, and their generation is counted by the save that
  follows: a camera run that measures in between, or a table uploaded then (which
  `setFullStepTable` stamps outside the lock), gets the generation of the old
  coefficients, and after a restart belongs to them. Nor when coefficients could not be
  stored, which is only logged (`Configuration.cpp:278-282`, `315-320`): they stay in
  use under the generation of the old ones, and so does what is measured against
  them. TLC prints the first scenario when `BootTrustsOnlyItsOwn` is checked as it
  stands, with `Onward` TRUE; `StampsTellTheTruth` is about everything else.
- The ten seconds of `FTP_DATA_TIMEOUT_MS`, after which an upload that receives nothing
  is to be ended with 426 (`ftp.c:1233-1240`), are never reached. accept leaves the
  data socket a blocking one (`ftp.c:398-400`), and recv waits in
  `ftp_recv_non_blocking`: a client that neither sends nor closes its data connection
  takes the server for ever, also after it has closed the other connection. In `Ftp`
  that is a server which stays `Waiting`, the exception of `ServerListensAgain`.
- `putHalt` "means stop all rotator motion now", but waits for `motionMutex`: what
  it is to stop has ended by then (`HaltFindsMotorStopped`).
- A downward move that lands short by less than the slack is corrected upwards
  without a back-off and converges with slack left (`Approach.Start`), although
  "the gearbox is only ever loaded one way". While holding, a shaft that something
  else turns down by less than the tolerance is left so, with slack in front of the
  gear; `HoldLeavesGearLoaded` is about what holding itself does.
- A hold correction that the cable limit refuses leaves the integral as it is, and the
  next cycle adds to it, although it is to be frozen against "a correction that is
  never made" (`RotatorHW.cpp:1700-1703`). With a target at the limit and a shaft held
  below it `Approach` has no bound on `integral`.
- `syncPosition` subtracts the step counter, `getPosition` adds the sensor's
  correction to it: after Sync(p) Position is p give or take that correction.
- A file-system download that breaks off after the erase leaves nothing that
  mounts, so the configuration is not written back (`Ota.SaveConfiguration`).
- `store_line` says its tail needs no lock. Two tasks that log at once overwrite each
  other's line or leave a slot that was never written in the tail; the properties of
  the tail are therefore stated for as long as that did not happen (`raced`).
- `upload_handler` says the old file is untouched until the rename; it is unlinked
  before, and a power failure between leaves neither under the name. That is the
  second case of `AcknowledgedMeansStored`.
- `send` on the FTP server's data socket blocks as `recv` does, so that its 200 ms
  (`ftp_send_list`, `ftp_send_file_data`) never apply: a client that stops reading a
  listing or a file keeps the server as one that stops sending does.
  `ServerListensAgain` says when the server is free again, with `Waiting`.
- A transfer command without a data connection is answered 150 and then dropped with
  its handle open. `HandlesAccountedFor` and `TransfersAreAnswered` say so with
  `bare`.

### Fairness

`Motion.FairSpec`: every task runs when it can (weak fairness), a motor command
ends, and a task that waits for the mutex is woken each time it is given, while
`holdTask` never waits for it and has the lowest priority (strong fairness of
`Acquire`). No client is assumed to send anything. `CalibrationJob.FairSpec`:
the server finishes `start_calibration`, a worker finishes its run; clients may
do nothing. `Approach.ApproachFairSpec`: the control loops' clocks run; disturbances
need not happen. `Ota.FairSpec`: an installation or upload that has begun gets
its next answer, because the HTTP client and the server's sockets have timeouts
(`OTA_HTTP_TIMEOUT_MS`, `main.cpp:157-165`); nobody has to restart.
`LogRing.FairSpec`: a task that has begun to store a line goes on, and the open tab
polls. `Ftp.FairSpec`: `ftp_task` runs (a loop with a delay of a tick), time passes
(`DataLate`, `CommandIdle`), and no client sends commands for ever. A listing, a
file or an upload whose blocks keep passing comes to its last one, because files and
free space have an end (strong fairness of `LastBlock`, as a client may stop and go
on in between). Nothing obliges a client to go on with a transfer or to end it; that
is the premise of `ServerListensAgain` (`[]<>~Waiting`). `Files` and `Homing` have no
liveness property: requests end when their client does, and homing is a bounded
sequence.

## 4. What is proved

TLAPS checks these for all values of the constants that meet the modules'
assumptions.

- **`MotionProofs`** – `TypeCorrect`, `Exclusion`, `HoldIsCurrent`, `HaltIsLate`,
  `TwoStates`. The invariant is the types, that `mutex` names exactly the task
  between taking and giving it (`Ownership`), and that a set `_isMoving` has an
  owner (`MovingFlag`): exclusion alone is not inductive, because it does not say
  what the mutex holds. `TwoStates` shows every step to be a step of `TwoState` or
  a stutter; that corrections are legal comes from the cable check.

  The same module proves what one move's control loop ends with (`Approach`, which
  shares no variable with `Motion`). Both theorems rest on `EstimateIsNear`: the
  estimate is within the measurement's error of the shaft at every step, because
  the filter is told of each move. `BackOffSuffices` adds that after a back-off the
  slack left is no more than what the shaft has still to rise (`SlackIsClosing`); it
  assumes `MarginTakesUpSlack`, the margin covering slack, tolerance and two
  measurements ("a little over twice the measured backlash", `RotatorHW.cpp:149-154`).
  `SettlesNear` adds that while another correction is due the integral is at most 10
  (`NeverFarAbove`), so that no correction overshoots by more than the tolerance; it
  assumes `LoopIsTuned`: noise at most half the tolerance and half the margin, and a
  band in which the integral cannot outgrow the error. The run's constants meet both.
  `HoldIsSmooth` carries on into the hold: until something turns the shaft, the
  motor is never taken down. The integral grows without an error to show for it, so
  the invariant keeps its account (`WoundUp`): it is too small to ask for anything, or
  what the noise can still add is less than what the motor may still rise (three
  twentieths of an error that each rise makes smaller), or the cable leaves no room to
  rise. It assumes `HoldIsTuned`, that this height and the noise stay within the margin
  (0.02 degrees against 0.15 in the firmware), and `TargetsClearOfEnd`, that no
  back-off reaches the cable's lower end.
- **`CalibrationProofs`** – of `CalibrationJob`: `OneRun`, `SessionKept`, `Room`. The
  invariant says what the server's place in `start_calibration` implies for the
  workers (`Unstarted`, `Started`), that the flag is up or about to be set whenever
  a worker lives (`Solo`), and which session is detached for whom (`DetachedFor`).
  Of `CalGeneration`: `GenTypeCorrect`, `NoGenerationTwice` and `StampsAreTrue`, for any
  corrections and any number of generations, with restarts between any two writes,
  any write failing and the two tasks' calls overlapping as they can; there are no
  assumptions beyond the types of the constants. `Numbering` is the invariant of the
  first two: only the holder of the lock is in a save (`OneSaves`), so that what is
  counted is what is written, and memory's generation is never behind flash's
  (`Counted`). `Trust` is that of the third, for as long as nothing has `crossed`: no
  stamp is ahead of the stored generation, so a new generation is nobody's yet
  (`StampsInOrder`); the table in memory deserves its stamp and the one in hand
  belongs to what is stored (`TableInHand`); and what is about to be stored was
  measured against what is stored (`MeasuredBy`).

  `crossed` is a history variable: no step depends on it, except that a run may be
  told to stop there (`Onward`). It becomes true when a task has an artefact in hand
  (it measures one, was sent one or is to keep the zero) while the other changes the
  coefficients, or while the correction in use is not the stored one (`Crossing`), as
  after a failed write. The two scenarios above are of this kind, and the theorem
  says that there are no others: a failed write, of coefficients or of anything else,
  does no harm until something is measured or uploaded before the next successful one
  or restart.
- **`PointingProofs`** – `NoRefusal` and `ShortestLegal` for any resolution, limit
  and gear error. The arithmetic (rounding, the three candidates, at least one of
  them legal) is a chain of lemmas; the invariant adds that the counter is never
  more than half a turn beyond the limit (`InReach`), which is `Far`'s bound for
  jogs and the limit plus the sensor's difference for moves. `PositionIsTheSensors`
  needs no more than types: `Fine` is `bias` because half a turn of the sensor is more
  than `MaxBias` (`FineIsBias`). `MovesArrive` and `CameraArrives` rest on `OnTarget`
  (the sensor is held where the correction for the asked angle says), on the calls
  being inverses of Position (`ThereAndBack`) and, for the camera, on the assumption
  `GearIsSmooth`: the gear's error changes by at most a unit over its own size.
- **`OtaProofs`** – `OneWriterHolds`, `RunningIntact`, `MountedStored`, `Verified`.
  The invariant ties the lock to the program points (`LockHeld`), bounds what is
  being received (`Receiving`), records what the installation must have done to be
  where it is (`Progress`) and relates a mounted file system to the stored
  configuration (`Stored`).

- **`HomingProofs`** – `HomedOnTheIndex`, for any turn that is a multiple of the
  motor's, any window narrower than a motor turn, any sweep, budget and number of
  attempts, and any glitches. The invariant is short: after the direct move the
  motor shaft is at its zero. The argument is in the lemmas: a multiple of a motor
  turn that lies in a window narrower than one is a multiple of the output's turn.
  `AbortsOnGlitches` and `HomesInItsTurn` follow a homing without a wrong reading
  through all its phases (`CleanIInv`): what a sweep has passed was not the window
  (`CleanSweep`), a chunk does not step over either half of it, the two sweeps
  together cover a turn, and a second attempt only follows a start in the lower half
  of the window, from one motor turn below it (`CleanAttempt`); so the window found
  is that of the turn homing began in (`FoundHere`). They assume `SearchFits` (those
  proportions) and, for the second, `WindowBelowIsFar`: no sweep that begins there
  reaches the window below. The firmware's sizes meet both.
- **`LogRingProofs`** – `NothingIsMissedSilently`, `RowsAreTrue`, `TailIsTheNewest`,
  `NumbersAreKept`, for any sizes of ring, tail and batch and any number of writers, lines and restarts.
  The first invariant relates what the handler has read to what the tab holds: the
  request begins where the tab stands or at the oldest line (`Request`), and a tab
  ahead of the ring has an earlier boot's number (`Behind`). The second relates slots
  to numbers (`Slotted`): each of the newest `Lines` numbers has its line in its slot,
  except the oldest of them while the lock is held. The third says that until a race
  the one task in the tail code has written in front of the lines the tail owes
  (`Alone`, `Held`). Both rest on lemmas about remainders: numbers share a slot only
  if they are whole turns of the ring apart. `NumbersAreKept` shows every step to be
  one of `NumberedLog` or a stutter: publishing numbers a line, an answer takes the
  tab over its rows and over lines that had scrolled out when the handler looked, and
  so have by now (`Scrolled`, `AnswerGoesOn`).
- **`FilesProofs`** – `PartsAreAccountedFor`, `AcknowledgedIsStored`. The invariant
  says at each program point what is still there: before the rename either the old
  file or a closed new one (`OldIsThere`, `NewIsThere`), and that what FTP is
  writing is not promised (`FtpWrites`).
- **`FtpProofs`** – `HandlesAreSafe`, `AnswersAreSafe`. The invariant (`Orderly`): a
  transfer has its data connection, and between transfers nothing is open and nobody
  waits. One lemma per operator says which of `Matched`, `Closed` and `Orderly` it
  keeps, and every path through `ftp_run` is their composition.

Every invariant and every action property the passing runs check is stated by a
theorem. `Ota`'s types and `Room` (a full session table has a session that may be
purged) are proved without a run. Only model-checked are
the liveness properties (`OperationsReturn`, `HoldTakesOver`, `RequestsComeBack`,
`HoldSettles`, `HoldComesToRest`, `HoldLeavesGearLoaded`, `LockComesBack`,
`TabCatchesUp`, `ServerListensAgain`): fairness and ENABLED are beyond the prover.

## 5. Limits of the models

- `Approach` works in integers; the Kalman filter is any mixture of prediction and
  measurement whose gain is at least a quarter. I2C failures and stalls are out.
- `Pointing` leaves out a homing that fails and the full-step stress routine, and
  keeps counter and sensor within half a motor turn of each other (`MaxBias`):
  beyond it, Position is off by whole motor turns until the rotator is homed, as
  `alignToFullStep` and the stress routine can bring about. `Far` bounds what
  unchecked jogs and sweeps add up to.
- `Motion`'s run gives jog and zero calibration to the tasks and leaves align and
  sensor calibration, which can do less, out.
- `CalGeneration` takes a set of coefficients as a whole, with one step at which
  Configuration holds a mixture of the old and the new, and any mixture if two tasks
  replace them at once. The flags of the status page, which say what was stale at the
  last boot, are left out.
- `Ota` leaves out the status shown to the browser, the night window, HTTP
  redirects and an erase call that fails; `ConfigurationSave` on a mounted file
  system is assumed to succeed, and the delay before a restart is any delay.
- `Homing` moves in units of 2048 microsteps: the window's edges and the sensor's
  noise are on that grid, except where they decide between next to nothing and a
  whole motor turn (`Direct`). Slack and stalls are out, and a sweep is not
  interrupted by anything but a restart.
- `LogRing` has no text: a torn line (a slot read while it is being written) shows as
  the older or the later line. The rows the tab throws away beyond its own limit are
  counted as shown. A poll that fails is a restart of the rotator.
- `Files` takes LittleFS's word: a call happens or fails as a whole, data counts from
  `fclose` on, an open name is neither unlinked nor renamed. Paths are valid and the
  expert lock is open. One entry stands for a directory and what is in it.
- `Ftp` has one client: the listening socket's backlog is left out, and so are paths,
  the rename buffer (a PASV or SIZE between RNFR and RNTO overwrites it) and the
  number of a command socket that 221 has closed and that may belong to someone else
  by the time it is read again.

### Not modelled

- The expert lock, NVS routes, Wi-Fi, discovery and the UDP queue: sequential code in
  one task without state another part relies on. The event stream's race is on the
  memory of a vector, which a model could only restate.
- The calibration measurements: numerical fits over measured data. Two hazards of
  theirs are known: `calibrateOutputAngle` reads the counter outside the mutex
  (`RotatorHW.cpp:775`), and full steps are counted as microsteps.
- The Alpaca boilerplate of other device types (`api.cpp`): parse a parameter, call a
  getter, format an answer, seven thousand lines of it.
- The web UI beyond the Debug tab, the Python tools, and the vendored libraries
  (Arduino core, stepper driver, JSON, their examples), which are most of the
  repository's lines and appear as the firmware calls them. The share of all lines
  the models cover is therefore small; of the files in `src/main` that keep state,
  between a third and two thirds.

## 6. Plan

What would come next, in order of weight:

1. `calibrateOutputAngle` and `measureMechanicalZero` against clients that move in
   between, on top of `Motion`.
2. `ExpertLock`: attempts, lock-out with tick wrap-around, grace period, enrolment.
3. What the tail keeps across a restart as part of `NumberedLog`: the newest lines of
   the boot before, in their order, which `TailHoldsTheNewest` says of the tail alone.
4. Proofs: the safety part of `HoldSettles` after a disturbance, where the gear's
   slack decides how far the shaft follows the motor.
