---------------------------- MODULE CalGeneration ----------------------------
(***************************************************************************)
(* Which sensor correction the stored calibration artefacts belong to      *)
(* (src/main/Configuration.cpp, with the zero and the output correction of *)
(* src/main/RotatorHW.cpp and the handlers of src/main/WebServer.cpp).     *)
(*                                                                         *)
(* The mechanical zero, the full-step table and the output correction are  *)
(* measured against the sensor correction in force.  Each is stored with   *)
(* that correction's generation number, and a boot compares the stamps.    *)
(* Here an artefact is the correction it was measured against.             *)
(*                                                                         *)
(* Two tasks write: the HTTP server's and the calibration worker's.        *)
(* Coefficients are set one by one, so that a set of them has two halves;  *)
(* every NVS write is a step of its own and may fail, and the device may   *)
(* restart between any two steps.                                          *)
(***************************************************************************)
EXTENDS Integers, FiniteSets

CONSTANTS
  Corrections,  (* what a calibration or an upload can find                 *)
  Default,      (* what the constructor's coefficients are                  *)
  None,         (* nothing stored; nothing measured                         *)
  Blank,        (* the all-zero full-step table, also: no table stored      *)
  MaxGen,       (* bound on the stored generation that is still replaced    *)
  Onward        (* bound: do the tasks go on after coefficients changed with *)
                (* an artefact in hand?                                      *)

ASSUME GenerationAssumption ==
  /\ Default \in Corrections
  /\ None \notin Corrections \cup {"httpd", "worker"}
  /\ Blank \notin Corrections \cup {None}
  /\ MaxGen \in Nat
  /\ Onward \in BOOLEAN

VARIABLES
  flash,   (* what NVS holds                                             *)
  cfg,     (* Configuration's members                                    *)
  hw,      (* RotatorHW's members                                        *)
  mtx,     (* the task that is in Configuration::save(), or None         *)
  pc,      (* pc[w]: where task w is                                     *)
  arg,     (* arg[w]: what task w is about                               *)
  crossed  (* history: coefficients changed with an artefact in hand     *)

memory == <<cfg, hw>>
calls == <<mtx, pc, arg>>
genVars == <<flash, memory, calls, crossed>>

Writers == {"httpd", "worker"}
Labels ==
  {"idle", "use", "set", "setRest", "stampTable", "setTable",
   "save", "blob", "tableBlob", "tableStamp",
   "measure", "zero", "zeroStamp", "outWrite"}
Calls == {"none", "coeffs", "table", "config", "zero", "camera"}
Bases == Corrections \cup {None}
Tables == Corrections \cup {Blank}

\* coef = None: no coefficients; legacy: in the layout without generations.
Flash ==
  [coef : Bases, legacy : BOOLEAN, gen : Nat,
   table : Tables, tableGen : Nat,
   zero : SUBSET Corrections, zeroGen : Nat,
   out : Bases, outGen : Nat]

GenTypeOK ==
  /\ flash \in Flash
  /\ cfg \in [coef : Corrections, gen : Nat, table : Tables, tableGen : Nat]
  /\ hw \in [coef : Corrections, zero : SUBSET Corrections]
  /\ mtx \in Writers \cup {None}
  /\ pc \in [Writers -> Labels]
  /\ arg \in [Writers -> [call : Calls, basis : Bases \cup {Blank},
                          keep : SUBSET Corrections]]
  /\ crossed \in BOOLEAN

NoCall == [call |-> "none", basis |-> None, keep |-> {}]

------------------------------------------------------------------------------
(* Boot: Configuration's and RotatorHW's constructors, reading flash f *)

\* Coefficients stored in the present format.
Stored(f) == f.coef # None /\ ~f.legacy

\* The generation a save gives the coefficients: the stored one if they are
\* what is stored, else the one after.
NextGeneration(f, coef, gen) ==
  IF Stored(f)
    THEN IF coef = f.coef THEN f.gen ELSE f.gen + 1
    ELSE gen + 1

\* load() reads f: nothing stored leaves generation 0, and legacy
\* coefficients, which come with no record of what belongs to them, get 1.
LoadedCoef(f) == IF f.coef = None THEN Default ELSE f.coef
LoadedGen(f) == IF Stored(f) THEN f.gen ELSE IF f.legacy THEN 1 ELSE 0

\* A table with a foreign stamp is dropped.
LoadedTable(f) ==
  IF f.tableGen = LoadedGen(f) THEN f.table ELSE Blank

\* saveAngleCalToNvs() with gen in memory: NVS cannot be opened, the blob
\* cannot be written, or it is.
Written(f, coef, gen) ==
  [f EXCEPT !.coef = coef, !.legacy = FALSE, !.gen = gen]

Attempts(f, gen) ==
  LET next == NextGeneration(f, LoadedCoef(f), gen)
  IN  {[flash |-> Written(f, LoadedCoef(f), next), gen |-> next]}
      \cup {[flash |-> f, gen |-> gen], [flash |-> f, gen |-> next]}

\* What is not stored in the present format is written at boot; a device
\* without config.json tries twice.
Boots(f) ==
  IF Stored(f) THEN {[flash |-> f, gen |-> f.gen]}
  ELSE IF f.legacy THEN Attempts(f, LoadedGen(f))
  ELSE UNION {Attempts(b.flash, b.gen) : b \in Attempts(f, LoadedGen(f))}

LoadedCfg(f, gen) ==
  [coef |-> LoadedCoef(f), gen |-> gen,
   table |-> LoadedTable(f), tableGen |-> LoadedGen(f)]

\* A zero with a foreign stamp is used, too.  (A foreign output correction is
\* not; what is in use of it is not modelled, as nothing is derived from it.)
LoadedHw(f) == [coef |-> LoadedCoef(f), zero |-> f.zero]

\* A device fresh from the factory, or updated from a firmware without
\* generations: whatever it stored carries no stamp, which reads as 0.
FirstFlash ==
  {f \in [coef : Bases, legacy : BOOLEAN, gen : {0}, table : Tables,
          tableGen : {0}, zero : {{}} \cup {{c} : c \in Corrections},
          zeroGen : {0}, out : {None}, outGen : {0}] :
     /\ f.legacy = (f.coef # None)
     /\ f.coef = None => f.table = Blank}

GenInit ==
  /\ \E f \in FirstFlash : \E b \in Boots(f) :
       /\ flash = b.flash
       /\ cfg = LoadedCfg(f, b.gen)
       /\ hw = LoadedHw(f)
  /\ mtx = None
  /\ pc = [w \in Writers |-> "idle"]
  /\ arg = [w \in Writers |-> NoCall]
  /\ crossed = FALSE

\* Power loss, a watchdog or a restart on request, between any two steps.
Restart ==
  /\ \E b \in Boots(flash) :
       /\ flash' = b.flash
       /\ cfg' = LoadedCfg(flash, b.gen)
       /\ hw' = LoadedHw(flash)
  /\ mtx' = None
  /\ pc' = [w \in Writers |-> "idle"]
  /\ arg' = [w \in Writers |-> NoCall]
  /\ UNCHANGED crossed

------------------------------------------------------------------------------
(* Calls *)

Other(w) == IF w = "httpd" THEN "worker" ELSE "httpd"
Busy(w) == pc[w] # "idle"
Recalibrating(w) == Busy(w) /\ arg[w].call = "coeffs"

Goto(w, from, to) ==
  /\ pc[w] = from
  /\ pc' = [pc EXCEPT ![w] = to]

\* The call returns.
Return(w) ==
  /\ pc' = [pc EXCEPT ![w] = "idle"]
  /\ arg' = [arg EXCEPT ![w] = NoCall]

Call(w, to, call, basis, keep) ==
  /\ Goto(w, "idle", to)
  /\ arg' = [arg EXCEPT ![w] =
               [call |-> call, basis |-> basis, keep |-> keep]]
  /\ UNCHANGED <<flash, memory, mtx>>

\* set_coefficients_handler, and the end of calibrateAngleSensor.  A caller
\* may only claim keepZero if its coefficients agree with the present ones at
\* the zero and the zero belongs to those: then it belongs to the new ones.
\* Two such calls at once mix: what is left of the earlier one is anything.
Recalibrate(w) ==
  /\ cfg.gen < MaxGen
  /\ Goto(w, "idle", "use")
  /\ \E c, mixed \in Corrections, keep \in {{}, hw.zero} :
       /\ keep # {} => w = "httpd" /\ hw.coef \in keep
       /\ arg' = [v \in Writers |->
                    IF v = w
                      THEN [call |-> "coeffs", basis |-> c, keep |-> keep]
                    ELSE IF Recalibrating(v)
                      THEN [arg[v] EXCEPT !.basis = mixed]
                    ELSE arg[v]]
  /\ UNCHANGED <<flash, memory, mtx>>

\* set_fullstep_table_handler: a table just fitted to the correction in
\* force, or none.
UploadTable ==
  /\ cfg.gen <= MaxGen
  /\ \E table \in {hw.coef, Blank} :
       Call("httpd", "stampTable", "table", table, {})

\* A setting that has nothing to do with calibration is saved.
SaveSetting ==
  /\ cfg.gen <= MaxGen
  /\ Call("httpd", "save", "config", None, {})

\* The worker's zero and camera runs.
RunCalibration ==
  \E call \in {"zero", "camera"} : Call("worker", "measure", call, None, {})

------------------------------------------------------------------------------
(* RotatorHW::setAngleCalCoefficients, Configuration::setFullStepTable *)

\* RotatorHW's own coefficients, without a lock.
UseCoefficients(w) ==
  /\ Goto(w, "use", "set")
  /\ hw' = [hw EXCEPT !.coef = arg[w].basis]
  /\ UNCHANGED <<flash, cfg, mtx, arg>>

\* Mutant: Configuration's are set without its lock.
SetCoefficientsUnlocked(w) ==
  /\ Goto(w, "set", "setRest")
  /\ cfg' \in {[cfg EXCEPT !.coef = some] : some \in Corrections}
  /\ UNCHANGED <<flash, hw, mtx, arg>>

\* Configuration takes them over one by one, each under its lock: in between
\* it holds a mixture ...
SetCoefficients(w) ==
  /\ Goto(w, "set", "setRest")
  /\ mtx = None
  /\ cfg' \in {[cfg EXCEPT !.coef = some] : some \in Corrections}
  /\ UNCHANGED <<flash, hw, mtx, arg>>

\* ... and in the end what RotatorHW holds, unless another call has changed
\* that in the meantime: then a mixture again.
SetTheRest(w) ==
  /\ Goto(w, "setRest", "save")
  /\ mtx = None
  /\ \E c \in Corrections :
       /\ hw.coef = arg[w].basis => c = hw.coef
       /\ cfg' = [cfg EXCEPT !.coef = c]
  /\ UNCHANGED <<flash, hw, mtx, arg>>

\* The stamp is set before the lock is taken.
StampTable(w) ==
  /\ Goto(w, "stampTable", "setTable")
  /\ cfg' = [cfg EXCEPT !.tableGen = cfg.gen]
  /\ UNCHANGED <<flash, hw, mtx, arg>>

SetTable(w) ==
  /\ Goto(w, "setTable", "save")
  /\ mtx = None
  /\ cfg' = [cfg EXCEPT !.table = arg[w].basis]
  /\ UNCHANGED <<flash, hw, mtx, arg>>

------------------------------------------------------------------------------
(* Configuration::save *)

\* save() returns; keepZero then re-stamps the zero.
Saved(w) ==
  /\ mtx' = None
  /\ IF arg[w].keep # {}
       THEN pc' = [pc EXCEPT ![w] = "zero"] /\ UNCHANGED arg
       ELSE Return(w)

\* The generation is counted in memory before the coefficients are stored,
\* unless NVS cannot even be opened.
BeginSave(w) ==
  /\ pc[w] = "save"
  /\ mtx = None
  /\ mtx' = w
  /\ \/ /\ pc' = [pc EXCEPT ![w] = "blob"]
        /\ cfg' = [cfg EXCEPT !.gen = NextGeneration(flash, cfg.coef, cfg.gen)]
     \/ /\ pc' = [pc EXCEPT ![w] = "tableBlob"]
        /\ UNCHANGED cfg
  /\ UNCHANGED <<flash, hw, arg>>

\* One NVS blob: written whole or not at all.
WriteBlob(w) ==
  /\ Goto(w, "blob", "tableBlob")
  /\ flash' \in {flash, Written(flash, cfg.coef, cfg.gen)}
  /\ UNCHANGED <<memory, mtx, arg>>

\* The table and its stamp are two NVS entries.
WriteTable(w) ==
  /\ pc[w] = "tableBlob"
  /\ \/ /\ flash' = [flash EXCEPT !.table = cfg.table]
        /\ pc' = [pc EXCEPT ![w] = "tableStamp"]
        /\ UNCHANGED <<mtx, arg>>
     \/ Saved(w) /\ UNCHANGED flash
  /\ UNCHANGED memory

\* Mutant: the table is stamped with today's generation on every save.
WriteTableStampNow(w) ==
  /\ pc[w] = "tableStamp"
  /\ flash' = [flash EXCEPT !.tableGen = cfg.gen]
  /\ Saved(w)
  /\ UNCHANGED memory

\* The stamp the table carries, not today's generation.
WriteTableStamp(w) ==
  /\ pc[w] = "tableStamp"
  /\ flash' \in {flash, [flash EXCEPT !.tableGen = cfg.tableGen]}
  /\ Saved(w)
  /\ UNCHANGED memory

------------------------------------------------------------------------------
(* The zero (setZeroPosSensorValue) and the output correction *)

\* Minutes of measuring, under the correction in force; a camera run may
\* come to nothing.
Measure(w) ==
  /\ pc[w] = "measure"
  /\ \/ /\ pc' = [pc EXCEPT ![w] =
                     IF arg[w].call = "zero" THEN "zero" ELSE "outWrite"]
        /\ arg' = [arg EXCEPT ![w].basis = hw.coef]
     \/ arg[w].call = "camera" /\ Return(w)
  /\ UNCHANGED <<flash, memory, mtx>>

\* The zero and its stamp are two NVS entries; the value is used even if
\* neither can be written.
SetZero(w) ==
  /\ pc[w] = "zero"
  /\ hw' = [hw EXCEPT !.zero = arg[w].keep \cup {arg[w].basis}]
  /\ \/ /\ flash' = [flash EXCEPT !.zero = hw'.zero]
        /\ pc' = [pc EXCEPT ![w] = "zeroStamp"]
        /\ UNCHANGED arg
     \/ Return(w) /\ UNCHANGED flash
  /\ UNCHANGED <<cfg, mtx>>

WriteZeroStamp(w) ==
  /\ pc[w] = "zeroStamp"
  /\ Return(w)
  /\ flash' \in {flash, [flash EXCEPT !.zeroGen = cfg.gen]}
  /\ UNCHANGED <<memory, mtx>>

\* saveOutputCalibration: the correction and its stamp in one blob.
WriteOut(w) ==
  /\ pc[w] = "outWrite"
  /\ Return(w)
  /\ flash' \in {flash, [flash EXCEPT !.out = arg[w].basis, !.outGen = cfg.gen]}
  /\ UNCHANGED <<memory, mtx>>

------------------------------------------------------------------------------

Step(w) ==
  \/ UseCoefficients(w) \/ SetCoefficients(w) \/ SetTheRest(w)
  \/ StampTable(w) \/ SetTable(w)
  \/ BeginSave(w) \/ WriteBlob(w) \/ WriteTable(w) \/ WriteTableStamp(w)
  \/ Measure(w) \/ SetZero(w) \/ WriteZeroStamp(w)
  \/ WriteOut(w)

\* The correction in use, Configuration's and the stored one are the same,
\* under the same generation.
Settled ==
  /\ hw.coef = cfg.coef
  /\ Stored(flash) /\ flash.coef = cfg.coef /\ flash.gen = cfg.gen

\* Task w has an artefact in hand: it measures one, was sent one, or is to
\* keep one.
Taking(w) ==
  Busy(w) /\ (arg[w].call \in {"table", "zero", "camera"} \/ arg[w].keep # {})

\* An artefact is in hand while the coefficients change in the other task, or
\* while the correction is not the stored one.
Crossing ==
  \E w \in Writers :
    /\ Taking(w)
    /\ \/ Recalibrating(Other(w))
       \/ ~Settled /\ (Recalibrating(w) => pc[w] \in {"zero", "zeroStamp"})

GenNext ==
  \/ Restart
  \/ /\ \/ \E w \in Writers : Recalibrate(w)
        \/ UploadTable \/ SaveSetting \/ RunCalibration
        \/ \E w \in Writers : Step(w)
     /\ crossed' = (crossed \/ Crossing')
     /\ Onward \/ ~crossed'

GenSpec == GenInit /\ [][GenNext]_genVars

------------------------------------------------------------------------------
(* Properties *)

\* An artefact whose stored stamp is the stored generation was measured against
\* the stored correction.
OwnTable(f) ==
  Stored(f) /\ f.tableGen = f.gen => f.table \in {Blank, f.coef}
OwnZero(f) ==
  Stored(f) /\ f.zeroGen = f.gen => f.zero = {} \/ f.coef \in f.zero
OwnOut(f) ==
  Stored(f) /\ f.outGen = f.gen => f.out \in {None, f.coef}

\* A boot trusts no foreign artefact.  Of every behaviour that is claimed (every
\* artefact carries the generation it was measured against: Configuration.cpp:
\* 12-29, 596-597, RotatorHW.cpp:619-622), but it is not so.
BootTrustsOnlyItsOwn == OwnTable(flash) /\ OwnZero(flash) /\ OwnOut(flash)

\* What is so: a boot trusts no foreign artefact as long as none was in hand
\* while coefficients changed or the correction in use was not the stored one.
\* Restarts, failed writes of artefacts or of coefficients, retries and
\* coefficients half set do no harm by themselves.
StampsTellTheTruth == ~crossed => BootTrustsOnlyItsOwn

\* A generation is never given twice: other coefficients than the stored ones
\* are stored under a higher number, whatever the two tasks do in between and
\* whichever write fails (Configuration.cpp:283-322).
GenerationsAreNew ==
  [][Stored(flash) =>
       /\ flash'.gen >= flash.gen
       /\ flash'.coef # flash.coef => flash'.gen > flash.gen]_flash
==============================================================================
