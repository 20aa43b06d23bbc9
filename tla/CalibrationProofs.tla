-------------------------- MODULE CalibrationProofs ---------------------------
(***************************************************************************)
(* Proofs about calibration: of CalibrationJob, for any number of clients  *)
(* and sockets, and of CalGeneration, for any set of corrections.          *)
(***************************************************************************)
EXTENDS CalibrationJob, CalGeneration, FiniteSetTheorems, TLAPS

\* The flag, the two tasks' labels and the session table keep their types.
THEOREM TypeCorrect == Spec => []TypeOK
<1>1. Init => TypeOK
  BY DEF Init, TypeOK, Sessions
<1>2. TypeOK /\ [Next]_vars => TypeOK'
  <2>. SUFFICES ASSUME TypeOK, [Next]_vars
                PROVE  TypeOK'
    OBVIOUS
  <2>. USE DEF TypeOK, Sessions
  <2>1. ASSUME NEW c \in Clients, Connect(c) \/ Disconnect(c)
        PROVE  TypeOK'
    BY <2>1 DEF Connect, Disconnect
  <2>2. ASSUME NEW c \in Clients, Begin(c) \/ BeginFails(c)
        PROVE  TypeOK'
    BY <2>2 DEF Begin, BeginFails
  <2>3. CASE Start
    BY <2>3 DEF Start, CreateFails, Create, SetBusy
  <2>4. ASSUME NEW c \in Clients, Progress(c) \/ Work(c)
        PROVE  TypeOK'
    BY <2>4 DEF Progress, Work, Finish, Complete, ClearBusy, Reattach
  <2>5. CASE UNCHANGED vars
    BY <2>5 DEF vars
  <2>. QED
    BY <2>1, <2>2, <2>3, <2>4, <2>5 DEF Next
<1>. QED
  BY <1>1, <1>2, PTL DEF Spec

------------------------------------------------------------------------------
(* The inductive invariant.  The flag alone does not tell whether a worker
    *)
(* exists, since it is set after the worker starts; what does is the flag
    *)
(* together with where the server is.
    *)

Solo ==
  \A c, d \in Clients : worker[c] # "none" /\ worker[d] # "none" => c = d

\* No worker while the server has just accepted a request, or is about to.
Unstarted ==
  server = "detached" \/ (server = "idle" /\ ~busy)
    => \A c \in Clients : worker[c] = "none"

\* Before the flag is set the only worker is the current request's.
Started ==
  server = "created" => \A c \in Clients : worker[c] # "none" => c = current

\* A session is detached for a request being accepted or for a running worker.
DetachedFor ==
  \A c \in Clients :
    Detached(c) <=> Running(c) \/ (server = "detached" /\ c = current)

IInv == TypeOK /\ Solo /\ Unstarted /\ Started /\ DetachedFor

\* A booted server has no worker and no detached session.
LEMMA IInvInit == Init => IInv
BY DEF Init, IInv, TypeOK, Sessions, Solo, Unstarted, Started, DetachedFor,
       Detached, Running

\* Every step of the server, the worker and the clients keeps the invariant.
LEMMA IInvStep == TypeOK' /\ IInv /\ [Next]_vars => IInv'
<1>. SUFFICES ASSUME TypeOK', IInv, [Next]_vars
              PROVE  Solo' /\ Unstarted' /\ Started' /\ DetachedFor'
  BY DEF IInv
<1>. USE DEF IInv, TypeOK, Sessions, Solo, Unstarted, Started, DetachedFor,
             Detached, Running
<1>1. ASSUME NEW c \in Clients, Connect(c)
      PROVE  Solo' /\ Unstarted' /\ Started' /\ DetachedFor'
  BY <1>1 DEF Connect, Purgeable
<1>2. ASSUME NEW c \in Clients, Disconnect(c)
      PROVE  Solo' /\ Unstarted' /\ Started' /\ DetachedFor'
  BY <1>2 DEF Disconnect
<1>3. ASSUME NEW c \in Clients, Begin(c) \/ BeginFails(c)
      PROVE  Solo' /\ Unstarted' /\ Started' /\ DetachedFor'
  BY <1>3 DEF Begin, BeginFails
<1>4. CASE CreateFails
  BY <1>4 DEF CreateFails
<1>5. CASE Create
  BY <1>5 DEF Create
<1>6. CASE SetBusy
  BY <1>6 DEF SetBusy
<1>7. ASSUME NEW c \in Clients, Progress(c) \/ Finish(c)
      PROVE  Solo' /\ Unstarted' /\ Started' /\ DetachedFor'
  BY <1>7 DEF Progress, Finish
<1>8. ASSUME NEW c \in Clients, Complete(c)
      PROVE  Solo' /\ Unstarted' /\ Started' /\ DetachedFor'
  BY <1>8 DEF Complete, Reattach
<1>9. ASSUME NEW c \in Clients, ClearBusy(c)
      PROVE  Solo' /\ Unstarted' /\ Started' /\ DetachedFor'
  BY <1>9 DEF ClearBusy
<1>10. CASE UNCHANGED vars
  BY <1>10 DEF vars
<1>. QED
  BY <1>1, <1>2, <1>3, <1>4, <1>5, <1>6, <1>7, <1>8, <1>9, <1>10
  DEF Next, Start, Work

\* The inductive invariant holds in every state the server can reach.
LEMMA Invariance == Spec => []IInv
BY IInvInit, IInvStep, TypeCorrect, PTL DEF Spec

------------------------------------------------------------------------------

\* Two runs never drive the motor at once, although the flag that keeps them
\* apart is set after the worker has started.
THEOREM OneRun == Spec => []OneRunAtATime
<1>1. IInv => OneRunAtATime
  BY DEF IInv, Solo, OneRunAtATime, Running
<1>. QED
  BY <1>1, Invariance, PTL

\* The session a running worker sends to stays detached, whatever connects.
THEOREM SessionKept == Spec => []WorkerOwnsItsSession
<1>1. IInv => WorkerOwnsItsSession
  BY DEF IInv, DetachedFor, WorkerOwnsItsSession
<1>. QED
  BY <1>1, Invariance, PTL

\* At most one session is detached at a time, so a full table has one that
\* can be purged.
THEOREM Room == Spec => []ServerHasRoom
<1>1. IInv => ServerHasRoom
  <2>. SUFFICES ASSUME IInv, Purgeable = {}
                PROVE  Cardinality(Sockets) < MaxSockets
    BY DEF ServerHasRoom
  <2>1. \A c \in Sockets : c \in Clients /\ Detached(c)
    BY DEF Sockets, Purgeable, IInv, TypeOK, Sessions, Detached
  <2>2. \A c, d \in Sockets : c = d
    BY <2>1 DEF IInv, DetachedFor, Solo, Unstarted, Running
  <2>3. IsFiniteSet(Sockets) /\ Cardinality(Sockets) \in {0, 1}
    <3>1. CASE Sockets = {}
      BY <3>1, FS_EmptySet
    <3>2. ASSUME NEW c \in Sockets
          PROVE  IsFiniteSet(Sockets) /\ Cardinality(Sockets) \in {0, 1}
      <4>1. Sockets = {c}
        BY <2>2
      <4>. QED
        BY <4>1, FS_Singleton
    <3>. QED
      BY <3>1, <3>2
  <2>. QED
    BY <2>3, JobAssumption
<1>. QED
  BY <1>1, Invariance, PTL

------------------------------------------------------------------------------
(* CalGeneration, first how generations are counted.  That holds whatever   *)
(* fails and however the two tasks overlap.                                 *)

\* Which call a task is in, which calls a task makes, and what they are about.
RouteOf(w) ==
  /\ pc[w] = "idle" => arg[w] = NoCall
  /\ pc[w] \in {"use", "set", "setRest"} => arg[w].call = "coeffs"
  /\ pc[w] \in {"stampTable", "setTable"} =>
       arg[w].call = "table" /\ arg[w].basis \in Tables
  /\ pc[w] \in {"save", "blob", "tableBlob", "tableStamp"} =>
       arg[w].call \in {"coeffs", "table", "config"}
  /\ pc[w] = "measure" => arg[w].call \in {"zero", "camera"}
  /\ pc[w] \in {"zero", "zeroStamp"} =>
       arg[w].keep # {} \/ arg[w].call = "zero"
  /\ pc[w] = "outWrite" => arg[w].call = "camera"
  /\ pc[w] \in {"zero", "zeroStamp", "outWrite"} => arg[w].basis \in Corrections
  /\ arg[w].call \in {"table", "config"} => w = "httpd"
  /\ arg[w].call \in {"zero", "camera"} => w = "worker"
  /\ arg[w].call = "coeffs" => arg[w].basis \in Corrections
  /\ arg[w].keep # {} => arg[w].call = "coeffs"

Route == \A w \in Writers : RouteOf(w)

\* Only the holder of Configuration's lock is in a save.
OneSaves ==
  \A w \in Writers : pc[w] \in {"blob", "tableBlob", "tableStamp"} => mtx = w

\* Memory's generation is never behind flash's, and one about to be written
\* is the stored one exactly if the coefficients are.
Counted ==
  /\ LoadedGen(flash) <= cfg.gen
  /\ (\E w \in Writers : pc[w] = "blob") =>
       IF Stored(flash)
         THEN cfg.gen = NextGeneration(flash, cfg.coef, cfg.gen)
         ELSE LoadedGen(flash) < cfg.gen

Numbering == GenTypeOK /\ Route /\ OneSaves /\ Counted

\* There are two tasks, each the other's other.
LEMMA TwoWriters ==
  ASSUME NEW w \in Writers
  PROVE  /\ Other(w) \in Writers /\ Other(w) # w
         /\ \A v \in Writers : v = w \/ v = Other(w)
         /\ w = "httpd" => Other(w) = "worker"
         /\ w = "worker" => Other(w) = "httpd"
BY DEF Other, Writers

\* What a boot reads is of the right type.
LEMMA LoadedTypes ==
  ASSUME NEW f \in Flash
  PROVE  /\ LoadedCoef(f) \in Corrections /\ LoadedGen(f) \in Nat
         /\ LoadedTable(f) \in Tables
         /\ Stored(f) => LoadedCoef(f) = f.coef /\ LoadedGen(f) = f.gen
BY GenerationAssumption DEF Flash, Bases, LoadedCoef, LoadedGen, LoadedTable,
   Tables, Stored

\* Flash g is flash f with coefficients of a generation f knows nothing of.
Fresh(f, g) ==
  /\ g \in Flash /\ Stored(g) /\ LoadedGen(f) < g.gen
  /\ g.table = f.table /\ g.tableGen = f.tableGen
  /\ g.zero = f.zero /\ g.zeroGen = f.zeroGen
  /\ g.out = f.out /\ g.outGen = f.outGen

\* Coefficients written under a higher number make flash fresh.
LEMMA WrittenIsFresh ==
  ASSUME NEW f \in Flash, NEW coef \in Corrections, NEW gen \in Nat
  PROVE  /\ Written(f, coef, gen) \in Flash
         /\ Stored(Written(f, coef, gen))
         /\ Written(f, coef, gen).coef = coef
         /\ Written(f, coef, gen).gen = gen
         /\ LoadedGen(f) < gen => Fresh(f, Written(f, coef, gen))
         /\ Stored(f) /\ coef = f.coef /\ gen = f.gen =>
              Written(f, coef, gen) = f
<1> DEFINE g == Written(f, coef, gen)
<1>1. /\ g \in Flash /\ g.coef = coef /\ ~g.legacy /\ g.gen = gen
      /\ g.table = f.table /\ g.tableGen = f.tableGen
      /\ g.zero = f.zero /\ g.zeroGen = f.zeroGen
      /\ g.out = f.out /\ g.outGen = f.outGen
  BY DEF Written, Flash, Bases
<1>2. Stored(g)
  BY <1>1, GenerationAssumption DEF Stored
<1>3. Stored(f) /\ coef = f.coef /\ gen = f.gen => g = f
  BY DEF Written, Flash, Stored
<1> QED BY <1>1, <1>2, <1>3 DEF Fresh

\* One attempt of a boot to store what it has read.
LEMMA AttemptCounts ==
  ASSUME NEW f \in Flash, NEW gen \in Nat, LoadedGen(f) <= gen,
         NEW a \in Attempts(f, gen)
  PROVE  /\ a.gen \in Nat /\ LoadedGen(a.flash) <= a.gen
         /\ LoadedCoef(a.flash) = LoadedCoef(f)
         /\ a.flash = f \/ (~Stored(f) /\ Fresh(f, a.flash))
<1> DEFINE next == NextGeneration(f, LoadedCoef(f), gen)
<1>1. /\ LoadedCoef(f) \in Corrections /\ LoadedGen(f) \in Nat
      /\ Stored(f) => next = f.gen /\ LoadedGen(f) = f.gen
                      /\ LoadedCoef(f) = f.coef
      /\ ~Stored(f) => next = gen + 1
      /\ next \in Nat /\ LoadedGen(f) <= next
  BY LoadedTypes DEF NextGeneration, Flash
<1>2. CASE a = [flash |-> Written(f, LoadedCoef(f), next), gen |-> next]
  <2>1. CASE Stored(f)
    BY <1>1, <1>2, <2>1, WrittenIsFresh
  <2>2. CASE ~Stored(f)
    <3> DEFINE g == Written(f, LoadedCoef(f), next)
    <3>1. /\ g \in Flash /\ Stored(g) /\ g.coef = LoadedCoef(f)
          /\ g.gen = next /\ Fresh(f, g)
      BY <1>1, <2>2, WrittenIsFresh
    <3>2. LoadedCoef(g) = g.coef /\ LoadedGen(g) = g.gen
      BY <3>1, LoadedTypes
    <3> QED BY <1>1, <1>2, <2>2, <3>1, <3>2
  <2> QED BY <2>1, <2>2
<1>3. CASE a \in {[flash |-> f, gen |-> gen], [flash |-> f, gen |-> next]}
  BY <1>1, <1>3
<1> QED BY <1>2, <1>3 DEF Attempts

\* A boot: flash stays as it is, or gets a generation of its own.
LEMMA BootCounts ==
  ASSUME NEW f \in Flash, NEW b \in Boots(f)
  PROVE  /\ b.flash \in Flash /\ b.gen \in Nat /\ LoadedGen(b.flash) <= b.gen
         /\ Stored(f) => b.flash = f
         /\ b.flash = f \/ Fresh(f, b.flash)
<1>0. LoadedGen(f) \in Nat /\ (Stored(f) => LoadedGen(f) = f.gen)
  BY LoadedTypes
<1>1. CASE Stored(f)
  BY <1>0, <1>1 DEF Boots, Flash
<1>2. CASE ~Stored(f) /\ b \in Attempts(f, LoadedGen(f))
  BY <1>0, <1>2, AttemptCounts DEF Fresh
<1>3. CASE ~Stored(f) /\ b \notin Attempts(f, LoadedGen(f))
  <2>1. PICK a \in Attempts(f, LoadedGen(f)) : b \in Attempts(a.flash, a.gen)
    BY <1>3 DEF Boots
  <2>2. /\ a.gen \in Nat /\ LoadedGen(a.flash) <= a.gen
        /\ a.flash = f \/ Fresh(f, a.flash)
    BY <1>0, <2>1, AttemptCounts
  <2>3. a.flash \in Flash
    BY <2>2 DEF Fresh
  <2>4. /\ b.gen \in Nat /\ LoadedGen(b.flash) <= b.gen
        /\ b.flash = a.flash \/ (~Stored(a.flash) /\ Fresh(a.flash, b.flash))
    BY <2>1, <2>2, <2>3, AttemptCounts
  <2>5. b.flash = f \/ Fresh(f, b.flash)
    BY <2>2, <2>4 DEF Fresh
  <2> QED BY <1>3, <2>4, <2>5 DEF Fresh
<1> QED BY <1>1, <1>2, <1>3

\* A call that returns leaves its task idle and the other one alone.
LEMMA Returned ==
  ASSUME GenTypeOK, Route, NEW w \in Writers, Return(w)
  PROVE  /\ pc' \in [Writers -> Labels]
         /\ arg' \in [Writers -> [call : Calls, basis : Bases \cup {Blank},
                                   keep : SUBSET Corrections]]
         /\ Route'
         /\ pc'[w] = "idle" /\ arg'[w] = NoCall
         /\ \A v \in Writers : v # w => pc'[v] = pc[v] /\ arg'[v] = arg[v]
<1>1. /\ pc' \in [Writers -> Labels]
      /\ arg' \in [Writers -> [call : Calls, basis : Bases \cup {Blank},
                                keep : SUBSET Corrections]]
  BY DEF GenTypeOK, Return, NoCall, Labels, Calls, Bases
<1>2. pc'[w] = "idle" /\ arg'[w] = NoCall
  BY DEF GenTypeOK, Return
<1>3. \A v \in Writers : v # w => pc'[v] = pc[v] /\ arg'[v] = arg[v]
  BY DEF Return
<1>4. ASSUME NEW v \in Writers
      PROVE  \/ pc'[v] = pc[v] /\ arg'[v] = arg[v]
             \/ /\ pc'[v] = "idle" /\ arg'[v] = NoCall
                /\ arg'[v].call = "none" /\ arg'[v].keep = {}
  BY <1>2, <1>3 DEF NoCall
<1>5. Route'
  BY <1>4 DEF Route, RouteOf
<1> QED BY <1>1, <1>2, <1>3, <1>5

\* A save that returns does so, or goes on to stamp the zero anew.
LEMMA SavedReturns ==
  ASSUME GenTypeOK, Route, NEW w \in Writers, Saved(w),
         pc[w] \in {"tableBlob", "tableStamp"}
  PROVE  /\ pc' \in [Writers -> Labels]
         /\ arg' \in [Writers -> [call : Calls, basis : Bases \cup {Blank},
                                   keep : SUBSET Corrections]]
         /\ Route'
         /\ \/ pc'[w] = "idle" /\ arg'[w] = NoCall
            \/ pc'[w] = "zero" /\ arg'[w] = arg[w] /\ arg[w].keep # {}
         /\ \A v \in Writers : v # w => pc'[v] = pc[v] /\ arg'[v] = arg[v]
<1>1. CASE arg[w].keep # {}
  BY <1>1 DEF Saved, GenTypeOK, Labels, Route, RouteOf
<1>2. CASE arg[w].keep = {}
  BY <1>2, Returned DEF Saved
<1> QED BY <1>1, <1>2

\* Counting is not concerned by what leaves coefficients, generations and the
\* writing of them alone.
LEMMA CountedElsewhere ==
  ASSUME Counted, flash'.coef = flash.coef, flash'.legacy = flash.legacy,
         flash'.gen = flash.gen, cfg'.gen = cfg.gen,
         \A w \in Writers : pc'[w] = "blob" => pc[w] = "blob",
         \A w \in Writers : pc'[w] = "blob" => cfg'.coef = cfg.coef
  PROVE  Counted'
<1>1. LoadedGen(flash)' = LoadedGen(flash) /\ Stored(flash)' = Stored(flash)
  BY DEF LoadedGen, Stored
<1>2. (\E w \in Writers : pc'[w] = "blob") =>
        /\ \E w \in Writers : pc[w] = "blob"
        /\ NextGeneration(flash, cfg.coef, cfg.gen)' =
             NextGeneration(flash, cfg.coef, cfg.gen)
  BY <1>1 DEF NextGeneration
<1> QED BY <1>1, <1>2 DEF Counted

\* The steps of a change of coefficients and of a table's upload.
LEMMA SettingNumbers ==
  ASSUME Numbering, crossed' \in BOOLEAN, NEW w \in Writers,
         \/ UseCoefficients(w) \/ SetCoefficients(w) \/ SetTheRest(w)
         \/ StampTable(w) \/ SetTable(w)
  PROVE  Numbering'
<1> USE GenerationAssumption
        DEF Numbering, UseCoefficients, SetCoefficients, SetTheRest,
            StampTable, SetTable, Goto
<1>1. GenTypeOK'
  BY DEF GenTypeOK, Route, RouteOf, Labels, Bases, Tables
<1>2. Route'
  BY DEF Route, RouteOf, GenTypeOK
<1>3. OneSaves'
  BY DEF OneSaves, GenTypeOK
<1>4. Counted'
  <2>1. /\ \A v \in Writers : pc'[v] = "blob" => pc[v] = "blob"
        /\ UNCHANGED flash /\ cfg'.gen = cfg.gen
    BY DEF GenTypeOK
  <2>2. ASSUME NEW v \in Writers, pc'[v] = "blob"
        PROVE  cfg'.coef = cfg.coef
    <3>1. pc[v] = "blob" /\ mtx = v /\ mtx # None
      BY <2>1, <2>2 DEF OneSaves, Writers
    <3>2. \/ UseCoefficients(w) \/ StampTable(w) \/ SetTable(w)
      BY <3>1
    <3> QED BY <3>2 DEF GenTypeOK
  <2> QED BY <2>1, <2>2, CountedElsewhere
<1> QED BY <1>1, <1>2, <1>3, <1>4

\* A save counts.
LEMMA BeginSaveNumbers ==
  ASSUME Numbering, crossed' \in BOOLEAN, NEW w \in Writers, BeginSave(w)
  PROVE  Numbering'
<1> USE GenerationAssumption DEF Numbering, BeginSave
<1>0. LoadedGen(flash) \in Nat /\ (Stored(flash) => LoadedGen(flash) = flash.gen)
      /\ flash.gen \in Nat /\ cfg.gen \in Nat
  BY LoadedTypes DEF GenTypeOK, Flash
<1>n. LET next == NextGeneration(flash, cfg.coef, cfg.gen)
      IN  /\ next \in Nat /\ LoadedGen(flash) <= next
          /\ IF Stored(flash)
               THEN next = NextGeneration(flash, cfg.coef, next)
               ELSE LoadedGen(flash) < next
  BY <1>0 DEF NextGeneration, Counted
<1>1. GenTypeOK'
  BY <1>n DEF GenTypeOK, Labels
<1>2. Route'
  BY DEF Route, RouteOf, GenTypeOK
<1>3. OneSaves'
  BY DEF OneSaves, GenTypeOK, Writers
<1>4. Counted'
  <2>1. CASE /\ pc' = [pc EXCEPT ![w] = "blob"]
             /\ cfg' = [cfg EXCEPT !.gen =
                          NextGeneration(flash, cfg.coef, cfg.gen)]
    <3>1. /\ cfg'.gen = NextGeneration(flash, cfg.coef, cfg.gen)
          /\ cfg'.coef = cfg.coef /\ UNCHANGED flash
      BY <2>1 DEF GenTypeOK
    <3> QED BY <1>n, <3>1 DEF Counted
  <2>2. CASE pc' = [pc EXCEPT ![w] = "tableBlob"] /\ UNCHANGED cfg
    BY <2>2, CountedElsewhere DEF GenTypeOK
  <2> QED BY <2>1, <2>2
<1> QED BY <1>1, <1>2, <1>3, <1>4

\* The coefficients are written as counted, or not at all.
LEMMA WriteBlobNumbers ==
  ASSUME Numbering, crossed' \in BOOLEAN, NEW w \in Writers, WriteBlob(w)
  PROVE  /\ Numbering'
         /\ flash' = flash \/ (Fresh(flash, flash') /\ flash'.coef = cfg.coef)
<1> USE GenerationAssumption DEF Numbering
<1>0. /\ pc[w] = "blob" /\ pc' = [pc EXCEPT ![w] = "tableBlob"]
      /\ UNCHANGED <<cfg, hw, mtx, arg>>
      /\ flash' = flash \/ flash' = Written(flash, cfg.coef, cfg.gen)
  BY DEF WriteBlob, Goto, memory
<1>1. /\ flash \in Flash /\ cfg.coef \in Corrections /\ cfg.gen \in Nat
      /\ flash.gen \in Nat
  BY DEF GenTypeOK, Flash
<1>2. \/ flash' = flash
      \/ /\ Fresh(flash, flash') /\ flash'.coef = cfg.coef
         /\ flash'.gen = cfg.gen
  <2>1. CASE Stored(flash) /\ cfg.coef = flash.coef
    <3>1. cfg.gen = flash.gen
      BY <1>0, <2>1 DEF Counted, NextGeneration
    <3> QED BY <1>0, <1>1, <2>1, <3>1, WrittenIsFresh
  <2>2. CASE ~(Stored(flash) /\ cfg.coef = flash.coef)
    <3>1. LoadedGen(flash) < cfg.gen
      BY <1>0, <1>1, <2>2, LoadedTypes DEF Counted, NextGeneration
    <3> QED BY <1>0, <1>1, <3>1, WrittenIsFresh
  <2> QED BY <2>1, <2>2
<1>3. flash' \in Flash /\ LoadedGen(flash)' <= cfg.gen
  <2> DEFINE g == flash'
  <2>1. CASE g = flash
    BY <1>1, <2>1 DEF Counted, LoadedGen, Stored
  <2>2. CASE Fresh(flash, g) /\ g.gen = cfg.gen
    <3>1. g \in Flash /\ Stored(g)
      BY <2>2 DEF Fresh
    <3>2. LoadedGen(g) = g.gen
      BY <3>1 DEF LoadedGen
    <3>3. LoadedGen(flash)' = LoadedGen(g)
      BY DEF LoadedGen, Stored
    <3> QED BY <1>1, <2>2, <3>1, <3>2, <3>3
  <2> QED BY <1>2, <2>1, <2>2
<1>4. GenTypeOK'
  BY <1>0, <1>3 DEF GenTypeOK, Labels
<1>5. Route'
  BY <1>0 DEF Route, RouteOf, GenTypeOK
<1>6. OneSaves'
  BY <1>0 DEF OneSaves, GenTypeOK
<1>7. Counted'
  <2>1. \A v \in Writers : pc'[v] # "blob"
    BY <1>0 DEF OneSaves, GenTypeOK
  <2> QED BY <1>0, <1>3, <2>1 DEF Counted
<1> QED BY <1>2, <1>4, <1>5, <1>6, <1>7

\* The table is written, then its stamp.
LEMMA WriteTableNumbers ==
  ASSUME Numbering, crossed' \in BOOLEAN, NEW w \in Writers,
         WriteTable(w) \/ WriteTableStamp(w)
  PROVE  Numbering'
<1> USE GenerationAssumption DEF Numbering
<1>0. /\ pc[w] \in {"tableBlob", "tableStamp"} /\ UNCHANGED <<cfg, hw>>
      /\ \/ flash' = flash
         \/ flash' = [flash EXCEPT !.table = cfg.table]
         \/ flash' = [flash EXCEPT !.tableGen = cfg.tableGen]
      /\ \/ Saved(w)
         \/ pc' = [pc EXCEPT ![w] = "tableStamp"] /\ UNCHANGED <<mtx, arg>>
  BY DEF WriteTable, WriteTableStamp, memory
<1>1. /\ flash' \in Flash /\ flash'.coef = flash.coef
      /\ flash'.legacy = flash.legacy /\ flash'.gen = flash.gen
  BY <1>0 DEF GenTypeOK, Flash
<1>2. /\ pc' \in [Writers -> Labels]
      /\ arg' \in [Writers -> [call : Calls, basis : Bases \cup {Blank},
                                keep : SUBSET Corrections]]
      /\ mtx' \in Writers \cup {None}
      /\ Route'
      /\ \A v \in Writers : v # w => pc'[v] = pc[v]
      /\ pc'[w] \in {"idle", "zero"} \/ (pc'[w] = "tableStamp" /\ mtx' = mtx)
  <2>1. CASE Saved(w)
    BY <1>0, <2>1, SavedReturns DEF Saved
  <2>2. CASE pc' = [pc EXCEPT ![w] = "tableStamp"] /\ UNCHANGED <<mtx, arg>>
    BY <1>0, <2>2 DEF GenTypeOK, Labels, Route, RouteOf
  <2> QED BY <1>0, <2>1, <2>2
<1>3. GenTypeOK'
  BY <1>0, <1>1, <1>2 DEF GenTypeOK
<1>4. OneSaves'
  <2>1. mtx = w /\ \A v \in Writers : v # w =>
                     pc'[v] \notin {"blob", "tableBlob", "tableStamp"}
    BY <1>0, <1>2 DEF OneSaves
  <2> QED BY <1>2, <2>1 DEF OneSaves
<1>5. Counted'
  <2>1. \A v \in Writers : pc'[v] = "blob" => pc[v] = "blob"
    BY <1>2
  <2> QED BY <1>0, <1>1, <2>1, CountedElsewhere
<1> QED BY <1>2, <1>3, <1>4, <1>5

\* The zero and the output correction are measured, used and stored.
LEMMA MeasuringNumbers ==
  ASSUME Numbering, crossed' \in BOOLEAN, NEW w \in Writers,
         Measure(w) \/ SetZero(w) \/ WriteZeroStamp(w) \/ WriteOut(w)
  PROVE  Numbering'
<1> USE GenerationAssumption DEF Numbering
<1> DEFINE z == arg[w].keep \cup {arg[w].basis}
<1>0. /\ pc[w] \in {"measure", "zero", "zeroStamp", "outWrite"}
      /\ UNCHANGED <<cfg, mtx>>
      /\ hw' = hw \/ (hw' = [hw EXCEPT !.zero = z] /\ pc[w] = "zero")
      /\ \/ flash' = flash
         \/ flash' = [flash EXCEPT !.zero = z] /\ pc[w] = "zero"
         \/ flash' = [flash EXCEPT !.zeroGen = cfg.gen]
         \/ /\ flash' = [flash EXCEPT !.out = arg[w].basis, !.outGen = cfg.gen]
            /\ pc[w] = "outWrite"
      /\ \/ Return(w)
         \/ pc[w] = "zero" /\ pc' = [pc EXCEPT ![w] = "zeroStamp"] /\ UNCHANGED arg
         \/ /\ pc[w] = "measure"
            /\ pc' = [pc EXCEPT ![w] = IF arg[w].call = "zero" THEN "zero"
                                       ELSE "outWrite"]
            /\ arg' = [arg EXCEPT ![w].basis = hw.coef]
  <2>1. CASE SetZero(w)
    <3>1. hw' = [hw EXCEPT !.zero = z] /\ hw'.zero = z
      BY <2>1 DEF SetZero, GenTypeOK
    <3> QED BY <2>1, <3>1 DEF SetZero
  <2>2. CASE Measure(w) \/ WriteZeroStamp(w) \/ WriteOut(w)
    BY <2>2 DEF Measure, WriteZeroStamp, WriteOut, memory
  <2> QED BY <2>1, <2>2
<1>1. /\ pc[w] \in {"zero", "outWrite"} => arg[w].basis \in Corrections
      /\ pc[w] = "zero" => z \in SUBSET Corrections
  <2>1. arg[w].keep \in SUBSET Corrections
    BY DEF GenTypeOK
  <2> QED BY <2>1 DEF Route, RouteOf
<1> HIDE DEF z
<1>2. /\ flash' \in Flash /\ flash'.coef = flash.coef
      /\ flash'.legacy = flash.legacy /\ flash'.gen = flash.gen
  <2>1. flash \in Flash /\ cfg.gen \in Nat
    BY DEF GenTypeOK
  <2>2. pc[w] \in {"zero", "outWrite"} => arg[w].basis \in Bases
    BY <1>1 DEF Bases
  <2>3. CASE flash' = flash
    BY <2>1, <2>3
  <2>4. CASE flash' = [flash EXCEPT !.zero = z] /\ pc[w] = "zero"
    BY <1>1, <2>1, <2>4 DEF Flash
  <2>5. CASE flash' = [flash EXCEPT !.zeroGen = cfg.gen]
    BY <2>1, <2>5 DEF Flash
  <2>6. CASE /\ flash' = [flash EXCEPT !.out = arg[w].basis, !.outGen = cfg.gen]
             /\ pc[w] = "outWrite"
    BY <2>1, <2>2, <2>6 DEF Flash
  <2> QED BY <1>0, <2>3, <2>4, <2>5, <2>6
<1>3. hw' \in [coef : Corrections, zero : SUBSET Corrections]
  BY <1>0, <1>1 DEF GenTypeOK
<1>4. /\ pc' \in [Writers -> Labels]
      /\ arg' \in [Writers -> [call : Calls, basis : Bases \cup {Blank},
                                keep : SUBSET Corrections]]
      /\ Route'
      /\ \A v \in Writers : v # w => pc'[v] = pc[v]
      /\ pc'[w] \in {"idle", "zero", "zeroStamp", "outWrite"}
  <2>1. CASE Return(w)
    BY <2>1, Returned
  <2>2. CASE /\ pc[w] = "zero" /\ pc' = [pc EXCEPT ![w] = "zeroStamp"]
             /\ UNCHANGED arg
    BY <2>2 DEF GenTypeOK, Labels, Route, RouteOf
  <2>3. CASE /\ pc[w] = "measure"
             /\ pc' = [pc EXCEPT ![w] = IF arg[w].call = "zero" THEN "zero"
                                        ELSE "outWrite"]
             /\ arg' = [arg EXCEPT ![w].basis = hw.coef]
    BY <2>3 DEF GenTypeOK, Labels, Bases, Route, RouteOf
  <2> QED BY <1>0, <2>1, <2>2, <2>3
<1>5. GenTypeOK'
  BY <1>0, <1>2, <1>3, <1>4 DEF GenTypeOK
<1>6. OneSaves'
  BY <1>0, <1>4 DEF OneSaves
<1>7. Counted'
  <2>1. \A v \in Writers : pc'[v] = "blob" => pc[v] = "blob"
    BY <1>4
  <2> QED BY <1>0, <1>2, <2>1, CountedElsewhere
<1> QED BY <1>4, <1>5, <1>6, <1>7

\* A call begins.
LEMMA CallsNumber ==
  ASSUME Numbering, crossed' \in BOOLEAN,
         \/ UploadTable \/ SaveSetting \/ RunCalibration
         \/ \E w \in Writers : Recalibrate(w)
  PROVE  /\ Numbering' /\ UNCHANGED <<flash, cfg, hw>>
         /\ \A v \in Writers : pc'[v] # pc[v] =>
              /\ pc[v] = "idle"
              /\ pc'[v] \in {"use", "stampTable", "save", "measure"}
              /\ pc'[v] = "use" \/ arg'[v].keep = {}
         /\ \A v \in Writers : \/ arg'[v] = arg[v]
                               \/ pc[v] = "idle" /\ pc'[v] # "idle"
                               \/ Recalibrating(v) /\ Recalibrating(Other(v))'
                                  /\ arg'[v].keep = arg[v].keep
                                  /\ arg'[v].call = "coeffs"
         /\ pc'["httpd"] = "stampTable" /\ pc["httpd"] # "stampTable" =>
              arg'["httpd"].basis \in {hw.coef, Blank}
<1> USE GenerationAssumption DEF Numbering
<1>1. CASE \E w \in Writers : Recalibrate(w)
  <2>0. PICK w \in Writers : Recalibrate(w)
    BY <1>1
  <2>u. /\ pc[w] = "idle" /\ pc' = [pc EXCEPT ![w] = "use"]
        /\ UNCHANGED <<flash, cfg, hw, mtx>>
    BY <2>0 DEF Recalibrate, Goto, memory
  <2>p. PICK c, mixed \in Corrections, keep \in {{}, hw.zero} :
          /\ keep # {} => w = "httpd" /\ hw.coef \in keep
          /\ arg' = [v \in Writers |->
               IF v = w THEN [call |-> "coeffs", basis |-> c, keep |-> keep]
               ELSE IF Recalibrating(v) THEN [arg[v] EXCEPT !.basis = mixed]
               ELSE arg[v]]
    BY <2>0 DEF Recalibrate
  <2>1. /\ pc[w] = "idle" /\ pc' = [pc EXCEPT ![w] = "use"]
        /\ UNCHANGED <<flash, cfg, hw, mtx>>
        /\ arg' = [v \in Writers |->
             IF v = w THEN [call |-> "coeffs", basis |-> c, keep |-> keep]
             ELSE IF Recalibrating(v) THEN [arg[v] EXCEPT !.basis = mixed]
             ELSE arg[v]]
    BY <2>u, <2>p
  <2>2. /\ pc'[w] = "use" /\ arg'[w].call = "coeffs" /\ arg'[w].basis = c
        /\ arg'[w].keep = keep
        /\ \A v \in Writers : v # w =>
             /\ pc'[v] = pc[v]
             /\ \/ arg'[v] = arg[v]
                \/ /\ Recalibrating(v) /\ arg'[v].call = "coeffs"
                   /\ arg'[v].basis = mixed /\ arg'[v].keep = arg[v].keep
    BY <2>1 DEF GenTypeOK, Recalibrating
  <2>3. GenTypeOK'
    <3> DEFINE Arg == [call : Calls, basis : Bases \cup {Blank}, keep : SUBSET Corrections]
    <3>1. /\ [call |-> "coeffs", basis |-> c, keep |-> keep] \in Arg
          /\ \A v \in Writers : arg[v] \in Arg
      BY DEF GenTypeOK, Calls, Bases
    <3>2. \A v \in Writers : [arg[v] EXCEPT !.basis = mixed] \in Arg
      BY <3>1 DEF Bases
    <3>3. arg' \in [Writers -> Arg]
      <4> HIDE DEF Arg
      <4> QED BY <2>1, <3>1, <3>2
    <3> QED BY <2>1, <3>3 DEF GenTypeOK, Labels
  <2>4. Route'
    <3>1. RouteOf(w)'
      BY <2>2 DEF RouteOf
    <3>2. ASSUME NEW v \in Writers, v # w
          PROVE  RouteOf(v)'
      <4>1. RouteOf(v)
        BY DEF Route
      <4>2. CASE arg'[v] = arg[v]
        BY <2>2, <3>2, <4>1, <4>2 DEF RouteOf
      <4>3. CASE /\ Recalibrating(v) /\ arg'[v].call = "coeffs"
                 /\ arg'[v].basis = mixed /\ arg'[v].keep = arg[v].keep
        BY <2>2, <3>2, <4>1, <4>3 DEF RouteOf, Recalibrating, Busy
      <4> QED BY <2>2, <3>2, <4>2, <4>3
    <3> QED BY <3>1, <3>2 DEF Route
  <2>5. OneSaves'
    BY <2>1, <2>2 DEF OneSaves
  <2>6. Counted'
    <3>1. \A v \in Writers : pc'[v] = "blob" => pc[v] = "blob"
      BY <2>2
    <3> QED BY <2>1, <3>1, CountedElsewhere
  <2>7. \A v \in Writers : \/ arg'[v] = arg[v]
                           \/ pc[v] = "idle" /\ pc'[v] # "idle"
                           \/ Recalibrating(v) /\ Recalibrating(Other(v))'
                              /\ arg'[v].keep = arg[v].keep
                              /\ arg'[v].call = "coeffs"
    <3> SUFFICES ASSUME NEW v \in Writers, v # w, arg'[v] # arg[v]
                 PROVE  Recalibrating(v) /\ Recalibrating(Other(v))'
                        /\ arg'[v].keep = arg[v].keep
                        /\ arg'[v].call = "coeffs"
      BY <2>1, <2>2
    <3>1. Other(v) = w
      BY TwoWriters
    <3>2. Recalibrating(w)'
      BY <2>2 DEF Recalibrating, Busy
    <3> QED BY <2>2, <3>1, <3>2
  <2>8. pc'["httpd"] = "stampTable" => pc["httpd"] = "stampTable"
    BY <2>2 DEF Writers
  <2> QED BY <2>1, <2>2, <2>3, <2>4, <2>5, <2>6, <2>7, <2>8
<1>2. CASE UploadTable \/ SaveSetting \/ RunCalibration
  <2>1. PICK w \in Writers, to \in Labels, call \in Calls,
             basis \in Bases \cup {Blank} :
          /\ Call(w, to, call, basis, {})
          /\ \/ /\ to = "stampTable" /\ call = "table" /\ w = "httpd"
                /\ basis \in {hw.coef, Blank}
             \/ to = "save" /\ call = "config" /\ w = "httpd"
             \/ to = "measure" /\ call \in {"zero", "camera"} /\ w = "worker"
    <3>1. hw.coef \in Bases
      BY DEF GenTypeOK, Bases
    <3>2. CASE UploadTable
      BY <3>1, <3>2 DEF UploadTable, Writers, Labels, Calls
    <3>3. CASE SaveSetting
      BY <3>3 DEF SaveSetting, Writers, Labels, Calls, Bases
    <3>4. CASE RunCalibration
      BY <3>4 DEF RunCalibration, Writers, Labels, Calls, Bases
    <3> QED BY <1>2, <3>2, <3>3, <3>4
  <2>2. /\ pc[w] = "idle" /\ pc'[w] = to /\ arg'[w].call = call
        /\ arg'[w].basis = basis /\ arg'[w].keep = {}
        /\ \A v \in Writers : v # w => pc'[v] = pc[v] /\ arg'[v] = arg[v]
        /\ UNCHANGED <<flash, cfg, hw, mtx>>
    BY <2>1 DEF Call, Goto, memory, GenTypeOK
  <2>3. GenTypeOK'
    BY <2>1, <2>2 DEF Call, Goto, GenTypeOK
  <2>4. Route'
    <3>1. RouteOf(w)'
      BY <2>1, <2>2 DEF RouteOf, GenTypeOK, Tables
    <3>2. ASSUME NEW v \in Writers, v # w
          PROVE  RouteOf(v)'
      BY <2>2, <3>2 DEF Route, RouteOf
    <3> QED BY <3>1, <3>2 DEF Route
  <2>5. OneSaves'
    BY <2>1, <2>2 DEF OneSaves
  <2>6. Counted'
    <3>1. \A v \in Writers : pc'[v] = "blob" => pc[v] = "blob"
      BY <2>1, <2>2
    <3> QED BY <2>2, <3>1, CountedElsewhere
  <2> QED BY <2>1, <2>2, <2>3, <2>4, <2>5, <2>6 DEF Writers
<1> QED BY <1>1, <1>2

\* What a boot reads into memory.
LEMMA BootLoads ==
  ASSUME NEW f \in Flash, NEW b \in Boots(f)
  PROVE  /\ LoadedCfg(f, b.gen) \in
              [coef : Corrections, gen : Nat, table : Tables, tableGen : Nat]
         /\ LoadedHw(f) \in [coef : Corrections, zero : SUBSET Corrections]
BY LoadedTypes, BootCounts DEF LoadedCfg, LoadedHw, Flash

\* The first boot counts, too.
LEMMA InitNumbers == GenInit => Numbering
<1> SUFFICES ASSUME GenInit PROVE Numbering
  OBVIOUS
<1> USE GenerationAssumption
<1>0. PICK f \in FirstFlash : \E b \in Boots(f) :
        /\ flash = b.flash /\ cfg = LoadedCfg(f, b.gen) /\ hw = LoadedHw(f)
  BY DEF GenInit
<1>1. PICK b \in Boots(f) :
        /\ flash = b.flash /\ cfg = LoadedCfg(f, b.gen) /\ hw = LoadedHw(f)
  BY <1>0
<1>2. f \in Flash
  BY <1>0 DEF FirstFlash, Flash, Bases
<1>3. /\ b.flash \in Flash /\ b.gen \in Nat /\ LoadedGen(b.flash) <= b.gen
      /\ cfg.gen = b.gen
  BY <1>1, <1>2, BootCounts DEF LoadedCfg
<1>4. GenTypeOK
  BY <1>1, <1>2, <1>3, BootLoads
     DEF GenInit, GenTypeOK, NoCall, Labels, Calls, Bases
<1>5. \A w \in Writers : pc[w] = "idle" /\ arg[w] = NoCall
  BY DEF GenInit
<1>6. Route /\ OneSaves
  <2>1. \A w \in Writers : arg[w].call = "none" /\ arg[w].keep = {}
    BY <1>5 DEF NoCall
  <2> QED BY <1>5, <2>1 DEF Route, RouteOf, OneSaves
<1>7. Counted
  BY <1>1, <1>3, <1>5 DEF Counted
<1> QED BY <1>4, <1>6, <1>7 DEF Numbering

\* So does every other one.
LEMMA RestartNumbers ==
  ASSUME Numbering, Restart
  PROVE  Numbering'
<1> USE GenerationAssumption
<1>0. flash \in Flash /\ crossed' \in BOOLEAN
  BY DEF Numbering, GenTypeOK, Restart
<1>1. PICK b \in Boots(flash) :
        /\ flash' = b.flash /\ cfg' = LoadedCfg(flash, b.gen)
        /\ hw' = LoadedHw(flash)
  BY DEF Restart
<1>2. /\ b.flash \in Flash /\ b.gen \in Nat /\ LoadedGen(b.flash) <= b.gen
      /\ cfg'.gen = b.gen
  BY <1>0, <1>1, BootCounts DEF LoadedCfg
<1>3. GenTypeOK'
  BY <1>0, <1>1, <1>2, BootLoads
     DEF Restart, GenTypeOK, NoCall, Labels, Calls, Bases
<1>4. \A w \in Writers : pc'[w] = "idle" /\ arg'[w] = NoCall
  BY DEF Restart
<1>5. Route' /\ OneSaves'
  <2>1. \A w \in Writers : arg'[w].call = "none" /\ arg'[w].keep = {}
    BY <1>4 DEF NoCall
  <2> QED BY <1>4, <2>1 DEF Route, RouteOf, OneSaves
<1>6. Counted'
  <2>1. LoadedGen(flash)' = LoadedGen(b.flash)
    BY <1>1 DEF LoadedGen, Stored
  <2> QED BY <1>1, <1>2, <1>4, <2>1 DEF Counted
<1> QED BY <1>3, <1>5, <1>6 DEF Numbering

\* Counting goes on whatever the two tasks do and whatever fails.
LEMMA NumberingInvariance == GenSpec => []Numbering
<1>1. Numbering /\ [GenNext]_genVars => Numbering'
  <2> SUFFICES ASSUME Numbering, [GenNext]_genVars
               PROVE  Numbering'
    OBVIOUS
  <2>1. CASE Restart
    BY <2>1, RestartNumbers
  <2>2. CASE GenNext /\ ~Restart
    <3>1. crossed' \in BOOLEAN
      BY <2>2 DEF GenNext, Numbering, GenTypeOK, Crossing
    <3>2. CASE \/ UploadTable \/ SaveSetting \/ RunCalibration
               \/ \E w \in Writers : Recalibrate(w)
      BY <3>1, <3>2, CallsNumber
    <3>3. ASSUME NEW w \in Writers, Step(w)
          PROVE  Numbering'
      BY <3>1, <3>3, SettingNumbers, BeginSaveNumbers, WriteBlobNumbers,
         WriteTableNumbers, MeasuringNumbers DEF Step
    <3> QED BY <2>2, <3>2, <3>3 DEF GenNext
  <2>3. CASE UNCHANGED genVars
    BY <2>3 DEF genVars, memory, calls, Numbering, GenTypeOK, Route, RouteOf,
       OneSaves, Counted
  <2> QED BY <2>1, <2>2, <2>3
<1> QED BY <1>1, InitNumbers, PTL DEF GenSpec

\* What flash and memory hold keeps its type.
THEOREM GenTypeCorrect == GenSpec => []GenTypeOK
<1>1. Numbering => GenTypeOK
  BY DEF Numbering
<1> QED BY <1>1, NumberingInvariance, PTL

\* No generation is ever given to a second set of coefficients, whatever fails
\* and however the two tasks overlap: the property of the run.
THEOREM NoGenerationTwice == GenSpec => GenerationsAreNew
<1> DEFINE New == /\ flash'.gen >= flash.gen
                  /\ flash'.coef # flash.coef => flash'.gen > flash.gen
<1>1. Numbering /\ [GenNext]_genVars =>
        [Stored(flash) => New]_flash
  <2> SUFFICES ASSUME Numbering, [GenNext]_genVars, flash' # flash,
                      Stored(flash)
               PROVE  New
    OBVIOUS
  <2>0. flash \in Flash /\ flash.gen \in Nat /\ LoadedGen(flash) = flash.gen
    BY LoadedTypes DEF Numbering, GenTypeOK, Flash
  <2>1. CASE Restart
    BY <2>0, <2>1, BootCounts DEF Restart
  <2>2. ASSUME NEW w \in Writers, WriteBlob(w), crossed' \in BOOLEAN
        PROVE  New
    BY <2>0, <2>2, WriteBlobNumbers DEF Fresh, Flash
  <2>3. ASSUME NEW w \in Writers,
               \/ WriteTable(w) \/ WriteTableStamp(w) \/ SetZero(w)
               \/ WriteZeroStamp(w) \/ WriteOut(w)
        PROVE  New
    <3>1. flash'.gen = flash.gen /\ flash'.coef = flash.coef
      BY <2>0, <2>3 DEF WriteTable, WriteTableStamp, SetZero, WriteZeroStamp,
         WriteOut, Flash
    <3> QED BY <2>0, <3>1
  <2>4. CASE GenNext /\ ~Restart
    <3>1. crossed' \in BOOLEAN
      BY <2>4 DEF GenNext, Numbering, GenTypeOK, Crossing
    <3>2. CASE \/ UploadTable \/ SaveSetting \/ RunCalibration
               \/ \E w \in Writers : Recalibrate(w)
      BY <3>1, <3>2, CallsNumber
    <3>3. ASSUME NEW w \in Writers, Step(w)
          PROVE  New
      <4>1. \/ WriteBlob(w) \/ WriteTable(w) \/ WriteTableStamp(w)
            \/ SetZero(w) \/ WriteZeroStamp(w) \/ WriteOut(w)
        BY <3>3 DEF Step, UseCoefficients, SetCoefficients, SetTheRest,
           StampTable, SetTable, BeginSave, Measure
      <4> QED BY <2>2, <2>3, <3>1, <4>1
    <3> QED BY <2>4, <3>2, <3>3 DEF GenNext
  <2>5. CASE UNCHANGED genVars
    BY <2>5 DEF genVars
  <2> QED BY <2>1, <2>4, <2>5
<1> QED BY <1>1, NumberingInvariance, PTL DEF GenSpec, GenerationsAreNew

------------------------------------------------------------------------------
(* CalGeneration: what the stamps say, as long as nothing has crossed.      *)

\* No stamp is ahead of the stored generation, so a new one is nobody's; the
\* table's stamp in flash is not ahead of the one in memory.
StampsInOrder ==
  /\ flash.tableGen <= cfg.tableGen /\ cfg.tableGen <= LoadedGen(flash)
  /\ flash.zeroGen <= LoadedGen(flash) /\ flash.outGen <= LoadedGen(flash)

\* The table in memory deserves its stamp, unless it is just being set; a
\* table about to be stamped in flash is the one in memory.
TableInHand ==
  /\ Stored(flash) /\ pc["httpd"] # "setTable" /\ cfg.tableGen = flash.gen =>
       cfg.table \in {Blank, flash.coef}
  /\ pc["httpd"] \in {"stampTable", "setTable"} =>
       arg["httpd"].basis \in {Blank, flash.coef}
  /\ \A w \in Writers : pc[w] = "tableStamp" => flash.table = cfg.table

\* What is about to be stored as a zero or an output correction was measured
\* against the stored correction, and a zero that is kept belongs to the
\* correction in use.
MeasuredBy(w) ==
  /\ pc[w] \in {"zero", "zeroStamp", "outWrite"} /\ arg[w].keep = {} =>
       arg[w].basis = flash.coef
  /\ arg[w].keep # {} /\ pc[w] # "use" => arg[w].basis = hw.coef
  /\ pc[w] = "zeroStamp" => arg[w].basis \in flash.zero

Trust ==
  /\ ~Crossing
  /\ StampsInOrder /\ TableInHand /\ BootTrustsOnlyItsOwn
  /\ \A w \in Writers : MeasuredBy(w)

\* A task with an artefact in hand is not disturbed, and finds memory and flash
\* in agreement, except for a change of its own that is not finished.
LEMMA Undisturbed ==
  ASSUME ~Crossing, NEW w \in Writers, Taking(w)
  PROVE  /\ ~Recalibrating(Other(w))
         /\ Settled \/ (Recalibrating(w) /\ pc[w] \notin {"zero", "zeroStamp"})
BY DEF Crossing

\* Who has an artefact in hand.
LEMMA WhoTakes ==
  ASSUME Route, NEW w \in Writers
  PROVE  /\ arg[w].keep # {} => Taking(w) /\ Recalibrating(w)
         /\ arg[w].call \in {"table", "zero", "camera"} =>
              Taking(w) /\ ~Recalibrating(w)
         /\ Recalibrating(w) \/ w = "httpd"
              \/ pc[w] \notin {"save", "blob", "tableBlob", "tableStamp"}
<1>1. RouteOf(w)
  BY DEF Route
<1>2. pc[w] = "idle" => arg[w].call = "none" /\ arg[w].keep = {}
  BY <1>1 DEF RouteOf, NoCall
<1> QED BY <1>1, <1>2 DEF RouteOf, Taking, Recalibrating, Busy

\* The numbers compared.
LEMMA Numbers ==
  ASSUME GenTypeOK
  PROVE  /\ flash.gen \in Nat /\ flash.tableGen \in Nat /\ flash.zeroGen \in Nat
         /\ flash.outGen \in Nat /\ cfg.gen \in Nat /\ cfg.tableGen \in Nat
         /\ LoadedGen(flash) \in Nat
         /\ Stored(flash) => LoadedGen(flash) = flash.gen
BY LoadedTypes DEF GenTypeOK, Flash

\* While an artefact is measured, coefficients are taken into use by nobody
\* else, and what Configuration holds of them does not matter.
LEMMA CoefficientsTrust ==
  ASSUME Numbering, Trust, ~Crossing', NEW w \in Writers,
         \/ UseCoefficients(w) \/ SetCoefficients(w) \/ SetTheRest(w)
         \/ BeginSave(w)
  PROVE  Trust'
<1> USE DEF Numbering, Trust
<1>1. /\ pc[w] \in {"use", "set", "setRest", "save"} /\ UNCHANGED <<flash, arg>>
      /\ \A v \in Writers : v # w => pc'[v] = pc[v]
      /\ pc'[w] \in {"set", "setRest", "save", "blob", "tableBlob"}
      /\ pc[w] = "use" \/ pc'[w] # "set"
      /\ cfg'.table = cfg.table /\ cfg'.tableGen = cfg.tableGen
  BY DEF UseCoefficients, SetCoefficients, SetTheRest, BeginSave, Goto,
     GenTypeOK
<1>2. pc[w] = "use" => hw'.coef = arg[w].basis /\ Recalibrating(w)
  BY DEF UseCoefficients, SetCoefficients, SetTheRest, BeginSave, Goto,
     GenTypeOK, Route, RouteOf, Recalibrating, Busy
<1>3. pc[w] # "use" => UNCHANGED hw
  BY DEF UseCoefficients, SetCoefficients, SetTheRest, BeginSave, Goto
<1>4. StampsInOrder'
  BY <1>1 DEF StampsInOrder, LoadedGen, Stored
<1>5. TableInHand'
  BY <1>1 DEF TableInHand, Stored, Writers
<1>6. BootTrustsOnlyItsOwn'
  BY <1>1 DEF BootTrustsOnlyItsOwn, OwnTable, OwnZero, OwnOut, Stored
<1>7. ASSUME NEW v \in Writers
      PROVE  MeasuredBy(v)'
  <2>1. MeasuredBy(v)
    OBVIOUS
  <2>2. CASE v = w
    BY <1>1, <1>2, <1>3, <2>1, <2>2 DEF MeasuredBy
  <2>3. CASE v # w
    <3>1. arg[v].keep # {} => pc[w] # "use"
      BY <1>2, <2>3, Undisturbed, WhoTakes, TwoWriters
    <3> QED BY <1>1, <1>3, <2>1, <2>3, <3>1 DEF MeasuredBy
  <2> QED BY <2>2, <2>3
<1> QED BY <1>4, <1>5, <1>6, <1>7

\* The table in memory is stamped and replaced with memory and flash in
\* agreement.
LEMMA TableTrust ==
  ASSUME Numbering, Trust, ~Crossing', NEW w \in Writers,
         StampTable(w) \/ SetTable(w)
  PROVE  Trust'
<1> USE DEF Numbering, Trust
<1>1. /\ w = "httpd" /\ pc[w] \in {"stampTable", "setTable"}
      /\ UNCHANGED <<flash, hw, arg>>
      /\ \A v \in Writers : v # w => pc'[v] = pc[v]
      /\ \/ /\ pc'[w] = "setTable"
            /\ cfg'.tableGen = cfg.gen /\ cfg'.table = cfg.table
         \/ /\ pc'[w] = "save" /\ pc[w] = "setTable"
            /\ cfg'.tableGen = cfg.tableGen
            /\ cfg'.table = arg[w].basis
  BY DEF StampTable, SetTable, Goto, GenTypeOK, Route, RouteOf
<1>2. arg[w].call = "table"
  BY <1>1 DEF Route, RouteOf
<1>3. Settled /\ ~Recalibrating(Other(w))
  BY <1>2, Undisturbed, WhoTakes
<1>4. /\ Stored(flash) /\ LoadedGen(flash) = flash.gen /\ cfg.gen = flash.gen
      /\ flash.tableGen <= flash.gen
  BY <1>3, Numbers DEF Settled, StampsInOrder
<1>5. StampsInOrder'
  BY <1>1, <1>4, Numbers DEF StampsInOrder, LoadedGen, Stored
<1>6. TableInHand'
  <2>1. ASSUME NEW v \in Writers, pc'[v] = "tableStamp"
        PROVE  FALSE
    <3>1. v = Other(w) /\ pc[v] = "tableStamp" /\ v # "httpd"
      BY <1>1, <2>1, TwoWriters
    <3> QED BY <1>3, <3>1, WhoTakes
  <2> QED BY <1>1, <2>1 DEF TableInHand, Stored, Writers
<1>7. BootTrustsOnlyItsOwn'
  BY <1>1 DEF BootTrustsOnlyItsOwn, OwnTable, OwnZero, OwnOut, Stored
<1>8. \A v \in Writers : MeasuredBy(v)'
  <2>1. arg[w].keep = {}
    BY <1>2 DEF Route, RouteOf
  <2> QED BY <1>1, <2>1 DEF MeasuredBy
<1> QED BY <1>5, <1>6, <1>7, <1>8

\* New coefficients leave every stamp behind.
LEMMA WriteBlobTrust ==
  ASSUME Numbering, Trust, ~Crossing', crossed' \in BOOLEAN,
         NEW w \in Writers, WriteBlob(w)
  PROVE  Trust'
<1> USE DEF Numbering, Trust
<1>1. /\ pc[w] = "blob" /\ UNCHANGED <<cfg, hw, arg>>
      /\ pc'[w] = "tableBlob"
      /\ \A v \in Writers : v # w => pc'[v] = pc[v]
  BY DEF WriteBlob, Goto, memory, GenTypeOK
<1>2. CASE flash' = flash
  <2>1. StampsInOrder' /\ TableInHand'
    BY <1>1, <1>2 DEF StampsInOrder, TableInHand, LoadedGen, Stored, Writers
  <2>2. BootTrustsOnlyItsOwn'
    BY <1>2 DEF BootTrustsOnlyItsOwn, OwnTable, OwnZero, OwnOut, Stored
  <2>3. \A v \in Writers : MeasuredBy(v)'
    BY <1>1, <1>2 DEF MeasuredBy
  <2> QED BY <2>1, <2>2, <2>3
<1>3. CASE flash' # flash
  <2> DEFINE g == flash'
  <2>1. Fresh(flash, g) /\ g.coef = cfg.coef
    BY <1>3, WriteBlobNumbers
  <2>2. /\ Stored(g) /\ g.gen \in Nat /\ LoadedGen(flash) < g.gen
        /\ g.table = flash.table /\ g.tableGen = flash.tableGen
        /\ g.zero = flash.zero /\ g.zeroGen = flash.zeroGen
        /\ g.out = flash.out /\ g.outGen = flash.outGen
    BY <2>1 DEF Fresh, Flash
  <2>3. LoadedGen(flash)' = g.gen /\ Stored(flash)'
    BY <2>2 DEF LoadedGen, Stored
  <2>4. Settled => Stored(flash) /\ flash.coef = cfg.coef /\ g.gen = flash.gen
    <3>1. Settled => NextGeneration(flash, cfg.coef, cfg.gen) = flash.gen
      BY DEF Settled, NextGeneration
    <3>2. g.gen = cfg.gen
      <4>1. g = Written(flash, cfg.coef, cfg.gen)
        BY <1>3 DEF WriteBlob
      <4>2. flash \in Flash /\ cfg.coef \in Corrections /\ cfg.gen \in Nat
        BY DEF GenTypeOK
      <4>3. Written(flash, cfg.coef, cfg.gen).gen = cfg.gen
        BY <4>2, WrittenIsFresh
      <4> HIDE DEF g
      <4> QED BY <4>1, <4>3
    <3> QED BY <3>2 DEF Settled
  <2>5. ~Settled
    BY <2>2, <2>4, Numbers
  <2>6. /\ flash'.tableGen < flash'.gen /\ flash'.zeroGen < flash'.gen
        /\ flash'.outGen < flash'.gen /\ cfg'.tableGen < flash'.gen
    <3>1. /\ flash.tableGen < g.gen /\ flash.zeroGen < g.gen
          /\ flash.outGen < g.gen /\ cfg.tableGen < g.gen
      BY <2>2, Numbers DEF StampsInOrder
    <3> QED BY <1>1, <2>2, <3>1
  <2>7. StampsInOrder'
    BY <1>1, <2>2, <2>3, <2>6, Numbers DEF StampsInOrder
  <2>8. BootTrustsOnlyItsOwn'
    BY <2>2, <2>6, Numbers DEF BootTrustsOnlyItsOwn, OwnTable, OwnZero, OwnOut
  <2>9. TableInHand'
    <3>1. pc["httpd"] \notin {"stampTable", "setTable"}
      <4>1. pc["httpd"] \in {"stampTable", "setTable"} =>
              Taking("httpd") /\ ~Recalibrating("httpd")
        BY WhoTakes DEF Route, RouteOf, Writers
      <4> QED BY <2>5, <4>1, Undisturbed DEF Writers
    <3>2. \A v \in Writers : pc'[v] = "tableStamp" => flash'.table = cfg'.table
      BY <1>1, <2>2 DEF TableInHand
    <3>3. cfg'.tableGen # flash'.gen
      BY <1>1, <2>2, <2>6, Numbers
    <3>4. pc'["httpd"] \notin {"stampTable", "setTable"}
      BY <1>1, <3>1 DEF Writers
    <3> QED BY <3>2, <3>3, <3>4 DEF TableInHand
  <2>10. ASSUME NEW v \in Writers
         PROVE  MeasuredBy(v)'
    <3>1. pc[v] \in {"zero", "zeroStamp", "outWrite"} => arg[v].keep # {}
      <4>1. pc[v] \in {"zero", "zeroStamp", "outWrite"} /\ arg[v].keep = {} =>
              Taking(v) /\ ~Recalibrating(v)
        BY WhoTakes DEF Route, RouteOf
      <4> QED BY <2>5, <4>1, Undisturbed
    <3> QED BY <1>1, <2>2, <3>1 DEF MeasuredBy
  <2> QED BY <2>7, <2>8, <2>9, <2>10
<1> QED BY <1>2, <1>3

\* The table reaches flash with the stamp it carries in memory.
LEMMA WriteTableTrust ==
  ASSUME Numbering, Trust, ~Crossing', NEW w \in Writers,
         WriteTable(w) \/ WriteTableStamp(w)
  PROVE  Trust'
<1> USE DEF Numbering, Trust
<1>1. /\ pc[w] \in {"tableBlob", "tableStamp"} /\ UNCHANGED <<cfg, hw>>
      /\ \/ flash' = flash
         \/ /\ pc[w] = "tableBlob"
            /\ flash' = [flash EXCEPT !.table = cfg.table]
         \/ /\ pc[w] = "tableStamp"
            /\ flash' = [flash EXCEPT !.tableGen = cfg.tableGen]
      /\ \/ Saved(w)
         \/ /\ pc' = [pc EXCEPT ![w] = "tableStamp"] /\ UNCHANGED arg
            /\ flash' = [flash EXCEPT !.table = cfg.table]
  BY DEF WriteTable, WriteTableStamp, memory
<1>2. /\ flash'.coef = flash.coef /\ flash'.legacy = flash.legacy
      /\ flash'.gen = flash.gen
      /\ flash'.zero = flash.zero /\ flash'.zeroGen = flash.zeroGen
      /\ flash'.out = flash.out /\ flash'.outGen = flash.outGen
      /\ \/ flash'.table = flash.table /\ flash'.tableGen = flash.tableGen
         \/ flash'.table = cfg.table /\ flash'.tableGen = flash.tableGen
         \/ /\ flash'.table = flash.table /\ flash'.tableGen = cfg.tableGen
            /\ pc[w] = "tableStamp"
      /\ pc'[w] = "tableStamp" => flash'.table = cfg.table \/ Saved(w)
  BY <1>1 DEF GenTypeOK, Flash
<1>3. LoadedGen(flash)' = LoadedGen(flash) /\ Stored(flash)' = Stored(flash)
  BY <1>2 DEF LoadedGen, Stored
<1>4. /\ \A v \in Writers : v # w => pc'[v] = pc[v] /\ arg'[v] = arg[v]
      /\ \/ pc'[w] = "idle" /\ arg'[w] = NoCall
         \/ pc'[w] \in {"zero", "tableStamp"} /\ arg'[w] = arg[w]
      /\ pc'[w] = "zero" => arg[w].keep # {}
      /\ pc'[w] = "tableStamp" => flash'.table = cfg.table
  <2>1. CASE Saved(w)
    BY <1>1, <2>1, SavedReturns
  <2>2. CASE /\ pc' = [pc EXCEPT ![w] = "tableStamp"] /\ UNCHANGED arg
             /\ flash' = [flash EXCEPT !.table = cfg.table]
    BY <2>2 DEF GenTypeOK, Flash
  <2> QED BY <1>1, <2>1, <2>2
<1>5. pc["httpd"] # "setTable"
  <2>1. CASE w = "httpd"
    BY <1>1, <2>1
  <2>2. CASE w # "httpd"
    <3>1. Recalibrating(w) /\ w = Other("httpd")
      BY <1>1, <2>2, WhoTakes, TwoWriters DEF Writers
    <3>2. pc["httpd"] = "setTable" => Taking("httpd")
      BY WhoTakes DEF Route, RouteOf, Writers
    <3> QED BY <3>1, <3>2, Undisturbed DEF Writers
  <2> QED BY <2>1, <2>2
<1>6. StampsInOrder'
  BY <1>1, <1>2, <1>3, Numbers DEF StampsInOrder
<1>7. TableInHand'
  <2>1. Stored(flash)' /\ cfg'.tableGen = flash'.gen =>
          cfg'.table \in {Blank, flash'.coef}
    BY <1>1, <1>2, <1>3, <1>5 DEF TableInHand
  <2>2. pc'["httpd"] \in {"stampTable", "setTable"} =>
          arg'["httpd"].basis \in {Blank, flash'.coef}
    BY <1>2, <1>4 DEF TableInHand, Writers
  <2>3. ASSUME NEW v \in Writers, pc'[v] = "tableStamp"
        PROVE  flash'.table = cfg'.table
    <3>1. CASE v = w
      BY <1>1, <1>4, <2>3, <3>1
    <3>2. CASE v # w
      <4>1. pc[v] = "tableStamp"
        BY <1>4, <2>3, <3>2
      <4> QED BY <1>1, <3>2, <4>1 DEF OneSaves
    <3> QED BY <3>1, <3>2
  <2> QED BY <2>1, <2>2, <2>3 DEF TableInHand
<1>8. BootTrustsOnlyItsOwn'
  <2>1. OwnZero(flash)' /\ OwnOut(flash)'
    BY <1>2, <1>3 DEF BootTrustsOnlyItsOwn, OwnZero, OwnOut
  <2>2. ASSUME Stored(flash), flash'.tableGen = flash.gen
        PROVE  flash'.table \in {Blank, flash.coef}
    <3>1. CASE flash'.table = flash.table /\ flash'.tableGen = flash.tableGen
      BY <2>2, <3>1 DEF BootTrustsOnlyItsOwn, OwnTable
    <3>2. CASE flash'.table = cfg.table /\ flash'.tableGen = flash.tableGen
      <4>1. cfg.tableGen = flash.gen
        BY <2>2, <3>2, Numbers DEF StampsInOrder
      <4> QED BY <1>5, <2>2, <3>2, <4>1 DEF TableInHand
    <3>3. CASE /\ flash'.table = flash.table /\ flash'.tableGen = cfg.tableGen
               /\ pc[w] = "tableStamp"
      BY <1>5, <2>2, <3>3 DEF TableInHand
    <3> QED BY <1>2, <3>1, <3>2, <3>3
  <2>3. OwnTable(flash)'
    BY <1>2, <1>3, <2>2 DEF OwnTable
  <2> QED BY <2>1, <2>3 DEF BootTrustsOnlyItsOwn
<1>9. ASSUME NEW v \in Writers
      PROVE  MeasuredBy(v)'
  <2>1. MeasuredBy(v)
    OBVIOUS
  <2>2. CASE v = w
    BY <1>1, <1>2, <1>4, <2>1, <2>2 DEF MeasuredBy, NoCall
  <2>3. CASE v # w
    BY <1>1, <1>2, <1>4, <2>1, <2>3 DEF MeasuredBy
  <2> QED BY <2>2, <2>3
<1> QED BY <1>6, <1>7, <1>8, <1>9

\* An artefact is measured with memory and flash in agreement, and stored so.
LEMMA MeasuringTrust ==
  ASSUME Numbering, Trust, ~Crossing', NEW w \in Writers,
         Measure(w) \/ SetZero(w) \/ WriteZeroStamp(w) \/ WriteOut(w)
  PROVE  Trust'
<1> USE DEF Numbering, Trust
<1> DEFINE z == arg[w].keep \cup {arg[w].basis}
<1>1. /\ pc[w] \in {"measure", "zero", "zeroStamp", "outWrite"}
      /\ UNCHANGED cfg /\ hw'.coef = hw.coef
      /\ \/ flash' = flash
         \/ flash' = [flash EXCEPT !.zero = z] /\ pc[w] = "zero"
         \/ flash' = [flash EXCEPT !.zeroGen = cfg.gen] /\ pc[w] = "zeroStamp"
         \/ /\ flash' = [flash EXCEPT !.out = arg[w].basis, !.outGen = cfg.gen]
            /\ pc[w] = "outWrite"
      /\ \/ Return(w)
         \/ /\ pc[w] = "zero" /\ pc' = [pc EXCEPT ![w] = "zeroStamp"]
            /\ UNCHANGED arg /\ flash' = [flash EXCEPT !.zero = z]
         \/ /\ pc[w] = "measure" /\ flash' = flash
            /\ pc' = [pc EXCEPT ![w] = IF arg[w].call = "zero" THEN "zero"
                                       ELSE "outWrite"]
            /\ arg' = [arg EXCEPT ![w].basis = hw.coef]
  <2>1. CASE SetZero(w)
    <3>1. hw' = [hw EXCEPT !.zero = z] /\ hw'.zero = z
      BY <2>1 DEF SetZero, GenTypeOK
    <3>2. hw'.coef = hw.coef
      BY <3>1 DEF GenTypeOK
    <3> QED BY <2>1, <3>1, <3>2 DEF SetZero
  <2>2. CASE Measure(w) \/ WriteZeroStamp(w) \/ WriteOut(w)
    BY <2>2 DEF Measure, WriteZeroStamp, WriteOut, memory, GenTypeOK
  <2> QED BY <2>1, <2>2
<1>2. Taking(w) /\ ~Recalibrating(Other(w)) /\ Settled
  <2>1. Taking(w) /\ (Recalibrating(w) => pc[w] \in {"zero", "zeroStamp"})
    BY <1>1, WhoTakes DEF Route, RouteOf, Recalibrating, Busy
  <2> QED BY <2>1, Undisturbed
<1>3. /\ hw.coef = flash.coef /\ Stored(flash) /\ cfg.gen = flash.gen
      /\ LoadedGen(flash) = flash.gen
  BY <1>2, Numbers DEF Settled
<1>4. pc[w] # "measure" => arg[w].basis = flash.coef
  BY <1>1, <1>3 DEF MeasuredBy
<1>z. arg[w].basis \in z
  OBVIOUS
<1> HIDE DEF z
<1>5. /\ flash'.coef = flash.coef /\ flash'.legacy = flash.legacy
      /\ flash'.gen = flash.gen
      /\ flash'.table = flash.table /\ flash'.tableGen = flash.tableGen
      /\ \/ flash'.zero = flash.zero /\ flash'.zeroGen = flash.zeroGen
         \/ pc[w] = "zero" /\ flash.coef \in flash'.zero
            /\ flash'.zeroGen = flash.zeroGen
         \/ /\ pc[w] = "zeroStamp" /\ flash.coef \in flash.zero
            /\ flash'.zero = flash.zero /\ flash'.zeroGen = flash.gen
      /\ \/ flash'.out = flash.out /\ flash'.outGen = flash.outGen
         \/ flash'.out = flash.coef /\ flash'.outGen = flash.gen
  <2>1. pc[w] = "zeroStamp" => flash.coef \in flash.zero
    BY <1>4 DEF MeasuredBy
  <2>2. flash \in Flash
    BY DEF GenTypeOK
  <2>3. CASE flash' = flash
    BY <2>3
  <2>4. CASE flash' = [flash EXCEPT !.zero = z] /\ pc[w] = "zero"
    BY <1>4, <1>z, <2>2, <2>4 DEF Flash
  <2>5. CASE flash' = [flash EXCEPT !.zeroGen = cfg.gen] /\ pc[w] = "zeroStamp"
    BY <1>3, <2>1, <2>2, <2>5 DEF Flash
  <2>6. CASE /\ flash' = [flash EXCEPT !.out = arg[w].basis, !.outGen = cfg.gen]
             /\ pc[w] = "outWrite"
    BY <1>3, <1>4, <2>2, <2>6 DEF Flash
  <2> QED BY <1>1, <2>3, <2>4, <2>5, <2>6
<1>6. LoadedGen(flash)' = LoadedGen(flash) /\ Stored(flash)' = Stored(flash)
  BY <1>5 DEF LoadedGen, Stored
<1>7. /\ \A v \in Writers : v # w => pc'[v] = pc[v] /\ arg'[v] = arg[v]
      /\ \/ pc'[w] = "idle" /\ arg'[w] = NoCall
         \/ /\ pc[w] = "zero" /\ pc'[w] = "zeroStamp" /\ arg'[w] = arg[w]
            /\ arg[w].basis \in flash'.zero
         \/ /\ pc'[w] \in {"zero", "outWrite"}
            /\ arg'[w].basis = hw.coef
  <2>1. CASE Return(w)
    BY <2>1, Returned
  <2>2. CASE /\ pc[w] = "zero" /\ pc' = [pc EXCEPT ![w] = "zeroStamp"]
             /\ UNCHANGED arg /\ flash' = [flash EXCEPT !.zero = z]
    BY <1>z, <2>2 DEF GenTypeOK, Flash
  <2>3. CASE /\ pc[w] = "measure" /\ flash' = flash
             /\ pc' = [pc EXCEPT ![w] = IF arg[w].call = "zero" THEN "zero"
                                        ELSE "outWrite"]
             /\ arg' = [arg EXCEPT ![w].basis = hw.coef]
    BY <2>3 DEF GenTypeOK
  <2> QED BY <1>1, <2>1, <2>2, <2>3
<1>8. StampsInOrder'
  BY <1>1, <1>3, <1>5, <1>6, Numbers DEF StampsInOrder
<1>9. TableInHand'
  BY <1>1, <1>5, <1>6, <1>7 DEF TableInHand, Writers
<1>10. BootTrustsOnlyItsOwn'
  BY <1>5, <1>6 DEF BootTrustsOnlyItsOwn, OwnTable, OwnZero, OwnOut
<1>11. ASSUME NEW v \in Writers
       PROVE  MeasuredBy(v)'
  <2>1. MeasuredBy(v)
    OBVIOUS
  <2>2. CASE v = w
    BY <1>1, <1>3, <1>4, <1>5, <1>7, <2>1, <2>2 DEF MeasuredBy, NoCall
  <2>3. CASE v # w
    <3>1. pc[v] = "zeroStamp" => pc[w] # "zero"
      <4>1. v = Other(w) /\ w = Other(v)
        BY <2>3, TwoWriters
      <4>2. pc[v] = "zeroStamp" => Taking(v)
        BY WhoTakes DEF Route, RouteOf
      <4>3. ~(pc[v] = "zeroStamp" /\ pc[w] = "zero" /\ arg[v].keep # {})
        BY <1>2, <4>1, WhoTakes
      <4>4. ~(pc[v] = "zeroStamp" /\ pc[w] = "zero" /\ arg[w].keep # {})
        BY <4>1, <4>2, Undisturbed, WhoTakes
      <4>5. ~(arg[v].call = "zero" /\ arg[w].call = "zero")
        BY <2>3 DEF Route, RouteOf
      <4> QED BY <4>3, <4>4, <4>5 DEF Route, RouteOf
    <3> QED BY <1>1, <1>5, <1>7, <2>1, <2>3, <3>1 DEF MeasuredBy
  <2> QED BY <2>2, <2>3
<1> QED BY <1>8, <1>9, <1>10, <1>11

\* A call begins with nothing in hand that is not the stored correction's.
LEMMA CallsTrust ==
  ASSUME Numbering, Trust, ~Crossing', crossed' \in BOOLEAN,
         \/ UploadTable \/ SaveSetting \/ RunCalibration
         \/ \E w \in Writers : Recalibrate(w)
  PROVE  Trust'
<1> USE DEF Trust
<1>1. /\ Numbering' /\ UNCHANGED <<flash, cfg, hw>>
      /\ \A v \in Writers : pc'[v] # pc[v] =>
           /\ pc[v] = "idle"
           /\ pc'[v] \in {"use", "stampTable", "save", "measure"}
           /\ pc'[v] = "use" \/ arg'[v].keep = {}
      /\ \A v \in Writers : \/ arg'[v] = arg[v]
                            \/ pc[v] = "idle" /\ pc'[v] # "idle"
                            \/ Recalibrating(v) /\ Recalibrating(Other(v))'
                               /\ arg'[v].keep = arg[v].keep
                               /\ arg'[v].call = "coeffs"
      /\ pc'["httpd"] = "stampTable" /\ pc["httpd"] # "stampTable" =>
           arg'["httpd"].basis \in {hw.coef, Blank}
  BY CallsNumber
<1>2. StampsInOrder' /\ BootTrustsOnlyItsOwn'
  BY <1>1 DEF StampsInOrder, LoadedGen, BootTrustsOnlyItsOwn, OwnTable,
     OwnZero, OwnOut, Stored
<1>3. Route'
  BY <1>1 DEF Numbering
<1>4. ASSUME NEW v \in Writers, pc'[v] = pc[v]
      PROVE  \/ arg'[v] = arg[v]
             \/ arg[v].call = "coeffs" /\ arg[v].keep = {} /\ arg'[v].keep = {}
  <2>1. CASE arg'[v] = arg[v]
    BY <2>1
  <2>2. CASE /\ Recalibrating(v) /\ Recalibrating(Other(v))'
             /\ arg'[v].keep = arg[v].keep
    <3>1. arg'[v].keep = {}
      BY <1>4, <2>2 DEF Crossing, Taking, Recalibrating, Busy, Other
    <3> QED BY <2>2, <3>1 DEF Recalibrating
  <2> QED BY <1>1, <1>4, <2>1, <2>2
<1>5. ASSUME pc'["httpd"] # pc["httpd"], pc'["httpd"] = "stampTable"
      PROVE  arg'["httpd"].basis \in {Blank, flash'.coef}
  <2>1. arg'["httpd"].call = "table"
    BY <1>3, <1>5 DEF Route, RouteOf, Writers
  <2>2. Settled'
    BY <1>5, <2>1 DEF Crossing, Taking, Busy, Recalibrating, Writers
  <2>3. hw.coef = flash'.coef
    BY <1>1, <2>2 DEF Settled
  <2> QED BY <1>1, <1>5, <2>3
<1>6. TableInHand'
  <2>1. Stored(flash)' /\ pc'["httpd"] # "setTable" /\ cfg'.tableGen = flash'.gen =>
          cfg'.table \in {Blank, flash'.coef}
    BY <1>1 DEF TableInHand, Stored, Writers
  <2>2. pc'["httpd"] \in {"stampTable", "setTable"} =>
          arg'["httpd"].basis \in {Blank, flash'.coef}
    <3>1. pc["httpd"] \in {"stampTable", "setTable"} =>
            arg["httpd"].call = "table"
      BY DEF Numbering, Route, RouteOf, Writers
    <3> QED BY <1>1, <1>4, <1>5, <3>1 DEF TableInHand, Writers
  <2>3. \A v \in Writers : pc'[v] = "tableStamp" => flash'.table = cfg'.table
    BY <1>1 DEF TableInHand
  <2> QED BY <2>1, <2>2, <2>3 DEF TableInHand
<1>7. ASSUME NEW v \in Writers
      PROVE  MeasuredBy(v)'
  <2>1. MeasuredBy(v) /\ RouteOf(v)
    BY DEF Numbering, Route
  <2>2. CASE pc'[v] # pc[v]
    BY <1>1, <2>2 DEF MeasuredBy
  <2>3. CASE pc'[v] = pc[v] /\ arg'[v] = arg[v]
    BY <1>1, <2>1, <2>3 DEF MeasuredBy
  <2>4. CASE /\ pc'[v] = pc[v] /\ arg[v].call = "coeffs"
             /\ arg[v].keep = {} /\ arg'[v].keep = {}
    BY <2>1, <2>4 DEF MeasuredBy, RouteOf
  <2> QED BY <1>4, <2>2, <2>3, <2>4
<1> QED BY <1>2, <1>6, <1>7

\* A truthful flash stays one through a boot, which reads it truthfully.
LEMMA BootTrust ==
  ASSUME NEW f \in Flash, NEW b \in Boots(f),
         f.tableGen <= LoadedGen(f), f.zeroGen <= LoadedGen(f),
         f.outGen <= LoadedGen(f), OwnTable(f), OwnZero(f), OwnOut(f)
  PROVE  /\ OwnTable(b.flash) /\ OwnZero(b.flash) /\ OwnOut(b.flash)
         /\ b.flash.tableGen <= LoadedGen(f)
         /\ LoadedGen(f) <= LoadedGen(b.flash)
         /\ b.flash.zeroGen <= LoadedGen(b.flash)
         /\ b.flash.outGen <= LoadedGen(b.flash)
         /\ Stored(b.flash) /\ LoadedGen(f) = b.flash.gen =>
              LoadedTable(f) \in {Blank, b.flash.coef}
<1>0. /\ LoadedGen(f) \in Nat /\ f.tableGen \in Nat /\ f.zeroGen \in Nat
      /\ f.outGen \in Nat /\ (Stored(f) => LoadedGen(f) = f.gen)
  BY LoadedTypes DEF Flash
<1>1. CASE b.flash = f
  BY <1>0, <1>1 DEF OwnTable, LoadedTable
<1>2. CASE Fresh(f, b.flash)
  <2> DEFINE g == b.flash
  <2>1. /\ Stored(g) /\ g.gen \in Nat /\ LoadedGen(f) < g.gen
        /\ g.tableGen = f.tableGen /\ g.zeroGen = f.zeroGen
        /\ g.outGen = f.outGen /\ LoadedGen(g) = g.gen
    BY <1>2, LoadedTypes DEF Fresh, Flash
  <2>2. g.tableGen # g.gen /\ g.zeroGen # g.gen /\ g.outGen # g.gen
    BY <1>0, <2>1
  <2> QED BY <1>0, <2>1, <2>2 DEF OwnTable, OwnZero, OwnOut
<1> QED BY <1>1, <1>2, BootCounts

\* After a boot nothing is in hand.
LEMMA InitTrust == GenInit => Trust
<1> SUFFICES ASSUME GenInit PROVE Trust
  OBVIOUS
<1>0. PICK f \in FirstFlash : \E b \in Boots(f) :
        /\ flash = b.flash /\ cfg = LoadedCfg(f, b.gen) /\ hw = LoadedHw(f)
  BY DEF GenInit
<1>1. PICK b \in Boots(f) :
        /\ flash = b.flash /\ cfg = LoadedCfg(f, b.gen) /\ hw = LoadedHw(f)
  BY <1>0
<1>2. /\ f \in Flash /\ ~Stored(f)
      /\ f.tableGen = 0 /\ f.zeroGen = 0 /\ f.outGen = 0
  BY <1>0, GenerationAssumption DEF FirstFlash, Flash, Bases, Stored
<1>3. /\ f.tableGen <= LoadedGen(f) /\ f.zeroGen <= LoadedGen(f)
      /\ f.outGen <= LoadedGen(f) /\ OwnTable(f) /\ OwnZero(f) /\ OwnOut(f)
  BY <1>2, LoadedTypes DEF OwnTable, OwnZero, OwnOut
<1>4. /\ OwnTable(flash) /\ OwnZero(flash) /\ OwnOut(flash)
      /\ flash.tableGen <= LoadedGen(f)
      /\ LoadedGen(f) <= LoadedGen(flash)
      /\ flash.zeroGen <= LoadedGen(flash)
      /\ flash.outGen <= LoadedGen(flash)
      /\ Stored(flash) /\ LoadedGen(f) = flash.gen =>
           LoadedTable(f) \in {Blank, flash.coef}
  BY <1>1, <1>2, <1>3, BootTrust
<1>5. cfg.tableGen = LoadedGen(f) /\ cfg.table = LoadedTable(f)
  BY <1>1 DEF LoadedCfg
<1>6. \A w \in Writers : pc[w] = "idle" /\ arg[w].keep = {}
  BY DEF GenInit, NoCall
<1>7. StampsInOrder /\ BootTrustsOnlyItsOwn
  BY <1>4, <1>5 DEF StampsInOrder, BootTrustsOnlyItsOwn
<1>8. TableInHand /\ \A w \in Writers : MeasuredBy(w)
  BY <1>4, <1>5, <1>6 DEF TableInHand, MeasuredBy, Writers
<1>9. ~Crossing
  BY <1>6 DEF Crossing, Taking, Busy
<1> QED BY <1>7, <1>8, <1>9 DEF Trust

LEMMA RestartTrust ==
  ASSUME Numbering, Trust, Restart
  PROVE  Trust'
<1>1. PICK b \in Boots(flash) :
        /\ flash' = b.flash /\ cfg' = LoadedCfg(flash, b.gen)
        /\ hw' = LoadedHw(flash)
  BY DEF Restart
<1>2. /\ flash \in Flash /\ flash.tableGen <= LoadedGen(flash)
      /\ flash.zeroGen <= LoadedGen(flash) /\ flash.outGen <= LoadedGen(flash)
      /\ OwnTable(flash) /\ OwnZero(flash) /\ OwnOut(flash)
  BY Numbers DEF Numbering, GenTypeOK, Trust, StampsInOrder,
     BootTrustsOnlyItsOwn
<1> DEFINE g == b.flash
<1>3. /\ OwnTable(g) /\ OwnZero(g) /\ OwnOut(g)
      /\ g.tableGen <= LoadedGen(flash)
      /\ LoadedGen(flash) <= LoadedGen(g)
      /\ g.zeroGen <= LoadedGen(g)
      /\ g.outGen <= LoadedGen(g)
      /\ Stored(g) /\ LoadedGen(flash) = g.gen =>
           LoadedTable(flash) \in {Blank, g.coef}
  BY <1>1, <1>2, BootTrust
<1>4. cfg'.tableGen = LoadedGen(flash) /\ cfg'.table = LoadedTable(flash)
  BY <1>1 DEF LoadedCfg
<1>5. flash' = g /\ LoadedGen(flash)' = LoadedGen(g) /\ Stored(flash)' = Stored(g)
  BY <1>1 DEF LoadedGen, Stored
<1>6. OwnTable(flash)' /\ OwnZero(flash)' /\ OwnOut(flash)'
  BY <1>3, <1>5 DEF OwnTable, OwnZero, OwnOut
<1>7. \A w \in Writers : pc'[w] = "idle" /\ arg'[w].keep = {}
  BY DEF Restart, NoCall
<1> HIDE DEF g
<1>8. StampsInOrder' /\ BootTrustsOnlyItsOwn'
  BY <1>3, <1>4, <1>5, <1>6 DEF StampsInOrder, BootTrustsOnlyItsOwn
<1>9. TableInHand' /\ \A w \in Writers : MeasuredBy(w)'
  BY <1>3, <1>4, <1>5, <1>7 DEF TableInHand, MeasuredBy, Writers
<1>10. ~Crossing'
  BY <1>7 DEF Crossing, Taking, Busy
<1> QED BY <1>8, <1>9, <1>10 DEF Trust

\* As long as nothing has crossed, the stamps are to be trusted.
LEMMA TrustInvariance == GenSpec => [](~crossed => Trust)
<1>1. /\ Numbering /\ (~crossed => Trust) /\ [GenNext]_genVars
      => (~crossed => Trust)'
  <2> SUFFICES ASSUME Numbering, ~crossed => Trust, [GenNext]_genVars,
                      ~crossed'
               PROVE  Trust'
    OBVIOUS
  <2>1. CASE Restart
    BY <2>1, RestartTrust DEF Restart
  <2>2. CASE GenNext /\ ~Restart
    <3>1. Trust /\ ~Crossing' /\ crossed' \in BOOLEAN
      BY <2>2 DEF GenNext, Numbering, GenTypeOK
    <3>2. CASE \/ UploadTable \/ SaveSetting \/ RunCalibration
               \/ \E w \in Writers : Recalibrate(w)
      BY <3>1, <3>2, CallsTrust
    <3>3. ASSUME NEW w \in Writers, Step(w)
          PROVE  Trust'
      BY <3>1, <3>3, CoefficientsTrust, TableTrust, WriteBlobTrust,
         WriteTableTrust, MeasuringTrust DEF Step
    <3> QED BY <2>2, <3>2, <3>3 DEF GenNext
  <2>3. CASE UNCHANGED genVars
    BY <2>3 DEF genVars, memory, calls, Trust, Crossing, Taking, Settled,
       Recalibrating, Busy, StampsInOrder, TableInHand, MeasuredBy,
       BootTrustsOnlyItsOwn
  <2> QED BY <2>1, <2>2, <2>3
<1> QED BY <1>1, InitTrust, NumberingInvariance, PTL DEF GenSpec

\* As long as no artefact was in hand while coefficients changed or were not
\* the stored ones, one whose stamp is the stored generation was measured
\* against the stored correction, whatever a restart interrupts and whichever
\* write fails: the property of the run.
THEOREM StampsAreTrue == GenSpec => []StampsTellTheTruth
<1>1. (~crossed => Trust) => StampsTellTheTruth
  BY DEF Trust, StampsTellTheTruth
<1> QED BY <1>1, TrustInvariance, PTL
==============================================================================
