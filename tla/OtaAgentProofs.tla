---------------------------- MODULE OtaAgentProofs ----------------------------
(***************************************************************************)
(* ota-agent: its state is well typed, the lock lets one pipeline work at  *)
(* a time, and what the saved state says of the last request survives      *)
(* switches, commits, rollbacks and power losses.                          *)
(***************************************************************************)
EXTENDS OtaAgent, TLAPS

ProcType == [pc : {"idle", "checked", "guard", "savefile", "saveenv", "download",
                   "verify", "run", "flash", "switch", "orphan"},
             cmd : Commands, st : Records, step : 1 .. 4]
RecType  == [pc : {"idle", "try", "report", "savefile", "saveenv"}, st : Records,
             step : 1 .. 4, attempt : 0 .. MaxAttempts]

\* Where the processes of the agent can be: the recovery of init before everything else,
\* pipelines after it, and neither in the bootloader.
BootShape ==
  /\ stage = "boot" => running = "none"
  /\ stage # "boot" => running \in Slot /\ arg \in Slot
  /\ stage \in {"boot", "S20"} => \A p \in Procs : proc[p].pc = "idle"
  /\ rec.pc # "idle" => stage = "S20"
  /\ stage = "rollback" => step \in 1 .. 2
  /\ faults \in Nat

IInv == TypeOK /\ BootShape

LEMMA IdleTyped == Idle \in ProcType /\ RecIdle \in RecType /\ Empty \in Records
<1>1. Empty \in Records
  BY DEF Empty, Records, Phases
<1>2. "apply" \in Commands /\ MaxAttempts \in Nat
  BY BoundsAssumption DEF Commands
<1>3. QED
  BY <1>1, <1>2 DEF Idle, RecIdle, ProcType, RecType

\* What a load returns is a record: the file's, the environment's, or nothing.
LEMMA LoadedTyped ==
  ASSUME TypeOK, running \in Slot
  PROVE  Loaded \in Records
BY IdleTyped DEF Loaded, TypeOK, FileType

\* One variable of the saved state.
LEMMA SaveVariableTyped ==
  ASSUME env \in Records, NEW st \in Records, NEW k \in 1 .. 4, SaveVariable(st, k)
  PROVE  env' \in Records
<1>1. SaveOrder[k] \in {"request", "version", "target", "phase"}
  BY DEF SaveOrder
<1>2. QED
  BY <1>1 DEF SaveVariable, Records

LEMMA InitIInv == Init => IInv
<1> SUFFICES ASSUME Init PROVE IInv
  OBVIOUS
<1>1. rec \in RecType /\ proc \in [Procs -> ProcType] /\ env \in Records
  BY IdleTyped DEF Init
<1>2. slot \in Slot /\ trial \in BOOLEAN /\ credit \in BOOLEAN /\ faults \in Nat
  BY DEF Init, AB!ABInit, Slot
<1>3. Absent \in FileType
  BY IdleTyped DEF Absent, FileType
<1>4. /\ file \in [Slot -> FileType] /\ disk \in [Slot -> FileType]
      /\ image \in [Slot -> [by : Commands \cup {"factory"}, version : Nat, healthy : BOOLEAN]]
  <2>1. file \in [Slot -> FileType] /\ disk \in [Slot -> FileType]
    BY <1>3 DEF Init
  <2>2. image \in [Slot -> [by : Commands \cup {"factory"}, version : Nat, healthy : BOOLEAN]]
    BY DEF Init
  <2>3. QED
    BY <2>1, <2>2
<1>5. TypeOK
  <2>1. {slot, lastGood} \subseteq Slot \cup {"none"} /\ slot \in Slot
    BY <1>2 DEF Init, Slot
  <2>2. {trial, credit, stored, named, rebootReq, fresh, forgot} \subseteq BOOLEAN
    BY <1>2 DEF Init
  <2>3. /\ stage \in {"boot", "S20", "rc", "commit", "rollback", "up"} /\ step \in 1 .. 3
        /\ {running, arg} \subseteq Slot \cup {"none"} /\ lastRun \in Commands \cup {"none"}
        /\ recFailed \cup committed \subseteq (Commands \cup {"none", "factory"}) \X Slot
    BY DEF Init
  <2>4. QED
    BY <1>1, <1>4, <2>1, <2>2, <2>3 DEF TypeOK, ProcType, RecType
<1>6. BootShape
  BY <1>2 DEF Init, BootShape, Idle, RecIdle
<1>7. QED
  BY <1>5, <1>6 DEF IInv


-----------------------------------------------------------------------------
(* The pipelines *)

\* A command runs only when recovery has ended, and then in a mounted slot.
LEMMA Busy ==
  ASSUME IInv, NEW p \in Procs, proc[p].pc # "idle"
  PROVE  stage \notin {"boot", "S20"} /\ running \in Slot /\ rec.pc = "idle"
BY DEF IInv, BootShape, TypeOK

\* A step of one process p, to state r, that touches neither the slots, the files nor
\* the boot.
Rest == <<abVars, stored, lastGood, stateVars, image, named, bootVars, rec>>

LEMMA ProcKeeps ==
  ASSUME IInv, NEW p \in Procs, NEW r \in ProcType, proc' = [proc EXCEPT ![p] = r],
         stage \notin {"boot", "S20"}, UNCHANGED Rest,
         fresh' \in BOOLEAN, UNCHANGED <<forgot, lastRun, recFailed, committed>>
  PROVE  IInv'
<1>1. proc' \in [Procs -> ProcType]
  BY DEF IInv, TypeOK, ProcType
<1>2. TypeOK'
  BY <1>1 DEF IInv, TypeOK, Rest, abVars, stateVars, bootVars, ProcType
<1>3. BootShape'
  BY DEF IInv, BootShape, Rest, abVars, stateVars, bootVars
<1>4. QED
  BY <1>2, <1>3 DEF IInv

\* A process that goes on to save a record.
LEMMA SavingTyped ==
  ASSUME NEW r \in ProcType, NEW st \in Records
  PROVE  [r EXCEPT !.pc = "savefile", !.st = st, !.step = 1] \in ProcType
<1>1. [r EXCEPT !.step = 1] \in ProcType
  BY DEF ProcType
<1>2. QED
  BY <1>1 DEF ProcType

\* Every step of a pipeline that writes nothing.
LEMMA QuietKeeps ==
  ASSUME IInv, NEW p \in Procs,
         \/ MqttCommand(p) \/ MqttLock(p) \/ LocalCommand(p) \/ Guard(p) \/ Download(p)
         \/ Verify(p) \/ RunUpgrade(p) \/ OrphanEnds(p)
  PROVE  IInv'
<1> DEFINE old == proc[p]
<1> USE DEF Set
<1>1. old \in ProcType /\ Idle \in ProcType /\ old.st \in Records /\ fresh \in BOOLEAN
  BY IdleTyped DEF IInv, TypeOK, ProcType
<1>2. UNCHANGED <<Rest, forgot, lastRun, recFailed, committed>> /\ fresh' \in BOOLEAN
  BY <1>1 DEF MqttCommand, MqttLock, LocalCommand, Guard, Download, Verify, RunUpgrade, OrphanEnds, Started,
              Rest, history
<1>3. stage \notin {"boot", "S20"}
  <2>1. CASE MqttCommand(p) \/ LocalCommand(p)
    BY <2>1 DEF MqttCommand, LocalCommand, Started
  <2>2. CASE MqttLock(p) \/ Guard(p) \/ Download(p) \/ Verify(p) \/ RunUpgrade(p) \/ OrphanEnds(p)
    BY <2>2, Busy DEF MqttLock, Guard, Download, Verify, RunUpgrade, OrphanEnds
  <2>3. QED
    BY <2>1, <2>2
<1>4. CASE MqttCommand(p)
  <2>1. PICK r \in Requests :
          proc' = [proc EXCEPT ![p] = [Idle EXCEPT !.pc = "checked", !.cmd = r,
                                        !.st = [Empty EXCEPT !.request = r, !.version = VersionOf[r]]]]
    BY <1>4 DEF MqttCommand
  <2>2. r \in Commands /\ VersionOf[r] \in Nat
    BY VersionAssumption DEF Commands
  <2>3. [Empty EXCEPT !.request = r, !.version = VersionOf[r]] \in Records
    BY <2>2, IdleTyped DEF Records
  <2>4. [Idle EXCEPT !.pc = "checked", !.cmd = r,
                     !.st = [Empty EXCEPT !.request = r, !.version = VersionOf[r]]] \in ProcType
    BY <1>1, <2>2, <2>3 DEF ProcType
  <2>5. QED
    BY <1>2, <1>3, <2>1, <2>4, ProcKeeps
<1>5. CASE LocalCommand(p)
  <2>1. running \in Slot
    BY <1>3 DEF IInv, BootShape
  <2>2. Loaded \in Records
    BY <2>1, LoadedTyped DEF IInv
  <2>3. {"apply", "pull-latest"} \subseteq Commands
    BY DEF Commands
  <2>4. /\ [Idle EXCEPT !.pc = "guard", !.cmd = "apply", !.st = Loaded] \in ProcType
        /\ [Idle EXCEPT !.pc = "guard", !.cmd = "pull-latest",
                        !.st = [Loaded EXCEPT !.request = "pull-latest"]] \in ProcType
    BY <1>1, <2>2, <2>3 DEF ProcType, Records
  <2>5. QED
    BY <1>2, <1>3, <1>5, <2>4, ProcKeeps DEF LocalCommand
<1>6. CASE MqttLock(p) \/ Download(p) \/ Verify(p) \/ OrphanEnds(p)
  <2>1. ASSUME NEW ph \in {"received", "upgrading", "verifying"}, ToPhase(p, ph)
        PROVE  IInv'
    <3>1. [old.st EXCEPT !.phase = ph] \in Records
      BY <1>1 DEF Records, Phases
    <3>2. QED
      BY <1>1, <1>2, <1>3, <2>1, <3>1, SavingTyped, ProcKeeps DEF ToPhase, Saving
  <2>2. CASE Fail(p)
    BY <1>1, <1>2, <1>3, <2>2, ProcKeeps DEF Fail
  <2>3. QED
    BY <1>6, <2>1, <2>2 DEF MqttLock, Download, Verify, OrphanEnds, Fail
<1>7. CASE Guard(p)
  <2> DEFINE st == [old.st EXCEPT !.target = AB!Flip(slot), !.phase = "downloading"]
  <2>1. st \in Records
    BY <1>1 DEF Records, AB!Flip, Slot, Phases
  <2>2. [old EXCEPT !.pc = "savefile", !.st = st, !.step = 1] \in ProcType
    BY <1>1, <2>1, SavingTyped
  <2>3. CASE Fail(p)
    BY <1>1, <1>2, <1>3, <2>3, ProcKeeps DEF Fail
  <2>4. CASE Saving(p, st)
    BY <1>2, <1>3, <2>2, <2>4, ProcKeeps DEF Saving
  <2>5. QED
    BY <1>7, <2>3, <2>4 DEF Guard
<1>8. CASE RunUpgrade(p)
  <2>1. [old EXCEPT !.pc = "flash"] \in ProcType
    BY <1>1 DEF ProcType
  <2>2. QED
    BY <1>1, <1>2, <1>3, <1>8, <2>1, ProcKeeps DEF RunUpgrade, Fail
<1>9. QED
  BY <1>4, <1>5, <1>6, <1>7, <1>8

\* What a write of the state leaves typed.
LEMMA SaveFileTyped ==
  ASSUME TypeOK, NEW st \in Records, running \in Slot, SaveFile(st)
  PROVE  file' \in [Slot -> FileType] /\ disk' \in [Slot -> FileType]
<1>1. Saved(st) \in FileType
  BY DEF Saved, FileType
<1>2. QED
  BY <1>1 DEF SaveFile, TypeOK

LEMMA WritesKeep ==
  ASSUME IInv, NEW p \in Procs, SavePhaseFile(p) \/ SavePhaseEnv(p) \/ Flash(p) \/ Switch(p)
  PROVE  IInv'
<1> DEFINE old == proc[p]
<1> USE DEF Set, Fail
<1>1. /\ old \in ProcType /\ Idle \in ProcType /\ old.st \in Records /\ old.step \in 1 .. 4 /\ old.cmd \in Commands
      /\ proc \in [Procs -> ProcType]
  BY IdleTyped DEF IInv, TypeOK, ProcType
<1>2. stage \notin {"boot", "S20"} /\ running \in Slot
  BY Busy DEF SavePhaseFile, SavePhaseEnv, Flash, Switch
<1>3. CASE SavePhaseFile(p)
  <2>1. file' \in [Slot -> FileType] /\ disk' \in [Slot -> FileType]
    BY <1>1, <1>2, <1>3, SaveFileTyped DEF SavePhaseFile, IInv
  <2>2. [old EXCEPT !.pc = "saveenv"] \in ProcType
    BY <1>1 DEF ProcType
  <2>3. proc' \in [Procs -> ProcType]
    BY <1>1, <1>3, <2>2 DEF SavePhaseFile
  <2>4. lastRun' \in Commands \cup {"none"} /\ forgot' \in BOOLEAN
    BY <1>1, <1>3 DEF SavePhaseFile, Records
  <2>5. recFailed' \cup committed' \subseteq (Commands \cup {"none", "factory"}) \X Slot
    BY <1>3 DEF SavePhaseFile, Without, IInv, TypeOK
  <2>6. UNCHANGED <<abVars, stored, lastGood, env, image, named, bootVars, rec, fresh>>
    BY <1>3 DEF SavePhaseFile
  <2>7. TypeOK'
    BY <2>1, <2>3, <2>4, <2>5, <2>6 DEF IInv, TypeOK, ProcType, abVars, bootVars
  <2>8. BootShape'
    BY <1>2, <2>6 DEF IInv, BootShape, abVars, bootVars
  <2>9. QED
    BY <2>7, <2>8 DEF IInv
<1>4. CASE SavePhaseEnv(p)
  <2>1. env' \in Records
    BY <1>1, <1>4, SaveVariableTyped DEF SavePhaseEnv, IInv, TypeOK
  <2>2. AfterPhase(old.st.phase) \in {"guard", "download", "verify", "run"}
    BY DEF AfterPhase
  <2>3. /\ old.step < Len(SaveOrder) => [old EXCEPT !.step = old.step + 1] \in ProcType
        /\ [old EXCEPT !.pc = AfterPhase(old.st.phase)] \in ProcType
    BY <1>1, <2>2 DEF ProcType, SaveOrder
  <2>4. proc' \in [Procs -> ProcType]
    BY <1>1, <1>4, <2>3 DEF SavePhaseEnv
  <2>5. UNCHANGED <<abVars, stored, lastGood, file, disk, image, named, bootVars, rec, history>>
    BY <1>4 DEF SavePhaseEnv
  <2>6. TypeOK'
    BY <2>1, <2>4, <2>5 DEF IInv, TypeOK, ProcType, abVars, bootVars, history
  <2>7. BootShape'
    BY <1>2, <2>5 DEF IInv, BootShape, abVars, bootVars
  <2>8. QED
    BY <2>6, <2>7 DEF IInv
<1>5. CASE Flash(p)
  <2>1. AB!Flip(slot) \in Slot /\ VersionOf[old.cmd] \in Nat /\ Absent \in FileType
    BY <1>1, VersionAssumption, IdleTyped DEF AB!Flip, Slot, Absent, FileType
  <2>2. file' \in [Slot -> FileType] /\ disk' \in [Slot -> FileType]
    BY <1>5, <2>1 DEF Flash, IInv, TypeOK
  <2>3. image' \in [Slot -> [by : Commands \cup {"factory"}, version : Nat, healthy : BOOLEAN]]
    <3>1. PICK h \in BOOLEAN :
            image' = [image EXCEPT ![AB!Flip(slot)] = [by |-> old.cmd, version |-> VersionOf[old.cmd], healthy |-> h]]
      BY <1>5 DEF Flash
    <3>2. QED
      BY <1>1, <2>1, <3>1 DEF IInv, TypeOK
  <2>4. [old EXCEPT !.pc = "switch"] \in ProcType
    BY <1>1 DEF ProcType
  <2>5. proc' \in [Procs -> ProcType]
    BY <1>1, <1>5, <2>4 DEF Flash
  <2>6. UNCHANGED <<abVars, stored, lastGood, env, named, bootVars, rec, history>>
    BY <1>5 DEF Flash
  <2>7. TypeOK'
    BY <2>2, <2>3, <2>5, <2>6 DEF IInv, TypeOK, ProcType, abVars, bootVars, history
  <2>8. BootShape'
    BY <1>2, <2>6 DEF IInv, BootShape, abVars, bootVars
  <2>9. QED
    BY <2>7, <2>8 DEF IInv
<1>6. CASE Switch(p)
  <2>1. slot' \in Slot /\ trial' = TRUE /\ UNCHANGED <<credit, faults>>
    BY <1>6 DEF Switch, AB!Install, AB!Flip, Slot
  <2>2. proc' \in [Procs -> ProcType]
    BY <1>1, <1>6 DEF Switch
  <2>3. /\ UNCHANGED <<stored, lastGood, stateVars, image, named, stage, running, step, arg, rec,
                       fresh, lastRun, forgot, committed>>
        /\ rebootReq' = TRUE /\ recFailed' = {}
    BY <1>6 DEF Switch
  <2>4. TypeOK'
    BY <2>1, <2>2, <2>3 DEF IInv, TypeOK, ProcType, stateVars
  <2>5. BootShape'
    BY <1>2, <2>1, <2>3 DEF IInv, BootShape
  <2>6. QED
    BY <2>4, <2>5 DEF IInv
<1>7. QED
  BY <1>3, <1>4, <1>5, <1>6

-----------------------------------------------------------------------------
(* Recovery, the boot, and the faults *)

\* A step of recovery, to a typed state.
LEMMA RecKeeps ==
  ASSUME IInv, stage = "S20", rec' \in RecType,
         file' \in [Slot -> FileType], disk' \in [Slot -> FileType], env' \in Records,
         slot' = slot, trial' = trial, credit' = credit, faults' \in Nat,
         UNCHANGED <<stored, lastGood, image, named, bootVars, proc, fresh, lastRun, forgot, committed>>,
         recFailed' \subseteq (Commands \cup {"none", "factory"}) \X Slot
  PROVE  IInv'
<1>1. TypeOK'
  BY DEF IInv, TypeOK, RecType, bootVars
<1>2. BootShape'
  BY DEF IInv, BootShape, bootVars
<1>3. QED
  BY <1>1, <1>2 DEF IInv

\* What recovery reports names a request and a slot.
Judging == rec.pc \in {"report", "savefile", "saveenv"}
RecNames == Judging => rec.st.target \in Slot

LEMMA RetryKeepsType ==
  ASSUME TypeOK, Retry
  PROVE  rec' \in RecType /\ rec'.pc \in {"try", "idle"}
<1>1. rec \in RecType /\ RecIdle \in RecType /\ MaxAttempts \in Nat
  BY IdleTyped, BoundsAssumption DEF TypeOK, RecType
<1>2. CASE rec.attempt < MaxAttempts
  <2>1. rec' = [rec EXCEPT !.pc = "try", !.attempt = rec.attempt + 1]
    BY <1>2 DEF Retry, RecGoes
  <2>2. rec.attempt + 1 \in 0 .. MaxAttempts
    BY <1>1, <1>2 DEF RecType
  <2>3. [rec EXCEPT !.attempt = rec.attempt + 1] \in RecType
    BY <1>1, <2>2 DEF RecType
  <2>4. QED
    BY <2>1, <2>3 DEF RecType
<1>3. CASE ~(rec.attempt < MaxAttempts)
  BY <1>1, <1>3 DEF Retry, RecGoes, RecIdle
<1>4. QED
  BY <1>2, <1>3

LEMMA RecoveryKeeps ==
  ASSUME IInv, RecNames, Recovery
  PROVE  IInv' /\ RecNames'
<1> USE DEF RecGoes
<1>1. /\ stage = "S20" /\ running \in Slot /\ rec \in RecType /\ rec.st \in Records /\ RecIdle \in RecType
      /\ env \in Records /\ file \in [Slot -> FileType] /\ disk \in [Slot -> FileType] /\ faults \in Nat
      /\ recFailed \subseteq (Commands \cup {"none", "factory"}) \X Slot
  BY IdleTyped DEF Recovery, RecoverTry, RecoverReport, RecoverSaveFile, RecoverSaveEnv, IInv, BootShape,
                   TypeOK, RecType
<1>2. UNCHANGED <<abVars, stored, lastGood, image, named, bootVars, proc, fresh, lastRun, forgot, committed>>
  BY DEF Recovery, RecoverTry, RecoverReport, RecoverSaveFile, RecoverSaveEnv, history
<1>3. CASE RecoverTry
  <2>1. file' \in [Slot -> FileType] /\ disk' \in [Slot -> FileType]
    <3>1. CASE SaveFile(env)
      BY <1>1, <3>1, SaveFileTyped DEF IInv
    <3>2. CASE UNCHANGED <<file, disk>>
      BY <1>1, <3>2
    <3>3. QED
      BY <1>3, <3>1, <3>2 DEF RecoverTry
  <2>2. \/ Retry \/ rec' = RecIdle
        \/ Loaded.target \in Slot /\ rec' = [rec EXCEPT !.pc = "report", !.st = [Loaded EXCEPT !.phase = "failed"]]
    BY <1>3 DEF RecoverTry
  <2>3. rec' \in RecType /\ RecNames'
    <3>1. CASE Retry
      BY <3>1, RetryKeepsType DEF IInv, RecNames, Judging
    <3>2. CASE rec' = RecIdle
      BY <1>1, <3>2 DEF RecIdle, RecNames, Judging
    <3>3. CASE Loaded.target \in Slot /\ rec' = [rec EXCEPT !.pc = "report", !.st = [Loaded EXCEPT !.phase = "failed"]]
      <4>1. Loaded \in Records
        BY <1>1, LoadedTyped DEF IInv
      <4>2. [Loaded EXCEPT !.phase = "failed"] \in Records /\ [Loaded EXCEPT !.phase = "failed"].target = Loaded.target
        BY <4>1 DEF Records, Phases
      <4>3. rec' \in RecType /\ rec'.st.target = Loaded.target
        BY <1>1, <3>3, <4>2 DEF RecType
      <4>4. QED
        BY <3>3, <4>3 DEF RecNames
    <3>4. QED
      BY <2>2, <3>1, <3>2, <3>3
  <2>4. UNCHANGED <<env, recFailed>>
    BY <1>3 DEF RecoverTry, history
  <2>5. QED
    BY <1>1, <1>2, <2>1, <2>3, <2>4, RecKeeps DEF abVars
<1>4. CASE RecoverReport
  <2>1. recFailed' = recFailed \cup {<<rec.st.request, rec.st.target>>} /\ UNCHANGED <<env, file, disk>>
    BY <1>4 DEF RecoverReport, stateVars
  <2>2. rec.st.request \in Commands \cup {"none"} /\ rec.st.target \in Slot
    BY <1>1, <1>4 DEF RecoverReport, RecNames, Judging, Records
  <2>3. rec' \in RecType /\ rec'.st = rec.st
    BY <1>1, <1>4 DEF RecoverReport, RecType
  <2>4. RecNames'
    BY <2>2, <2>3 DEF RecNames
  <2>5. QED
    BY <1>1, <1>2, <2>1, <2>2, <2>3, <2>4, RecKeeps DEF abVars
<1>5. CASE RecoverSaveFile
  <2>1. file' \in [Slot -> FileType] /\ disk' \in [Slot -> FileType] /\ UNCHANGED <<env, recFailed>>
    BY <1>1, <1>5, SaveFileTyped DEF RecoverSaveFile, IInv, history
  <2>2. [rec EXCEPT !.step = 1] \in RecType
    BY <1>1 DEF RecType
  <2>3. rec' \in RecType /\ rec'.st = rec.st
    BY <1>1, <1>5, <2>2 DEF RecoverSaveFile, RecType
  <2>4. RecNames'
    BY <1>5, <2>3 DEF RecoverSaveFile, RecNames, Judging
  <2>5. QED
    BY <1>1, <1>2, <2>1, <2>3, <2>4, RecKeeps DEF abVars
<1>6. CASE RecoverSaveEnv
  <2>1. rec.step \in 1 .. 4 /\ SaveVariable(rec.st, rec.step) /\ UNCHANGED <<file, disk, recFailed>>
    BY <1>1, <1>6 DEF RecoverSaveEnv, RecType, history
  <2>2. env' \in Records
    BY <1>1, <2>1, SaveVariableTyped
  <2>3. rec' \in RecType /\ RecNames'
    BY <1>1, <1>6, <2>1 DEF RecoverSaveEnv, RecType, SaveOrder, RecNames, Judging, RecIdle
  <2>4. QED
    BY <1>1, <1>2, <2>1, <2>2, <2>3, RecKeeps DEF abVars
<1>7. QED
  BY <1>3, <1>4, <1>5, <1>6 DEF Recovery

\* The steps of the commit script and of its rollback, one by one.
CommitFirst  == step = 1 /\ AB!Commit /\ UNCHANGED <<lastGood, env, committed>> /\ stage' = "commit" /\ step' = 2
CommitSecond == /\ step = 2 /\ lastGood' = arg /\ env' = [env EXCEPT !.target = arg]
                /\ UNCHANGED <<abVars, committed>> /\ stage' = "commit" /\ step' = 3
CommitThird  == /\ step = 3 /\ env' = [env EXCEPT !.phase = "committed"]
                /\ committed' = committed \cup {<<image[arg].by, arg>>}
                /\ UNCHANGED <<abVars, lastGood>> /\ stage' = "up" /\ step' = 1
RollbackFirst  == step = 1 /\ AB!Revert /\ UNCHANGED <<env, stage, rebootReq>> /\ step' = 2
RollbackSecond == /\ step = 2 /\ env' = [env EXCEPT !.phase = "failed"] /\ rebootReq' = TRUE
                  /\ UNCHANGED abVars /\ stage' = "up" /\ step' = 1

LEMMA CommitCases ==
  ASSUME IInv, CommitSlot
  PROVE  /\ stage = "commit" /\ running \in Slot /\ arg \in Slot /\ rec.pc = "idle"
         /\ UNCHANGED <<stored, file, disk, image, named, running, arg, rebootReq, rec, proc,
                        runs, fresh, lastRun, forgot, recFailed>>
         /\ CommitFirst \/ CommitSecond \/ CommitThird
<1>1. stage = "commit" /\ step \in 1 .. 3 /\ running \in Slot /\ arg \in Slot /\ rec.pc = "idle"
  BY DEF CommitSlot, IInv, TypeOK, BootShape
<1>2. UNCHANGED <<stored, file, disk, image, named, running, arg, rebootReq, rec, proc,
                  runs, fresh, lastRun, forgot, recFailed>>
  BY DEF CommitSlot
<1>3. CASE step = 1
  BY <1>1, <1>3 DEF CommitSlot, CommitFirst
<1>4. CASE step = 2
  BY <1>1, <1>4 DEF CommitSlot, CommitSecond
<1>5. CASE step = 3
  BY <1>1, <1>5 DEF CommitSlot, CommitThird, Enter
<1>6. QED
  BY <1>1, <1>2, <1>3, <1>4, <1>5

LEMMA RollbackCases ==
  ASSUME IInv, RollbackFailedSlot
  PROVE  /\ stage = "rollback" /\ running \in Slot /\ arg \in Slot /\ rec.pc = "idle"
         /\ UNCHANGED <<stored, lastGood, file, disk, image, named, running, arg, rec, proc, history>>
         /\ RollbackFirst \/ RollbackSecond
<1>1. stage = "rollback" /\ step \in 1 .. 2 /\ running \in Slot /\ arg \in Slot /\ rec.pc = "idle"
  BY DEF RollbackFailedSlot, IInv, TypeOK, BootShape
<1>2. CASE step = 1
  BY <1>1, <1>2 DEF RollbackFailedSlot, RollbackFirst
<1>3. CASE step = 2
  BY <1>1, <1>3 DEF RollbackFailedSlot, RollbackSecond, Enter
<1>4. QED
  BY <1>1, <1>2, <1>3 DEF RollbackFailedSlot

LEMMA BootKeeps ==
  ASSUME IInv, RecNames, \/ Boot \/ Failover \/ RecoveryEnded \/ CommitStart \/ CommitSlot \/ RollbackFailedSlot
                         \/ FillActiveSlot \/ Sync \/ RequestReboot
  PROVE  IInv' /\ RecNames'
<1> USE DEF Enter, IInv, BootShape, RecNames, Judging
<1>1. CASE Boot
  <2>1. [RecIdle EXCEPT !.pc = "try"] \in RecType
    BY IdleTyped DEF RecType
  <2>2. rec' = [RecIdle EXCEPT !.pc = "try"] /\ rec'.pc = "try"
    BY <1>1 DEF Boot, RecGoes, RecIdle
  <2>3. TypeOK'
    BY <1>1, <2>1, <2>2 DEF Boot, TypeOK, RecType, abVars, stateVars
  <2>4. QED
    BY <1>1, <2>2, <2>3 DEF Boot, TypeOK, abVars
<1>2. CASE Failover
  <2>1. slot' \in Slot /\ trial' = FALSE /\ credit' = FALSE /\ faults' = faults
    BY <1>2 DEF Failover, AB!Failover, AB!Flip, Slot
  <2>2. TypeOK'
    BY <1>2, <2>1 DEF Failover, TypeOK, stateVars, bootVars
  <2>3. QED
    BY <1>2, <2>1, <2>2 DEF Failover, bootVars
<1>3. CASE RecoveryEnded
  BY <1>3 DEF RecoveryEnded, TypeOK, abVars, stateVars, history
<1>4. CASE CommitStart
  BY <1>4 DEF CommitStart, TypeOK, abVars, stateVars, history
<1>5. CASE CommitSlot
  <2>1. /\ stage = "commit" /\ running \in Slot /\ arg \in Slot /\ rec.pc = "idle"
        /\ UNCHANGED <<stored, file, disk, image, named, running, arg, rebootReq, rec, proc,
                       runs, fresh, lastRun, forgot, recFailed>>
        /\ CommitFirst \/ CommitSecond \/ CommitThird
    BY <1>5, CommitCases
  <2>2. /\ slot' = slot /\ trial' \in BOOLEAN /\ credit' \in BOOLEAN /\ faults' = faults
        /\ stage' \in {"commit", "up"} /\ step' \in 1 .. 3
    <3>0. trial \in BOOLEAN /\ credit \in BOOLEAN
      BY DEF TypeOK
    <3>1. CASE CommitFirst
      <4>1. slot' = slot /\ trial' \in BOOLEAN /\ credit' \in BOOLEAN /\ faults' = faults
        BY <3>1 DEF CommitFirst, AB!Commit
      <4>2. stage' \in {"commit", "up"} /\ step' \in 1 .. 3
        BY <3>1 DEF CommitFirst
      <4>3. QED
        BY <4>1, <4>2
    <3>2. CASE CommitSecond \/ CommitThird
      <4>1. UNCHANGED abVars
        BY <3>2 DEF CommitSecond, CommitThird
      <4>2. slot' = slot /\ trial' \in BOOLEAN /\ credit' \in BOOLEAN /\ faults' = faults
        BY <3>0, <4>1 DEF abVars
      <4>3. stage' \in {"commit", "up"} /\ step' \in 1 .. 3
        BY <3>2 DEF CommitSecond, CommitThird
      <4>4. QED
        BY <4>2, <4>3
    <3>3. QED
      BY <2>1, <3>1, <3>2
  <2>3. env' \in Records /\ lastGood' \in Slot \cup {"none"}
    BY <2>1 DEF CommitFirst, CommitSecond, CommitThird, TypeOK, Records, Phases
  <2>4. committed' \subseteq (Commands \cup {"none", "factory"}) \X Slot
    <3>1. <<image[arg].by, arg>> \in (Commands \cup {"none", "factory"}) \X Slot
      BY <2>1 DEF TypeOK
    <3>2. QED
      BY <2>1, <3>1 DEF CommitFirst, CommitSecond, CommitThird, TypeOK
  <2>5. {trial, credit, stored, named, rebootReq, fresh, forgot}' \subseteq BOOLEAN
    BY <2>1, <2>2 DEF TypeOK
  <2>6. recFailed' \cup committed' \subseteq (Commands \cup {"none", "factory"}) \X Slot
    BY <2>1, <2>4 DEF TypeOK
  <2>7. /\ slot' \in Slot /\ stage' \in {"boot", "S20", "rc", "commit", "rollback", "up"} /\ step' \in 1 .. 3
        /\ {running', arg'} \subseteq Slot \cup {"none"} /\ lastRun' \in Commands \cup {"none"}
    BY <2>1, <2>2 DEF TypeOK
  <2>8. TypeOK'
    BY <2>1, <2>3, <2>5, <2>6, <2>7 DEF TypeOK
  <2>9. QED
    BY <2>1, <2>2, <2>8
<1>6. CASE RollbackFailedSlot
  <2>1. /\ stage = "rollback" /\ running \in Slot /\ arg \in Slot /\ rec.pc = "idle"
        /\ UNCHANGED <<stored, lastGood, file, disk, image, named, running, arg, rec, proc, history>>
        /\ RollbackFirst \/ RollbackSecond
    BY <1>6, RollbackCases
  <2>2. /\ slot' \in Slot /\ trial' \in BOOLEAN /\ credit' \in BOOLEAN /\ faults' = faults
        /\ rebootReq' \in BOOLEAN /\ stage' \in {"rollback", "up"} /\ step' \in 1 .. 2
    <3>0. slot \in Slot /\ trial \in BOOLEAN /\ credit \in BOOLEAN /\ rebootReq \in BOOLEAN
      BY DEF TypeOK
    <3>1. CASE RollbackFirst
      <4>1. slot' \in Slot /\ trial' \in BOOLEAN /\ credit' \in BOOLEAN /\ faults' = faults
        BY <3>1 DEF RollbackFirst, AB!Revert, AB!Flip, Slot
      <4>2. rebootReq' \in BOOLEAN /\ stage' \in {"rollback", "up"} /\ step' \in 1 .. 2
        BY <2>1, <3>0, <3>1 DEF RollbackFirst
      <4>3. QED
        BY <4>1, <4>2
    <3>2. CASE RollbackSecond
      <4>1. UNCHANGED abVars
        BY <3>2 DEF RollbackSecond
      <4>2. slot' \in Slot /\ trial' \in BOOLEAN /\ credit' \in BOOLEAN /\ faults' = faults
        BY <3>0, <4>1 DEF abVars
      <4>3. rebootReq' \in BOOLEAN /\ stage' \in {"rollback", "up"} /\ step' \in 1 .. 2
        BY <3>2 DEF RollbackSecond
      <4>4. QED
        BY <4>2, <4>3
    <3>3. QED
      BY <2>1, <3>1, <3>2
  <2>3. env' \in Records
    BY <2>1 DEF RollbackFirst, RollbackSecond, TypeOK, Records, Phases
  <2>4. {trial, credit, stored, named, rebootReq, fresh, forgot}' \subseteq BOOLEAN
    BY <2>1, <2>2 DEF TypeOK, history
  <2>5. /\ slot' \in Slot /\ stage' \in {"boot", "S20", "rc", "commit", "rollback", "up"} /\ step' \in 1 .. 3
        /\ {running', arg'} \subseteq Slot \cup {"none"}
    BY <2>1, <2>2 DEF TypeOK
  <2>6. TypeOK'
    BY <2>1, <2>3, <2>4, <2>5 DEF TypeOK, history
  <2>7. QED
    BY <2>1, <2>2, <2>6
<1>7. CASE FillActiveSlot
  BY <1>7 DEF FillActiveSlot, TypeOK, abVars, stateVars, bootVars, history
<1>8. CASE Sync
  BY <1>8 DEF Sync, TypeOK, abVars, bootVars, history
<1>9. CASE RequestReboot
  BY <1>9 DEF RequestReboot, TypeOK, abVars, stateVars, history
<1>10. QED
  BY <1>1, <1>2, <1>3, <1>4, <1>5, <1>6, <1>7, <1>8, <1>9

\* Down kills every process and starts a new boot.
LEMMA DownKeeps ==
  ASSUME IInv, Down, slot' \in Slot, trial' \in BOOLEAN, credit' \in BOOLEAN, faults' \in Nat,
         stored' \in BOOLEAN, lastGood' \in Slot \cup {"none"}, env' \in Records,
         file' \in [Slot -> FileType], disk' \in [Slot -> FileType], forgot' \in BOOLEAN,
         UNCHANGED <<image, named, runs, fresh, lastRun, recFailed, committed>>
  PROVE  IInv' /\ RecNames'
<1>1. rec' = RecIdle /\ rec' \in RecType /\ proc' = [p \in Procs |-> Idle] /\ Idle \in ProcType
  BY IdleTyped DEF Down
<1>2. proc' \in [Procs -> ProcType]
  BY <1>1
<1>3. stage' = "boot" /\ step' = 1 /\ running' = "none" /\ arg' = "none" /\ rebootReq' = FALSE
  BY DEF Down, Enter
<1>4. {trial, credit, stored, named, rebootReq, fresh, forgot}' \subseteq BOOLEAN
  BY <1>3 DEF IInv, TypeOK
<1>5. TypeOK'
  BY <1>1, <1>2, <1>3, <1>4 DEF IInv, TypeOK, ProcType, RecType
<1>6. BootShape'
  BY <1>1, <1>3 DEF BootShape, RecIdle, Idle
<1>7. RecNames'
  BY <1>1 DEF RecNames, Judging, RecIdle
<1>8. QED
  BY <1>5, <1>6, <1>7 DEF IInv

LEMMA FaultsKeep ==
  ASSUME IInv, RecNames, Reboot \/ Faults
  PROVE  IInv' /\ RecNames'
<1>1. /\ slot \in Slot /\ trial \in BOOLEAN /\ credit \in BOOLEAN /\ faults \in Nat /\ stored \in BOOLEAN
      /\ lastGood \in Slot \cup {"none"} /\ env \in Records /\ forgot \in BOOLEAN
      /\ file \in [Slot -> FileType] /\ disk \in [Slot -> FileType]
      /\ rec \in RecType /\ proc \in [Procs -> ProcType]
  BY DEF IInv, TypeOK, BootShape, RecType, ProcType
<1>2. CASE Reboot
  BY <1>1, <1>2, DownKeeps DEF Reboot, abVars, history
<1>3. CASE PowerLoss
  <2>1. slot' \in Slot /\ credit' \in BOOLEAN
    BY <1>1, <1>3 DEF PowerLoss, CutSlots, CutCredits
  <2>2. trial' \in BOOLEAN /\ faults' \in Nat
    BY <1>1, <1>3 DEF PowerLoss, AB!Cut
  <2>3. Corrupt \in FileType
    BY IdleTyped DEF Corrupt, FileType
  <2>4. AfterPowerLoss \subseteq [Slot -> FileType]
    BY <1>1, <2>3 DEF AfterPowerLoss
  <2>5. file' \in [Slot -> FileType] /\ disk' \in [Slot -> FileType]
    BY <1>3, <2>4 DEF PowerLoss
  <2>6. Down /\ forgot' \in BOOLEAN
        /\ UNCHANGED <<stored, lastGood, env, image, named, runs, fresh, lastRun, recFailed, committed>>
    BY <1>1, <1>3 DEF PowerLoss
  <2>7. QED
    BY <1>1, <2>1, <2>2, <2>5, <2>6, DownKeeps
<1>4. CASE PowerLossTornEnv
  <2>1. slot' \in Slot /\ trial' \in BOOLEAN /\ credit' \in BOOLEAN /\ faults' \in Nat
    <3>1. slot' = "A" /\ trial' = FALSE /\ credit' = TRUE /\ faults' = faults + 1
      BY <1>4 DEF PowerLossTornEnv, AB!Lost
    <3>2. faults' \in Nat
      BY <1>1, <3>1
    <3>3. QED
      BY <3>1, <3>2 DEF Slot
  <2>2. /\ Down /\ stored' = FALSE /\ lastGood' = "none" /\ env' = Empty /\ forgot' = TRUE
        /\ UNCHANGED <<file, disk, image, named, runs, fresh, lastRun, recFailed, committed>>
    BY <1>4 DEF PowerLossTornEnv
  <2>3. QED
    BY <1>1, <2>1, <2>2, IdleTyped, DownKeeps
<1>5. ASSUME NEW p \in Procs, AgentDies(p)
      PROVE  IInv' /\ RecNames'
  <2>1. Idle \in ProcType /\ [Idle EXCEPT !.pc = "orphan"] \in ProcType
    BY IdleTyped DEF ProcType
  <2>2. proc' \in [Procs -> ProcType]
    BY <1>1, <1>5, <2>1 DEF AgentDies, Set
  <2>3. stage \notin {"boot", "S20"}
    BY <1>5, Busy DEF AgentDies, Active
  <2>4. /\ slot' = slot /\ trial' = trial /\ credit' = credit /\ faults' \in Nat
        /\ UNCHANGED <<stored, lastGood, stateVars, image, named, bootVars, rec, history>>
    BY <1>1, <1>5 DEF AgentDies, OneFault
  <2>5. TypeOK'
    BY <2>2, <2>4 DEF IInv, TypeOK, ProcType, stateVars, bootVars, history
  <2>6. BootShape' /\ RecNames'
    BY <2>3, <2>4 DEF IInv, BootShape, bootVars, RecNames, Judging
  <2>7. QED
    BY <2>5, <2>6 DEF IInv
<1>6. CASE SaveFails
  <2>1. /\ slot' = slot /\ trial' = trial /\ credit' = credit /\ faults' \in Nat
        /\ UNCHANGED <<stored, lastGood, stateVars, image, named, bootVars, history>>
    BY <1>1, <1>6 DEF SaveFails, OneFault
  <2>2. CASE \E p \in Procs : proc[p].pc \in {"savefile", "saveenv"} /\ Fail(p) /\ UNCHANGED rec
    <3>1. PICK p \in Procs : proc[p].pc \in {"savefile", "saveenv"} /\ Fail(p) /\ UNCHANGED rec
      BY <2>2
    <3>2. proc' \in [Procs -> ProcType]
      BY <1>1, <3>1, IdleTyped DEF Fail, Set
    <3>3. stage \notin {"boot", "S20"}
      BY <3>1, Busy
    <3>4. TypeOK'
      BY <2>1, <3>1, <3>2 DEF IInv, TypeOK, ProcType, stateVars, bootVars, history
    <3>5. BootShape' /\ RecNames'
      BY <2>1, <3>1, <3>3 DEF IInv, BootShape, bootVars, RecNames, Judging
    <3>6. QED
      BY <3>4, <3>5 DEF IInv
  <2>3. CASE rec.pc # "idle" /\ Retry /\ UNCHANGED proc
    <3>1. rec' \in RecType /\ rec'.pc \in {"try", "idle"} /\ stage = "S20"
      BY <2>3, RetryKeepsType DEF IInv, BootShape
    <3>2. IInv'
      BY <1>1, <2>1, <2>3, <3>1, RecKeeps DEF stateVars, history, IInv, TypeOK
    <3>3. QED
      BY <3>1, <3>2 DEF RecNames, Judging
  <2>4. QED
    BY <1>6, <2>2, <2>3 DEF SaveFails
<1>7. CASE RecoveryTimeout
  <2>1. /\ slot' = slot /\ trial' = trial /\ credit' = credit /\ faults' \in Nat
        /\ UNCHANGED <<stored, lastGood, stateVars, image, named, bootVars, proc, history>>
    <3>1. UNCHANGED abVars \/ OneFault
      BY <1>7 DEF RecoveryTimeout
    <3>2. slot' = slot /\ trial' = trial /\ credit' = credit /\ faults' \in Nat
      BY <1>1, <3>1 DEF OneFault, abVars
    <3>3. QED
      BY <1>7, <3>2 DEF RecoveryTimeout
  <2>2. rec' = RecIdle /\ rec' \in RecType /\ stage = "S20"
    BY <1>7, IdleTyped DEF RecoveryTimeout, RecGoes, IInv, BootShape
  <2>3. IInv'
    BY <1>1, <2>1, <2>2, RecKeeps DEF stateVars, history, IInv, TypeOK
  <2>4. QED
    BY <2>2, <2>3 DEF RecNames, Judging, RecIdle
<1>8. QED
  BY <1>2, <1>3, <1>4, <1>5, <1>6, <1>7 DEF Faults

LEMMA StepIInv == IInv /\ RecNames /\ [Next]_vars => IInv' /\ RecNames'
<1> SUFFICES ASSUME IInv, RecNames, [Next]_vars PROVE IInv' /\ RecNames'
  OBVIOUS
<1>1. CASE UNCHANGED vars
  BY <1>1 DEF vars, abVars, stateVars, bootVars, history, IInv, TypeOK, BootShape, RecNames, Judging
<1>2. ASSUME NEW p \in Procs, MqttCommand(p) \/ LocalCommand(p) \/ Pipeline(p)
      PROVE  IInv' /\ RecNames'
  <2>1. IInv'
    BY <1>2, QuietKeeps, WritesKeep DEF Pipeline
  <2>2. UNCHANGED rec
    BY <1>2 DEF Pipeline, MqttCommand, LocalCommand, MqttLock, SavePhaseFile, SavePhaseEnv, Guard, Download,
                Verify, RunUpgrade, Flash, Switch, OrphanEnds
  <2>3. QED
    BY <2>1, <2>2 DEF RecNames, Judging
<1>3. QED
  BY <1>1, <1>2, RecoveryKeeps, BootKeeps, FaultsKeep DEF Next, BootStep

LEMMA Invariance == Spec => [](IInv /\ RecNames)
<1>1. Init => RecNames
  BY DEF Init, RecNames, Judging, RecIdle
<1>2. QED
  BY <1>1, InitIInv, StepIInv, PTL DEF Spec

\* Every variable of ota-agent and of its boot stays in its type, whatever the calls,
\* kills and power losses.
THEOREM AgentTyped == Spec => []TypeOK
BY Invariance, PTL DEF IInv

-----------------------------------------------------------------------------
(* The lock *)

\* Who holds the lock, or works without one: nobody but those that took it.
Locked(r) == r.pc \notin {"idle", "checked"}

LEMMA OneAtATime == OnePipeline <=> \A p, q \in Procs : Locked(proc[p]) /\ Locked(proc[q]) => p = q
BY DEF OnePipeline, Locked

\* A process that did not hold the lock gets it only when it is free.
LEMMA LockTaken ==
  ASSUME IInv, OnePipeline, NEW p \in Procs, NEW r, proc' = [proc EXCEPT ![p] = r],
         Locked(r) => Locked(proc[p]) \/ LockFree
  PROVE  OnePipeline'
<1>1. \A q \in Procs : q # p => proc'[q] = proc[q]
  BY DEF IInv, TypeOK
<1>2. proc'[p] = r
  BY DEF IInv, TypeOK
<1>3. LockFree => \A q \in Procs : ~Locked(proc[q])
  BY DEF LockFree, Locked
<1>4. QED
  BY <1>1, <1>2, <1>3, OneAtATime DEF OnePipeline, Locked

LEMMA LockKept ==
  ASSUME OnePipeline, UNCHANGED proc \/ proc' = [p \in Procs |-> Idle]
  PROVE  OnePipeline'
BY DEF OnePipeline, Idle

LEMMA LockHeld ==
  ASSUME IInv, OnePipeline, [Next]_vars
  PROVE  OnePipeline'
<1> USE DEF Set, Fail
<1>1. CASE UNCHANGED vars
  BY <1>1, LockKept DEF vars
<1>2. ASSUME NEW p \in Procs, MqttCommand(p) \/ LocalCommand(p) \/ Pipeline(p)
      PROVE  OnePipeline'
  <2>1. CASE MqttCommand(p)
    <3>1. PICK r : proc' = [proc EXCEPT ![p] = r] /\ r.pc = "checked"
      <4>1. PICK q \in Requests :
              proc' = [proc EXCEPT ![p] = [Idle EXCEPT !.pc = "checked", !.cmd = q,
                                            !.st = [Empty EXCEPT !.request = q, !.version = VersionOf[q]]]]
        BY <2>1 DEF MqttCommand
      <4> DEFINE r == [Idle EXCEPT !.pc = "checked", !.cmd = q,
                                   !.st = [Empty EXCEPT !.request = q, !.version = VersionOf[q]]]
      <4>2. r.pc = "checked"
        BY DEF Idle
      <4>3. proc' = [proc EXCEPT ![p] = r]
        BY <4>1
      <4> HIDE DEF r
      <4>4. QED
        BY <4>2, <4>3
    <3>2. QED
      BY <3>1, LockTaken DEF Locked
  <2>2. CASE LocalCommand(p)
    BY <2>2, LockTaken DEF LocalCommand
  <2>3. CASE MqttLock(p)
    BY <2>3, LockTaken DEF MqttLock, ToPhase, Saving, Locked, Idle
  <2>4. CASE Pipeline(p) /\ ~MqttLock(p)
    <3>1. Locked(proc[p])
      BY <2>4 DEF Pipeline, SavePhaseFile, SavePhaseEnv, Guard, Download, Verify, RunUpgrade, Flash, Switch,
                  OrphanEnds, Locked
    <3>2. \E r : proc' = [proc EXCEPT ![p] = r]
      BY <2>4 DEF Pipeline, SavePhaseFile, SavePhaseEnv, Guard, Download, Verify, RunUpgrade, Flash, Switch,
                  OrphanEnds, ToPhase, Saving
    <3>3. QED
      BY <3>1, <3>2, LockTaken
  <2>5. QED
    BY <1>2, <2>1, <2>2, <2>3, <2>4
<1>3. ASSUME NEW p \in Procs, AgentDies(p)
      PROVE  OnePipeline'
  BY <1>3, LockTaken DEF AgentDies, Active, Locked
<1>4. CASE SaveFails
  <2>1. CASE UNCHANGED proc
    BY <2>1, LockKept
  <2>2. ASSUME NEW p \in Procs, proc[p].pc \in {"savefile", "saveenv"}, Fail(p)
        PROVE  OnePipeline'
    BY <2>2, LockTaken DEF Locked
  <2>3. QED
    BY <1>4, <2>1, <2>2 DEF SaveFails
<1>5. CASE Recovery \/ RequestReboot \/ Failover \/ FillActiveSlot \/ Sync \/ RecoveryTimeout
           \/ (BootStep /\ ~Reboot)
  <2>1. UNCHANGED proc
    BY <1>5 DEF Recovery, RecoverTry, RecoverReport, RecoverSaveFile, RecoverSaveEnv, RequestReboot, Failover,
                FillActiveSlot, Sync, RecoveryTimeout, BootStep, Boot, RecoveryEnded, CommitStart, CommitSlot,
                RollbackFailedSlot
  <2>2. QED
    BY <2>1, LockKept
<1>6. CASE Reboot \/ PowerLoss \/ PowerLossTornEnv
  <2>1. proc' = [p \in Procs |-> Idle]
    BY <1>6 DEF Reboot, PowerLoss, PowerLossTornEnv, Down
  <2>2. QED
    BY <2>1, LockKept
<1>7. QED
  BY <1>1, <1>2, <1>3, <1>4, <1>5, <1>6 DEF Next, BootStep, Faults

\* At most one pipeline works on the download file and the other slot at a time, for any
\* number of callers: the lock is taken when it is free, and a killed ota-agent leaves it to
\* the child that goes on (otaStateAcquireLock).
THEOREM PipelinesExclude == Spec => []OnePipeline
<1>1. Init => OnePipeline
  BY OneAtATime DEF Init, Locked, Idle
<1>2. IInv /\ RecNames /\ OnePipeline /\ [Next]_vars => OnePipeline'
  BY LockHeld
<1>3. QED
  BY <1>1, <1>2, Invariance, PTL DEF Spec

-----------------------------------------------------------------------------
(***************************************************************************)
(* What ota-agent remembers: the request it saved last is what the         *)
(* duplicate check reads in whatever slot runs, across switches, commits,  *)
(* rollbacks and power losses.                                             *)
(***************************************************************************)

\* The records of a request name its version (an environment without one is incomplete).
Versioned(st) == st.request \in Requests => st.version # 0
AllVersioned ==
  /\ \A s \in Slot : file[s].kind = "ok" => Versioned(file[s].st)
  /\ \A s \in Slot : disk[s].kind = "ok" => Versioned(disk[s].st)
  /\ \A p \in Procs : proc[p].pc # "idle" => Versioned(proc[p].st)
  /\ Judging => Versioned(rec.st)

\* A pipeline that has saved the phase "downloading", and what it says of the target, the
\* environment and the file of the running root.
Past  == {"download", "verify", "run", "flash", "switch"}
Saves == {"savefile", "saveenv"}
Works(r)   == r.pc \in Past \cup Saves
Written(r) == r.pc \in Past \/ (r.pc \in Saves /\ r.st.phase \in {"verifying", "upgrading"})
Allowed(r) == Written(r) \/ (r.pc \in Saves /\ r.st.phase = "downloading")

PhaseOK(r) == /\ r.pc \in Saves => r.st.phase \in {"received", "downloading", "verifying", "upgrading"}
              /\ r.pc = "savefile" => r.step = 1
TargetOK(r) == Allowed(r) => r.st.target = AB!Flip(slot) /\ ~trial /\ stored
OnFile(r) == r.pc = "saveenv" => /\ file[running] = Saved(r.st) /\ lastRun = r.st.request
                                 /\ ~forgot => ~trial /\ running = slot
HalfSaved(r) == r.pc = "saveenv" => /\ r.step > 1 => env.request = r.st.request
                                    /\ r.step > 2 => env.version = r.st.version
                                    /\ r.step > 3 /\ r.st.phase # "received" => env.target \in Slot
InEnv(r) == Written(r) => /\ lastRun = r.st.request
                          /\ env.request = r.st.request /\ env.version = r.st.version
                          /\ env.target \in Slot /\ env.phase # "none"
Erases(r) == /\ r.pc \in {"flash", "switch"} => running = slot
             /\ r.pc = "switch" => file[AB!Flip(slot)] = Absent /\ disk[AB!Flip(slot)] = Absent
PipeOK(r) == PhaseOK(r) /\ TargetOK(r) /\ OnFile(r) /\ HalfSaved(r) /\ InEnv(r) /\ Erases(r)
PipesOK == \A p \in Procs : PipeOK(proc[p])

\* Recovery judges an upgrade of the slot that does not run; a rollback is of a trial.
ScriptOK ==
  /\ Judging => rec.st.phase = "failed" /\ rec.st.target # slot
  /\ stage = "S20" => running = slot
  /\ stage = "rollback" /\ step = 1 => trial

\* The slots that may run next without a fault or a switch of the bootloader: in each, the
\* state that will be loaded names the last request, and an upgrade the file knows of is
\* the one the environment knows of.
Needed(s)    == s \in {slot, running} \/ trial \/ \E p \in Procs : proc[p].pc = "switch"
Remembers(s) == \/ file[s].kind = "corrupt"
                \/ file[s].kind = "ok" /\ file[s].st.request = lastRun
                \/ file[s].kind = "absent" /\ EnvComplete /\ env.request = lastRun
Agrees(s)    == file[s].kind = "ok" /\ file[s].st.phase = "upgrading" => env.request = lastRun
Held   == lastRun \in Requests /\ ~forgot
Kept   == Held => \A s \in Slot : Needed(s) => Remembers(s) /\ Agrees(s)
Judged == Held /\ Judging => rec.st.request = lastRun /\ env.request = lastRun

RInv == AllVersioned /\ PipesOK /\ ScriptOK /\ Kept /\ Judged

\* What is known before a step.
Known == IInv /\ RecNames /\ OnePipeline /\ RInv

-----------------------------------------------------------------------------
(* Who works, and what the others do not see *)

Seen == <<slot, trial, stored, env, file, disk, running, rec, lastRun, forgot, stage, step>>

LEMMA Flipped == \A s \in Slot : AB!Flip(s) \in Slot /\ AB!Flip(s) # s /\ AB!Flip(AB!Flip(s)) = s
BY DEF AB!Flip, Slot

LEMMA WorksLocked == \A p \in Procs : Works(proc[p]) => Locked(proc[p])
BY DEF Works, Locked, Past, Saves

\* Who does not work promises nothing.
LEMMA Resting ==
  ASSUME NEW r, ~Works(r)
  PROVE  PipeOK(r)
BY DEF Works, Past, Saves, PipeOK, PhaseOK, TargetOK, OnFile, HalfSaved, InEnv, Erases, Allowed, Written

LEMMA RestingNext ==
  ASSUME NEW p \in Procs, ~Works(proc'[p])
  PROVE  PipeOK(proc[p])'
BY DEF Works, Past, Saves, PipeOK, PhaseOK, TargetOK, OnFile, HalfSaved, InEnv, Erases, Allowed, Written

\* A step of the process that works: no other one does.
LEMMA Alone ==
  ASSUME IInv, OnePipeline, NEW p \in Procs, Locked(proc[p]), NEW r, proc' = [proc EXCEPT ![p] = r]
  PROVE  proc'[p] = r /\ \A q \in Procs \ {p} : proc'[q] = proc[q] /\ ~Works(proc[q])
BY OneAtATime, WorksLocked DEF IInv, TypeOK

LEMMA SeenKept ==
  ASSUME UNCHANGED Seen
  PROVE  /\ \A r : PipeOK(r) => PhaseOK(r)' /\ TargetOK(r)' /\ OnFile(r)' /\ HalfSaved(r)' /\ InEnv(r)' /\ Erases(r)'
         /\ ScriptOK => ScriptOK'
BY DEF Seen, PipeOK, PhaseOK, TargetOK, OnFile, HalfSaved, InEnv, Erases, Allowed, Written, ScriptOK, Judging

\* A process that goes on without having changed anything else.
LEMMA Goes ==
  ASSUME Known, NEW p \in Procs, NEW r, proc' = [proc EXCEPT ![p] = r], UNCHANGED Seen,
         PipeOK(r), r.pc # "idle" => Versioned(r.st), r.pc # "switch"
  PROVE  RInv'
<1>1. proc'[p] = r /\ \A q \in Procs \ {p} : proc'[q] = proc[q]
  BY DEF Known, IInv, TypeOK
<1>2. AllVersioned'
  BY <1>1 DEF Known, RInv, AllVersioned, Seen, Versioned, Judging
<1>3. PipesOK'
  <2> SUFFICES ASSUME NEW q \in Procs PROVE PipeOK(proc[q])'
    BY DEF PipesOK
  <2>1. PipeOK(proc'[q])
    BY <1>1 DEF Known, RInv, PipesOK
  <2>2. QED
    BY <2>1, SeenKept DEF PipeOK
<1>4. ScriptOK'
  BY SeenKept DEF Known, RInv
<1>5. \A s \in Slot : Needed(s)' => Needed(s)
  BY <1>1 DEF Needed, Seen
<1>6. Kept' /\ Judged'
  BY <1>5 DEF Known, RInv, Kept, Judged, Held, Remembers, Agrees, EnvComplete, Judging, Seen
<1>7. QED
  BY <1>2, <1>3, <1>4, <1>6 DEF RInv

\* What is loaded is versioned, for the environment without a version is incomplete.
LEMMA LoadsVersioned ==
  ASSUME AllVersioned, running \in Slot
  PROVE  Versioned(Loaded)
<1>1. "none" \notin Requests
  BY RequestsAssumption
<1>2. QED
  BY <1>1 DEF AllVersioned, Loaded, Versioned, EnvComplete, Empty

LEMMA QuietRemembers ==
  ASSUME Known, NEW p \in Procs,
         \/ MqttCommand(p) \/ MqttLock(p) \/ LocalCommand(p) \/ Guard(p) \/ Download(p)
         \/ Verify(p) \/ RunUpgrade(p) \/ OrphanEnds(p)
  PROVE  RInv'
<1> DEFINE old == proc[p]
<1> USE DEF Set
<1>1. UNCHANGED Seen
  BY DEF MqttCommand, MqttLock, LocalCommand, Guard, Download, Verify, RunUpgrade, OrphanEnds, Started,
         Seen, abVars, stateVars, bootVars, history
<1>2. old \in ProcType /\ old.st \in Records /\ PipeOK(old) /\ (old.pc # "idle" => Versioned(old.st))
  BY DEF Known, RInv, AllVersioned, PipesOK, IInv, TypeOK, ProcType
<1>3. Idle.pc = "idle" /\ PipeOK(Idle)
  <2>1. Idle.pc = "idle"
    BY DEF Idle
  <2>2. QED
    BY <2>1, Resting DEF Works, Past, Saves
<1>4. CASE Fail(p)
  BY <1>1, <1>3, <1>4, Goes DEF Fail
<1>5. CASE MqttCommand(p)
  <2>1. PICK q \in Requests :
          proc' = [proc EXCEPT ![p] = [Idle EXCEPT !.pc = "checked", !.cmd = q,
                                        !.st = [Empty EXCEPT !.request = q, !.version = VersionOf[q]]]]
    BY <1>5 DEF MqttCommand
  <2> DEFINE st == [Empty EXCEPT !.request = q, !.version = VersionOf[q]]
             r  == [Idle EXCEPT !.pc = "checked", !.cmd = q, !.st = st]
  <2>2. VersionOf[q] # 0
    BY VersionAssumption DEF Commands
  <2>3. Versioned(st)
    BY <2>2 DEF Versioned, Empty
  <2>4. r.pc = "checked" /\ r.st = st
    BY DEF Idle
  <2>5. PipeOK(r)
    BY <2>4, Resting DEF Works, Past, Saves
  <2>6. proc' = [proc EXCEPT ![p] = r]
    BY <2>1
  <2> HIDE DEF r, st
  <2>7. QED
    BY <1>1, <2>3, <2>4, <2>5, <2>6, Goes
<1>6. CASE LocalCommand(p)
  <2>1. running \in Slot
    BY <1>6 DEF LocalCommand, Started, Known, IInv, BootShape
  <2>2. Versioned(Loaded) /\ Loaded \in Records
    BY <2>1, LoadsVersioned, LoadedTyped DEF Known, RInv, IInv
  <2> DEFINE r1 == [Idle EXCEPT !.pc = "guard", !.cmd = "apply", !.st = Loaded]
             st2 == [Loaded EXCEPT !.request = "pull-latest"]
             r2 == [Idle EXCEPT !.pc = "guard", !.cmd = "pull-latest", !.st = st2]
  <2>3. Versioned(st2)
    BY <2>2, RequestsAssumption DEF Versioned, Records
  <2>4. r1.pc = "guard" /\ r1.st = Loaded /\ r2.pc = "guard" /\ r2.st = st2
    BY DEF Idle
  <2>5. PipeOK(r1) /\ PipeOK(r2)
    BY <2>4, Resting DEF Works, Past, Saves
  <2>6. proc' = [proc EXCEPT ![p] = r1] \/ proc' = [proc EXCEPT ![p] = r2]
    BY <1>6 DEF LocalCommand
  <2> HIDE DEF r1, r2, st2
  <2>7. QED
    BY <1>1, <2>2, <2>3, <2>4, <2>5, <2>6, Goes
<1>7. CASE (MqttLock(p) \/ Download(p) \/ Verify(p)) /\ ~Fail(p)
  <2>1. PICK ph \in {"received", "upgrading", "verifying"} :
           /\ ToPhase(p, ph) /\ old.pc # "idle" 
           /\ ph # "received" => old.pc \in {"download", "verify"}
    BY <1>7 DEF MqttLock, Download, Verify, Fail
  <2> DEFINE st == [old.st EXCEPT !.phase = ph]
             r  == [old EXCEPT !.pc = "savefile", !.st = st, !.step = 1]
  <2>2. /\ st.request = old.st.request /\ st.version = old.st.version /\ st.target = old.st.target
        /\ st.phase = ph
    BY <1>2 DEF Records
  <2>3. r.pc = "savefile" /\ r.st = st /\ r.step = 1
    BY <1>2 DEF ProcType
  <2>4. ph # "received" => Written(old)
    BY <2>1 DEF Written, Past
  <2>5. PipeOK(r)
    <3> HIDE DEF st, r
    <3>1. PhaseOK(r) /\ OnFile(r) /\ HalfSaved(r) /\ Erases(r)
      BY <2>2, <2>3 DEF PhaseOK, OnFile, HalfSaved, Erases
    <3>2. Allowed(r) => ph # "received"
      BY <2>2, <2>3 DEF Allowed, Written, Past, Saves
    <3>3. Written(r) => ph # "received"
      BY <2>2, <2>3 DEF Written, Past, Saves
    <3>4. TargetOK(r)
      BY <1>2, <2>2, <2>3, <2>4, <3>2 DEF PipeOK, TargetOK, Allowed
    <3>5. InEnv(r)
      BY <1>2, <2>2, <2>3, <2>4, <3>3 DEF PipeOK, InEnv
    <3>6. QED
      BY <3>1, <3>4, <3>5 DEF PipeOK
  <2>6. Versioned(st)
    BY <1>2, <2>1, <2>2 DEF Versioned
  <2>7. proc' = [proc EXCEPT ![p] = r]
    BY <2>1 DEF ToPhase, Saving
  <2> HIDE DEF st, r
  <2>8. QED
    BY <1>1, <2>3, <2>5, <2>6, <2>7, Goes
<1>8. CASE Guard(p) /\ ~Fail(p)
  <2> DEFINE st == [old.st EXCEPT !.target = AB!Flip(slot), !.phase = "downloading"]
             r  == [old EXCEPT !.pc = "savefile", !.st = st, !.step = 1]
  <2>1. proc' = [proc EXCEPT ![p] = r] /\ ~trial /\ stored /\ old.pc = "guard"
    BY <1>8 DEF Guard, Saving
  <2>2. /\ st.request = old.st.request /\ st.version = old.st.version
        /\ st.target = AB!Flip(slot) /\ st.phase = "downloading"
    BY <1>2 DEF Records
  <2>3. r.pc = "savefile" /\ r.st = st /\ r.step = 1
    BY <1>2 DEF ProcType
  <2> HIDE DEF st, r
  <2>4. PipeOK(r)
    BY <2>1, <2>2, <2>3 DEF PipeOK, PhaseOK, TargetOK, OnFile, HalfSaved, InEnv, Erases, Written, Past, Saves
  <2>5. Versioned(st)
    BY <1>2, <2>1, <2>2 DEF Versioned
  <2>6. QED
    BY <1>1, <2>1, <2>3, <2>4, <2>5, Goes
<1>9. CASE RunUpgrade(p) /\ ~Fail(p)
  <2> DEFINE r == [old EXCEPT !.pc = "flash"]
  <2>1. proc' = [proc EXCEPT ![p] = r] /\ running = slot /\ old.pc = "run"
    BY <1>9 DEF RunUpgrade
  <2>2. r.pc = "flash" /\ r.st = old.st /\ r.step = old.step
    BY <1>2 DEF ProcType
  <2> HIDE DEF r
  <2>3. PipeOK(r)
    BY <1>2, <2>1, <2>2 DEF PipeOK, PhaseOK, TargetOK, OnFile, HalfSaved, InEnv, Erases, Allowed, Written, Past, Saves
  <2>4. QED
    BY <1>1, <1>2, <2>1, <2>2, <2>3, Goes
<1>10. QED
  BY <1>4, <1>5, <1>6, <1>7, <1>8, <1>9 DEF OrphanEnds, Fail

-----------------------------------------------------------------------------
(* The writes of a pipeline *)

LEMMA SavePhaseFileRemembers ==
  ASSUME Known, NEW p \in Procs, SavePhaseFile(p)
  PROVE  RInv'
<1> DEFINE old == proc[p]
           st  == old.st
           r   == [old EXCEPT !.pc = "saveenv"]
<1>1. /\ old \in ProcType /\ st \in Records /\ PipeOK(old) /\ Versioned(st) /\ old.pc = "savefile"
      /\ file \in [Slot -> FileType] /\ running \in Slot /\ slot \in Slot /\ rec.pc = "idle" /\ stage # "S20"
  BY Busy DEF Known, RInv, AllVersioned, PipesOK, IInv, TypeOK, ProcType, SavePhaseFile
<1>2. proc' = [proc EXCEPT ![p] = r]
  BY DEF SavePhaseFile, Set
<1>3. r.pc = "saveenv" /\ r.st = st /\ r.step = 1
  BY <1>1 DEF ProcType, PipeOK, PhaseOK
<1>4. Locked(old)
  BY <1>1 DEF Locked
<1>5. proc'[p] = r /\ \A q \in Procs \ {p} : proc'[q] = proc[q] /\ ~Works(proc[q])
  BY <1>2, <1>4, Alone DEF Known
<1>6. /\ file' = [file EXCEPT ![running] = Saved(st)] /\ lastRun' = st.request
      /\ forgot' = (trial \/ running # slot)
      /\ slot' = slot /\ trial' = trial /\ stored' = stored /\ running' = running
      /\ UNCHANGED <<env, disk, rec, stage, step>>
  BY DEF SavePhaseFile, SaveFile, abVars, bootVars
<1>7. file'[running] = Saved(st) /\ \A s \in Slot \ {running} : file'[s] = file[s]
  BY <1>1, <1>6
<1>8. Saved(st).kind = "ok" /\ Saved(st).st = st
  BY DEF Saved
<1> HIDE DEF st, r
<1>9. AllVersioned'
  <2>1. \A s \in Slot : file'[s].kind = "ok" => Versioned(file'[s].st)
    BY <1>1, <1>7, <1>8 DEF Known, RInv, AllVersioned
  <2>2. \A q \in Procs : proc'[q].pc # "idle" => Versioned(proc'[q].st)
    BY <1>1, <1>3, <1>5 DEF Known, RInv, AllVersioned
  <2>3. QED
    BY <1>1, <1>6, <2>1, <2>2 DEF Known, RInv, AllVersioned, Judging, Versioned
<1>10. PipeOK(proc[p])'
  <2>1. PhaseOK(proc[p])' /\ Erases(proc[p])'
    BY <1>1, <1>3, <1>5 DEF PipeOK, PhaseOK, Erases, Saves, st
  <2>2. TargetOK(proc[p])' /\ InEnv(proc[p])'
    BY <1>1, <1>3, <1>5, <1>6 DEF PipeOK, TargetOK, InEnv, Allowed, Written, Past, Saves, st
  <2>3. OnFile(proc[p])' /\ HalfSaved(proc[p])'
    <3>1. ~forgot' => ~trial' /\ running' = slot'
      BY <1>6
    <3>2. OnFile(proc[p])'
      BY <1>3, <1>5, <1>6, <1>7, <3>1 DEF OnFile
    <3>3. HalfSaved(proc[p])'
      BY <1>3, <1>5 DEF HalfSaved
    <3>4. QED
      BY <3>2, <3>3
  <2>4. QED
    BY <2>1, <2>2, <2>3 DEF PipeOK
<1>11. PipesOK'
  BY <1>5, <1>10, RestingNext DEF PipesOK
<1>12. ScriptOK'
  BY <1>6 DEF Known, RInv, ScriptOK, Judging
<1>13. Kept'
  <2> SUFFICES ASSUME Held', NEW s \in Slot, Needed(s)' PROVE Remembers(s)' /\ Agrees(s)'
    BY DEF Kept
  <2>1. ~trial /\ running = slot
    BY <1>6 DEF Held
  <2>2. \A q \in Procs : proc'[q].pc # "switch"
    BY <1>3, <1>5 DEF Works, Past
  <2>3. s = running
    BY <1>6, <2>1, <2>2 DEF Needed
  <2>4. Remembers(s)'
    BY <1>6, <1>7, <1>8, <2>3 DEF Remembers
  <2>5. Agrees(s)'
    BY <1>1, <1>6, <1>7, <1>8, <2>3 DEF Agrees, PipeOK, InEnv, Written, Saves, st
  <2>6. QED
    BY <2>4, <2>5
<1>14. Judged'
  BY <1>1, <1>6 DEF Judged, Judging
<1>15. QED
  BY <1>9, <1>11, <1>12, <1>13, <1>14 DEF RInv

\* One variable of the environment, the others kept.
LEMMA OneVariable ==
  ASSUME env \in Records, NEW st \in Records, NEW k \in 1 .. 4, SaveVariable(st, k)
  PROVE  /\ env'.request = IF k = 1 THEN st.request ELSE env.request
         /\ env'.version = IF k = 2 THEN st.version ELSE env.version
         /\ env'.target  = IF k = 3 THEN st.target  ELSE env.target
         /\ env'.phase   = IF k = 4 THEN st.phase   ELSE env.phase
BY DEF SaveVariable, SaveOrder, Records

LEMMA SavePhaseEnvRemembers ==
  ASSUME Known, NEW p \in Procs, SavePhaseEnv(p)
  PROVE  RInv'
<1> DEFINE old == proc[p]
           st  == old.st
           k   == old.step
           r   == IF k < 4 THEN [old EXCEPT !.step = k + 1] ELSE [old EXCEPT !.pc = AfterPhase(st.phase)]
<1>1. /\ old \in ProcType /\ st \in Records /\ k \in 1 .. 4 /\ env \in Records
      /\ PipeOK(old) /\ Versioned(st) /\ old.pc = "saveenv"
      /\ running \in Slot /\ slot \in Slot /\ rec.pc = "idle" /\ stage # "S20"
  BY Busy DEF Known, RInv, AllVersioned, PipesOK, IInv, TypeOK, ProcType, SavePhaseEnv
<1>2. proc' = [proc EXCEPT ![p] = r] /\ SaveVariable(st, k)
  BY DEF SavePhaseEnv, Set, SaveOrder
<1>3. /\ env'.request = IF k = 1 THEN st.request ELSE env.request
      /\ env'.version = IF k = 2 THEN st.version ELSE env.version
      /\ env'.target  = IF k = 3 THEN st.target  ELSE env.target
      /\ env'.phase   = IF k = 4 THEN st.phase   ELSE env.phase
  BY <1>1, <1>2, OneVariable
<1>4. /\ r.st = st
      /\ k < 4 => r.pc = "saveenv" /\ r.step = k + 1
      /\ k = 4 => r.pc = AfterPhase(st.phase)
  BY <1>1 DEF ProcType
<1>5. Locked(old)
  BY <1>1 DEF Locked
<1>6. proc'[p] = r /\ \A q \in Procs \ {p} : proc'[q] = proc[q] /\ ~Works(proc[q])
  BY <1>2, <1>5, Alone DEF Known
<1>7. /\ slot' = slot /\ trial' = trial /\ stored' = stored /\ running' = running
      /\ UNCHANGED <<file, disk, rec, stage, step, lastRun, forgot>>
  BY DEF SavePhaseEnv, abVars, bootVars, history
<1>8. /\ st.phase \in {"received", "downloading", "verifying", "upgrading"}
      /\ st.phase # "received" => st.target = AB!Flip(slot) /\ ~trial /\ stored /\ st.target \in Slot
      /\ AfterPhase(st.phase) \in {"guard", "download", "verify", "run"}
      /\ st.phase = "received" => AfterPhase(st.phase) = "guard"
  BY <1>1, Flipped DEF PipeOK, PhaseOK, TargetOK, Allowed, Written, Saves, AfterPhase
<1>9. file[running] = Saved(st) /\ lastRun = st.request /\ (~forgot => ~trial /\ running = slot)
  BY <1>1 DEF PipeOK, OnFile
<1>10. Saved(st).kind = "ok" /\ Saved(st).st = st
  BY DEF Saved
<1> HIDE DEF st, r, k
<1>11. AllVersioned'
  BY <1>1, <1>4, <1>6, <1>7 DEF Known, RInv, AllVersioned, Versioned, Judging
<1>12. PipeOK(proc[p])'
  <2>1. PhaseOK(proc[p])'
    BY <1>1, <1>4, <1>6, <1>8 DEF PhaseOK, Saves
  <2>2. Allowed(r) => st.phase # "received"
    BY <1>1, <1>4, <1>8 DEF Allowed, Written, Past, Saves
  <2>3. TargetOK(proc[p])'
    BY <1>4, <1>6, <1>7, <1>8, <2>2 DEF TargetOK, Allowed, Written
  <2>4. OnFile(proc[p])' /\ Erases(proc[p])'
    BY <1>1, <1>4, <1>6, <1>7, <1>8, <1>9 DEF OnFile, Erases
  <2>5. HalfSaved(old) /\ InEnv(old)
    BY <1>1 DEF PipeOK
  <2>6. HalfSaved(proc[p])'
    <3>1. CASE k < 4
      BY <1>1, <1>3, <1>4, <1>6, <1>8, <2>5, <3>1 DEF HalfSaved, st, k
    <3>2. CASE k = 4
      BY <1>4, <1>6, <1>8, <3>2 DEF HalfSaved
    <3>3. QED
      BY <1>1, <3>1, <3>2
  <2>7. InEnv(proc[p])'
    <3>1. CASE k < 4 /\ Written(old)
      <4>1. st.phase # "received"
        BY <1>1, <3>1 DEF Written, Past, Saves, st
      <4>2. QED
        BY <1>1, <1>3, <1>4, <1>6, <1>7, <1>8, <2>5, <3>1, <4>1 DEF InEnv, Written, st, k
    <3>2. CASE k < 4 /\ ~Written(old)
      BY <1>1, <1>4, <1>6, <3>2 DEF InEnv, Written, Past, Saves, st
    <3>3. CASE k = 4 /\ st.phase # "received"
      <4>1. env.request = st.request /\ env.version = st.version /\ env.target \in Slot
        BY <1>1, <2>5, <3>3 DEF HalfSaved, st, k
      <4>2. QED
        BY <1>3, <1>4, <1>6, <1>7, <1>8, <1>9, <3>3, <4>1 DEF InEnv
    <3>4. CASE k = 4 /\ st.phase = "received"
      BY <1>4, <1>6, <1>8, <3>4 DEF InEnv, Written, Past, Saves
    <3>5. QED
      BY <1>1, <3>1, <3>2, <3>3, <3>4
  <2>8. QED
    BY <2>1, <2>3, <2>4, <2>6, <2>7 DEF PipeOK
<1>13. PipesOK'
  BY <1>6, <1>12, RestingNext DEF PipesOK
<1>14. ScriptOK'
  BY <1>7 DEF Known, RInv, ScriptOK, Judging
<1>15. Kept'
  <2> SUFFICES ASSUME Held', NEW s \in Slot, Needed(s)' PROVE Remembers(s)' /\ Agrees(s)'
    BY DEF Kept
  <2>1. ~trial /\ running = slot
    BY <1>7, <1>9 DEF Held
  <2>2. \A q \in Procs : proc'[q].pc # "switch"
    BY <1>1, <1>4, <1>6, <1>8 DEF Works, Past
  <2>3. s = running
    BY <1>7, <2>1, <2>2 DEF Needed
  <2>4. Remembers(s)'
    BY <1>7, <1>9, <1>10, <2>3 DEF Remembers
  <2>5. Needed(s) /\ Held
    BY <1>7, <2>3 DEF Needed, Held
  <2>6. Agrees(s)
    BY <2>5 DEF Known, RInv, Kept
  <2>7. Agrees(s)'
    BY <1>3, <1>7, <1>9, <2>6 DEF Agrees
  <2>8. QED
    BY <2>4, <2>7
<1>16. Judged'
  BY <1>1, <1>7 DEF Judged, Judging
<1>17. QED
  BY <1>11, <1>13, <1>14, <1>15, <1>16 DEF RInv

LEMMA FlashRemembers ==
  ASSUME Known, NEW p \in Procs, Flash(p)
  PROVE  RInv'
<1> DEFINE old == proc[p]
           st  == old.st
           t   == AB!Flip(slot)
           r   == [old EXCEPT !.pc = "switch"]
<1>1. /\ old \in ProcType /\ st \in Records /\ PipeOK(old) /\ Versioned(st) /\ old.pc = "flash"
      /\ file \in [Slot -> FileType] /\ disk \in [Slot -> FileType] /\ env \in Records
      /\ running \in Slot /\ slot \in Slot /\ rec.pc = "idle" /\ stage # "S20"
  BY Busy DEF Known, RInv, AllVersioned, PipesOK, IInv, TypeOK, ProcType, Flash
<1>2. t \in Slot /\ t # slot
  BY <1>1, Flipped
<1>3. Idle.pc = "idle" /\ r.pc = "switch" /\ r.st = st
  BY <1>1 DEF ProcType, Idle
<1>4. /\ proc' = [proc EXCEPT ![p] = Idle] \/ proc' = [proc EXCEPT ![p] = r]
      /\ file' = [file EXCEPT ![t] = Absent] /\ disk' = [disk EXCEPT ![t] = Absent]
      /\ slot' = slot /\ trial' = trial /\ stored' = stored /\ running' = running
      /\ UNCHANGED <<env, rec, stage, step, lastRun, forgot>>
  BY DEF Flash, Fail, Set, abVars, bootVars, history
<1>5. Locked(old)
  BY <1>1 DEF Locked
<1>6. /\ proc'[p] = Idle \/ proc'[p] = r
      /\ \A q \in Procs \ {p} : proc'[q] = proc[q] /\ ~Works(proc[q])
  BY <1>4, <1>5, Alone DEF Known
<1>7. /\ file'[t] = Absent /\ disk'[t] = Absent
      /\ \A s \in Slot \ {t} : file'[s] = file[s] /\ disk'[s] = disk[s]
  BY <1>1, <1>2, <1>4
<1>8. Absent.kind = "absent"
  BY DEF Absent
<1>9. /\ st.target = t /\ ~trial /\ stored /\ running = slot /\ lastRun = st.request
      /\ env.request = st.request /\ env.version = st.version /\ env.target \in Slot /\ env.phase # "none"
  BY <1>1 DEF PipeOK, TargetOK, InEnv, Erases, Allowed, Written, Past
<1> HIDE DEF st, t, r
<1>10. AllVersioned'
  <2>1. /\ \A s \in Slot : file'[s].kind = "ok" => Versioned(file'[s].st)
        /\ \A s \in Slot : disk'[s].kind = "ok" => Versioned(disk'[s].st)
    BY <1>7, <1>8 DEF Known, RInv, AllVersioned
  <2>2. \A q \in Procs : proc'[q].pc # "idle" => Versioned(proc'[q].st)
    BY <1>1, <1>3, <1>6 DEF Known, RInv, AllVersioned
  <2>3. QED
    BY <1>1, <1>4, <2>1, <2>2 DEF AllVersioned, Judging, Versioned
<1>11. PipesOK'
  <2>1. CASE proc'[p] = Idle
    BY <1>3, <1>6, <2>1, RestingNext DEF PipesOK, Works, Past, Saves
  <2>2. CASE proc'[p] = r
    <3>1. PhaseOK(proc[p])' /\ OnFile(proc[p])' /\ HalfSaved(proc[p])'
      BY <1>3, <2>2 DEF PhaseOK, OnFile, HalfSaved, Saves
    <3>2. TargetOK(proc[p])' /\ InEnv(proc[p])'
      BY <1>3, <1>4, <1>9, <2>2 DEF TargetOK, InEnv, t
    <3>3. Erases(proc[p])'
      BY <1>3, <1>4, <1>7, <1>9, <2>2 DEF Erases, t
    <3>4. PipeOK(proc[p])'
      BY <3>1, <3>2, <3>3 DEF PipeOK
    <3>5. QED
      BY <1>6, <3>4, RestingNext DEF PipesOK
  <2>3. QED
    BY <1>6, <2>1, <2>2
<1>12. ScriptOK'
  BY <1>4 DEF Known, RInv, ScriptOK, Judging
<1>13. Kept'
  <2> SUFFICES ASSUME Held', NEW s \in Slot, Needed(s)' PROVE Remembers(s)' /\ Agrees(s)'
    BY DEF Kept
  <2>1. CASE s = t
    <3>1. lastRun \in Requests /\ "none" \notin Requests
      BY <1>4, RequestsAssumption DEF Held
    <3>2. env.request # "none" /\ env.version # 0 /\ env.target # "none"
      BY <1>1, <1>9, <3>1 DEF Versioned, Slot
    <3>3. QED
      BY <1>4, <1>7, <1>8, <1>9, <2>1, <3>2 DEF Remembers, Agrees, EnvComplete
  <2>2. CASE s # t
    <3>1. s = slot /\ Needed(s) /\ Held
      BY <1>1, <1>4, <2>2, Flipped DEF Needed, Held, t, Slot, AB!Flip
    <3>2. Remembers(s) /\ Agrees(s)
      BY <3>1 DEF Known, RInv, Kept
    <3>3. QED
      BY <1>4, <1>7, <2>2, <3>2 DEF Remembers, Agrees, EnvComplete
  <2>3. QED
    BY <2>1, <2>2
<1>14. Judged'
  BY <1>1, <1>4 DEF Judged, Judging
<1>15. QED
  BY <1>10, <1>11, <1>12, <1>13, <1>14 DEF RInv

\* From its last step on a switch needs every slot to remember: it may be cut at any time.
LEMMA SwitchRemembers ==
  ASSUME Known, NEW p \in Procs, Switch(p)
  PROVE  RInv'
<1>1. proc[p].pc = "switch" /\ rec.pc = "idle" /\ stage # "S20"
  BY Busy DEF Known, IInv, Switch
<1>2. Locked(proc[p]) /\ proc' = [proc EXCEPT ![p] = Idle]
  BY <1>1 DEF Locked, Switch, Fail, Set
<1>3. proc'[p] = Idle /\ \A q \in Procs \ {p} : proc'[q] = proc[q] /\ ~Works(proc[q])
  BY <1>2, Alone DEF Known
<1>4. UNCHANGED <<env, file, disk, running, rec, lastRun, forgot, stage, step>>
  BY DEF Switch, stateVars
<1>5. AllVersioned'
  BY <1>3, <1>4 DEF Known, RInv, AllVersioned, Versioned, Judging, Idle
<1>6. PipesOK'
  BY <1>3, RestingNext DEF PipesOK, Works, Past, Saves, Idle
<1>7. ScriptOK' /\ Judged'
  <2>1. stage = "rollback" /\ step = 1 => trial'
    BY DEF Switch, AB!Install
  <2>2. QED
    BY <1>1, <1>4, <2>1 DEF ScriptOK, Judged, Judging
<1>8. Kept'
  BY <1>1, <1>4 DEF Known, RInv, Kept, Held, Needed, Remembers, Agrees, EnvComplete
<1>9. QED
  BY <1>5, <1>6, <1>7, <1>8 DEF RInv

-----------------------------------------------------------------------------
(* Recovery *)

LEMMA NobodyWorks ==
  ASSUME \A p \in Procs : proc'[p].pc = "idle"
  PROVE  PipesOK' /\ \A p \in Procs : proc'[p].pc # "switch"
BY RestingNext DEF PipesOK, Works, Past, Saves

\* What recovery leaves alone, and where it runs.
LEMMA InRecovery ==
  ASSUME Known, Recovery
  PROVE  /\ stage = "S20" /\ running = slot /\ slot \in Slot /\ rec \in RecType /\ rec.st \in Records
         /\ env \in Records /\ file \in [Slot -> FileType] /\ PipesOK'
         /\ \A p \in Procs : proc'[p].pc = "idle" /\ proc[p].pc = "idle"
         /\ UNCHANGED <<slot, trial, stored, disk, running, lastRun, forgot, stage, step, proc>>
<1>1. stage = "S20" /\ rec \in RecType /\ rec.st \in Records
  BY DEF Recovery, RecoverTry, RecoverReport, RecoverSaveFile, RecoverSaveEnv, Known, IInv, BootShape,
         TypeOK, RecType
<1>2. running = slot /\ slot \in Slot /\ env \in Records /\ file \in [Slot -> FileType]
  BY <1>1 DEF Known, RInv, ScriptOK, IInv, TypeOK
<1>3. UNCHANGED <<slot, trial, stored, disk, running, lastRun, forgot, stage, step, proc>>
  BY DEF Recovery, RecoverTry, RecoverReport, RecoverSaveFile, RecoverSaveEnv, abVars, stateVars, bootVars,
         history, SaveFile
<1>4. \A p \in Procs : proc[p].pc = "idle"
  BY <1>1 DEF Known, IInv, BootShape
<1>5. QED
  BY <1>1, <1>2, <1>3, <1>4, NobodyWorks

\* A file that recovery writes in the running root.
LEMMA WritesRecord ==
  ASSUME Known, Recovery, NEW st \in Records, SaveFile(st), UNCHANGED env, Versioned(st),
         Held => st.request = lastRun, st.phase # "upgrading"
  PROVE  /\ Kept'
         /\ \A s \in Slot : file'[s].kind = "ok" => Versioned(file'[s].st)
<1>1. /\ running = slot /\ slot \in Slot /\ file \in [Slot -> FileType]
      /\ \A p \in Procs : proc'[p].pc = "idle"
      /\ UNCHANGED <<slot, trial, running, lastRun, forgot, proc>>
  BY InRecovery
<1>2. file'[running] = Saved(st) /\ \A s \in Slot \ {running} : file'[s] = file[s]
  BY <1>1 DEF SaveFile
<1>3. Saved(st).kind = "ok" /\ Saved(st).st = st
  BY DEF Saved
<1>4. \A s \in Slot : file'[s].kind = "ok" => Versioned(file'[s].st)
  BY <1>2, <1>3 DEF Known, RInv, AllVersioned
<1>5. ASSUME Held', NEW s \in Slot, Needed(s)'
      PROVE  Remembers(s)' /\ Agrees(s)'
  <2>1. CASE s = running
    BY <1>1, <1>2, <1>3, <1>5, <2>1 DEF Remembers, Agrees, Held
  <2>2. CASE s # running
    <3>1. Needed(s) /\ Held
      BY <1>1, <1>5 DEF Needed, Held
    <3>2. Remembers(s) /\ Agrees(s)
      BY <3>1 DEF Known, RInv, Kept
    <3>3. QED
      BY <1>1, <1>2, <2>2, <3>2 DEF Remembers, Agrees, EnvComplete
  <2>3. QED
    BY <2>1, <2>2
<1>6. QED
  BY <1>4, <1>5 DEF Kept

\* Nothing but the state of recovery changes.
LEMMA RecoveryWaits ==
  ASSUME Known, Recovery, UNCHANGED <<env, file>>,
         Judging' => /\ Versioned(rec'.st) /\ rec'.st.phase = "failed" /\ rec'.st.target # slot
                     /\ Held => rec'.st.request = lastRun /\ env.request = lastRun
  PROVE  RInv'
<1>1. /\ PipesOK' /\ \A p \in Procs : proc'[p].pc = "idle" /\ proc[p].pc = "idle"
      /\ UNCHANGED <<slot, trial, stored, disk, running, lastRun, forgot, stage, step, proc>>
  BY InRecovery
<1>2. AllVersioned'
  BY <1>1 DEF Known, RInv, AllVersioned, Versioned, Judging
<1>3. ScriptOK'
  BY <1>1 DEF Known, RInv, ScriptOK, Judging
<1>4. Kept' /\ Judged'
  BY <1>1 DEF Known, RInv, Kept, Judged, Held, Needed, Remembers, Agrees, EnvComplete, Judging
<1>5. QED
  BY <1>1, <1>2, <1>3, <1>4 DEF RInv

\* What recovery is about to judge is the last request, on the slot that does not run.
LEMMA JudgesLast ==
  ASSUME Known, stage = "S20", ~LoadFails, IsPending(Loaded), Loaded.target \in Slot, ~WaitsForCommit(Loaded)
  PROVE  /\ Loaded.target # slot /\ Versioned(Loaded) /\ Loaded \in Records
         /\ Held => Loaded.request = lastRun /\ env.request = lastRun
<1>1. running = slot /\ slot \in Slot /\ file[slot].kind \in {"absent", "corrupt", "ok"}
  BY DEF Known, RInv, ScriptOK, IInv, TypeOK, FileType
<1>2. Loaded.target # slot
  BY <1>1 DEF WaitsForCommit
<1>3. Versioned(Loaded) /\ Loaded \in Records
  BY <1>1, LoadsVersioned, LoadedTyped DEF Known, RInv, IInv
<1>4. ASSUME Held
      PROVE  Loaded.request = lastRun /\ env.request = lastRun
  <2>1. Remembers(slot) /\ Agrees(slot)
    BY <1>1, <1>4 DEF Known, RInv, Kept, Needed
  <2>2. QED
    BY <1>1, <2>1 DEF Remembers, Agrees, Loaded, LoadFails, IsPending, Empty
<1>5. QED
  BY <1>2, <1>3, <1>4

LEMMA RecoveryRemembers ==
  ASSUME Known, Recovery
  PROVE  RInv'
<1> USE DEF RecGoes
<1>1. /\ stage = "S20" /\ running = slot /\ slot \in Slot /\ rec \in RecType /\ rec.st \in Records
      /\ env \in Records /\ file \in [Slot -> FileType] /\ PipesOK'
      /\ \A p \in Procs : proc'[p].pc = "idle" /\ proc[p].pc = "idle"
      /\ UNCHANGED <<slot, trial, stored, disk, running, lastRun, forgot, stage, step, proc>>
  BY InRecovery
<1>2. RecIdle.pc = "idle"
  BY DEF RecIdle
<1>3. CASE RecoverTry
  <2>1. CASE UNCHANGED file /\ (Retry \/ rec' = RecIdle)
    <3>1. ~Judging'
      BY <1>2, <2>1, RetryKeepsType DEF Judging, Known, IInv
    <3>2. QED
      BY <1>3, <2>1, <3>1, RecoveryWaits DEF RecoverTry
  <2>2. CASE Stale /\ SaveFile(env) /\ rec' = RecIdle
    <3>1. env.request \in Requests => env.version # 0
      BY <2>2 DEF Stale, EnvComplete
    <3>2. Held => env.request = lastRun
      BY <1>1, <2>2 DEF Known, RInv, Kept, Needed, Agrees, Stale, IsPending
    <3>3. env.phase # "upgrading" /\ UNCHANGED env
      BY <1>3, <2>2 DEF Stale, IsFinal, RecoverTry
    <3>4. Kept' /\ \A s \in Slot : file'[s].kind = "ok" => Versioned(file'[s].st)
      BY <1>1, <2>2, <3>1, <3>2, <3>3, WritesRecord DEF Versioned
    <3>5. QED
      BY <1>1, <1>2, <2>2, <3>4 DEF RInv, AllVersioned, ScriptOK, Judged, Judging, Known, Versioned
  <2>3. CASE /\ UNCHANGED file /\ ~LoadFails /\ IsPending(Loaded) /\ Loaded.target \in Slot
             /\ ~WaitsForCommit(Loaded)
             /\ rec' = [rec EXCEPT !.pc = "report", !.st = [Loaded EXCEPT !.phase = "failed"]]
    <3>1. /\ Loaded.target # slot /\ Versioned(Loaded) /\ Loaded \in Records
          /\ Held => Loaded.request = lastRun /\ env.request = lastRun
      BY <1>1, <2>3, JudgesLast
    <3> DEFINE st == [Loaded EXCEPT !.phase = "failed"]
    <3>2. st.phase = "failed" /\ st.target = Loaded.target /\ st.request = Loaded.request /\ st.version = Loaded.version
      BY <3>1 DEF Records
    <3>3. rec'.st = st
      BY <1>1, <2>3 DEF RecType
    <3> HIDE DEF st
    <3>4. UNCHANGED env
      BY <1>3 DEF RecoverTry
    <3>5. QED
      BY <2>3, <3>1, <3>2, <3>3, <3>4, RecoveryWaits DEF Versioned
  <2>4. QED
    BY <1>3, <2>1, <2>2, <2>3 DEF RecoverTry
<1>4. CASE RecoverReport
  <2>1. rec'.st = rec.st /\ rec.pc = "report" /\ UNCHANGED <<env, file>>
    BY <1>1, <1>4 DEF RecoverReport, RecType, stateVars
  <2>2. QED
    BY <2>1, RecoveryWaits DEF Known, RInv, AllVersioned, ScriptOK, Judged, Judging
<1>5. CASE RecoverSaveFile
  <2>1. rec'.st = rec.st /\ rec.pc = "savefile" /\ SaveFile(rec.st) /\ UNCHANGED env
    BY <1>1, <1>5 DEF RecoverSaveFile, RecType
  <2>2. /\ Versioned(rec.st) /\ rec.st.phase = "failed" /\ rec.st.target # slot
        /\ Held => rec.st.request = lastRun /\ env.request = lastRun
    BY <2>1 DEF Known, RInv, AllVersioned, ScriptOK, Judged, Judging
  <2>3. Kept' /\ \A s \in Slot : file'[s].kind = "ok" => Versioned(file'[s].st)
    BY <1>1, <2>1, <2>2, WritesRecord
  <2>4. AllVersioned'
    BY <1>1, <2>1, <2>2, <2>3 DEF Known, RInv, AllVersioned, Versioned
  <2>5. ScriptOK' /\ Judged'
    BY <1>1, <2>1, <2>2 DEF Known, RInv, ScriptOK, Judged, Held
  <2>6. QED
    BY <1>1, <2>3, <2>4, <2>5 DEF RInv
<1>6. CASE RecoverSaveEnv
  <2> DEFINE st == rec.st
             k  == rec.step
  <2>1. k \in 1 .. 4 /\ SaveVariable(st, k) /\ rec.pc = "saveenv" /\ UNCHANGED file
    BY <1>1, <1>6 DEF RecoverSaveEnv, RecType
  <2>2. rec'.pc = "idle" \/ (rec'.pc = "saveenv" /\ rec'.st = st)
    BY <1>1, <1>2, <1>6 DEF RecoverSaveEnv, RecType
  <2>3. /\ Versioned(st) /\ st.phase = "failed" /\ st.target # slot /\ st.target \in Slot
        /\ Held => st.request = lastRun /\ env.request = lastRun
    BY <2>1 DEF Known, RecNames, RInv, AllVersioned, ScriptOK, Judged, Judging
  <2>4. /\ env'.request = IF k = 1 THEN st.request ELSE env.request
        /\ env'.version = IF k = 2 THEN st.version ELSE env.version
        /\ env'.target  = IF k = 3 THEN st.target  ELSE env.target
        /\ env'.phase   = IF k = 4 THEN st.phase   ELSE env.phase
    BY <1>1, <2>1, OneVariable
  <2> HIDE DEF st, k
  <2>5. AllVersioned'
    BY <1>1, <2>1, <2>2, <2>3 DEF Known, RInv, AllVersioned, Versioned, Judging
  <2>6. ScriptOK'
    BY <1>1, <2>2, <2>3 DEF Known, RInv, ScriptOK, Judging
  <2>7. Held => env'.request = lastRun
    BY <2>3, <2>4
  <2>8. Held /\ EnvComplete => EnvComplete'
    <3>1. Held => st.version # 0 /\ env'.request # "none"
      BY <2>3, <2>7, RequestsAssumption DEF Versioned, Held
    <3>2. QED
      BY <2>3, <2>4, <3>1 DEF EnvComplete, Slot
  <2>9. Kept'
    BY <1>1, <2>1, <2>7, <2>8 DEF Known, RInv, Kept, Held, Needed, Remembers, Agrees
  <2>10. Judged'
    BY <1>1, <2>2, <2>3, <2>7 DEF Judged, Judging, Held
  <2>11. QED
    BY <1>1, <2>5, <2>6, <2>9, <2>10 DEF RInv
<1>7. QED
  BY <1>3, <1>4, <1>5, <1>6 DEF Recovery

-----------------------------------------------------------------------------
(* The boot, and the faults *)

\* What is needed after the step was needed before it, and no file of it was written: so it
\* is of a step that ends the processes or goes on in the boot script.
LEMMA KeptFromBefore ==
  ASSUME Known, ~Judging', UNCHANGED <<file, lastRun>>, Held' => Held,
         env'.request = env.request, EnvComplete => EnvComplete',
         Held' => \A s \in Slot : Needed(s)' => Needed(s)
  PROVE  Kept' /\ Judged'
BY DEF Known, RInv, Kept, Judged, Remembers, Agrees

\* Versions are not touched where no file is written.
LEMMA FilesVersioned ==
  ASSUME Known, ~Judging', UNCHANGED file, disk' = disk \/ disk' = file,
         \A p \in Procs : proc'[p].pc = "idle" \/ proc'[p] = proc[p]
  PROVE  AllVersioned'
BY DEF Known, RInv, AllVersioned, Versioned

\* Nothing is running: Down, and the steps of the bootloader.
LEMMA BootFinds ==
  ASSUME Known, stage = "boot"
  PROVE  rec.pc = "idle" /\ running = "none" /\ slot \in Slot /\ \A p \in Procs : proc[p].pc = "idle"
BY DEF Known, IInv, BootShape, TypeOK

LEMMA BootRemembers ==
  ASSUME Known, Boot \/ Failover \/ RecoveryEnded
  PROVE  RInv'
<1>1. \A p \in Procs : proc[p].pc = "idle"
  BY DEF Known, IInv, BootShape, Boot, Failover, RecoveryEnded
<1>2. PipesOK' /\ ~Judging' /\ AllVersioned'
  <2>1. UNCHANGED <<proc, file, disk>> /\ rec'.pc \in {"idle", "try"}
    BY BootFinds DEF Boot, Failover, RecoveryEnded, RecGoes, RecIdle, stateVars
  <2>2. QED
    BY <1>1, <2>1, NobodyWorks, FilesVersioned DEF Judging
<1>3. CASE Boot
  <2>1. slot \in Slot /\ slot' = slot /\ running' = slot /\ trial' = trial /\ stage' = "S20" /\ step' = 1
        /\ UNCHANGED <<env, file, lastRun, forgot, proc>>
    BY <1>3, BootFinds DEF Boot, Enter, abVars, stateVars
  <2>2. Kept' /\ Judged'
    BY <1>2, <2>1, KeptFromBefore DEF Held, Needed, EnvComplete
  <2>3. QED
    BY <1>2, <2>1, <2>2 DEF RInv, ScriptOK
<1>4. CASE Failover
  <2>1. forgot' = TRUE /\ stage' = "boot"
    BY <1>4 DEF Failover, bootVars
  <2>2. QED
    BY <1>2, <2>1 DEF RInv, ScriptOK, Kept, Judged, Held
<1>5. CASE RecoveryEnded
  <2>1. stage' = "rc" /\ UNCHANGED <<slot, trial, running, env, file, lastRun, forgot, proc>>
    BY <1>5 DEF RecoveryEnded, Enter, abVars, stateVars, history
  <2>2. Kept' /\ Judged'
    BY <1>2, <2>1, KeptFromBefore DEF Held, Needed, EnvComplete
  <2>3. QED
    BY <1>2, <2>1, <2>2 DEF RInv, ScriptOK
<1>6. QED
  BY <1>3, <1>4, <1>5

\* Pipelines see nothing of the slots but what a commit or a rollback may not touch while
\* they work: both need a trial.
LEMMA PipesThroughScript ==
  ASSUME Known, UNCHANGED <<file, running, lastRun, forgot, proc>>,
         env'.request = env.request, env'.version = env.version,
         env'.target \in {env.target} \cup Slot, env'.phase \in {env.phase, "committed", "failed"},
         stored => stored', trial' => trial, trial \/ slot' = slot, disk' = disk \/ disk' = file
  PROVE  PipesOK'
<1> SUFFICES ASSUME NEW p \in Procs PROVE PipeOK(proc[p])'
  BY DEF PipesOK
<1>1. PipeOK(proc[p]) /\ proc'[p] = proc[p]
  BY DEF Known, RInv, PipesOK
<1>2. Allowed(proc[p]) => ~trial /\ slot' = slot /\ ~trial'
  BY <1>1 DEF PipeOK, TargetOK
<1>3. PhaseOK(proc[p])' /\ HalfSaved(proc[p])' /\ InEnv(proc[p])'
  BY <1>1 DEF PipeOK, PhaseOK, HalfSaved, InEnv, Written
<1>4. TargetOK(proc[p])'
  BY <1>1, <1>2 DEF PipeOK, TargetOK, Allowed, Written
<1>5. proc[p].pc \in {"flash", "switch"} => slot' = slot
  BY <1>2 DEF Allowed, Written, Past
<1>6. Erases(proc[p])'
  BY <1>1, <1>5 DEF PipeOK, Erases
<1>7. OnFile(proc[p])'
  BY <1>1 DEF PipeOK, OnFile
<1>8. QED
  BY <1>3, <1>4, <1>6, <1>7 DEF PipeOK

LEMMA ScriptRemembers ==
  ASSUME Known, CommitStart \/ CommitSlot \/ RollbackFailedSlot \/ FillActiveSlot \/ Sync \/ RequestReboot
  PROVE  RInv'
<1>1. /\ rec.pc = "idle" /\ slot \in Slot /\ env \in Records /\ stage \notin {"boot", "S20"}
      /\ running \in Slot /\ arg \in Slot /\ trial \in BOOLEAN
  BY DEF Known, IInv, BootShape, TypeOK, CommitStart, CommitSlot, RollbackFailedSlot, FillActiveSlot, Sync,
         RequestReboot
<1>2. UNCHANGED <<file, running, lastRun, forgot, proc, rec>>
  BY DEF CommitStart, CommitSlot, RollbackFailedSlot, FillActiveSlot, Sync, RequestReboot, stateVars, bootVars,
         history
<1>3. disk' = disk \/ disk' = file
  BY DEF CommitStart, CommitSlot, RollbackFailedSlot, FillActiveSlot, Sync, RequestReboot, stateVars
<1>4. ~Judging' /\ AllVersioned'
  BY <1>1, <1>2, <1>3, FilesVersioned DEF Judging
<1>5. CASE CommitStart \/ FillActiveSlot \/ Sync \/ RequestReboot
  <2>1. UNCHANGED <<slot, trial, env>> /\ (stored => stored')
    BY <1>5 DEF CommitStart, FillActiveSlot, Sync, RequestReboot, abVars, stateVars
  <2>2. PipesOK'
    BY <1>2, <1>3, <2>1, PipesThroughScript
  <2>3. Kept' /\ Judged'
    BY <1>2, <1>4, <2>1, KeptFromBefore DEF Held, Needed, EnvComplete
  <2>4. ScriptOK'
    <3>1. CASE CommitStart
      <4>1. stage' \in {"up", "commit", "rollback"} /\ (stage' = "rollback" => trial)
        BY <3>1 DEF CommitStart, Enter
      <4>2. trial' = trial
        BY <2>1
      <4>3. QED
        BY <1>4, <4>1, <4>2 DEF ScriptOK
    <3>2. CASE UNCHANGED <<stage, step>>
      BY <1>1, <1>4, <2>1, <3>2 DEF Known, RInv, ScriptOK
    <3>3. QED
      BY <1>5, <3>1, <3>2 DEF FillActiveSlot, Sync, RequestReboot, bootVars
  <2>5. QED
    BY <1>4, <2>2, <2>3, <2>4 DEF RInv
<1>6. CASE CommitSlot
  <2>1. /\ slot' = slot /\ (trial' => trial) /\ stored' = stored /\ stage' \in {"commit", "up"}
        /\ env'.request = env.request /\ env'.version = env.version
        /\ env'.target \in {env.target} \cup Slot /\ env'.phase \in {env.phase, "committed", "failed"}
    <3>1. stored' = stored /\ (CommitFirst \/ CommitSecond \/ CommitThird)
      BY <1>6, CommitCases DEF Known
    <3>2. CASE CommitFirst
      BY <3>1, <3>2 DEF CommitFirst, AB!Commit
    <3>3. CASE CommitSecond
      BY <1>1, <3>1, <3>3 DEF CommitSecond, abVars, Records
    <3>4. CASE CommitThird
      BY <1>1, <3>1, <3>4 DEF CommitThird, abVars, Records
    <3>5. QED
      BY <3>1, <3>2, <3>3, <3>4
  <2>2. PipesOK'
    BY <1>2, <1>3, <2>1, PipesThroughScript
  <2>3. Kept' /\ Judged'
    BY <1>2, <1>4, <2>1, KeptFromBefore DEF Held, Needed, EnvComplete, Slot
  <2>4. QED
    BY <1>4, <2>1, <2>2, <2>3 DEF RInv, ScriptOK
<1>7. CASE RollbackFailedSlot
  <2>1. /\ stored' = stored /\ (RollbackFirst \/ RollbackSecond)
    BY <1>7, RollbackCases DEF Known
  <2>2. /\ trial \/ slot' = slot
        /\ trial' => trial
        /\ env'.request = env.request /\ env'.version = env.version /\ env'.target = env.target
        /\ env'.phase \in {env.phase, "committed", "failed"}
    <3>1. CASE RollbackFirst
      BY <3>1 DEF RollbackFirst, AB!Revert
    <3>2. CASE RollbackSecond
      BY <1>1, <3>2 DEF RollbackSecond, abVars, Records
    <3>3. QED
      BY <2>1, <3>1, <3>2
  <2>3. PipesOK'
    BY <1>2, <1>3, <2>1, <2>2, PipesThroughScript
  <2>4. Kept' /\ Judged'
    BY <1>2, <1>4, <2>2, KeptFromBefore DEF Held, Needed, EnvComplete, Slot
  <2>5. ScriptOK'
    BY <1>1, <1>4, <2>1 DEF ScriptOK, RollbackFirst, RollbackSecond, RollbackFailedSlot
  <2>6. QED
    BY <1>4, <2>3, <2>4, <2>5 DEF RInv
<1>8. QED
  BY <1>5, <1>6, <1>7

LEMMA DownEnds ==
  ASSUME Known, Down
  PROVE  /\ running' = "none" /\ stage' = "boot" /\ ~Judging' /\ PipesOK' /\ ScriptOK'
         /\ \A p \in Procs : proc'[p].pc = "idle"
<1>1. /\ running' = "none" /\ stage' = "boot" /\ rec' = RecIdle /\ \A p \in Procs : proc'[p] = Idle
  BY DEF Down, Enter
<1>2. ~Judging' /\ \A p \in Procs : proc'[p].pc = "idle"
  BY <1>1 DEF Judging, RecIdle, Idle
<1>3. QED
  BY <1>1, <1>2, NobodyWorks DEF ScriptOK

\* A power loss finds every slot remembering if it may change the slot.
LEMMA FaultsRemember ==
  ASSUME Known, Reboot \/ Faults
  PROVE  RInv'
<1>0. slot \in Slot /\ Idle.pc = "idle"
  BY DEF Known, IInv, TypeOK, Idle
<1>1. CASE Reboot
  <2>1. /\ running' = "none" /\ ~Judging' /\ PipesOK' /\ ScriptOK' /\ \A p \in Procs : proc'[p].pc = "idle"
        /\ UNCHANGED <<slot, trial, env, file, lastRun, forgot>> /\ disk' = file
    BY <1>1, DownEnds DEF Reboot, abVars, history
  <2>2. AllVersioned'
    BY <2>1, FilesVersioned
  <2>3. Kept' /\ Judged'
    BY <1>0, <2>1, KeptFromBefore DEF Held, Needed, EnvComplete, Slot
  <2>4. QED
    BY <2>1, <2>2, <2>3 DEF RInv
<1>2. CASE PowerLoss
  <2>1. /\ running' = "none" /\ ~Judging' /\ PipesOK' /\ ScriptOK' /\ \A p \in Procs : proc'[p].pc = "idle"
        /\ UNCHANGED <<trial, env, lastRun>> /\ disk' = file' /\ forgot' = (forgot \/ file' # file)
        /\ slot' \in CutSlots /\ file' \in AfterPowerLoss
    BY <1>2, DownEnds DEF PowerLoss, AB!Cut
  <2>2. \A s \in Slot : file'[s].kind = "ok" => file'[s] \in {file[s], disk[s]}
    <3>1. file \in [Slot -> FileType] /\ Corrupt.kind = "corrupt"
      BY DEF Known, IInv, TypeOK, Corrupt
    <3>2. QED
      BY <2>1, <3>1 DEF AfterPowerLoss
  <2>3. AllVersioned'
    BY <2>1, <2>2 DEF Known, RInv, AllVersioned, Versioned
  <2>4. ASSUME NEW s \in Slot, Needed(s)'
        PROVE  Needed(s)
    <3>1. s = slot' \/ trial
      BY <2>1, <2>4 DEF Needed, Slot
    <3>2. CASE slot' # slot /\ ~\E p \in Procs : proc[p].pc = "switch"
      <4>1. stage = "rollback" /\ step = 1
        BY <2>1, <3>2 DEF CutSlots
      <4>2. QED
        BY <4>1 DEF Known, RInv, ScriptOK, Needed
    <3>3. QED
      BY <3>1, <3>2 DEF Needed
  <2>5. Held' => Held /\ UNCHANGED file
    BY <2>1 DEF Held
  <2>6. CASE Held'
    BY <2>1, <2>4, <2>5, <2>6, KeptFromBefore, <2>3 DEF EnvComplete, RInv
  <2>7. CASE ~Held'
    BY <2>1, <2>3, <2>7 DEF RInv, Kept, Judged
  <2>8. QED
    BY <2>6, <2>7
<1>3. CASE PowerLossTornEnv
  <2>1. /\ ~Judging' /\ PipesOK' /\ ScriptOK' /\ \A p \in Procs : proc'[p].pc = "idle"
        /\ UNCHANGED <<file, disk>> /\ ~Held'
    BY <1>3, DownEnds DEF PowerLossTornEnv, Held
  <2>2. AllVersioned'
    BY <2>1, FilesVersioned
  <2>3. QED
    BY <2>1, <2>2 DEF RInv, Kept, Judged
<1>4. ASSUME NEW p \in Procs, NEW r, ~Works(r), r.pc # "idle" => r.st = Empty, proc' = [proc EXCEPT ![p] = r],
             OneFault, UNCHANGED <<stored, stateVars, bootVars, rec, history>>
      PROVE  RInv'
  <2>1. UNCHANGED Seen
    BY <1>4 DEF OneFault, stateVars, bootVars, history, Seen
  <2>2. Versioned(Empty)
    BY RequestsAssumption DEF Versioned, Empty
  <2>3. r.pc # "switch"
    BY <1>4 DEF Works, Past
  <2>4. QED
    BY <1>4, <2>1, <2>2, <2>3, Resting, Goes
<1>5. ASSUME NEW p \in Procs, AgentDies(p)
      PROVE  RInv'
  <2> DEFINE r == [Idle EXCEPT !.pc = "orphan"]
  <2>1. r.pc = "orphan" /\ r.st = Empty
    BY DEF Idle
  <2>2. ~Works(Idle) /\ ~Works(r)
    BY <1>0, <2>1 DEF Works, Past, Saves
  <2>3. proc' = [proc EXCEPT ![p] = Idle] \/ proc' = [proc EXCEPT ![p] = r]
    BY <1>5 DEF AgentDies, Set
  <2>4. OneFault /\ UNCHANGED <<stored, stateVars, bootVars, rec, history>>
    BY <1>5 DEF AgentDies
  <2> HIDE DEF r
  <2>5. QED
    BY <1>0, <1>4, <2>1, <2>2, <2>3, <2>4
<1>6. ASSUME stage = "S20", rec'.pc \in {"idle", "try"}, UNCHANGED <<slot, trial>>,
             UNCHANGED <<stateVars, bootVars, proc, history>>
      PROVE  RInv'
  <2>1. \A p \in Procs : proc[p].pc = "idle"
    BY <1>6 DEF Known, IInv, BootShape
  <2>2. ~Judging' /\ UNCHANGED <<env, file, disk, running, stage, step, proc, lastRun, forgot>>
    BY <1>6 DEF Judging, stateVars, bootVars, history
  <2>3. PipesOK' /\ AllVersioned'
    BY <2>1, <2>2, NobodyWorks, FilesVersioned
  <2>4. Kept' /\ Judged'
    BY <1>6, <2>2, KeptFromBefore DEF Held, Needed, EnvComplete
  <2>5. ScriptOK'
    BY <1>6, <2>2 DEF Known, RInv, ScriptOK
  <2>6. QED
    BY <2>3, <2>4, <2>5 DEF RInv
<1>7. CASE SaveFails
  <2>1. OneFault /\ UNCHANGED <<stored, stateVars, bootVars, history>>
    BY <1>7 DEF SaveFails
  <2>2. ~Works(Idle)
    BY <1>0 DEF Works, Past, Saves
  <2>3. ASSUME NEW p \in Procs, Fail(p), UNCHANGED rec
        PROVE  RInv'
    BY <1>0, <1>4, <2>1, <2>2, <2>3 DEF Fail, Set
  <2>4. CASE rec.pc # "idle" /\ Retry /\ UNCHANGED proc
    <3>1. stage = "S20" /\ rec'.pc \in {"idle", "try"}
      BY <2>4, RetryKeepsType DEF Known, IInv, BootShape
    <3>2. QED
      BY <1>6, <2>1, <2>4, <3>1 DEF OneFault
  <2>5. QED
    BY <1>7, <2>3, <2>4 DEF SaveFails
<1>8. CASE RecoveryTimeout
  <2>1. stage = "S20" /\ rec'.pc = "idle"
    BY <1>8 DEF RecoveryTimeout, RecGoes, RecIdle, Known, IInv, BootShape
  <2>2. UNCHANGED <<slot, trial>>
    BY <1>8 DEF RecoveryTimeout, OneFault, abVars
  <2>3. QED
    BY <1>6, <1>8, <2>1, <2>2 DEF RecoveryTimeout
<1>9. QED
  BY <1>1, <1>2, <1>3, <1>5, <1>7, <1>8 DEF Faults

LEMMA StepRInv ==
  ASSUME Known, [Next]_vars
  PROVE  RInv'
<1>1. CASE UNCHANGED vars
  <2>1. UNCHANGED <<Seen, proc>>
    BY <1>1 DEF vars, abVars, stateVars, bootVars, history, Seen
  <2>2. QED
    BY <2>1 DEF Seen, Known, RInv, AllVersioned, Versioned, Judging, PipesOK, PipeOK, PhaseOK, TargetOK, OnFile,
                HalfSaved, InEnv, Erases, Allowed, Written, ScriptOK, Kept, Judged, Held, Needed, Remembers,
                Agrees, EnvComplete
<1>2. ASSUME NEW p \in Procs, MqttCommand(p) \/ LocalCommand(p) \/ Pipeline(p)
      PROVE  RInv'
  BY <1>2, QuietRemembers, SavePhaseFileRemembers, SavePhaseEnvRemembers, FlashRemembers, SwitchRemembers
     DEF Pipeline
<1>3. QED
  BY <1>1, <1>2, RecoveryRemembers, BootRemembers, ScriptRemembers, FaultsRemember DEF Next, BootStep

LEMMA InitRInv == Init => RInv
<1> SUFFICES ASSUME Init PROVE RInv
  OBVIOUS
<1>1. rec.pc = "idle" /\ \A p \in Procs : proc[p] = Idle
  BY DEF Init, RecIdle
<1>2. Idle.pc = "idle" /\ Absent.kind = "absent"
  BY DEF Idle, Absent
<1>3. AllVersioned /\ ScriptOK /\ Judged
  BY <1>1, <1>2 DEF Init, AllVersioned, ScriptOK, Judged, Judging
<1>4. PipesOK
  BY <1>1, <1>2, Resting DEF PipesOK, Works, Past, Saves
<1>5. Kept
  BY RequestsAssumption DEF Init, Kept, Held
<1>6. QED
  BY <1>3, <1>4, <1>5 DEF RInv

LEMMA KnownAlways == Spec => []Known
<1>1. Init => OnePipeline /\ RecNames
  BY OneAtATime DEF Init, Locked, Idle, RecNames, Judging, RecIdle
<1>2. Known /\ [Next]_vars => Known'
  BY StepIInv, LockHeld, StepRInv DEF Known
<1>3. QED
  BY <1>1, <1>2, InitIInv, InitRInv, PTL DEF Spec, Known

\* The duplicate check of an MQTT command reads the request that was saved last: in the
\* slot that saved it and in the one it installed, after every reboot, commit, rollback,
\* failed write, kill and power loss that leaves the file, and whether updates are early
\* or not. A command that is delivered again is refused.
THEOREM DuplicatesAreKnown == Spec => []RemembersLastRequest
<1>1. ASSUME Known, running \in Slot, Held
      PROVE  LoadFails \/ Loaded.request = lastRun
  <2>1. Remembers(running)
    BY <1>1 DEF Known, RInv, Kept, Needed
  <2>2. QED
    BY <2>1 DEF Remembers, LoadFails, Loaded
<1>2. Known => RemembersLastRequest
  BY <1>1 DEF RemembersLastRequest, Held
<1>3. QED
  BY <1>2, KnownAlways, PTL
=============================================================================
