---------------------------- MODULE OtaCommitProofs ----------------------------
(***************************************************************************)
(* The recovery of ota-agent and the boot.  First: recovery and            *)
(* board-upgrade-commit do not contradict each other, what recovery        *)
(* reports as failed during a trial is not committed by that trial.  Then: *)
(* a boot without faults leaves no upgrade pending.  Here the updates wait *)
(* for the scripts of the boot (EarlyUpdates is FALSE).                    *)
(***************************************************************************)
EXTENDS OtaAgentProofs

\* The scripts of the boot: the slot they look at is the one that runs, and stays active
\* until they end.
BootOK ==
  /\ stage \in {"S20", "rc", "commit"} => running = slot /\ arg = slot
  /\ stage = "commit" => image[arg].healthy
  /\ stage = "rollback" => ~image[running].healthy /\ (step = 1 => running = slot)

\* A pipeline past its checks works beside no script, and its target is in the environment.
FirstRecord(r) == r.pc = "checked" \/ (r.pc \in Saves /\ r.st.phase = "received")
AimOK(r) == /\ FirstRecord(r) => r.st.target = "none"
            /\ Allowed(r) => stage \in {"rc", "up"}
            /\ Allowed(r) /\ r.pc = "saveenv" /\ r.step > 3 => env.target = r.st.target
            /\ Written(r) => env.target = r.st.target
AimsOK == \A p \in Procs : AimOK(proc[p])

\* What a commit of the open trial may still commit is not reported: the slot on trial, or
\* the other one, if a rollback of the slot on trial is cut before it ends the trial.
Reported(s) == image[s].by \in Requests /\ <<image[s].by, s>> \in recFailed
Trusted ==
  /\ trial /\ image[slot].healthy => ~Reported(slot)
  /\ trial /\ ~image[slot].healthy /\ image[AB!Flip(slot)].healthy => ~Reported(AB!Flip(slot))
  /\ stage = "commit" => ~Reported(arg)

\* The slot a trial came from, if it is good, is not judged: nothing that recovery could
\* load on the slot on trial calls for it.
Away(f) == f.kind = "ok" /\ f.st.phase = "upgrading" /\ f.st.target # slot
Spared == trial /\ image[AB!Flip(slot)].healthy =>
            env.target # AB!Flip(slot) /\ ~Away(file[slot]) /\ ~Away(disk[slot]) /\ ~Judging

CInv == BootOK /\ AimsOK /\ Trusted /\ Spared

Before == Known /\ CInv /\ EarlyUpdates = FALSE

-----------------------------------------------------------------------------
(* Who works, again *)

LEMMA RestingAims ==
  ASSUME NEW p \in Procs, ~Works(proc'[p]), proc'[p].pc # "checked"
  PROVE  AimOK(proc[p])'
BY DEF Works, Past, Saves, AimOK, Allowed, Written, FirstRecord

\* AimOK of a process that does not work and stays as it is.
LEMMA SameAims ==
  ASSUME NEW p \in Procs, AimOK(proc[p]), ~Works(proc[p]), proc'[p] = proc[p]
  PROVE  AimOK(proc[p])'
BY DEF Works, Past, Saves, AimOK, Allowed, Written, FirstRecord

\* A process that goes on without having changed anything else.
LEMMA AimsGo ==
  ASSUME Before, NEW p \in Procs, NEW r, proc' = [proc EXCEPT ![p] = r],
         UNCHANGED <<slot, trial, env, file, disk, image, rec, running, arg, stage, step, recFailed>>,
         AimOK(r)
  PROVE  CInv'
<1>1. proc'[p] = r /\ \A q \in Procs \ {p} : proc'[q] = proc[q]
  BY DEF Before, Known, IInv, TypeOK
<1>2. AimsOK'
  <2> SUFFICES ASSUME NEW q \in Procs PROVE AimOK(proc[q])'
    BY DEF AimsOK
  <2>1. AimOK(proc'[q])
    BY <1>1 DEF Before, CInv, AimsOK
  <2>2. QED
    BY <2>1 DEF AimOK, Allowed, Written, FirstRecord
<1>3. BootOK' /\ Trusted' /\ Spared'
  BY DEF Before, CInv, BootOK, Trusted, Spared, Reported, Away, Judging
<1>4. QED
  BY <1>2, <1>3 DEF CInv

LEMMA QuietCommits ==
  ASSUME Before, NEW p \in Procs,
         \/ MqttCommand(p) \/ MqttLock(p) \/ LocalCommand(p) \/ Guard(p) \/ Download(p)
         \/ Verify(p) \/ RunUpgrade(p) \/ OrphanEnds(p)
  PROVE  CInv'
<1> DEFINE old == proc[p]
<1> USE DEF Set
<1>1. UNCHANGED <<slot, trial, env, file, disk, image, rec, running, arg, stage, step, recFailed>>
  BY DEF MqttCommand, MqttLock, LocalCommand, Guard, Download, Verify, RunUpgrade, OrphanEnds, Started,
         abVars, stateVars, bootVars, history
<1>2. old \in ProcType /\ old.st \in Records /\ AimOK(old)
  BY DEF Before, CInv, AimsOK, Known, IInv, TypeOK, ProcType
<1>3. CASE Fail(p)
  <2>1. AimOK(Idle)
    BY DEF Idle, AimOK, Allowed, Written, FirstRecord, Past, Saves
  <2>2. QED
    BY <1>1, <1>3, <2>1, AimsGo DEF Fail
<1>4. CASE MqttCommand(p)
  <2>1. PICK q \in Requests :
          proc' = [proc EXCEPT ![p] = [Idle EXCEPT !.pc = "checked", !.cmd = q,
                                        !.st = [Empty EXCEPT !.request = q, !.version = VersionOf[q]]]]
    BY <1>4 DEF MqttCommand
  <2> DEFINE st == [Empty EXCEPT !.request = q, !.version = VersionOf[q]]
             r  == [Idle EXCEPT !.pc = "checked", !.cmd = q, !.st = st]
  <2>2. r.pc = "checked" /\ r.st = st /\ st.target = "none"
    BY DEF Idle, Empty
  <2>3. proc' = [proc EXCEPT ![p] = r]
    BY <2>1
  <2> HIDE DEF r, st
  <2>4. AimOK(r)
    BY <2>2 DEF AimOK, Allowed, Written, Past, Saves
  <2>5. QED
    BY <1>1, <2>3, <2>4, AimsGo
<1>5. CASE LocalCommand(p)
  <2> DEFINE r1 == [Idle EXCEPT !.pc = "guard", !.cmd = "apply", !.st = Loaded]
             r2 == [Idle EXCEPT !.pc = "guard", !.cmd = "pull-latest",
                                !.st = [Loaded EXCEPT !.request = "pull-latest"]]
  <2>1. r1.pc = "guard" /\ r2.pc = "guard"
    BY DEF Idle
  <2>2. proc' = [proc EXCEPT ![p] = r1] \/ proc' = [proc EXCEPT ![p] = r2]
    BY <1>5 DEF LocalCommand
  <2> HIDE DEF r1, r2
  <2>3. AimOK(r1) /\ AimOK(r2)
    BY <2>1 DEF AimOK, Allowed, Written, FirstRecord, Past, Saves
  <2>4. QED
    BY <1>1, <2>2, <2>3, AimsGo
<1>6. CASE (MqttLock(p) \/ Download(p) \/ Verify(p)) /\ ~Fail(p)
  <2>1. PICK ph \in {"received", "upgrading", "verifying"} :
           /\ ToPhase(p, ph)
           /\ IF ph = "received" THEN old.pc = "checked" ELSE old.pc \in {"download", "verify"}
    BY <1>6 DEF MqttLock, Download, Verify, Fail
  <2> DEFINE st == [old.st EXCEPT !.phase = ph]
             r  == [old EXCEPT !.pc = "savefile", !.st = st, !.step = 1]
  <2>2. st.target = old.st.target /\ st.phase = ph
    BY <1>2 DEF Records
  <2>3. r.pc = "savefile" /\ r.st = st
    BY <1>2 DEF ProcType
  <2>4. proc' = [proc EXCEPT ![p] = r]
    BY <2>1 DEF ToPhase, Saving
  <2> HIDE DEF st, r
  <2>5. AimOK(r)
    BY <1>2, <2>1, <2>2, <2>3 DEF AimOK, Allowed, Written, FirstRecord, Past, Saves
  <2>6. QED
    BY <1>1, <2>4, <2>5, AimsGo
<1>7. CASE Guard(p) /\ ~Fail(p)
  <2> DEFINE st == [old.st EXCEPT !.target = AB!Flip(slot), !.phase = "downloading"]
             r  == [old EXCEPT !.pc = "savefile", !.st = st, !.step = 1]
  <2>1. proc' = [proc EXCEPT ![p] = r] /\ stage \notin {"commit", "rollback"} /\ old.pc = "guard"
    BY <1>7 DEF Guard, Saving, Before
  <2>2. stage \in {"rc", "up"}
    BY <2>1, Busy DEF Before, Known, IInv, TypeOK
  <2>3. st.phase = "downloading" /\ r.pc = "savefile" /\ r.st = st
    BY <1>2 DEF Records, ProcType
  <2> HIDE DEF st, r
  <2>4. AimOK(r)
    BY <2>2, <2>3 DEF AimOK, Allowed, Written, FirstRecord, Past, Saves
  <2>5. QED
    BY <1>1, <2>1, <2>4, AimsGo
<1>8. CASE RunUpgrade(p) /\ ~Fail(p)
  <2> DEFINE r == [old EXCEPT !.pc = "flash"]
  <2>1. proc' = [proc EXCEPT ![p] = r] /\ old.pc = "run"
    BY <1>8 DEF RunUpgrade
  <2>2. r.pc = "flash" /\ r.st = old.st
    BY <1>2 DEF ProcType
  <2> HIDE DEF r
  <2>3. AimOK(r)
    BY <1>2, <2>1, <2>2 DEF AimOK, Allowed, Written, FirstRecord, Past, Saves
  <2>4. QED
    BY <1>1, <2>1, <2>3, AimsGo
<1>9. QED
  BY <1>3, <1>4, <1>5, <1>6, <1>7, <1>8 DEF OrphanEnds, Fail

-----------------------------------------------------------------------------
(* The writes of a pipeline *)

\* The process that works, and the others.
LEMMA OnesAims ==
  ASSUME Before, NEW p \in Procs, Locked(proc[p]), NEW r, proc' = [proc EXCEPT ![p] = r], AimOK(proc[p])'
  PROVE  AimsOK'
<1>1. \A q \in Procs \ {p} : proc'[q] = proc[q] /\ ~Works(proc[q])
  BY Alone DEF Before, Known
<1>2. \A q \in Procs : AimOK(proc[q])
  BY DEF Before, CInv, AimsOK
<1>3. QED
  BY <1>1, <1>2, SameAims DEF AimsOK

LEMMA SavePhaseFileCommits ==
  ASSUME Before, NEW p \in Procs, SavePhaseFile(p)
  PROVE  CInv'
<1> DEFINE old == proc[p]
           st  == old.st
           r   == [old EXCEPT !.pc = "saveenv"]
<1>1. /\ old \in ProcType /\ PipeOK(old) /\ AimOK(old) /\ old.pc = "savefile" /\ old.step = 1
      /\ file \in [Slot -> FileType] /\ running \in Slot /\ slot \in Slot
  BY Busy DEF Before, CInv, AimsOK, Known, RInv, PipesOK, PipeOK, PhaseOK, IInv, TypeOK, ProcType, SavePhaseFile
<1>2. r.pc = "saveenv" /\ r.st = st /\ r.step = 1
  BY <1>1 DEF ProcType
<1>3. proc' = [proc EXCEPT ![p] = r] /\ proc'[p] = r
  BY <1>1 DEF SavePhaseFile, Set, Before, Known, IInv, TypeOK
<1>4. /\ file' = [file EXCEPT ![running] = Saved(st)] /\ recFailed' \subseteq recFailed
      /\ UNCHANGED <<slot, trial, env, disk, image, rec, running, arg, stage, step>>
  BY DEF SavePhaseFile, SaveFile, abVars, bootVars, Without
<1>5. Saved(st).st = st
  BY DEF Saved
<1>6. trial => st.phase = "received"
  BY <1>1 DEF PipeOK, PhaseOK, TargetOK, Allowed, Written, Saves
<1>7. AimOK(proc[p])'
  <2> HIDE DEF r
  <2>1. QED
    BY <1>1, <1>2, <1>3, <1>4 DEF AimOK, Allowed, Written, FirstRecord, Past, Saves
<1>8. AimsOK'
  BY <1>1, <1>3, <1>7, OnesAims DEF Locked
<1> HIDE DEF st, r
<1>9. BootOK' /\ Trusted'
  BY <1>4 DEF Before, CInv, BootOK, Trusted, Reported
<1>10. Spared'
  <2>1. trial /\ ~Away(file[slot]) => ~Away(file'[slot])
    BY <1>1, <1>4, <1>5, <1>6 DEF Away
  <2>2. QED
    BY <1>4, <2>1 DEF Before, CInv, Spared, Away, Judging
<1>11. QED
  BY <1>8, <1>9, <1>10 DEF CInv

LEMMA SavePhaseEnvCommits ==
  ASSUME Before, NEW p \in Procs, SavePhaseEnv(p)
  PROVE  CInv'
<1> DEFINE old == proc[p]
           st  == old.st
           k   == old.step
           r   == IF k < 4 THEN [old EXCEPT !.step = k + 1] ELSE [old EXCEPT !.pc = AfterPhase(st.phase)]
<1>1. /\ old \in ProcType /\ st \in Records /\ k \in 1 .. 4 /\ env \in Records
      /\ PipeOK(old) /\ AimOK(old) /\ old.pc = "saveenv" /\ slot \in Slot
  BY DEF Before, CInv, AimsOK, Known, RInv, PipesOK, IInv, TypeOK, ProcType, SavePhaseEnv
<1>2. proc' = [proc EXCEPT ![p] = r] /\ proc'[p] = r /\ SaveVariable(st, k)
  BY <1>1 DEF SavePhaseEnv, Set, SaveOrder, Before, Known, IInv, TypeOK
<1>3. env'.target = IF k = 3 THEN st.target ELSE env.target
  BY <1>1, <1>2, OneVariable
<1>4. /\ r.st = st
      /\ k < 4 => r.pc = "saveenv" /\ r.step = k + 1
      /\ k = 4 => r.pc = AfterPhase(st.phase)
  BY <1>1 DEF ProcType
<1>5. UNCHANGED <<slot, trial, file, disk, image, rec, running, arg, stage, step, recFailed>>
  BY DEF SavePhaseEnv, abVars, bootVars, history
<1>6. /\ st.phase \in {"received", "downloading", "verifying", "upgrading"}
      /\ st.phase = "received" => st.target = "none" /\ ~Written(old) /\ ~Allowed(old)
      /\ st.phase # "received" => Allowed(old) /\ ~trial
      /\ AfterPhase(st.phase) \in {"guard", "download", "verify", "run"}
      /\ st.phase = "received" => AfterPhase(st.phase) = "guard"
  BY <1>1 DEF PipeOK, PhaseOK, TargetOK, Allowed, Written, Past, Saves, AfterPhase, AimOK, FirstRecord
<1> HIDE DEF r
<1>7. AimOK(proc[p])'
  <2>1. CASE st.phase = "received"
    <3>1. ~Allowed(r) /\ ~Written(r)
      BY <1>1, <1>4, <1>6, <2>1 DEF Allowed, Written, Past, Saves
    <3>2. QED
      BY <1>2, <1>4, <1>6, <2>1, <3>1 DEF AimOK, Allowed, Written
  <2>2. CASE st.phase # "received"
    <3>1. /\ stage \in {"rc", "up"} /\ (k > 3 => env.target = st.target)
          /\ Written(old) => env.target = st.target
      BY <1>1, <1>6, <2>2 DEF AimOK
    <3>2. ~FirstRecord(r) /\ (Written(r) => Written(old) \/ k = 4)
      BY <1>1, <1>4, <1>6, <2>2 DEF FirstRecord, Written, Past, Saves
    <3>3. (Written(r) => env'.target = st.target) /\ (r.pc = "saveenv" /\ r.step > 3 => env'.target = st.target)
      BY <1>1, <1>3, <1>4, <1>6, <3>1, <3>2
    <3>4. QED
      BY <1>2, <1>4, <1>5, <3>1, <3>2, <3>3 DEF AimOK, Allowed, Written, FirstRecord
  <2>3. QED
    BY <2>1, <2>2
<1>8. AimsOK'
  BY <1>1, <1>2, <1>7, OnesAims DEF Locked
<1>9. BootOK' /\ Trusted'
  BY <1>5 DEF Before, CInv, BootOK, Trusted, Reported
<1>10. Spared'
  <2>1. trial => env'.target \in {env.target, "none"}
    BY <1>3, <1>6
  <2>2. trial /\ env.target # AB!Flip(slot) => env'.target # AB!Flip(slot)
    BY <2>1 DEF AB!Flip
  <2>3. QED
    BY <1>5, <2>2 DEF Before, CInv, Spared, Away, Judging
<1>11. QED
  BY <1>8, <1>9, <1>10 DEF CInv

LEMMA FlashCommits ==
  ASSUME Before, NEW p \in Procs, Flash(p)
  PROVE  CInv'
<1> DEFINE old == proc[p]
           t   == AB!Flip(slot)
           r   == [old EXCEPT !.pc = "switch"]
<1>1. /\ old \in ProcType /\ PipeOK(old) /\ AimOK(old) /\ old.pc = "flash" /\ slot \in Slot
      /\ image \in [Slot -> [by : Commands \cup {"factory"}, version : Nat, healthy : BOOLEAN]]
  BY DEF Before, CInv, AimsOK, Known, RInv, PipesOK, IInv, TypeOK, ProcType, Flash
<1>2. ~trial /\ stage \in {"rc", "up"}
  BY <1>1 DEF PipeOK, TargetOK, AimOK, Allowed, Written, Past
<1>3. /\ proc' = [proc EXCEPT ![p] = Idle] \/ proc' = [proc EXCEPT ![p] = r]
      /\ UNCHANGED <<slot, trial, env, rec, running, arg, stage, step>>
  BY DEF Flash, Fail, Set, abVars, bootVars
<1>4. proc'[p] = Idle \/ proc'[p] = r
  BY <1>3 DEF Before, Known, IInv, TypeOK
<1>5. r.pc = "switch" /\ r.st = old.st /\ Idle.pc = "idle"
  BY <1>1 DEF ProcType, Idle
<1> HIDE DEF r
<1>6. AimOK(proc[p])'
  BY <1>1, <1>3, <1>4, <1>5 DEF AimOK, Allowed, Written, FirstRecord, Past, Saves
<1>7. AimsOK'
  BY <1>1, <1>3, <1>6, OnesAims DEF Locked
<1>8. BootOK' /\ Trusted' /\ Spared'
  BY <1>2, <1>3 DEF Before, CInv, BootOK, Trusted, Spared
<1>9. QED
  BY <1>7, <1>8 DEF CInv

\* A switch forgets what was reported, and installs the slot the environment names.
LEMMA SwitchCommits ==
  ASSUME Before, NEW p \in Procs, Switch(p)
  PROVE  CInv'
<1>1. /\ proc[p].pc = "switch" /\ PipeOK(proc[p]) /\ AimOK(proc[p]) /\ slot \in Slot /\ rec.pc = "idle"
      /\ stage = "up"
  BY Busy DEF Before, CInv, AimsOK, Known, RInv, PipesOK, IInv, TypeOK, Switch
<1>2. /\ slot' = AB!Flip(slot) /\ recFailed' = {} /\ proc' = [proc EXCEPT ![p] = Idle]
      /\ UNCHANGED <<env, file, disk, image, rec, stage>>
  BY DEF Switch, AB!Install, Fail, Set, stateVars
<1>3. slot' \in Slot /\ AB!Flip(slot') = slot /\ slot' # slot
  BY <1>1, <1>2, Flipped
<1>4. file'[slot'] = Absent /\ disk'[slot'] = Absent /\ env'.target = slot'
  BY <1>1, <1>2 DEF PipeOK, Erases, TargetOK, AimOK, Allowed, Written, Past
<1>5. proc'[p] = Idle
  BY <1>2 DEF Before, Known, IInv, TypeOK
<1>6. AimOK(proc[p])'
  BY <1>5 DEF AimOK, Allowed, Written, FirstRecord, Past, Saves, Idle
<1>7. AimsOK'
  BY <1>1, <1>2, <1>6, OnesAims DEF Locked
<1>8. BootOK' /\ Trusted'
  BY <1>1, <1>2 DEF BootOK, Trusted, Reported
<1>9. Spared'
  <2>1. env'.target # AB!Flip(slot') /\ ~Judging'
    BY <1>1, <1>2, <1>3, <1>4 DEF Judging
  <2>2. ~Away(file[slot])' /\ ~Away(disk[slot])'
    BY <1>4 DEF Away, Absent
  <2>3. QED
    BY <2>1, <2>2 DEF Spared
<1>10. QED
  BY <1>7, <1>8, <1>9 DEF CInv

-----------------------------------------------------------------------------
(* Recovery *)

\* Processes that are idle aim at nothing.
LEMMA NobodyAims ==
  ASSUME \A p \in Procs : proc'[p].pc = "idle"
  PROVE  AimsOK'
BY RestingAims DEF AimsOK, Works, Past, Saves

\* While a trial of a good slot is open there is nothing on the slot on trial to judge.
LEMMA SparesOpenTrial ==
  ASSUME Before, stage = "S20", trial, image[AB!Flip(slot)].healthy, ~LoadFails, IsPending(Loaded),
         Loaded.target \in Slot
  PROVE  WaitsForCommit(Loaded)
<1>1. running = slot /\ slot \in Slot
  BY DEF Before, Known, RInv, ScriptOK, IInv, TypeOK
<1>2. env.target # AB!Flip(slot) /\ ~Away(file[slot])
  BY DEF Before, CInv, Spared
<1>3. Loaded.target # AB!Flip(slot)
  BY <1>1, <1>2, Flipped DEF Loaded, LoadFails, IsPending, Empty, Away
<1>4. QED
  BY <1>1, <1>3 DEF WaitsForCommit, AB!Flip, Slot

LEMMA RecoveryCommits ==
  ASSUME Before, Recovery
  PROVE  CInv'
<1> USE DEF RecGoes
<1>1. /\ stage = "S20" /\ running = slot /\ slot \in Slot /\ rec \in RecType
      /\ env \in Records /\ file \in [Slot -> FileType]
      /\ \A p \in Procs : proc'[p].pc = "idle"
      /\ UNCHANGED <<slot, trial, disk, running, stage, step, proc>>
  BY InRecovery DEF Before
<1>2. UNCHANGED <<image, arg>>
  BY DEF Recovery, RecoverTry, RecoverReport, RecoverSaveFile, RecoverSaveEnv, bootVars
<1>3. AimsOK' /\ BootOK'
  BY <1>1, <1>2, NobodyAims DEF Before, CInv, BootOK
<1>4. CASE RecoverTry
  <2>1. UNCHANGED <<env, recFailed>> /\ (UNCHANGED file \/ (SaveFile(env) /\ IsFinal(env)))
    BY <1>4 DEF RecoverTry, history, Stale
  <2>2. Trusted'
    BY <1>1, <1>2, <2>1 DEF Before, CInv, Trusted, Reported
  <2>3. trial /\ image[AB!Flip(slot)].healthy => ~Judging'
    <3>1. CASE Retry \/ rec' = RecIdle
      BY <3>1, RetryKeepsType DEF Judging, RecIdle, Before, Known, IInv
    <3>2. CASE ~LoadFails /\ IsPending(Loaded) /\ Loaded.target \in Slot /\ ~WaitsForCommit(Loaded)
      BY <1>1, <3>2, SparesOpenTrial
    <3>3. QED
      BY <1>4, <3>1, <3>2 DEF RecoverTry
  <2>4. ~Away(file[slot]) => ~Away(file'[slot])
    BY <1>1, <2>1 DEF Away, SaveFile, Saved, IsFinal
  <2>5. Spared'
    BY <1>1, <1>2, <2>1, <2>3, <2>4 DEF Before, CInv, Spared, Away
  <2>6. QED
    BY <1>3, <2>2, <2>5 DEF CInv
<1>5. CASE RecoverReport \/ RecoverSaveFile \/ RecoverSaveEnv
  <2>1. Judging
    BY <1>5 DEF RecoverReport, RecoverSaveFile, RecoverSaveEnv, Judging
  <2>2. ~(trial /\ image[AB!Flip(slot)].healthy) /\ rec.st.target # slot
    BY <2>1 DEF Before, CInv, Spared, Known, RInv, ScriptOK
  <2>3. Spared'
    BY <1>1, <1>2, <2>2 DEF Spared
  <2>4. recFailed' \subseteq recFailed \cup {<<rec.st.request, rec.st.target>>}
    BY <1>5 DEF RecoverReport, RecoverSaveFile, RecoverSaveEnv, history
  <2>5. Trusted'
    BY <1>1, <1>2, <2>2, <2>4 DEF Before, CInv, Trusted, Reported
  <2>6. QED
    BY <1>3, <2>3, <2>5 DEF CInv
<1>6. QED
  BY <1>4, <1>5 DEF Recovery

-----------------------------------------------------------------------------
(* The boot, and the faults *)

\* Aims beside a script that is not entered by a pipeline at work.
LEMMA AimsThroughScript ==
  ASSUME Before, UNCHANGED proc, env'.target = env.target \/ stage = "commit",
         stage \in {"rc", "up"} /\ ~trial => stage' \in {"rc", "up"}
  PROVE  AimsOK'
<1> SUFFICES ASSUME NEW p \in Procs PROVE AimOK(proc[p])'
  BY DEF AimsOK
<1>1. AimOK(proc[p]) /\ TargetOK(proc[p]) /\ proc'[p] = proc[p]
  BY DEF Before, CInv, AimsOK, Known, RInv, PipesOK, PipeOK
<1>2. Allowed(proc[p]) => ~trial /\ stage \in {"rc", "up"} /\ env'.target = env.target
  BY <1>1 DEF AimOK, TargetOK
<1>3. QED
  BY <1>1, <1>2 DEF AimOK, Allowed, Written, FirstRecord

LEMMA BootCommits ==
  ASSUME Before, \/ Boot \/ Failover \/ RecoveryEnded \/ CommitStart \/ CommitSlot \/ RollbackFailedSlot
                 \/ FillActiveSlot \/ Sync \/ RequestReboot
  PROVE  CInv'
<1>1. /\ UNCHANGED <<file, image, proc, recFailed>> /\ (disk' = disk \/ disk' = file)
  BY DEF Boot, Failover, RecoveryEnded, CommitStart, CommitSlot, RollbackFailedSlot, FillActiveSlot, Sync,
         RequestReboot, stateVars, history
<1>2. ~Judging => ~Judging'
  BY DEF Boot, Failover, RecoveryEnded, CommitStart, CommitSlot, RollbackFailedSlot, FillActiveSlot, Sync,
         RequestReboot, Judging, RecGoes, RecIdle
<1>3. slot \in Slot /\ env \in Records
  BY DEF Before, Known, IInv, TypeOK
<1>4. ASSUME UNCHANGED <<slot, trial>>, env'.target = env.target, stage' # "commit"
      PROVE  Trusted' /\ Spared'
  BY <1>1, <1>2, <1>4 DEF Before, CInv, Trusted, Spared, Reported, Away
<1>5. CASE Boot
  <2>1. UNCHANGED <<slot, trial, env>> /\ stage = "boot" /\ stage' = "S20" /\ running' = slot /\ arg' = slot
    BY <1>5 DEF Boot, Enter, abVars, stateVars
  <2>2. BootOK' /\ AimsOK'
    BY <1>1, <2>1, AimsThroughScript DEF BootOK
  <2>3. QED
    BY <1>4, <2>1, <2>2 DEF CInv
<1>6. CASE Failover
  <2>1. trial' = FALSE /\ stage = "boot" /\ stage' = "boot" /\ env' = env
    BY <1>6 DEF Failover, AB!Failover, bootVars, stateVars
  <2>2. BootOK' /\ AimsOK'
    BY <1>1, <2>1, AimsThroughScript DEF BootOK
  <2>3. QED
    BY <2>1, <2>2 DEF CInv, Trusted, Spared
<1>7. CASE RecoveryEnded
  <2>1. UNCHANGED <<slot, trial, env, running, arg>> /\ stage = "S20" /\ stage' = "rc"
    BY <1>7 DEF RecoveryEnded, Enter, abVars, stateVars
  <2>2. BootOK' /\ AimsOK'
    BY <1>1, <2>1, AimsThroughScript DEF BootOK, Before, CInv
  <2>3. QED
    BY <1>4, <2>1, <2>2 DEF CInv
<1>8. CASE CommitStart
  <2>1. /\ UNCHANGED <<slot, trial, env, running>> /\ stage = "rc" /\ arg' = slot /\ step' = 1
        /\ stage' = IF ~trial THEN "up" ELSE IF image[running].healthy THEN "commit" ELSE "rollback"
    BY <1>8 DEF CommitStart, Enter, abVars, stateVars
  <2>2. running = slot
    BY <2>1 DEF Before, CInv, BootOK
  <2>3. AimsOK'
    BY <1>1, <2>1, AimsThroughScript
  <2>4. stage' = "commit" => trial /\ image[slot].healthy
    BY <2>1, <2>2
  <2>5. stage' = "rollback" => ~image[slot].healthy
    BY <2>1, <2>2
  <2>6. BootOK'
    BY <1>1, <2>1, <2>2, <2>4, <2>5 DEF BootOK
  <2>7. Trusted' /\ Spared'
    BY <1>1, <1>2, <2>1, <2>4 DEF Before, CInv, Trusted, Spared, Reported, Away
  <2>8. QED
    BY <2>3, <2>6, <2>7 DEF CInv
<1>9. CASE CommitSlot
  <2>1. /\ stage = "commit" /\ UNCHANGED <<running, arg>>
        /\ CommitFirst \/ CommitSecond \/ CommitThird
    BY <1>9, CommitCases DEF Before, Known
  <2>2. slot' = slot /\ (trial' => trial) /\ env'.target \in {env.target, slot} /\ stage' \in {"commit", "up"}
    <3>1. arg = slot
      BY <2>1 DEF Before, CInv, BootOK
    <3>2. CASE CommitFirst
      BY <3>2 DEF CommitFirst, AB!Commit
    <3>3. CASE CommitSecond
      BY <1>3, <3>1, <3>3 DEF CommitSecond, abVars, Records
    <3>4. CASE CommitThird
      BY <1>3, <3>4 DEF CommitThird, abVars, Records
    <3>5. QED
      BY <2>1, <3>2, <3>3, <3>4
  <2>3. AimsOK'
    BY <1>1, <2>1, <2>2, AimsThroughScript
  <2>4. BootOK'
    BY <1>1, <2>1, <2>2 DEF Before, CInv, BootOK
  <2>5. env.target # AB!Flip(slot) => env'.target # AB!Flip(slot)
    BY <1>3, <2>2, Flipped
  <2>6. Trusted' /\ Spared'
    BY <1>1, <1>2, <2>1, <2>2, <2>5 DEF Before, CInv, Trusted, Spared, Reported, Away
  <2>7. QED
    BY <2>3, <2>4, <2>6 DEF CInv
<1>10. CASE RollbackFailedSlot
  <2>1. /\ stage = "rollback" /\ UNCHANGED <<running, arg, image>> /\ (RollbackFirst \/ RollbackSecond)
    BY <1>10, RollbackCases DEF Before, Known
  <2>2. /\ stage' \in {"rollback", "up"} /\ (stage' = "rollback" => step' = 2) /\ env'.target = env.target
        /\ trial' => UNCHANGED <<slot, trial>>
    <3>1. CASE RollbackFirst
      BY <2>1, <3>1 DEF RollbackFirst, AB!Revert
    <3>2. CASE RollbackSecond
      BY <1>3, <3>2 DEF RollbackSecond, abVars, Records
    <3>3. QED
      BY <2>1, <3>1, <3>2
  <2>3. AimsOK'
    BY <1>1, <2>1, <2>2, AimsThroughScript
  <2>4. BootOK'
    BY <2>1, <2>2 DEF Before, CInv, BootOK
  <2>5. Trusted' /\ Spared'
    BY <1>4, <2>2 DEF Trusted, Spared
  <2>6. QED
    BY <2>3, <2>4, <2>5 DEF CInv
<1>11. CASE FillActiveSlot \/ Sync \/ RequestReboot
  <2>1. UNCHANGED <<slot, trial, env, running, arg, stage, step>>
    BY <1>11 DEF FillActiveSlot, Sync, RequestReboot, abVars, stateVars, bootVars
  <2>2. AimsOK'
    BY <1>1, <2>1, AimsThroughScript
  <2>3. BootOK' /\ Trusted' /\ Spared'
    BY <1>1, <1>2, <2>1 DEF Before, CInv, BootOK, Trusted, Spared, Reported, Away
  <2>4. QED
    BY <2>2, <2>3 DEF CInv
<1>12. QED
  BY <1>5, <1>6, <1>7, <1>8, <1>9, <1>10, <1>11

LEMMA FaultsCommit ==
  ASSUME Before, Reboot \/ Faults
  PROVE  CInv'
<1>0. slot \in Slot /\ Idle.pc = "idle" /\ RecIdle.pc = "idle"
  BY DEF Before, Known, IInv, TypeOK, Idle, RecIdle
<1>1. CASE Reboot \/ PowerLoss \/ PowerLossTornEnv
  <2>1. /\ stage' = "boot" /\ ~Judging' /\ \A p \in Procs : proc'[p].pc = "idle"
        /\ UNCHANGED <<image, recFailed>>
    <3>1. Down /\ UNCHANGED <<image, recFailed>>
      BY <1>1 DEF Reboot, PowerLoss, PowerLossTornEnv, history
    <3>2. QED
      BY <3>1, DownEnds DEF Before
  <2>2. BootOK' /\ AimsOK'
    BY <2>1, NobodyAims DEF BootOK
  <2>3. CASE Reboot
    <3>1. UNCHANGED <<slot, trial, env, file>> /\ disk' = file
      BY <2>3 DEF Reboot, abVars
    <3>2. Trusted' /\ Spared'
      BY <2>1, <3>1 DEF Before, CInv, Trusted, Spared, Reported, Away
    <3>3. QED
      BY <2>2, <3>2 DEF CInv
  <2>4. CASE PowerLoss
    <3>1. UNCHANGED <<trial, env>> /\ slot' \in CutSlots /\ file' \in AfterPowerLoss /\ disk' = file'
      BY <2>4 DEF PowerLoss, AB!Cut
    <3>2. CASE ~trial
      BY <2>1, <2>2, <3>1, <3>2 DEF CInv, Trusted, Spared
    <3>3. CASE trial /\ slot' = slot
      <4>1. Trusted'
        BY <2>1, <3>1, <3>3 DEF Before, CInv, Trusted, Reported
      <4>2. file'[slot].kind = "ok" => file'[slot] \in {file[slot], disk[slot]}
        <5>1. file \in [Slot -> FileType] /\ Corrupt.kind = "corrupt"
          BY DEF Before, Known, IInv, TypeOK, Corrupt
        <5>2. QED
          BY <1>0, <3>1, <5>1 DEF AfterPowerLoss
      <4>3. ~Away(file[slot]) /\ ~Away(disk[slot]) => ~Away(file'[slot])
        BY <4>2 DEF Away
      <4>4. Spared'
        BY <2>1, <3>1, <3>3, <4>3 DEF Before, CInv, Spared, Away
      <4>5. QED
        BY <2>2, <4>1, <4>4 DEF CInv
    <3>4. CASE trial /\ slot' # slot
      <4>1. \A p \in Procs : proc[p].pc # "switch"
        BY <3>4 DEF Before, Known, RInv, PipesOK, PipeOK, TargetOK, Allowed, Written, Past
      <4>2. stage = "rollback" /\ step = 1
        BY <3>1, <3>4, <4>1 DEF CutSlots
      <4>3. ~image[slot].healthy
        BY <4>2 DEF Before, CInv, BootOK
      <4>4. slot' = AB!Flip(slot) /\ AB!Flip(slot') = slot
        BY <1>0, <3>1, <3>4, <4>2 DEF CutSlots, Slot, AB!Flip
      <4>5. Trusted' /\ Spared'
        BY <2>1, <3>1, <3>4, <4>3, <4>4 DEF Before, CInv, Trusted, Spared, Reported
      <4>6. QED
        BY <2>2, <4>5 DEF CInv
    <3>5. QED
      BY <3>2, <3>3, <3>4
  <2>5. CASE PowerLossTornEnv
    <3>1. trial' = FALSE
      BY <2>5 DEF PowerLossTornEnv, AB!Lost
    <3>2. QED
      BY <2>1, <2>2, <3>1 DEF CInv, Trusted, Spared
  <2>6. QED
    BY <1>1, <2>3, <2>4, <2>5
<1>2. ASSUME NEW p \in Procs, NEW r, r.pc = "idle" \/ r.pc = "orphan", proc' = [proc EXCEPT ![p] = r],
             OneFault, UNCHANGED <<stateVars, image, bootVars, rec, history>>
      PROVE  CInv'
  <2>1. UNCHANGED <<slot, trial, env, file, disk, image, rec, running, arg, stage, step, recFailed>>
    BY <1>2 DEF OneFault, stateVars, bootVars, history
  <2>2. AimOK(r)
    BY <1>2 DEF AimOK, Allowed, Written, FirstRecord, Past, Saves
  <2>3. QED
    BY <1>2, <2>1, <2>2, AimsGo
<1>3. ASSUME NEW p \in Procs, AgentDies(p)
      PROVE  CInv'
  <2> DEFINE r == [Idle EXCEPT !.pc = "orphan"]
  <2>1. r.pc = "orphan"
    BY DEF Idle
  <2>2. proc' = [proc EXCEPT ![p] = Idle] \/ proc' = [proc EXCEPT ![p] = r]
    BY <1>3 DEF AgentDies, Set
  <2>3. OneFault /\ UNCHANGED <<stateVars, image, bootVars, rec, history>>
    BY <1>3 DEF AgentDies
  <2> HIDE DEF r
  <2>4. QED
    BY <1>0, <1>2, <2>1, <2>2, <2>3
<1>4. ASSUME rec'.pc \in {"idle", "try"}, UNCHANGED <<slot, trial>>,
             UNCHANGED <<stateVars, image, bootVars, proc, history>>
      PROVE  CInv'
  <2>1. ~Judging' /\ UNCHANGED <<env, file, disk, image, running, arg, stage, step, proc, recFailed>>
    BY <1>4 DEF Judging, stateVars, bootVars, history
  <2>2. AimsOK'
    BY <2>1, AimsThroughScript
  <2>3. BootOK' /\ Trusted' /\ Spared'
    BY <1>4, <2>1 DEF Before, CInv, BootOK, Trusted, Spared, Reported, Away
  <2>4. QED
    BY <2>2, <2>3 DEF CInv
<1>5. CASE SaveFails
  <2>1. OneFault /\ UNCHANGED <<stateVars, image, bootVars, history>>
    BY <1>5 DEF SaveFails
  <2>2. ASSUME NEW p \in Procs, Fail(p), UNCHANGED rec
        PROVE  CInv'
    BY <1>0, <1>2, <2>1, <2>2 DEF Fail, Set
  <2>3. CASE Retry /\ UNCHANGED proc
    <3>1. rec'.pc \in {"idle", "try"}
      BY <2>3, RetryKeepsType DEF Before, Known, IInv
    <3>2. QED
      BY <1>4, <2>1, <2>3, <3>1 DEF OneFault
  <2>4. QED
    BY <1>5, <2>2, <2>3 DEF SaveFails
<1>6. CASE RecoveryTimeout
  <2>1. rec'.pc = "idle" /\ UNCHANGED <<slot, trial>>
    BY <1>0, <1>6 DEF RecoveryTimeout, RecGoes, OneFault, abVars
  <2>2. QED
    BY <1>4, <1>6, <2>1 DEF RecoveryTimeout
<1>7. QED
  BY <1>1, <1>3, <1>5, <1>6 DEF Faults

LEMMA StepCInv ==
  ASSUME Before, [Next]_vars
  PROVE  CInv'
<1>1. CASE UNCHANGED vars
  <2>1. UNCHANGED <<slot, trial, env, file, disk, image, rec, running, arg, stage, step, recFailed, proc>>
    BY <1>1 DEF vars, abVars, stateVars, bootVars, history
  <2>2. AimsOK'
    BY <2>1, AimsThroughScript
  <2>3. BootOK' /\ Trusted' /\ Spared'
    BY <2>1 DEF Before, CInv, BootOK, Trusted, Spared, Reported, Away, Judging
  <2>4. QED
    BY <2>2, <2>3 DEF CInv
<1>2. ASSUME NEW p \in Procs, MqttCommand(p) \/ LocalCommand(p) \/ Pipeline(p)
      PROVE  CInv'
  BY <1>2, QuietCommits, SavePhaseFileCommits, SavePhaseEnvCommits, FlashCommits, SwitchCommits DEF Pipeline
<1>3. QED
  BY <1>1, <1>2, RecoveryCommits, BootCommits, FaultsCommit DEF Next, BootStep

LEMMA InitCInv == Init => CInv
<1> SUFFICES ASSUME Init PROVE CInv
  OBVIOUS
<1>1. stage = "boot" /\ trial = FALSE
  BY DEF Init, AB!ABInit
<1>2. AimsOK
  BY DEF Init, AimsOK, AimOK, Allowed, Written, FirstRecord, Past, Saves, Idle
<1>3. QED
  BY <1>1, <1>2 DEF CInv, BootOK, Trusted, Spared

LEMMA BeforeAlways ==
  ASSUME EarlyUpdates = FALSE
  PROVE  Spec => []Before
<1>1. Init /\ Known => Before
  BY InitCInv DEF Before
<1>2. Before /\ Known' /\ [Next]_vars => Before'
  BY StepCInv DEF Before
<1>3. QED
  BY <1>1, <1>2, KnownAlways, PTL DEF Spec

\* A request that recovery has reported to the cloud as failed, with a slot, is never the
\* one that board-upgrade-commit then commits in that slot: recovery runs before it in every
\* boot of a trial (S20), and reports no slot that may still pass the trial. That holds for
\* any number of boots, kills and power losses, with updates that wait for the scripts.
THEOREM ReportedIsNotCommitted ==
  ASSUME EarlyUpdates = FALSE
  PROVE  Spec => []CommitsNothingReportedFailed
<1>1. Before => CommitsNothingReportedFailed
  BY DEF Before, CInv, Trusted, Reported, CommitsNothingReportedFailed
<1>2. QED
  BY <1>1, BeforeAlways, PTL

-----------------------------------------------------------------------------
(* A boot settles what it finds *)

\* What needs no calm: a pending upgrade names its target, a slot that was committed is set,
\* no command has started in a fresh boot, and a reboot is asked for by a system that is up.
Aimed(f) == f.kind = "ok" /\ f.st.phase = "upgrading" => f.st.target \in Slot
Shape ==
  /\ \A s \in Slot : Aimed(file[s]) /\ Aimed(disk[s])
  /\ lastGood # "none" \/ trial \/ stage = "commit" => stored
  /\ fresh => \A p \in Procs : proc[p].pc = "idle"
  /\ rebootReq => stage = "up"
  /\ rec.pc = "saveenv" => file[running] = Saved(rec.st)

\* With no fault, and nothing lost: the upgrade a file knows of is one of the other slot;
\* an open trial is known from the environment only, and what the environment alone knows of
\* the running slot is an open trial.
Calm == faults = 0 /\ ~forgot
Pending(f)  == f.kind = "ok" /\ f.st.phase = "upgrading"
AimsAway    == \A s \in Slot : Needed(s) /\ Pending(file[s]) => file[s].st.target = AB!Flip(s)
TrialByEnv  == trial => env.target = slot /\ file[slot].kind = "absent" /\ ~Judging
EnvByTrial  == file[slot].kind = "absent" /\ EnvComplete /\ env.phase = "upgrading" /\ env.target = slot
                 => trial \/ stage = "commit"
ScriptByEnv == fresh /\ stage \in {"commit", "rollback"} => file[running].kind = "absent"
Quiet == Calm => AimsAway /\ TrialByEnv /\ EnvByTrial /\ ScriptByEnv

\* Where recovery can tell, it leaves nothing pending but an open trial, at its first attempt.
Tells == Calm /\ fresh /\ named /\ lastGood # "none"
Settled == ~IsPending(Loaded)
Judges ==
  /\ ~trial /\ stage = "S20" /\ (rec.pc = "idle" \/ (rec.pc = "try" /\ rec.attempt > 0)) => Settled
  /\ rec.pc \in {"report", "savefile"} => rec.attempt = 0
  /\ rec.pc = "saveenv" => Settled
  /\ stage = "rc" /\ ~trial => Settled
  /\ stage = "up" => Settled
BootInv == Tells => Judges

SettledInv == Shape /\ Quiet /\ BootInv

Ready == Before /\ SettledInv /\ MaxAttempts # 0

\* Pipelines run in a boot that is fresh no longer.
LEMMA NotFresh ==
  ASSUME Ready, NEW p \in Procs, MqttCommand(p) \/ LocalCommand(p) \/ Pipeline(p)
  PROVE  fresh' = FALSE
<1>1. CASE MqttCommand(p) \/ LocalCommand(p)
  BY <1>1 DEF MqttCommand, LocalCommand, Started
<1>2. CASE Pipeline(p)
  <2>1. proc[p].pc # "idle" /\ fresh' = fresh
    BY <1>2 DEF Pipeline, MqttLock, SavePhaseFile, SavePhaseEnv, Guard, Download, Verify, RunUpgrade, Flash,
                Switch, OrphanEnds, history
  <2>2. fresh \in BOOLEAN
    BY DEF Ready, Before, Known, IInv, TypeOK
  <2>3. QED
    BY <2>1, <2>2 DEF Ready, SettledInv, Shape
<1>3. QED
  BY <1>1, <1>2

\* A step of a pipeline, or of its end, that writes nothing.
LEMMA QuietSettles ==
  ASSUME Ready, fresh' = FALSE, \A p \in Procs : proc'[p].pc = "switch" => proc[p].pc = "switch",
         UNCHANGED <<slot, trial, stored, lastGood, env, file, disk, running, rec, stage, rebootReq, faults, forgot>>
  PROVE  SettledInv'
<1>1. Shape'
  BY DEF Ready, SettledInv, Shape, Aimed
<1>2. Quiet'
  BY DEF Ready, SettledInv, Quiet, Calm, AimsAway, TrialByEnv, EnvByTrial, ScriptByEnv, EnvComplete, Judging,
         Needed, Pending
<1>3. QED
  BY <1>1, <1>2 DEF SettledInv, BootInv, Tells

LEMMA NoneSwitches ==
  ASSUME Ready, NEW p \in Procs, NEW r, proc' = [proc EXCEPT ![p] = r], r.pc # "switch"
  PROVE  \A q \in Procs : proc'[q].pc = "switch" => proc[q].pc = "switch"
BY DEF Ready, Before, Known, IInv, TypeOK

LEMMA PipelineSettles ==
  ASSUME Ready, NEW p \in Procs,
         \/ MqttCommand(p) \/ MqttLock(p) \/ LocalCommand(p) \/ Guard(p) \/ Download(p)
         \/ Verify(p) \/ RunUpgrade(p) \/ OrphanEnds(p)
  PROVE  SettledInv'
<1> USE DEF Set
<1>1. UNCHANGED <<slot, trial, stored, lastGood, env, file, disk, running, rec, stage, rebootReq, faults, forgot>>
  BY DEF MqttCommand, MqttLock, LocalCommand, Guard, Download, Verify, RunUpgrade, OrphanEnds, Started,
         abVars, stateVars, bootVars, history
<1>2. fresh' = FALSE
  BY NotFresh DEF Pipeline
<1>3. proc[p] \in ProcType
  BY DEF Ready, Before, Known, IInv, TypeOK, ProcType
<1>4. \E r : proc' = [proc EXCEPT ![p] = r] /\ r.pc # "switch"
  <2>1. CASE Fail(p)
    <3>1. proc' = [proc EXCEPT ![p] = Idle]
      BY <2>1 DEF Fail
    <3>2. Idle.pc = "idle"
      BY DEF Idle
    <3>3. QED
      BY <3>1, <3>2
  <2>2. CASE MqttCommand(p)
    <3>1. PICK q \in Requests :
            proc' = [proc EXCEPT ![p] = [Idle EXCEPT !.pc = "checked", !.cmd = q,
                                          !.st = [Empty EXCEPT !.request = q, !.version = VersionOf[q]]]]
      BY <2>2 DEF MqttCommand
    <3> DEFINE r == [Idle EXCEPT !.pc = "checked", !.cmd = q,
                                 !.st = [Empty EXCEPT !.request = q, !.version = VersionOf[q]]]
    <3>2. r.pc = "checked" /\ proc' = [proc EXCEPT ![p] = r]
      BY <3>1 DEF Idle
    <3> HIDE DEF r
    <3>3. QED
      BY <3>2
  <2>3. CASE LocalCommand(p)
    <3> DEFINE r1 == [Idle EXCEPT !.pc = "guard", !.cmd = "apply", !.st = Loaded]
               r2 == [Idle EXCEPT !.pc = "guard", !.cmd = "pull-latest",
                                  !.st = [Loaded EXCEPT !.request = "pull-latest"]]
    <3>1. r1.pc = "guard" /\ r2.pc = "guard"
      BY DEF Idle
    <3>2. proc' = [proc EXCEPT ![p] = r1] \/ proc' = [proc EXCEPT ![p] = r2]
      BY <2>3 DEF LocalCommand
    <3> HIDE DEF r1, r2
    <3>3. QED
      BY <3>1, <3>2
  <2>4. CASE \E st : Saving(p, st)
    <3>1. PICK st : Saving(p, st)
      BY <2>4
    <3> DEFINE r == [proc[p] EXCEPT !.pc = "savefile", !.st = st, !.step = 1]
    <3>2. r.pc = "savefile" /\ proc' = [proc EXCEPT ![p] = r]
      BY <1>3, <3>1 DEF Saving, ProcType
    <3> HIDE DEF r
    <3>3. QED
      BY <3>2
  <2>5. CASE RunUpgrade(p) /\ ~Fail(p)
    <3> DEFINE r == [proc[p] EXCEPT !.pc = "flash"]
    <3>1. r.pc = "flash" /\ proc' = [proc EXCEPT ![p] = r]
      BY <1>3, <2>5 DEF RunUpgrade, ProcType
    <3> HIDE DEF r
    <3>2. QED
      BY <3>1
  <2>6. MqttLock(p) \/ Guard(p) \/ Download(p) \/ Verify(p) => Fail(p) \/ \E st : Saving(p, st)
    <3>1. ASSUME NEW ph, ToPhase(p, ph)
          PROVE  \E st : Saving(p, st)
      BY <3>1 DEF ToPhase
    <3>2. MqttLock(p) => Fail(p) \/ ToPhase(p, "received")
      BY DEF MqttLock
    <3>3. Download(p) \/ Verify(p) => Fail(p) \/ ToPhase(p, "upgrading") \/ ToPhase(p, "verifying")
      BY DEF Download, Verify
    <3>4. Guard(p) => Fail(p) \/ Saving(p, [proc[p].st EXCEPT !.target = AB!Flip(slot), !.phase = "downloading"])
      BY DEF Guard
    <3>5. QED
      BY <3>1, <3>2, <3>3, <3>4
  <2>7. OrphanEnds(p) => Fail(p)
    BY DEF OrphanEnds, Fail
  <2>8. QED
    BY <2>1, <2>2, <2>3, <2>4, <2>5, <2>6, <2>7
<1>5. QED
  BY <1>1, <1>2, <1>4, NoneSwitches, QuietSettles

LEMMA SavePhaseFileSettles ==
  ASSUME Ready, NEW p \in Procs, SavePhaseFile(p)
  PROVE  SettledInv'
<1> DEFINE old == proc[p]
           st  == old.st
<1>1. /\ old \in ProcType /\ PipeOK(old) /\ old.pc = "savefile" /\ Locked(old) /\ rec.pc = "idle"
      /\ file \in [Slot -> FileType] /\ running \in Slot /\ slot \in Slot
  BY Busy DEF Ready, Before, Known, RInv, PipesOK, IInv, TypeOK, ProcType, SavePhaseFile, Locked
<1>2. fresh' = FALSE
  BY NotFresh DEF Pipeline
<1>3. /\ file' = [file EXCEPT ![running] = Saved(st)] /\ forgot' = (trial \/ running # slot)
      /\ UNCHANGED <<slot, trial, env, disk, running, rec, stage, rebootReq, stored, lastGood, faults>>
  BY DEF SavePhaseFile, SaveFile, abVars, bootVars
<1>4. Saved(st).kind = "ok" /\ Saved(st).st = st
  BY DEF Saved
<1>5. st.phase = "upgrading" => st.target = AB!Flip(slot)
  BY <1>1 DEF PipeOK, TargetOK, Allowed, Written, Saves
<1>6. \A q \in Procs : proc'[q].pc # "switch"
  <2> DEFINE r == [old EXCEPT !.pc = "saveenv"]
  <2>1. r.pc = "saveenv" /\ proc' = [proc EXCEPT ![p] = r]
    BY <1>1 DEF SavePhaseFile, Set, ProcType
  <2> HIDE DEF r
  <2>2. proc'[p] = r /\ \A q \in Procs \ {p} : proc'[q] = proc[q] /\ ~Works(proc[q])
    BY <1>1, <2>1, Alone DEF Ready, Before, Known
  <2>3. QED
    BY <2>1, <2>2 DEF Works, Past
<1> HIDE DEF st
<1>7. file'[running] = Saved(st) /\ \A s \in Slot \ {running} : file'[s] = file[s]
  BY <1>1, <1>3
<1>8. Shape'
  <2>1. Aimed(Saved(st))
    BY <1>1, <1>4, <1>5, Flipped DEF Aimed
  <2>2. \A s \in Slot : Aimed(file'[s]) /\ Aimed(disk'[s])
    BY <1>3, <1>7, <2>1 DEF Ready, SettledInv, Shape
  <2>3. QED
    BY <1>1, <1>2, <1>3, <2>2 DEF Ready, SettledInv, Shape, Aimed
<1>9. Quiet'
  <2> SUFFICES ASSUME Calm' PROVE (AimsAway /\ TrialByEnv /\ EnvByTrial /\ ScriptByEnv)'
    BY DEF Quiet
  <2>1. ~trial' /\ running = slot
    BY <1>3 DEF Calm
  <2>2. AimsAway'
    BY <1>3, <1>4, <1>5, <1>6, <1>7, <2>1 DEF AimsAway, Needed, Pending
  <2>3. EnvByTrial'
    BY <1>3, <1>4, <1>7, <2>1 DEF EnvByTrial
  <2>4. QED
    BY <1>2, <2>1, <2>2, <2>3 DEF TrialByEnv, ScriptByEnv
<1>10. QED
  BY <1>2, <1>8, <1>9 DEF SettledInv, BootInv, Tells

LEMMA SavePhaseEnvSettles ==
  ASSUME Ready, NEW p \in Procs, SavePhaseEnv(p)
  PROVE  SettledInv'
<1> DEFINE old == proc[p]
<1>1. /\ old \in ProcType /\ OnFile(old) /\ PhaseOK(old) /\ old.pc = "saveenv" /\ Locked(old) /\ slot \in Slot
  BY DEF Ready, Before, Known, RInv, PipesOK, PipeOK, IInv, TypeOK, ProcType, SavePhaseEnv, Locked
<1>2. fresh' = FALSE
  BY NotFresh DEF Pipeline
<1>3. UNCHANGED <<slot, trial, file, disk, running, rec, stage, rebootReq, stored, lastGood, faults, forgot>>
  BY DEF SavePhaseEnv, abVars, bootVars, history
<1>4. \A q \in Procs : proc'[q].pc = "switch" => proc[q].pc = "switch"
  <2> DEFINE r == IF old.step < Len(SaveOrder) THEN [old EXCEPT !.step = old.step + 1]
                  ELSE [old EXCEPT !.pc = AfterPhase(old.st.phase)]
  <2>1. proc' = [proc EXCEPT ![p] = r] /\ r.pc \in {"saveenv", AfterPhase(old.st.phase)}
    BY <1>1 DEF SavePhaseEnv, Set, ProcType
  <2>2. AfterPhase(old.st.phase) # "switch"
    BY DEF AfterPhase
  <2> HIDE DEF r
  <2>3. QED
    BY <2>1, <2>2, NoneSwitches
<1>5. Shape'
  BY <1>2, <1>3 DEF Ready, SettledInv, Shape, Aimed
<1>6. Quiet'
  <2> SUFFICES ASSUME Calm' PROVE (AimsAway /\ TrialByEnv /\ EnvByTrial /\ ScriptByEnv)'
    BY DEF Quiet
  <2>1. ~trial' /\ running = slot /\ file[slot] = Saved(old.st)
    <3>1. ~forgot /\ trial' = trial
      BY <1>3 DEF Calm
    <3>2. QED
      BY <1>1, <3>1 DEF OnFile
  <2>2. AimsAway'
    BY <1>3, <1>4 DEF Ready, SettledInv, Quiet, Calm, AimsAway, Needed
  <2>3. EnvByTrial'
    BY <1>3, <2>1 DEF EnvByTrial, Saved
  <2>4. QED
    BY <1>2, <2>1, <2>2, <2>3 DEF TrialByEnv, ScriptByEnv
<1>7. QED
  BY <1>2, <1>5, <1>6 DEF SettledInv, BootInv, Tells

LEMMA FlashSettles ==
  ASSUME Ready, NEW p \in Procs, Flash(p)
  PROVE  SettledInv'
<1> DEFINE t == AB!Flip(slot)
<1>1. /\ proc[p].pc = "flash" /\ PipeOK(proc[p]) /\ slot \in Slot /\ rec.pc = "idle"
      /\ file \in [Slot -> FileType] /\ disk \in [Slot -> FileType]
  BY Busy DEF Ready, Before, Known, RInv, PipesOK, IInv, TypeOK, Flash
<1>2. fresh' = FALSE
  BY NotFresh DEF Pipeline
<1>3. ~trial /\ running = slot
  BY <1>1 DEF PipeOK, TargetOK, Erases, Allowed, Written, Past
<1>4. /\ file' = [file EXCEPT ![t] = Absent] /\ disk' = [disk EXCEPT ![t] = Absent]
      /\ UNCHANGED <<slot, trial, env, running, rec, stage, rebootReq, stored, lastGood, faults, forgot>>
  BY DEF Flash, abVars, bootVars, history
<1>5. t \in Slot /\ t # slot /\ \A s \in Slot : s \in {slot, t}
  BY <1>1, Flipped DEF AB!Flip, Slot
<1>6. file'[slot] = file[slot] /\ disk'[slot] = disk[slot] /\ file'[t] = Absent /\ disk'[t] = Absent
  BY <1>1, <1>4, <1>5
<1> HIDE DEF t
<1>7. Shape'
  <2>1. \A s \in Slot : Aimed(file'[s]) /\ Aimed(disk'[s])
    BY <1>5, <1>6 DEF Ready, SettledInv, Shape, Aimed, Absent
  <2>2. QED
    BY <1>1, <1>2, <1>4, <2>1 DEF Ready, SettledInv, Shape, Aimed
<1>8. Quiet'
  <2> SUFFICES ASSUME Calm' PROVE (AimsAway /\ TrialByEnv /\ EnvByTrial /\ ScriptByEnv)'
    BY DEF Quiet
  <2>1. AimsAway /\ EnvByTrial
    BY <1>4 DEF Ready, SettledInv, Quiet, Calm
  <2>2. AimsAway'
    BY <1>4, <1>5, <1>6, <2>1 DEF AimsAway, Needed, Pending, Absent
  <2>3. EnvByTrial'
    BY <1>4, <1>6, <2>1 DEF EnvByTrial, EnvComplete
  <2>4. QED
    BY <1>2, <1>3, <1>4, <2>2, <2>3 DEF TrialByEnv, ScriptByEnv
<1>9. QED
  BY <1>2, <1>7, <1>8 DEF SettledInv, BootInv, Tells

LEMMA SwitchSettles ==
  ASSUME Ready, NEW p \in Procs, Switch(p)
  PROVE  SettledInv'
<1>1. /\ proc[p].pc = "switch" /\ PipeOK(proc[p]) /\ AimOK(proc[p]) /\ slot \in Slot /\ rec.pc = "idle"
      /\ stage = "up"
  BY Busy DEF Ready, Before, CInv, AimsOK, Known, RInv, PipesOK, IInv, TypeOK, Switch
<1>2. fresh' = FALSE
  BY NotFresh DEF Pipeline
<1>3. /\ slot' = AB!Flip(slot) /\ trial' = TRUE
      /\ UNCHANGED <<env, file, disk, running, rec, stage, stored, lastGood, faults, forgot>>
  BY DEF Switch, AB!Install, stateVars
<1>4. stored /\ env.target = slot' /\ file[slot'].kind = "absent"
  BY <1>1, <1>3 DEF PipeOK, TargetOK, Erases, AimOK, Allowed, Written, Past, Absent
<1>5. Shape'
  BY <1>1, <1>2, <1>3, <1>4 DEF Ready, SettledInv, Shape, Aimed
<1>6. Quiet'
  <2> SUFFICES ASSUME Calm' PROVE (AimsAway /\ TrialByEnv /\ EnvByTrial /\ ScriptByEnv)'
    BY DEF Quiet
  <2>1. AimsAway /\ \A s \in Slot : Needed(s)
    BY <1>1, <1>3 DEF Ready, SettledInv, Quiet, Calm, Needed
  <2>2. AimsAway'
    BY <1>3, <2>1 DEF AimsAway, Pending
  <2>3. TrialByEnv'
    BY <1>1, <1>3, <1>4 DEF TrialByEnv, Judging
  <2>4. QED
    BY <1>2, <1>3, <2>2, <2>3 DEF EnvByTrial, ScriptByEnv
<1>7. QED
  BY <1>2, <1>5, <1>6 DEF SettledInv, BootInv, Tells

\* At the first attempt a calm recovery finds the open trial, or something to judge.
LEMMA JudgesAtOnce ==
  ASSUME Ready, Tells, stage = "S20", ~trial, ~LoadFails, IsPending(Loaded)
  PROVE  Loaded.target \in Slot /\ stored /\ ~WaitsForCommit(Loaded)
<1>1. running = slot /\ slot \in Slot /\ file[slot].kind \in {"absent", "corrupt", "ok"} /\ env \in Records
  BY DEF Ready, Before, Known, RInv, ScriptOK, IInv, TypeOK, FileType
<1>2. AimsAway /\ EnvByTrial /\ Needed(slot) /\ Aimed(file[slot]) /\ stored
  BY <1>1 DEF Ready, SettledInv, Quiet, Shape, Tells, Needed
<1>3. CASE file[slot].kind = "ok"
  <2>1. Loaded = file[slot].st /\ Pending(file[slot])
    BY <1>1, <1>3 DEF Loaded, IsPending, Pending
  <2>2. Loaded.target = AB!Flip(slot)
    BY <1>1, <1>2, <2>1 DEF AimsAway
  <2>3. QED
    BY <1>1, <1>2, <2>2, Flipped DEF WaitsForCommit
<1>4. CASE file[slot].kind # "ok"
  <2>1. file[slot].kind = "absent" /\ EnvComplete /\ Loaded = env /\ env.phase = "upgrading"
    BY <1>1, <1>4 DEF Loaded, LoadFails, IsPending, Empty
  <2>2. env.target # slot /\ env.target \in Slot
    BY <1>1, <1>2, <2>1 DEF EnvByTrial, EnvComplete, Records
  <2>3. QED
    BY <1>1, <1>2, <2>1, <2>2 DEF WaitsForCommit
<1>5. QED
  BY <1>3, <1>4

\* An open trial is not judged.
LEMMA TrialWaits ==
  ASSUME Ready, Calm, stage = "S20", trial, IsPending(Loaded), Loaded.target \in Slot
  PROVE  WaitsForCommit(Loaded)
<1>1. running = slot /\ slot \in Slot
  BY DEF Ready, Before, Known, RInv, ScriptOK, IInv, TypeOK
<1>2. env.target = slot /\ file[slot].kind = "absent"
  BY DEF Ready, SettledInv, Quiet, TrialByEnv
<1>3. QED
  BY <1>1, <1>2 DEF Loaded, IsPending, Empty, WaitsForCommit

\* What recovery leaves alone here.
LEMMA RecoveryKeepsShape ==
  ASSUME Ready, Recovery, \A s \in Slot : Aimed(file'[s]), rec'.pc = "saveenv" => file'[running] = Saved(rec'.st)
  PROVE  Shape' /\ UNCHANGED <<stored, lastGood, fresh, named, faults, rebootReq>>
<1>1. /\ stage = "S20" /\ UNCHANGED <<slot, trial, stored, disk, running, stage, proc>>
  BY InRecovery DEF Ready, Before
<1>2. UNCHANGED <<lastGood, fresh, named, faults, rebootReq>>
  BY DEF Recovery, RecoverTry, RecoverReport, RecoverSaveFile, RecoverSaveEnv, abVars, bootVars, history
<1>3. QED
  BY <1>1, <1>2 DEF Ready, SettledInv, Shape, Aimed

\* A step of recovery after which the file of the running root is settled.
LEMMA WritesSettled ==
  ASSUME Ready, Recovery, file'[running].kind = "ok", file'[running].st.phase # "upgrading",
         \A s \in Slot \ {running} : file'[s] = file[s],
         Calm /\ trial => file[running].kind # "absent" \/ Judging,
         rec'.pc = "saveenv" => file'[running] = Saved(rec'.st),
         rec'.pc \notin {"report", "savefile"}
  PROVE  SettledInv'
<1>1. /\ stage = "S20" /\ running = slot /\ slot \in Slot
      /\ \A q \in Procs : proc'[q].pc = "idle"
      /\ UNCHANGED <<slot, trial, stored, disk, running, lastRun, forgot, stage, step, proc>>
  BY InRecovery DEF Ready, Before
<1>2. \A s \in Slot : Aimed(file'[s])
  BY DEF Ready, SettledInv, Shape, Aimed
<1>3. Shape' /\ UNCHANGED <<stored, lastGood, fresh, named, faults, rebootReq>>
  BY <1>2, RecoveryKeepsShape
<1>4. Quiet'
  <2> SUFFICES ASSUME Calm' PROVE (AimsAway /\ TrialByEnv /\ EnvByTrial /\ ScriptByEnv)'
    BY DEF Quiet
  <2>1. Calm /\ AimsAway /\ TrialByEnv
    BY <1>1, <1>3 DEF Ready, SettledInv, Quiet, Calm
  <2>2. ~trial
    BY <1>1, <2>1 DEF TrialByEnv
  <2>3. AimsAway'
    BY <1>1, <2>1 DEF AimsAway, Pending, Needed
  <2>4. QED
    BY <1>1, <2>2, <2>3 DEF TrialByEnv, EnvByTrial, ScriptByEnv
<1>5. Settled'
  BY <1>1 DEF Settled, IsPending, Loaded
<1>6. QED
  BY <1>1, <1>3, <1>4, <1>5 DEF SettledInv, BootInv, Judges

\* A step of recovery that writes nothing.
LEMMA WaitsSettled ==
  ASSUME Ready, Recovery, UNCHANGED <<env, file>>, rec'.pc # "saveenv",
         Calm /\ trial => ~Judging', Tells => Judges'
  PROVE  SettledInv'
<1>1. /\ stage = "S20" /\ UNCHANGED <<slot, trial, stored, disk, running, lastRun, forgot, stage, step, proc>>
  BY InRecovery DEF Ready, Before
<1>2. \A s \in Slot : Aimed(file'[s])
  BY DEF Ready, SettledInv, Shape
<1>3. Shape' /\ UNCHANGED <<stored, lastGood, fresh, named, faults, rebootReq>>
  BY <1>2, RecoveryKeepsShape
<1>4. Calm' => Calm
  BY <1>1, <1>3 DEF Calm
<1>5. Quiet'
  BY <1>1, <1>3, <1>4 DEF Ready, SettledInv, Quiet, AimsAway, TrialByEnv, EnvByTrial, ScriptByEnv, EnvComplete,
                          Needed
<1>6. BootInv'
  BY <1>3, <1>4 DEF BootInv, Tells
<1>7. QED
  BY <1>3, <1>5, <1>6 DEF SettledInv

LEMMA RecoverySettles ==
  ASSUME Ready, Recovery
  PROVE  SettledInv'
<1> USE DEF RecGoes
<1>1. /\ stage = "S20" /\ running = slot /\ slot \in Slot /\ rec \in RecType /\ rec.st \in Records
      /\ env \in Records /\ file \in [Slot -> FileType]
      /\ UNCHANGED <<slot, trial, stored, disk, running, lastRun, forgot, stage, step, proc>>
  BY InRecovery DEF Ready, Before
<1>2. RecIdle.pc = "idle"
  BY DEF RecIdle
<1>3. CASE RecoverTry
  <2>1. CASE Stale /\ SaveFile(env) /\ rec' = RecIdle
    <3>1. file'[running] = Saved(env) /\ \A s \in Slot \ {running} : file'[s] = file[s]
      BY <1>1, <2>1 DEF SaveFile
    <3>2. env.phase # "upgrading" /\ file[running].kind = "ok"
      BY <2>1 DEF Stale, IsFinal
    <3>3. QED
      BY <1>2, <2>1, <3>1, <3>2, WritesSettled DEF Saved
  <2>2. CASE UNCHANGED file /\ (Retry \/ rec' = RecIdle)
    <3>1. rec'.pc \in {"try", "idle"} /\ UNCHANGED env
      BY <1>2, <1>3, <2>2, RetryKeepsType DEF Ready, Before, Known, IInv, RecoverTry
    <3>2. UNCHANGED <<running, stage, trial, file, env>>
      BY <1>1, <2>2, <3>1
    <3>3. ASSUME Tells, ~trial
          PROVE  Settled
      <4>1. CASE LoadFails
        BY <4>1 DEF Settled, IsPending, Loaded, LoadFails, Empty
      <4>2. CASE ~LoadFails /\ Settled
        BY <4>2
      <4>3. CASE ~LoadFails /\ ~Settled
        <5>1. Loaded.target \in Slot /\ stored /\ ~WaitsForCommit(Loaded) /\ named /\ lastGood # "none"
          BY <1>1, <3>3, <4>3, JudgesAtOnce DEF Settled, Tells
        <5>2. ~Stale
          <6>1. Stale => SaveFile(env)
            BY <1>3, <4>3 DEF RecoverTry, LoadFails, Stale
          <6>2. SaveFile(env) => file[running] = Saved(env)
            BY <1>1, <2>2 DEF SaveFile
          <6>3. QED
            BY <6>1, <6>2 DEF Stale, Saved, IsPending, IsFinal
        <5>3. rec' = [rec EXCEPT !.pc = "report", !.st = [Loaded EXCEPT !.phase = "failed"]]
          BY <1>3, <4>3, <5>1, <5>2 DEF RecoverTry, Settled
        <5>4. rec'.pc = "report"
          BY <1>1, <5>3 DEF RecType
        <5>5. QED
          BY <3>1, <5>4
      <4>4. QED
        BY <4>1, <4>2, <4>3
    <3>4. Tells => Judges'
      BY <1>1, <3>1, <3>2, <3>3 DEF Judges, Settled, Loaded, IsPending, EnvComplete
    <3>5. QED
      BY <2>2, <3>1, <3>4, WaitsSettled DEF Judging
  <2>3. CASE /\ UNCHANGED file /\ ~LoadFails /\ IsPending(Loaded) /\ Loaded.target \in Slot
             /\ ~WaitsForCommit(Loaded)
             /\ rec' = [rec EXCEPT !.pc = "report", !.st = [Loaded EXCEPT !.phase = "failed"]]
    <3>1. rec'.pc = "report" /\ rec'.attempt = rec.attempt /\ UNCHANGED env
      BY <1>1, <1>3, <2>3 DEF RecType, RecoverTry
    <3>2. ~(Calm /\ trial)
      BY <1>1, <2>3, TrialWaits
    <3>3. Tells => rec.attempt = 0
      <4>1. Tells => ~trial /\ ~(rec.attempt > 0)
        BY <1>1, <1>3, <2>3, <3>2 DEF Tells, Ready, SettledInv, BootInv, Judges, Settled, RecoverTry
      <4>2. rec.attempt \in Nat
        BY <1>1, BoundsAssumption DEF RecType
      <4>3. QED
        BY <4>1, <4>2
    <3>4. Tells => Judges'
      BY <1>1, <3>1, <3>3 DEF Judges
    <3>5. QED
      BY <2>3, <3>1, <3>2, <3>4, WaitsSettled
  <2>4. QED
    BY <1>3, <2>1, <2>2, <2>3 DEF RecoverTry
<1>4. CASE RecoverReport
  <2>1. rec.pc = "report" /\ rec'.pc = "savefile" /\ rec'.attempt = rec.attempt /\ UNCHANGED <<env, file>>
    BY <1>1, <1>4 DEF RecoverReport, RecType, stateVars
  <2>2. Tells => Judges'
    BY <1>1, <2>1 DEF Ready, SettledInv, BootInv, Judges
  <2>3. ~(Calm /\ trial)
    BY <2>1 DEF Ready, SettledInv, Quiet, TrialByEnv, Judging
  <2>4. QED
    BY <2>1, <2>2, <2>3, WaitsSettled
<1>5. CASE RecoverSaveFile
  <2>1. rec'.st = rec.st /\ rec.pc = "savefile" /\ SaveFile(rec.st) /\ rec'.pc = "saveenv"
    BY <1>1, <1>5 DEF RecoverSaveFile, RecType
  <2>2. rec.st.phase = "failed" /\ Judging
    BY <2>1 DEF Ready, Before, Known, RInv, ScriptOK, Judging
  <2>3. file'[running] = Saved(rec.st) /\ \A s \in Slot \ {running} : file'[s] = file[s]
    BY <1>1, <2>1 DEF SaveFile
  <2>4. QED
    BY <2>1, <2>2, <2>3, WritesSettled DEF Saved
<1>6. CASE RecoverSaveEnv
  <2>1. rec.pc = "saveenv" /\ UNCHANGED file /\ (rec'.pc = "idle" \/ (rec'.pc = "saveenv" /\ rec'.st = rec.st))
    BY <1>1, <1>2, <1>6 DEF RecoverSaveEnv, RecType
  <2>2. file[running] = Saved(rec.st) /\ rec.st.phase = "failed" /\ Judging
    BY <2>1 DEF Ready, SettledInv, Shape, Before, Known, RInv, ScriptOK, Judging
  <2>3. QED
    BY <2>1, <2>2, WritesSettled DEF Saved
<1>7. QED
  BY <1>3, <1>4, <1>5, <1>6 DEF Recovery

\* What the steps of the boot leave alone.
LEMMA BootFrame ==
  ASSUME Ready, \/ Boot \/ Failover \/ RecoveryEnded \/ CommitStart \/ CommitSlot \/ RollbackFailedSlot
                \/ FillActiveSlot \/ Sync \/ RequestReboot
  PROVE  /\ UNCHANGED <<file, proc, named>> /\ faults' = faults /\ (disk' = disk \/ disk' = file)
         /\ fresh' => \A p \in Procs : proc'[p].pc = "idle"
         /\ \A s \in Slot : Aimed(file[s])' /\ Aimed(disk[s])'
         /\ slot \in Slot /\ env \in Records /\ file[slot].kind \in {"absent", "corrupt", "ok"}
<1>1. UNCHANGED <<file, proc, named>> /\ (disk' = disk \/ disk' = file)
  BY DEF Boot, Failover, RecoveryEnded, CommitStart, CommitSlot, RollbackFailedSlot, FillActiveSlot, Sync,
         RequestReboot, stateVars, history
<1>2. faults' = faults
  <2>1. CASE Failover
    BY <2>1 DEF Failover, AB!Failover
  <2>2. CASE CommitSlot
    BY <2>2, CommitCases DEF Ready, Before, Known, CommitFirst, CommitSecond, CommitThird, AB!Commit, abVars
  <2>3. CASE RollbackFailedSlot
    BY <2>3, RollbackCases DEF Ready, Before, Known, RollbackFirst, RollbackSecond, AB!Revert, abVars
  <2>4. QED
    BY <2>1, <2>2, <2>3 DEF Boot, RecoveryEnded, CommitStart, FillActiveSlot, Sync, RequestReboot, abVars
<1>3. fresh' => \A p \in Procs : proc'[p].pc = "idle"
  <2>1. CASE Boot
    BY <2>1, <1>1, BootFinds DEF Boot, Ready, Before
  <2>2. CASE ~Boot
    <3>1. fresh' = fresh
      BY <2>2 DEF Failover, RecoveryEnded, CommitStart, CommitSlot, RollbackFailedSlot, FillActiveSlot, Sync,
                  RequestReboot, history
    <3>2. QED
      BY <1>1, <3>1 DEF Ready, SettledInv, Shape
  <2>3. QED
    BY <2>1, <2>2
<1>4. \A s \in Slot : Aimed(file[s])' /\ Aimed(disk[s])'
  BY <1>1 DEF Ready, SettledInv, Shape, Aimed
<1>5. slot \in Slot /\ env \in Records /\ file[slot].kind \in {"absent", "corrupt", "ok"}
  BY DEF Ready, Before, Known, IInv, TypeOK, FileType
<1>6. QED
  BY <1>1, <1>2, <1>3, <1>4, <1>5

LEMMA BootSettles ==
  ASSUME Ready, Boot \/ Failover \/ RecoveryEnded \/ CommitStart
  PROVE  SettledInv'
<1>1. /\ UNCHANGED <<file, proc, named>> /\ faults' = faults
      /\ fresh' => \A p \in Procs : proc'[p].pc = "idle"
      /\ \A s \in Slot : Aimed(file[s])' /\ Aimed(disk[s])'
      /\ slot \in Slot
  BY BootFrame
<1>2. CASE Failover
  <2>1. forgot' = TRUE /\ stored' = TRUE /\ stage = "boot" /\ UNCHANGED <<bootVars, rec>>
    BY <1>2 DEF Failover
  <2>2. Shape'
    BY <1>1, <2>1 DEF Ready, SettledInv, Shape, Before, Known, IInv, BootShape, bootVars
  <2>3. QED
    BY <2>1, <2>2 DEF SettledInv, Quiet, BootInv, Tells, Calm
<1>3. CASE Boot
  <2>1. /\ stage = "boot" /\ stage' = "S20" /\ running' = slot
        /\ UNCHANGED <<slot, trial, stored, lastGood, env, rebootReq, forgot>>
    BY <1>3 DEF Boot, Enter, abVars, stateVars
  <2>2. rec'.pc = "try" /\ rec'.attempt = 0
    BY <1>3 DEF Boot, RecGoes, RecIdle
  <2>3. Shape'
    BY <1>1, <2>1, <2>2 DEF Ready, SettledInv, Shape
  <2>4. Quiet'
    BY <1>1, <2>1, <2>2 DEF Ready, SettledInv, Quiet, Calm, AimsAway, TrialByEnv, EnvByTrial, ScriptByEnv, Needed,
                            EnvComplete, Judging, Pending
  <2>5. BootInv'
    BY <2>1, <2>2 DEF BootInv, Judges
  <2>6. QED
    BY <2>3, <2>4, <2>5 DEF SettledInv
<1>4. CASE RecoveryEnded
  <2>1. /\ stage = "S20" /\ stage' = "rc" /\ rec.pc = "idle" /\ rec' = rec
        /\ UNCHANGED <<slot, trial, stored, lastGood, env, rebootReq, forgot, running, fresh>>
    BY <1>4 DEF RecoveryEnded, Enter, abVars, stateVars, history
  <2>2. Shape'
    BY <1>1, <2>1 DEF Ready, SettledInv, Shape
  <2>3. Quiet'
    BY <1>1, <2>1 DEF Ready, SettledInv, Quiet, Calm, AimsAway, TrialByEnv, EnvByTrial, ScriptByEnv, Needed,
                      EnvComplete, Judging, Pending
  <2>4. BootInv'
    BY <1>1, <2>1 DEF Ready, SettledInv, BootInv, Tells, Calm, Judges, Settled, IsPending, Loaded, EnvComplete
  <2>5. QED
    BY <2>2, <2>3, <2>4 DEF SettledInv
<1>5. CASE CommitStart
  <2>1. /\ stage = "rc" /\ stage' \in {"up", "commit", "rollback"} /\ rec' = rec
        /\ stage' = "up" <=> ~trial
        /\ UNCHANGED <<slot, trial, stored, lastGood, env, rebootReq, forgot, running, fresh>>
    <3>1. stage' = IF ~trial THEN "up" ELSE IF image[running].healthy THEN "commit" ELSE "rollback"
      BY <1>5 DEF CommitStart, Enter
    <3>2. QED
      BY <1>5, <3>1 DEF CommitStart, abVars, stateVars, history
  <2>2. running = slot /\ rec.pc = "idle"
    BY <2>1 DEF Ready, Before, CInv, BootOK, Known, IInv, BootShape
  <2>3. Shape'
    BY <1>1, <2>1, <2>2 DEF Ready, SettledInv, Shape
  <2>4. Quiet'
    BY <1>1, <2>1, <2>2 DEF Ready, SettledInv, Quiet, Calm, AimsAway, TrialByEnv, EnvByTrial, ScriptByEnv, Needed,
                            EnvComplete, Judging, Pending
  <2>5. BootInv'
    BY <1>1, <2>1, <2>2 DEF Ready, SettledInv, BootInv, Tells, Calm, Judges, Settled, IsPending, Loaded, EnvComplete
  <2>6. QED
    BY <2>3, <2>4, <2>5 DEF SettledInv
<1>6. QED
  BY <1>2, <1>3, <1>4, <1>5

\* The scripts run on the environment: what they write there is what is loaded next.
LEMMA ScriptSettles ==
  ASSUME Ready, CommitSlot \/ RollbackFailedSlot \/ FillActiveSlot \/ Sync \/ RequestReboot
  PROVE  SettledInv'
<1>1. /\ UNCHANGED <<file, proc, named>> /\ faults' = faults /\ (disk' = disk \/ disk' = file)
      /\ fresh' => \A p \in Procs : proc'[p].pc = "idle"
      /\ \A s \in Slot : Aimed(file[s])' /\ Aimed(disk[s])'
      /\ slot \in Slot /\ env \in Records
  BY BootFrame
<1>2. UNCHANGED <<running, rec, fresh, forgot>> /\ rec.pc = "idle" /\ stage # "boot" /\ stage # "S20"
  BY DEF CommitSlot, RollbackFailedSlot, FillActiveSlot, Sync, RequestReboot, bootVars, history, Ready, Before,
         Known, IInv, BootShape
<1>3. CASE FillActiveSlot \/ Sync \/ RequestReboot
  <2>1. UNCHANGED <<slot, trial, lastGood, env, stage>> /\ (stored => stored') /\ (rebootReq' => rebootReq \/ stage = "up")
    BY <1>3 DEF FillActiveSlot, Sync, RequestReboot, abVars, stateVars, bootVars
  <2>2. Shape'
    BY <1>1, <1>2, <2>1 DEF Ready, SettledInv, Shape
  <2>3. Quiet'
    BY <1>1, <1>2, <2>1 DEF Ready, SettledInv, Quiet, Calm, AimsAway, TrialByEnv, EnvByTrial, ScriptByEnv, Needed,
                            EnvComplete, Judging, Pending
  <2>4. BootInv'
    BY <1>1, <1>2, <2>1 DEF Ready, SettledInv, BootInv, Tells, Calm, Judges, Settled, IsPending, Loaded, EnvComplete
  <2>5. QED
    BY <2>2, <2>3, <2>4 DEF SettledInv
<1>4. ASSUME Calm, fresh, stage = "commit" \/ stage = "rollback", env'.phase # "upgrading"
      PROVE  Settled'
  <2>1. file'[running'].kind = "absent"
    BY <1>1, <1>2, <1>4 DEF Ready, SettledInv, Quiet, ScriptByEnv
  <2>2. QED
    BY <1>4, <2>1 DEF Settled, IsPending, Loaded, Empty
<1>5. CASE CommitSlot
  <2>1. /\ stage = "commit" /\ arg = slot /\ UNCHANGED <<stored, rebootReq>>
        /\ CommitFirst \/ CommitSecond \/ CommitThird
    BY <1>5, CommitCases DEF Ready, Before, Known, CInv, BootOK
  <2>2. /\ slot' = slot /\ (trial' => trial) /\ (lastGood' = lastGood \/ stage = "commit")
        /\ (env'.target = env.target \/ env'.target = slot)
        /\ stage' = "commit" \/ (stage' = "up" /\ env'.phase # "upgrading")
    <3>1. CASE CommitFirst
      BY <3>1 DEF CommitFirst, AB!Commit
    <3>2. CASE CommitSecond
      BY <1>1, <2>1, <3>2 DEF CommitSecond, abVars, Records
    <3>3. CASE CommitThird
      BY <1>1, <3>3 DEF CommitThird, abVars, Records
    <3>4. QED
      BY <2>1, <3>1, <3>2, <3>3
  <2>3. stored /\ ~rebootReq
    BY <2>1 DEF Ready, SettledInv, Shape
  <2>4. Shape'
    BY <1>1, <1>2, <2>1, <2>3 DEF Ready, SettledInv, Shape
  <2>5. Quiet'
    <3> SUFFICES ASSUME Calm' PROVE (AimsAway /\ TrialByEnv /\ EnvByTrial /\ ScriptByEnv)'
      BY DEF Quiet
    <3>1. Calm /\ AimsAway /\ TrialByEnv /\ ScriptByEnv
      BY <1>1, <1>2 DEF Calm, Ready, SettledInv, Quiet
    <3>2. AimsAway'
      BY <1>1, <1>2, <2>2, <3>1 DEF AimsAway, Needed, Pending
    <3>3. TrialByEnv'
      BY <1>1, <1>2, <2>2, <3>1 DEF TrialByEnv, Judging
    <3>4. EnvByTrial'
      BY <2>2 DEF EnvByTrial
    <3>5. ScriptByEnv'
      BY <1>1, <1>2, <2>1, <2>2, <3>1 DEF ScriptByEnv
    <3>6. QED
      BY <3>2, <3>3, <3>4, <3>5
  <2>6. BootInv'
    BY <1>1, <1>2, <1>4, <2>1, <2>2 DEF BootInv, Tells, Calm, Judges
  <2>7. QED
    BY <2>4, <2>5, <2>6 DEF SettledInv
<1>6. CASE RollbackFailedSlot
  <2>1. stage = "rollback" /\ UNCHANGED <<stored, lastGood>> /\ (RollbackFirst \/ RollbackSecond)
    BY <1>6, RollbackCases DEF Ready, Before, Known, RollbackFailedSlot
  <2>2. CASE RollbackFirst
    <3>1. /\ trial /\ trial' = FALSE /\ slot' = AB!Flip(slot) /\ UNCHANGED <<env, stage, rebootReq>>
      BY <2>2 DEF RollbackFirst, AB!Revert
    <3>2. Shape'
      BY <1>1, <1>2, <2>1, <3>1 DEF Ready, SettledInv, Shape
    <3>3. Quiet'
      <4> SUFFICES ASSUME Calm' PROVE (AimsAway /\ TrialByEnv /\ EnvByTrial /\ ScriptByEnv)'
        BY DEF Quiet
      <4>1. AimsAway /\ TrialByEnv /\ ScriptByEnv
        BY <1>1, <1>2 DEF Calm, Ready, SettledInv, Quiet
      <4>2. AimsAway'
        BY <1>1, <3>1, <4>1 DEF AimsAway, Needed, Pending
      <4>3. EnvByTrial'
        BY <1>1, <3>1, <4>1, Flipped DEF TrialByEnv, EnvByTrial
      <4>4. QED
        BY <1>1, <1>2, <3>1, <4>1, <4>2, <4>3 DEF TrialByEnv, ScriptByEnv
    <3>4. BootInv'
      BY <1>2, <2>1, <3>1 DEF BootInv, Judges
    <3>5. QED
      BY <3>2, <3>3, <3>4 DEF SettledInv
  <2>3. CASE RollbackSecond
    <3>1. /\ UNCHANGED <<slot, trial>> /\ stage' = "up" /\ env'.phase = "failed" /\ env'.target = env.target
      BY <1>1, <2>3 DEF RollbackSecond, abVars, Records
    <3>2. Shape'
      BY <1>1, <1>2, <2>1, <3>1 DEF Ready, SettledInv, Shape
    <3>3. Quiet'
      BY <1>1, <1>2, <3>1 DEF Ready, SettledInv, Quiet, Calm, AimsAway, TrialByEnv, EnvByTrial, ScriptByEnv, Needed,
                              Judging, Pending
    <3>4. BootInv'
      BY <1>1, <1>2, <1>4, <2>1, <3>1 DEF BootInv, Tells, Calm, Judges
    <3>5. QED
      BY <3>2, <3>3, <3>4 DEF SettledInv
  <2>4. QED
    BY <2>1, <2>2, <2>3
<1>7. QED
  BY <1>3, <1>5, <1>6

\* A fault ends the calm; it leaves the shape.
LEMMA FaultSettles ==
  ASSUME Ready, faults' = faults + 1, UNCHANGED <<stored, lastGood>>, trial' => trial,
         \A s \in Slot : Aimed(file'[s]) /\ Aimed(disk'[s]),
         fresh' => \A p \in Procs : proc'[p].pc = "idle",
         stage' # "commit" \/ stage' = stage, rebootReq' => stage' = "up",
         rec'.pc # "saveenv" \/ UNCHANGED <<rec, file, running>>
  PROVE  SettledInv'
<1>1. Shape'
  BY DEF Ready, SettledInv, Shape
<1>2. ~Calm'
  BY DEF Calm, Ready, Before, Known, IInv, BootShape
<1>3. QED
  BY <1>1, <1>2 DEF SettledInv, Quiet, BootInv, Tells

\* A process that is killed, or fails to save, worked: the boot is fresh no longer.
LEMMA OneFaultSettles ==
  ASSUME Ready, OneFault, UNCHANGED <<stored, lastGood, stateVars, bootVars, history>>,
         \/ UNCHANGED rec /\ \E p \in Procs : proc[p].pc # "idle"
         \/ UNCHANGED proc /\ rec'.pc # "saveenv"
  PROVE  SettledInv'
<1>1. /\ faults' = faults + 1
      /\ UNCHANGED <<trial, file, disk, fresh, stage, rebootReq, running, stored, lastGood>>
  BY DEF OneFault, stateVars, bootVars, history
<1>2. fresh' => \A p \in Procs : proc'[p].pc = "idle"
  BY <1>1 DEF Ready, SettledInv, Shape
<1>3. \A s \in Slot : Aimed(file'[s]) /\ Aimed(disk'[s])
  BY <1>1 DEF Ready, SettledInv, Shape
<1>4. rebootReq' => stage' = "up"
  BY <1>1 DEF Ready, SettledInv, Shape
<1>5. QED
  BY <1>1, <1>2, <1>3, <1>4, FaultSettles

LEMMA FaultsSettle ==
  ASSUME Ready, Reboot \/ Faults
  PROVE  SettledInv'
<1>0. RecIdle.pc = "idle" /\ faults \in Nat /\ slot \in Slot /\ rec \in RecType
  BY DEF RecIdle, Ready, Before, Known, IInv, BootShape, TypeOK, RecType
<1>1. Down => /\ stage' = "boot" /\ running' = "none" /\ rebootReq' = FALSE /\ rec'.pc = "idle" /\ ~Judging'
              /\ \A p \in Procs : proc'[p].pc = "idle"
  BY <1>0, DownEnds DEF Ready, Before, Down
<1>2. CASE Reboot
  <2>1. /\ Down /\ stage = "up" /\ disk' = file
        /\ UNCHANGED <<slot, trial, stored, lastGood, env, file, named, faults, forgot, fresh>>
    BY <1>2 DEF Reboot, abVars, history, Ready, SettledInv, Shape
  <2>2. Shape'
    BY <1>1, <2>1 DEF Ready, SettledInv, Shape, Aimed
  <2>3. Quiet'
    BY <1>0, <1>1, <2>1 DEF Ready, SettledInv, Quiet, Calm, AimsAway, TrialByEnv, EnvByTrial, ScriptByEnv, Needed,
                            EnvComplete, Pending, Slot
  <2>4. BootInv'
    BY <1>1, <2>1 DEF BootInv, Judges
  <2>5. QED
    BY <2>2, <2>3, <2>4 DEF SettledInv
<1>3. CASE PowerLoss
  <2>1. /\ Down /\ faults' = faults + 1 /\ UNCHANGED <<stored, lastGood, trial>>
        /\ file' \in AfterPowerLoss /\ disk' = file'
    BY <1>3 DEF PowerLoss, AB!Cut
  <2>2. ASSUME NEW s \in Slot
        PROVE  Aimed(file'[s]) /\ Aimed(disk'[s])
    <3>1. file \in [Slot -> FileType] /\ Corrupt.kind = "corrupt"
      BY DEF Ready, Before, Known, IInv, TypeOK, Corrupt
    <3>2. file'[s] = file[s] \/ file'[s] = disk[s] \/ file'[s] = Corrupt
      BY <2>1, <3>1 DEF AfterPowerLoss
    <3>3. QED
      BY <2>1, <3>1, <3>2 DEF Ready, SettledInv, Shape, Aimed
  <2>3. QED
    BY <1>1, <2>1, <2>2, FaultSettles
<1>4. CASE PowerLossTornEnv
  <2>1. /\ Down /\ faults' = faults + 1 /\ trial' = FALSE /\ lastGood' = "none" /\ UNCHANGED <<file, disk>>
    BY <1>4 DEF PowerLossTornEnv, AB!Lost
  <2>2. Shape'
    BY <1>1, <2>1 DEF Ready, SettledInv, Shape, Aimed
  <2>3. ~Calm'
    BY <1>0, <2>1 DEF Calm
  <2>4. QED
    BY <2>2, <2>3 DEF SettledInv, Quiet, BootInv, Tells
<1>5. ASSUME NEW p \in Procs, AgentDies(p)
      PROVE  SettledInv'
  BY <1>5, OneFaultSettles DEF AgentDies, Active
<1>6. CASE SaveFails
  <2>1. OneFault /\ UNCHANGED <<stored, lastGood, stateVars, bootVars, history>>
    BY <1>6 DEF SaveFails
  <2>2. ASSUME NEW p \in Procs, proc[p].pc \in {"savefile", "saveenv"}, UNCHANGED rec
        PROVE  SettledInv'
    BY <2>1, <2>2, OneFaultSettles
  <2>3. CASE Retry /\ UNCHANGED proc
    <3>1. rec'.pc \in {"try", "idle"}
      BY <2>3, RetryKeepsType DEF Ready, Before, Known, IInv
    <3>2. QED
      BY <2>1, <2>3, <3>1, OneFaultSettles
  <2>4. QED
    BY <1>6, <2>2, <2>3 DEF SaveFails
<1>7. CASE RecoveryTimeout
  <2>1. /\ rec'.pc = "idle" /\ rec.pc # "idle" /\ stage = "S20"
        /\ UNCHANGED <<stored, lastGood, stateVars, bootVars, named, proc, history>>
    BY <1>0, <1>7 DEF RecoveryTimeout, RecGoes, Ready, Before, Known, IInv, BootShape
  <2>2. CASE OneFault
    BY <2>1, <2>2, OneFaultSettles
  <2>3. CASE rec.attempt = MaxAttempts /\ UNCHANGED abVars
    <3>1. UNCHANGED <<slot, trial, faults, stored, lastGood, env, file, disk, stage, running, rebootReq, fresh,
                      forgot>>
      BY <2>1, <2>3 DEF abVars, stateVars, bootVars, history
    <3>2. Shape'
      BY <2>1, <3>1 DEF Ready, SettledInv, Shape, Aimed
    <3>3. Quiet'
      BY <2>1, <3>1 DEF Ready, SettledInv, Quiet, Calm, AimsAway, TrialByEnv, EnvByTrial, ScriptByEnv, Needed,
                        EnvComplete, Judging, Pending
    <3>4. rec.attempt > 0 /\ rec.attempt # 0
      BY <2>3, BoundsAssumption DEF Ready
    <3>5. ASSUME Tells, ~trial
          PROVE  Settled
      <4>1. Judges /\ rec.pc \in {"try", "report", "savefile", "saveenv"}
        BY <1>0, <2>1, <3>5 DEF Ready, SettledInv, BootInv, RecType
      <4>2. QED
        BY <2>1, <3>4, <3>5, <4>1 DEF Judges
    <3>6. BootInv'
      BY <2>1, <3>1, <3>5 DEF BootInv, Tells, Calm, Judges, Settled, Loaded, IsPending, EnvComplete
    <3>7. QED
      BY <3>2, <3>3, <3>6 DEF SettledInv
  <2>4. QED
    BY <1>7, <2>2, <2>3 DEF RecoveryTimeout
<1>8. QED
  BY <1>2, <1>3, <1>4, <1>5, <1>6, <1>7 DEF Faults

LEMMA StepSettled ==
  ASSUME Ready, [Next]_vars
  PROVE  SettledInv'
<1>1. CASE UNCHANGED vars
  <2>1. UNCHANGED <<slot, trial, faults, stored, lastGood, env, file, disk, stage, running, rebootReq, fresh,
                    forgot, rec, proc, named>>
    BY <1>1 DEF vars, abVars, stateVars, bootVars, history
  <2>2. Shape'
    BY <2>1 DEF Ready, SettledInv, Shape, Aimed
  <2>3. Quiet'
    BY <2>1 DEF Ready, SettledInv, Quiet, Calm, AimsAway, TrialByEnv, EnvByTrial, ScriptByEnv, Needed,
                EnvComplete, Judging, Pending
  <2>4. BootInv'
    BY <2>1 DEF Ready, SettledInv, BootInv, Tells, Calm, Judges, Settled, Loaded, IsPending, EnvComplete
  <2>5. QED
    BY <2>2, <2>3, <2>4 DEF SettledInv
<1>2. ASSUME NEW p \in Procs, MqttCommand(p) \/ LocalCommand(p) \/ Pipeline(p)
      PROVE  SettledInv'
  BY <1>2, PipelineSettles, SavePhaseFileSettles, SavePhaseEnvSettles, FlashSettles, SwitchSettles DEF Pipeline
<1>3. QED
  BY <1>1, <1>2, RecoverySettles, BootSettles, ScriptSettles, FaultsSettle DEF Next, BootStep

LEMMA InitSettled == Init => SettledInv
<1> SUFFICES ASSUME Init PROVE SettledInv
  OBVIOUS
<1>1. /\ ~trial /\ stage = "boot" /\ ~rebootReq /\ rec.pc = "idle"
      /\ \A p \in Procs : proc[p].pc = "idle"
      /\ \A s \in Slot : file[s].kind = "absent" /\ disk[s].kind = "absent"
      /\ env.phase = "none" /\ (lastGood # "none" => stored)
  BY DEF Init, AB!ABInit, RecIdle, Idle, Absent, Empty
<1>2. Shape /\ BootInv
  BY <1>1 DEF Shape, Aimed, BootInv, Judges
<1>3. Quiet
  <2>1. slot \in Slot
    BY DEF Init, AB!ABInit, Slot
  <2>2. QED
    BY <1>1, <2>1 DEF Quiet, AimsAway, TrialByEnv, EnvByTrial, ScriptByEnv, Pending
<1>4. QED
  BY <1>2, <1>3 DEF SettledInv

\* OtaAgent!SettledAfterBoot, what recoverPendingAtStartup is for: a boot that came up without
\* a fault, in a system whose bootloader knows a good slot and whose root is named, leaves no
\* upgrade pending. That needs one retry at least: a recovery that is stopped at its first
\* attempt judges nothing.
THEOREM BootsSettle ==
  ASSUME EarlyUpdates = FALSE, MaxAttempts # 0
  PROVE  Spec => []SettledAfterBoot
<1>1. Ready => SettledAfterBoot
  BY DEF Ready, SettledInv, BootInv, Tells, Calm, Judges, Settled, SettledAfterBoot
<1>2. Init => SettledInv
  BY InitSettled
<1>3. Before /\ SettledInv /\ [Next]_vars => SettledInv'
  BY StepSettled DEF Ready
<1>4. Spec => []SettledInv
  BY <1>2, <1>3, BeforeAlways, PTL DEF Spec
<1>5. Before /\ SettledInv => SettledAfterBoot
  BY <1>1 DEF Ready
<1>6. QED
  BY <1>4, <1>5, BeforeAlways, PTL
=============================================================================
