------------------------------ MODULE OtaAgent ------------------------------
(***************************************************************************)
(* ota-agent: the update pipelines, the state they keep of the last        *)
(* request (a file in the mounted root, and a copy of it in the U-Boot     *)
(* environment, which both slots share), and the recovery that init runs   *)
(* before mqtt-agent to settle an upgrade a reboot has interrupted.        *)
(*                                                                         *)
(* The slots, the trial and the bootloader's switch are those of ABUpdate: *)
(* what ota-apply, board-upgrade-commit and U-Boot do to them is taken     *)
(* from there, and the writes of board-upgrade-commit to the agent's       *)
(* variables are steps here.                                               *)
(***************************************************************************)
EXTENDS Naturals, Sequences, FiniteSets

CONSTANTS
  Procs,       \* those who start ota-agent: mqtt-agent, dashboard, shell
  Requests,    \* requestIds of MQTT commands
  VersionOf,   \* the version of the package of each command
  MaxAttempts, \* maxAttempts of completeStartupRecovery
  EarlyUpdates,\* may an update start between the writes of S99, or outrun the scripts up to it?
  TornEnv,     \* may a power loss destroy the environment?
  MaxRuns,     \* bound: commands started
  MaxFaults    \* bound: power losses, kills, failed writes

Commands == Requests \cup {"pull-latest", "apply"}
Slot     == {"A", "B"}

ASSUME VersionAssumption == VersionOf \in [Commands -> Nat \ {0}]
\* What ota-agent saves of its own accord instead of a requestId is none.
ASSUME RequestsAssumption == Requests \cap {"none", "pull-latest", "apply", "factory"} = {}
ASSUME BoundsAssumption  == {MaxAttempts, MaxRuns, MaxFaults} \subseteq Nat /\ {TornEnv, EarlyUpdates} \subseteq BOOLEAN

VARIABLES
  slot, trial, credit, faults,  \* ABUpdate: active_slot, ota_pending, failover_done=0
  stored,     \* is active_slot set in the environment?
  lastGood,   \* last_good_slot
  env,        \* ota_request_id, ota_version, ota_target_slot, ota_phase
  file,       \* state.json in each root, as the running system sees it
  disk,       \* ... and as a power loss would leave it
  image,      \* the command whose package each root holds, its version, its health
  named,      \* does the kernel command line name the root in a form ota-agent knows?
  stage, running, step,
  arg,        \* the slot board-upgrade-commit read before ota_pending
  rec,        \* the ota-agent of init: its state, its next write, its retries
  proc,       \* the ota-agent of each caller
  rebootReq,
  runs,       \* history: commands started
  fresh,      \* history: no command has started in this boot
  lastRun,    \* history: the request saved last
  forgot,     \* history: it was saved while a trial was open or a reboot due, or a
              \* power loss or a switch of the bootloader has taken it away since
  recFailed,  \* history: what recovery has reported as failed, a request and its slot,
              \* since the last slot was put on trial
  committed   \* history: what has been committed, likewise

abVars    == <<slot, trial, credit, faults>>
bootVars  == <<stage, running, step, arg, rebootReq>>
stateVars == <<env, file, disk>>
history   == <<runs, fresh, lastRun, forgot, recFailed, committed>>
vars == <<abVars, stored, lastGood, stateVars, image, named, bootVars, rec, proc, history>>

AB == INSTANCE ABUpdate

-----------------------------------------------------------------------------
(* The saved state *)

Phases  == {"none", "received", "downloading", "verifying", "upgrading", "committed", "failed"}
Records == [request : Commands \cup {"none"}, version : Nat,
            target : Slot \cup {"none"}, phase : Phases]
Empty   == [request |-> "none", version |-> 0, target |-> "none", phase |-> "none"]

Absent    == [kind |-> "absent", st |-> Empty]
Corrupt   == [kind |-> "corrupt", st |-> Empty]
Saved(st) == [kind |-> "ok", st |-> st]

\* otaStateLoadFromEnvironment: an empty variable is an absent one.
EnvComplete == /\ env.request # "none" /\ env.version # 0
               /\ env.target # "none"  /\ env.phase # "none"

\* loadStateForApply; a file that does not parse is an error, not an absent one.
LoadFails == file[running].kind = "corrupt"
Loaded    == CASE file[running].kind = "ok" -> file[running].st
               [] file[running].kind = "absent" /\ EnvComplete -> env
               [] OTHER -> Empty

\* otaStateSave: a new file takes the place of the old one (it is not synced to disk).
SaveFile(st) == file' = [file EXCEPT ![running] = Saved(st)] /\ UNCHANGED disk

\* Faulty variant: ota_request_id is not saved.
SaveOrderNoId == <<"version", "version", "target", "phase">>

\* otaStateSaveToEnvironment, one fw_setenv after the other. ota_result, ota_detail and
\* ota_auto_reboot, which decide nothing, are left out.
SaveOrder == <<"request", "version", "target", "phase">>

SaveVariable(st, k) == env' = [env EXCEPT ![SaveOrder[k]] = st[SaveOrder[k]]]

IsPending(st) == st.phase = "upgrading"      \* "installing" is never written
IsFinal(st)   == st.phase \in {"committed", "failed"}

-----------------------------------------------------------------------------
(* The pipelines *)

Idle == [pc |-> "idle", cmd |-> "apply", st |-> Empty, step |-> 1]

\* Faulty variant: the children of a killed ota-agent do not hold the lock.
LockNotInherited == \A q \in Procs : proc[q].pc \in {"idle", "checked", "orphan"}

\* The lock is taken after the checks and inherited by every child.
LockFree == \A q \in Procs : proc[q].pc \in {"idle", "checked"}

\* The processes that hold the lock and have an ota-agent still.
Active(p) == proc[p].pc \notin {"idle", "checked", "orphan"}

Set(p, r) == proc' = [proc EXCEPT ![p] = r]

\* Save a phase, then go on from there.
Saving(p, st) == Set(p, [proc[p] EXCEPT !.pc = "savefile", !.st = st, !.step = 1])
ToPhase(p, ph) == Saving(p, [proc[p].st EXCEPT !.phase = ph])

\* The pipeline stops with an error: reported, but the phase it had saved stays saved.
Fail(p) == Set(p, Idle)

Started(p) == /\ stage \in {"rc", "commit", "rollback", "up"}
              /\ proc[p].pc = "idle" /\ runs < MaxRuns
              /\ runs' = runs + 1 /\ fresh' = FALSE

\* executeMqttCommandJson up to the lock: a repeated requestId or a version that is not
\* above the running one is refused, as is everything while the state does not load.
MqttCommand(p) ==
  /\ Started(p)
  /\ \E r \in Requests :
       /\ ~LoadFails /\ Loaded.request # r
       /\ VersionOf[r] > image[running].version
       /\ Set(p, [Idle EXCEPT !.pc = "checked", !.cmd = r,
                              !.st = [Empty EXCEPT !.request = r, !.version = VersionOf[r]]])
  /\ UNCHANGED <<abVars, stored, lastGood, stateVars, image, named, bootVars, rec,
                 lastRun, forgot, recFailed, committed>>

\* ... from the lock on. The lock is not waited for.
MqttLock(p) ==
  /\ proc[p].pc = "checked"
  /\ IF LockFree THEN ToPhase(p, "received") ELSE Fail(p)
  /\ UNCHANGED <<abVars, stored, lastGood, stateVars, image, named, bootVars, rec, history>>

\* otaAgentRunPullLatest and otaAgentRunApply: the lock first, then the state, of which
\* --apply keeps everything and --pull-latest all but the requestId.
LocalCommand(p) ==
  /\ Started(p)
  /\ LockFree /\ ~LoadFails
  /\ \/ Set(p, [Idle EXCEPT !.pc = "guard", !.cmd = "apply", !.st = Loaded])
     \/ Set(p, [Idle EXCEPT !.pc = "guard", !.cmd = "pull-latest",
                            !.st = [Loaded EXCEPT !.request = "pull-latest"]])
  /\ UNCHANGED <<abVars, stored, lastGood, stateVars, image, named, bootVars, rec,
                 lastRun, forgot, recFailed, committed>>

\* A command that is given anew is judged anew.
Without(set, c) == {x \in set : x[1] # c}

\* savePhase writes the file ...
SavePhaseFile(p) ==
  LET st == proc[p].st IN
  /\ proc[p].pc = "savefile"
  /\ SaveFile(st)
  /\ Set(p, [proc[p] EXCEPT !.pc = "saveenv"])
  /\ lastRun' = st.request
  /\ forgot' = (trial \/ running # slot)
  /\ recFailed' = Without(recFailed, proc[p].cmd) /\ committed' = Without(committed, proc[p].cmd)
  /\ UNCHANGED <<abVars, stored, lastGood, env, image, named, bootVars, rec, runs, fresh>>

\* Where a pipeline goes on once a phase is saved.
AfterPhase(ph) == CASE ph = "received" -> "guard" [] ph = "downloading" -> "download"
                    [] ph = "verifying" -> "verify" [] OTHER -> "run"

\* ... then the environment.
SavePhaseEnv(p) ==
  LET k == proc[p].step IN
  /\ proc[p].pc = "saveenv"
  /\ SaveVariable(proc[p].st, k)
  /\ Set(p, IF k < Len(SaveOrder) THEN [proc[p] EXCEPT !.step = k + 1]
            ELSE [proc[p] EXCEPT !.pc = AfterPhase(proc[p].st.phase)])
  /\ UNCHANGED <<abVars, stored, lastGood, file, disk, image, named, bootVars, rec, history>>

\* otaCheckUpgradeAllowed, otaPrepareTargetSlot
Guard(p) ==
  /\ proc[p].pc = "guard"
  /\ EarlyUpdates \/ stage \notin {"commit", "rollback"}
  /\ IF trial \/ ~stored THEN Fail(p)
     ELSE Saving(p, [proc[p].st EXCEPT !.target = AB!Flip(slot), !.phase = "downloading"])
  /\ UNCHANGED <<abVars, stored, lastGood, stateVars, image, named, bootVars, rec, history>>

\* otaDownloadPackage, then otaVerifySha256 unless it is a pull.
Download(p) ==
  /\ proc[p].pc = "download"
  /\ \/ Fail(p)
     \/ ToPhase(p, IF proc[p].cmd = "pull-latest" THEN "upgrading" ELSE "verifying")
  /\ UNCHANGED <<abVars, stored, lastGood, stateVars, image, named, bootVars, rec, history>>

Verify(p) ==
  /\ proc[p].pc = "verify"
  /\ Fail(p) \/ ToPhase(p, "upgrading")
  /\ UNCHANGED <<abVars, stored, lastGood, stateVars, image, named, bootVars, rec, history>>

\* otaRunUpgrade checks again and starts ota-apply. autoReboot is not looked at.
\* ota-apply refuses, for its part, a root that is not the active slot.
RunUpgrade(p) ==
  /\ proc[p].pc = "run"
  /\ IF trial \/ running # slot THEN Fail(p) ELSE Set(p, [proc[p] EXCEPT !.pc = "flash"])
  /\ UNCHANGED <<abVars, stored, lastGood, stateVars, image, named, bootVars, rec, history>>

\* swupdate writes the other root: its files are gone whether it succeeds or not.
Flash(p) ==
  LET t == AB!Flip(slot) IN
  /\ proc[p].pc = "flash"
  /\ \E h \in BOOLEAN :
       image' = [image EXCEPT ![t] = [by |-> proc[p].cmd, version |-> VersionOf[proc[p].cmd],
                                      healthy |-> h]]
  /\ file' = [file EXCEPT ![t] = Absent]
  /\ disk' = [disk EXCEPT ![t] = Absent]
  /\ Fail(p) \/ Set(p, [proc[p] EXCEPT !.pc = "switch"])
  /\ UNCHANGED <<abVars, stored, lastGood, env, named, bootVars, rec, history>>

\* ota-apply activates the slot and asks for a reboot; the command ends as completed.
Switch(p) ==
  /\ proc[p].pc = "switch"
  /\ EarlyUpdates \/ stage = "up"
  /\ AB!Install
  /\ rebootReq' = TRUE
  /\ Fail(p)
  /\ recFailed' = {}
  /\ UNCHANGED <<stored, lastGood, stateVars, image, named, stage, running, step, arg, rec,
                 runs, fresh, lastRun, forgot, committed>>

-----------------------------------------------------------------------------
(* Recovery: ota-agent without arguments, run by the init script of mqtt-agent *)

RecIdle == [pc |-> "idle", st |-> Empty, step |-> 1, attempt |-> 0]

RecGoes(r) == rec' = r

\* Faulty variant: retries are not counted.
RetryForever == RecGoes([rec EXCEPT !.pc = "try"])

\* Faulty variant: one retry too many.
RetryOnceMore == RecGoes(IF rec.attempt <= MaxAttempts
                         THEN [rec EXCEPT !.pc = "try", !.attempt = @ + 1] ELSE RecIdle)

\* completeStartupRecovery
Retry == RecGoes(IF rec.attempt < MaxAttempts
                 THEN [rec EXCEPT !.pc = "try", !.attempt = @ + 1] ELSE RecIdle)

\* Faulty variant: a trial that is not committed yet is taken for a failure.
WaitsForCommitNever(st) == FALSE

\* The new slot runs, and whether it will be committed is not known yet. (It is EAGAIN
\* for a committed slot too: that upgrade_available is back to 0 never happens.)
WaitsForCommit(st) == running = st.target /\ slot = st.target

\* clearStalePendingFromEnvironment
Stale == file[running].kind = "ok" /\ IsPending(file[running].st) /\ EnvComplete /\ IsFinal(env)

\* recoverPendingAtStartup, up to its report.
RecoverTry ==
  /\ rec.pc = "try"
  /\ CASE LoadFails -> Retry /\ UNCHANGED <<file, disk>>
       [] Stale -> SaveFile(env) /\ RecGoes(RecIdle)
       [] ~LoadFails /\ ~Stale /\ (~IsPending(Loaded) \/ (Loaded.target \in Slot /\ ~named)) ->
            RecGoes(RecIdle) /\ UNCHANGED <<file, disk>>
       [] OTHER ->
            /\ IF Loaded.target \notin Slot \/ ~stored \/ lastGood = "none" \/ WaitsForCommit(Loaded)
               THEN Retry
               ELSE RecGoes([rec EXCEPT !.pc = "report", !.st = [Loaded EXCEPT !.phase = "failed"]])
            /\ UNCHANGED <<file, disk>>
  /\ UNCHANGED <<abVars, stored, lastGood, env, image, named, bootVars, proc, history>>

\* otaReportFailureState: with the stub of ota-agent, a line on the console.
RecoverReport ==
  /\ rec.pc = "report"
  /\ recFailed' = recFailed \cup {<<rec.st.request, rec.st.target>>}
  /\ RecGoes([rec EXCEPT !.pc = "savefile"])
  /\ UNCHANGED <<abVars, stored, lastGood, stateVars, image, named, bootVars, proc,
                 runs, fresh, lastRun, forgot, committed>>

RecoverSaveFile ==
  /\ rec.pc = "savefile"
  /\ SaveFile(rec.st)
  /\ RecGoes([rec EXCEPT !.pc = "saveenv", !.step = 1])
  /\ UNCHANGED <<abVars, stored, lastGood, env, image, named, bootVars, proc, history>>

RecoverSaveEnv ==
  /\ rec.pc = "saveenv"
  /\ SaveVariable(rec.st, rec.step)
  /\ RecGoes(IF rec.step < Len(SaveOrder) THEN [rec EXCEPT !.step = @ + 1] ELSE RecIdle)
  /\ UNCHANGED <<abVars, stored, lastGood, file, disk, image, named, bootVars, proc, history>>

-----------------------------------------------------------------------------
(* The boot *)

Enter(st) == stage' = st /\ step' = 1

Boot ==
  /\ stage = "boot"
  /\ running' = slot /\ arg' = slot
  /\ Enter("S20")
  /\ RecGoes([RecIdle EXCEPT !.pc = "try"])
  /\ fresh' = TRUE
  /\ UNCHANGED <<abVars, stored, lastGood, stateVars, image, named, rebootReq, proc,
                 runs, lastRun, forgot, recFailed, committed>>

\* The slot does not come up, and the bootloader switches (altbootcmd).
Failover ==
  /\ stage = "boot"
  /\ AB!Failover
  /\ stored' = TRUE /\ forgot' = TRUE
  /\ UNCHANGED <<lastGood, stateVars, image, named, bootVars, rec, proc,
                 runs, fresh, lastRun, recFailed, committed>>

\* The script goes on when recovery has ended.
RecoveryEnded ==
  /\ stage = "S20" /\ rec.pc = "idle"
  /\ Enter("rc")
  /\ UNCHANGED <<abVars, stored, lastGood, stateVars, image, named, running, arg, rebootReq,
                 rec, proc, history>>

\* board-upgrade-commit at S99: no trial, or a trial that passes the health check or not.
CommitStart ==
  /\ stage = "rc"
  /\ arg' = slot
  /\ Enter(IF ~trial THEN "up" ELSE IF image[running].healthy THEN "commit" ELSE "rollback")
  /\ UNCHANGED <<abVars, stored, lastGood, stateVars, image, named, running, rebootReq,
                 rec, proc, history>>

\* Faulty variant: the commit does not write ota_phase.
CommitSlotNoPhase ==
  /\ stage = "commit" /\ AB!Commit /\ lastGood' = arg
  /\ committed' = committed \cup {<<image[arg].by, arg>>} /\ Enter("up")
  /\ UNCHANGED <<stored, env, file, disk, image, named, running, arg, rebootReq, rec, proc,
                 runs, fresh, lastRun, forgot, recFailed>>

\* commitSlot: ota_pending and failover_done; last_good_slot and ota_target_slot; ota_phase.
CommitSlot ==
  /\ stage = "commit"
  /\ CASE step = 1 -> AB!Commit /\ UNCHANGED <<lastGood, env, committed>>
       [] step = 2 -> /\ lastGood' = arg /\ env' = [env EXCEPT !.target = arg]
                      /\ UNCHANGED <<abVars, committed>>
       [] step = 3 -> /\ env' = [env EXCEPT !.phase = "committed"]
                      /\ committed' = committed \cup {<<image[arg].by, arg>>}
                      /\ UNCHANGED <<abVars, lastGood>>
  /\ IF step < 3 THEN stage' = stage /\ step' = step + 1 ELSE Enter("up")
  /\ UNCHANGED <<stored, file, disk, image, named, running, arg, rebootReq, rec, proc,
                 runs, fresh, lastRun, forgot, recFailed>>

\* rollbackFailedSlot: active_slot, ota_pending and failover_done; ota_phase; reboot.
RollbackFailedSlot ==
  /\ stage = "rollback"
  /\ IF step = 1 THEN AB!Revert /\ step' = 2 /\ UNCHANGED <<env, stage, rebootReq>>
     ELSE /\ env' = [env EXCEPT !.phase = "failed"]
          /\ rebootReq' = TRUE /\ Enter("up") /\ UNCHANGED abVars
  /\ UNCHANGED <<stored, lastGood, file, disk, image, named, running, arg, rec, proc, history>>

\* ota-apply, started by hand or by the web page, fills in an empty active_slot.
FillActiveSlot ==
  /\ stage = "up" /\ ~stored
  /\ stored' = TRUE
  /\ UNCHANGED <<abVars, lastGood, stateVars, image, named, bootVars, rec, proc, history>>

\* The file system writes the file back.
Sync ==
  /\ stage \notin {"boot", "S20"} /\ disk # file
  /\ disk' = file
  /\ UNCHANGED <<abVars, stored, lastGood, env, file, image, named, bootVars, rec, proc, history>>

\* Somebody types reboot when no command runs (else it is a fault: PowerLoss).
RequestReboot ==
  /\ stage = "up" /\ ~rebootReq /\ LockFree
  /\ rebootReq' = TRUE
  /\ UNCHANGED <<abVars, stored, lastGood, stateVars, image, named, stage, running, step, arg,
                 rec, proc, history>>

Down ==
  /\ Enter("boot")
  /\ running' = "none" /\ arg' = "none" /\ rebootReq' = FALSE
  /\ rec' = RecIdle /\ proc' = [p \in Procs |-> Idle]

Reboot ==
  /\ rebootReq
  /\ Down
  /\ disk' = file
  /\ UNCHANGED <<abVars, stored, lastGood, env, file, image, named, history>>

-----------------------------------------------------------------------------
(* Faults *)

Fault == faults < MaxFaults

\* Without fsync a power loss may bring the old file back; a file that did not exist
\* before may also be left empty.
AfterPowerLoss ==
  {file, disk} \cup
    {[file EXCEPT ![s] = Corrupt] : s \in {r \in Slot : disk[r].kind = "absent" /\ file[r] # disk[r]}}

\* What is not finished of a switch, a rollback or a commit when the power fails. The
\* files differ from the disk only in the running root.
CutSlots   == IF (\E p \in Procs : proc[p].pc = "switch") \/ (stage = "rollback" /\ step = 1)
              THEN Slot ELSE {slot}
CutCredits == IF (stage = "commit" \/ stage = "rollback") /\ step = 2 THEN BOOLEAN ELSE {credit}

PowerLoss ==
  /\ Fault /\ AB!Cut
  /\ slot' \in CutSlots /\ credit' \in CutCredits
  /\ Down
  /\ file' \in AfterPowerLoss /\ disk' = file'
  /\ forgot' = (forgot \/ file' # file)
  /\ UNCHANGED <<stored, lastGood, env, image, named, runs, fresh, lastRun, recFailed, committed>>

\* The environment is being stored when the power fails.
PowerLossTornEnv ==
  /\ TornEnv /\ Fault
  /\ \/ stage \in {"commit", "rollback"}
     \/ \E p \in Procs : proc[p].pc \in {"saveenv", "switch"}
     \/ rec.pc = "saveenv"
  /\ AB!Lost
  /\ Down
  /\ stored' = FALSE /\ lastGood' = "none" /\ env' = Empty
  /\ forgot' = TRUE
  /\ UNCHANGED <<file, disk, image, named, runs, fresh, lastRun, recFailed, committed>>

OneFault == Fault /\ faults' = faults + 1 /\ UNCHANGED <<slot, trial, credit>>

\* ota-agent is killed. Its child (curl, sha256sum) goes on and keeps the lock; ota-apply
\* goes on to the end of its own.
AgentDies(p) ==
  /\ Active(p) /\ proc[p].pc \notin {"flash", "switch"}
  /\ OneFault
  /\ Set(p, IF proc[p].pc \in {"download", "verify"} THEN [Idle EXCEPT !.pc = "orphan"] ELSE Idle)
  /\ UNCHANGED <<stored, lastGood, stateVars, image, named, bootVars, rec, history>>

OrphanEnds(p) ==
  /\ proc[p].pc = "orphan"
  /\ Set(p, Idle)
  /\ UNCHANGED <<abVars, stored, lastGood, stateVars, image, named, bootVars, rec, history>>

\* A write of the state fails: the pipeline stops, recovery tries again.
SaveFails ==
  /\ OneFault
  /\ \/ \E p \in Procs : proc[p].pc \in {"savefile", "saveenv"} /\ Fail(p) /\ UNCHANGED rec
     \/ /\ rec.pc \in {"savefile", "saveenv"} \/ (rec.pc = "try" /\ Stale)
        /\ Retry /\ UNCHANGED proc
  /\ UNCHANGED <<stored, lastGood, stateVars, image, named, bootVars, history>>

\* timeout 35 ends recovery: the retries alone may take that long.
RecoveryTimeout ==
  /\ rec.pc # "idle"
  /\ IF rec.attempt = MaxAttempts THEN UNCHANGED abVars ELSE OneFault
  /\ RecGoes(RecIdle)
  /\ UNCHANGED <<stored, lastGood, stateVars, image, named, bootVars, proc, history>>

-----------------------------------------------------------------------------
Init ==
  /\ AB!ABInit
  /\ stored \in BOOLEAN /\ named \in BOOLEAN
  /\ lastGood \in IF stored THEN {"none", "A"} ELSE {"none"}
  /\ env = Empty
  /\ file = [s \in Slot |-> Absent] /\ disk = file
  /\ image = [s \in Slot |-> [by |-> "factory", version |-> 0, healthy |-> TRUE]]
  /\ stage = "boot" /\ step = 1 /\ running = "none" /\ arg = "none" /\ rebootReq = FALSE
  /\ rec = RecIdle /\ proc = [p \in Procs |-> Idle]
  /\ runs = 0 /\ fresh = TRUE /\ lastRun = "none" /\ forgot = FALSE
  /\ recFailed = {} /\ committed = {}

Pipeline(p) ==
  \/ MqttLock(p) \/ SavePhaseFile(p) \/ SavePhaseEnv(p) \/ Guard(p) \/ Download(p)
  \/ Verify(p) \/ RunUpgrade(p) \/ Flash(p) \/ Switch(p) \/ OrphanEnds(p)

Recovery == RecoverTry \/ RecoverReport \/ RecoverSaveFile \/ RecoverSaveEnv

BootStep == Boot \/ RecoveryEnded \/ CommitStart \/ CommitSlot \/ RollbackFailedSlot \/ Reboot

Faults == PowerLoss \/ PowerLossTornEnv \/ SaveFails \/ RecoveryTimeout \/ \E p \in Procs : AgentDies(p)

Next ==
  \/ \E p \in Procs : MqttCommand(p) \/ LocalCommand(p) \/ Pipeline(p)
  \/ Recovery \/ BootStep \/ RequestReboot \/ Failover \/ FillActiveSlot \/ Sync
  \/ Faults

Spec == Init /\ [][Next]_vars

\* Code that runs goes on; a reboot that was asked for comes.
FairSpec == Spec /\ WF_vars(Recovery) /\ WF_vars(BootStep) /\ \A p \in Procs : WF_vars(Pipeline(p))

-----------------------------------------------------------------------------
(* Properties *)

\* The type invariant.
FileType == [kind : {"absent", "corrupt", "ok"}, st : Records]
TypeOK ==
  /\ slot \in Slot /\ {trial, credit, stored, named, rebootReq, fresh, forgot} \subseteq BOOLEAN
  /\ lastGood \in Slot \cup {"none"}
  /\ env \in Records
  /\ file \in [Slot -> FileType] /\ disk \in [Slot -> FileType]
  /\ image \in [Slot -> [by : Commands \cup {"factory"}, version : Nat, healthy : BOOLEAN]]
  /\ stage \in {"boot", "S20", "rc", "commit", "rollback", "up"} /\ step \in 1 .. 3
  /\ {running, arg} \subseteq Slot \cup {"none"}
  /\ rec \in [pc : {"idle", "try", "report", "savefile", "saveenv"}, st : Records,
             step : 1 .. 4, attempt : 0 .. MaxAttempts]
  /\ proc \in [Procs -> [pc : {"idle", "checked", "guard", "savefile", "saveenv", "download",
                               "verify", "run", "flash", "switch", "orphan"},
                         cmd : Commands, st : Records, step : 1 .. 4]]
  /\ lastRun \in Commands \cup {"none"}
  /\ recFailed \cup committed \subseteq (Commands \cup {"none", "factory"}) \X Slot

\* At most one pipeline works on the download file and the other slot, the children a
\* killed ota-agent has left behind included (otaStateAcquireLock and the descriptor they
\* inherit).
OnePipeline ==
  \A p, q \in Procs : {proc[p].pc, proc[q].pc} \cap {"idle", "checked"} = {} => p = q

\* What the duplicate check will read names the request that was saved last, in the slot
\* it was saved from and in the one it installed, and after every reboot, commit,
\* rollback and failed write: a command that is delivered again is refused.
RemembersLastRequest ==
  running \in Slot /\ lastRun \in Requests /\ ~forgot
    => LoadFails \/ Loaded.request = lastRun

\* A request that recovery has reported as failed during a trial is not committed by the
\* same trial: recovery, which runs before board-upgrade-commit at each of its boots, does
\* not judge a trial that is still open, also when a boot of it was cut short.
CommitsNothingReportedFailed == 
  stage = "commit" /\ image[arg].by \in Requests => <<image[arg].by, arg>> \notin recFailed

\* Where recovery can tell (the root is named, a commit has been made once), and with no
\* fault and no switch of the bootloader since, a boot leaves no upgrade pending: not the
\* one it tried, nor one that a reboot has interrupted.
SettledAfterBoot ==
  stage = "up" /\ fresh /\ named /\ lastGood # "none" /\ faults = 0 /\ ~forgot
    => ~IsPending(Loaded)

\* Recovery never keeps the boot from going on, whatever it finds.
BootNotBlocked == stage = "S20" ~> stage # "S20"

\* What clearStalePendingFromEnvironment is for: the state an older upgrade has left in
\* the file of a slot does not override the outcome of that upgrade.
CommittedNotReportedFailed == recFailed \cap committed = {}
=============================================================================
