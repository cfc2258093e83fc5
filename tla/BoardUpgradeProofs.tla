------------------------- MODULE BoardUpgradeProofs -------------------------
(***************************************************************************)
(* Proofs, for every set of callers, every package and every bound, of the *)
(* type invariant and the safety invariants of BoardUpgrade.               *)
(***************************************************************************)
EXTENDS BoardUpgrade, TLAPS

-----------------------------------------------------------------------------
(* The inductive invariant, by parts *)

\* ota-apply and a pending reboot exist in userland only: a reset ends both.
UserlandOnly ==
  stage \notin UserStages => ~rebootReq /\ apply = [p \in Appliers |-> Idle]

\* A root without a working board-boot-confirm (only ota-failover-test makes one) is one
\* that was confirmed before; a torn environment would undo that.
Confirmed ==
  \/ \A s \in Slot : image[s].confirm
  \/ ~TornEnv /\ env.upgrade_available = 1

\* In userland the boot has been confirmed, so U-Boot counts the next one: this is why
\* ota-apply may set ota_pending before it sets upgrade_available.
CountingOn ==
  /\ Confirmed
  /\ stage \in UserStages => env.upgrade_available = 1

\* A switch of the bootloader leaves failover_done set until it is re-armed.
SwitchSpent == autoSwitches = 1 => env.failover_done = 1

\* The position in each script's writes, and the slot the script works on.
StepInRange ==
  /\ stage = "confirm" => step \in 1 .. 2
  /\ stage = "rollback" => step \in 1 .. 6
  /\ stage \in {"S99", "commit", "rollback"} => arg \in Slot

\* The slots ota-apply has chosen so far.
SlotsChosen ==
  \A p \in Appliers :
    /\ apply[p].pc \in {"mode", "swupdate", "rootfs", "bootopen", "boot", "fw"}
         => apply[p].target \in Slot
    /\ apply[p].pc \in {"swupdate", "rootfs", "bootopen", "boot"} => apply[p].mode \in Slot

IInv ==
  /\ TypeOK /\ StepInRange /\ SlotsChosen /\ UserlandOnly /\ CountingOn /\ TrialIsCounted
  /\ SwitchesAtMostOnce /\ SwitchSpent /\ BootcountBounded

-----------------------------------------------------------------------------
(* The writes of the scripts *)

\* What every fw_setenv of the scripts and of ota-apply has in common: it keeps the
\* environment well typed, never turns the boot counter off and never raises it.
SafeWrite(w) ==
  \/ w.var = "active_slot" /\ w.val \in Slot
  \/ w.var = "ota_pending" /\ w.val \in {0, 1}
  \/ w.var = "upgrade_available" /\ w.val = 1
  \/ w.var = "bootcount" /\ w.val = 0
  \/ w.var = "failover_done" /\ w.val \in {0, 1}
  \/ w.var = "last_good_slot" /\ w.val \in Slot
  \/ w.var = "ota_target_slot" /\ w.val \in Slot
  \/ w.var = "ota_phase" /\ w.val \in {"committed", "failed"}

\* board-boot-confirm makes safe writes, and the second turns the counter on.
LEMMA ConfirmWritesSafe ==
  /\ Len(ConfirmWrites) = 2
  /\ \A k \in 1 .. 2 : SafeWrite(ConfirmWrites[k]) /\ ConfirmWrites[k].var # "ota_pending"
  /\ ConfirmWrites[2] = Write("upgrade_available", 1)
BY DEF ConfirmWrites, SafeWrite, Write

\* The commit makes safe writes, and ends a trial if it touches it.
LEMMA CommitWritesSafe ==
  ASSUME NEW s \in Slot
  PROVE  /\ Len(CommitWrites(s)) = 7
         /\ \A k \in 1 .. 7 : /\ SafeWrite(CommitWrites(s)[k])
                              /\ CommitWrites(s)[k].var = "ota_pending" => CommitWrites(s)[k].val = 0
BY DEF CommitWrites, SafeWrite, Write

\* The rollback makes safe writes, and ends a trial if it touches it.
LEMMA RollbackWritesSafe ==
  ASSUME NEW s \in Slot
  PROVE  /\ Len(RollbackWrites(s)) = 6
         /\ \A k \in 1 .. 6 : /\ SafeWrite(RollbackWrites(s)[k])
                              /\ RollbackWrites(s)[k].var = "ota_pending" => RollbackWrites(s)[k].val = 0
BY DEF RollbackWrites, SafeWrite, Write

\* ota-apply makes safe writes.
LEMMA ApplyWritesSafe ==
  ASSUME NEW s \in Slot
  PROVE  Len(ApplyWrites(s)) = 4 /\ \A k \in 1 .. 4 : SafeWrite(ApplyWrites(s)[k])
BY DEF ApplyWrites, SafeWrite, Write

\* The parts of the invariant that speak of the environment alone.
EnvInv ==
  /\ env \in EnvType /\ autoSwitches \in Nat
  /\ TrialIsCounted /\ SwitchesAtMostOnce /\ SwitchSpent

\* A safe write keeps them, provided that a trial starts only while boots are counted.
LEMMA FwSetenvKeeps ==
  ASSUME NEW w, SafeWrite(w), FwSetenv(w), EnvInv,
         env.upgrade_available = 1 \/ w.var # "ota_pending" \/ w.val = 0
  PROVE  /\ EnvInv'
         /\ env'.bootcount <= env.bootcount
         /\ env.upgrade_available = 1 => env'.upgrade_available = 1
         /\ w.var = "upgrade_available" => env'.upgrade_available = 1
<1>1. env' = [env EXCEPT ![w.var] = w.val]
  BY DEF FwSetenv
<1>2. w.var = "failover_done" /\ w.val = 0 => autoSwitches' = 0
  BY DEF FwSetenv
<1>3. w.var # "failover_done" \/ w.val # 0 => autoSwitches' = autoSwitches
  BY DEF FwSetenv
<1> USE DEF EnvInv, EnvType, TrialIsCounted, SwitchesAtMostOnce, SwitchSpent
<1>4. CASE w.var = "active_slot" /\ w.val \in Slot
  <2>1. env' = [env EXCEPT !.active_slot = w.val]
    BY <1>1, <1>4
  <2>2. QED
    BY <1>2, <1>3, <1>4, <2>1
<1>5. CASE w.var = "ota_pending" /\ w.val \in {0, 1}
  <2>1. env' = [env EXCEPT !.ota_pending = w.val]
    BY <1>1, <1>5
  <2>2. QED
    BY <1>2, <1>3, <1>5, <2>1
<1>6. CASE w.var = "upgrade_available" /\ w.val = 1
  <2>1. env' = [env EXCEPT !.upgrade_available = w.val]
    BY <1>1, <1>6
  <2>2. QED
    BY <1>2, <1>3, <1>6, <2>1
<1>7. CASE w.var = "bootcount" /\ w.val = 0
  <2>1. env' = [env EXCEPT !.bootcount = w.val]
    BY <1>1, <1>7
  <2>2. QED
    BY <1>2, <1>3, <1>7, <2>1
<1>8. CASE w.var = "failover_done" /\ w.val \in {0, 1}
  <2>1. env' = [env EXCEPT !.failover_done = w.val]
    BY <1>1, <1>8
  <2>2. QED
    BY <1>2, <1>3, <1>8, <2>1
<1>9. CASE w.var = "last_good_slot" /\ w.val \in Slot
  <2>1. env' = [env EXCEPT !.last_good_slot = w.val]
    BY <1>1, <1>9
  <2>2. QED
    BY <1>2, <1>3, <1>9, <2>1
<1>10. CASE w.var = "ota_target_slot" /\ w.val \in Slot
  <2>1. env' = [env EXCEPT !.ota_target_slot = w.val]
    BY <1>1, <1>10
  <2>2. QED
    BY <1>2, <1>3, <1>10, <2>1
<1>11. CASE w.var = "ota_phase" /\ w.val \in {"committed", "failed"}
  <2>1. env' = [env EXCEPT !.ota_phase = w.val]
    BY <1>1, <1>11
  <2>2. QED
    BY <1>2, <1>3, <1>11, <2>1
<1>12. QED
  BY <1>4, <1>5, <1>6, <1>7, <1>8, <1>9, <1>10, <1>11 DEF SafeWrite

-----------------------------------------------------------------------------
(* The invariant holds initially and every step keeps it *)

LEMMA InitIInv == Init => IInv
<1> SUFFICES ASSUME Init PROVE IInv
  OBVIOUS
<1> USE DEF Init, Slot, Os
<1>1. TypeOK
  <2>1. env \in EnvType
    BY DEF DefaultEnv, EnvType
  <2>2. image \in [Slot -> [os : Os, stub : BOOLEAN, confirm : BOOLEAN]]
    BY DEF Fresh
  <2>3. apply \in [Appliers -> ApplyType]
    BY DEF Idle, ApplyType, ApplyPcs
  <2>4. bootfs \in {"good", "dead", "brick"} /\ stage \in Stages
    BY DEF Stages
  <2>5. running \in Slot \cup {"NFS", "none"} /\ arg \in Slot \cup {"none"}
    OBVIOUS
  <2>6. rebootReq \in BOOLEAN /\ tried \subseteq Slot
    OBVIOUS
  <2>7. step \in 1 .. 7 /\ faults \in Nat /\ updates \in Nat /\ autoSwitches \in Nat
    OBVIOUS
  <2>8. QED
    BY <2>1, <2>2, <2>3, <2>4, <2>5, <2>6, <2>7 DEF TypeOK
<1>2. StepInRange /\ SlotsChosen /\ UserlandOnly
  BY DEF StepInRange, SlotsChosen, UserlandOnly, Idle
<1>3. CountingOn /\ TrialIsCounted /\ SwitchesAtMostOnce /\ SwitchSpent
  BY DEF CountingOn, Confirmed, TrialIsCounted, SwitchesAtMostOnce, SwitchSpent, UserStages, Fresh, DefaultEnv
<1>4. BootcountBounded
  BY BoundsAssumption DEF BootcountBounded, DefaultEnv
<1>5. QED
  BY <1>1, <1>2, <1>3, <1>4 DEF IInv

\* A busy ota-apply means that the board is in userland.
LEMMA BusyInUserland ==
  ASSUME UserlandOnly, NEW p \in Appliers, apply[p].pc # "idle"
  PROVE  stage \in UserStages
BY DEF UserlandOnly, Idle

\* U-Boot's counting and its choice between bootcmd and altbootcmd.
LEMMA UBootKeeps ==
  ASSUME IInv, UBoot
  PROVE  IInv'
<1> USE BoundsAssumption DEF IInv, Enter
<1> stage \notin UserStages /\ ~rebootReq /\ apply = [p \in Appliers |-> Idle]
  BY DEF UBoot, UBootStart, AltStay, AltSwitch, BootTf, BootNfs, UserlandOnly, UserStages
<1>0. /\ EnvInv /\ faults \in Nat
      /\ UNCHANGED <<image, bootfs, arg, rebootReq, apply, faults, updates, tried>>
  BY DEF EnvInv, TypeOK, UBoot, UBootStart, AltStay, AltSwitch, BootTf, BootNfs
<1>1. /\ EnvInv' /\ BootcountBounded' /\ (env.upgrade_available = 1 => env'.upgrade_available = 1)
      /\ stage' \in Stages \ UserStages /\ step' = 1 /\ running' \in Slot \cup {"NFS", "none"}
  <2> USE <1>0 DEF EnvInv, TrialIsCounted, SwitchesAtMostOnce, SwitchSpent, BootcountBounded
  <2> env.bootcount <= BootLimit + faults + (IF stage = "alt" THEN 1 ELSE 0)
    OBVIOUS
  <2>1. CASE UBootStart
    <3>1. env' \in EnvType /\ env'.ota_pending = env.ota_pending /\ env'.failover_done = env.failover_done
          /\ env'.upgrade_available = env.upgrade_available
      BY <2>1 DEF UBootStart, Counted, EnvType
    <3>2. running' = running /\ autoSwitches' = autoSwitches
      BY <2>1 DEF UBootStart
    <3>3. env'.bootcount = IF env.upgrade_available = 1 THEN env.bootcount + 1 ELSE env.bootcount
      BY <2>1 DEF UBootStart, Counted, EnvType
    <3>4. stage = "reset" /\ stage' \in {"alt", "bootcmd"} /\ step' = 1
          /\ (stage' = "alt" <=> Counted > BootLimit)
      BY <2>1 DEF UBootStart
    <3>5. BootcountBounded'
      BY <3>3, <3>4 DEF EnvType, Counted
    <3>6. QED
      BY <3>1, <3>2, <3>4, <3>5 DEF Stages, UserStages, TypeOK
  <2>2. CASE AltStay
    <3>1. env' \in EnvType /\ env'.failover_done = env.failover_done
          /\ env'.upgrade_available = 1 /\ env'.bootcount = 0
      BY <2>2 DEF AltStay, EnvType
    <3>2. running' = running /\ autoSwitches' = autoSwitches /\ stage' = "bootcmd" /\ step' = 1
      BY <2>2 DEF AltStay
    <3>3. QED
      BY <3>1, <3>2 DEF Stages, UserStages, TypeOK
  <2>3. CASE AltSwitch
    <3>1. env' \in EnvType /\ env'.failover_done = 1 /\ env'.upgrade_available = 1 /\ env'.bootcount = 0
      BY <2>3 DEF AltSwitch, SwitchedEnv, EnvType, Slot
    <3>2. /\ running' = running /\ autoSwitches' = autoSwitches + 1 /\ env.failover_done # 1
          /\ stage' = "bootcmd" /\ step' = 1
      BY <2>3 DEF AltSwitch
    <3>3. autoSwitches' \in Nat /\ autoSwitches' <= 1
      BY <3>2
    <3>4. QED
      BY <3>1, <3>2, <3>3 DEF Stages, UserStages, TypeOK
  <2>4. CASE BootTf
    <3>1. /\ running' \in Slot /\ stage' \in {"confirm", "hung"} /\ step' = 1 /\ stage = "bootcmd"
          /\ env' = env /\ autoSwitches' = autoSwitches
      BY <2>4 DEF BootTf, EffectiveSlot, Slot
    <3>2. QED
      BY <3>1 DEF Stages, UserStages
  <2>5. CASE BootNfs
    <3>1. /\ running' = "NFS" /\ stage' = "confirm" /\ step' = 1 /\ stage = "bootcmd"
          /\ env' = env /\ autoSwitches' = autoSwitches
      BY <2>5 DEF BootNfs
    <3>2. QED
      BY <3>1 DEF Stages, UserStages
  <2>6. QED
    BY <2>1, <2>2, <2>3, <2>4, <2>5 DEF UBoot
<1>2. TypeOK'
  BY <1>0, <1>1 DEF TypeOK, EnvInv, Stages, UserStages
<1>3. StepInRange' /\ SlotsChosen' /\ UserlandOnly' /\ CountingOn'
  BY <1>0, <1>1 DEF StepInRange, SlotsChosen, UserlandOnly, CountingOn, Confirmed, Stages, UserStages, Idle
<1>4. QED
  BY <1>1, <1>2, <1>3 DEF EnvInv

\* One write of an init script keeps the invariant, wherever the script goes next.
LEMMA ScriptStepKeeps ==
  ASSUME IInv,
         NEW st \in {"confirm", "commit", "rollback"},
         NEW writes, NEW next \in {"services", "done"},
         NEW n \in 1 .. 7, Len(writes) = n, step \in 1 .. n, SafeWrite(writes[step]),
         env.upgrade_available = 1 \/ writes[step].var # "ota_pending" \/ writes[step].val = 0,
         st = "confirm" => n = 2 /\ writes[2].var = "upgrade_available",
         st = "rollback" => n = 6,
         ScriptStep(st, writes, next),
         UNCHANGED rebootReq \/ (st = "rollback" /\ rebootReq' \in BOOLEAN /\ next = "done")
  PROVE  IInv'
<1> USE DEF IInv
<1>0. EnvInv /\ FwSetenv(writes[step])
  BY DEF EnvInv, TypeOK, ScriptStep
<1>1. /\ EnvInv' /\ env'.bootcount <= env.bootcount
      /\ env.upgrade_available = 1 => env'.upgrade_available = 1
      /\ writes[step].var = "upgrade_available" => env'.upgrade_available = 1
  BY <1>0, FwSetenvKeeps
<1>2. /\ UNCHANGED <<image, bootfs, running, arg, apply, faults, updates, tried>>
      /\ stage = st
      /\ \/ step < n /\ stage' = st /\ step' = step + 1
         \/ step = n /\ stage' = next /\ step' = 1
  BY DEF ScriptStep, Enter
<1>3. step' \in 1 .. 7 /\ (step' \in 1 .. n \/ stage' = next)
  BY <1>2
<1>4. stage' \in Stages /\ rebootReq' \in BOOLEAN
  BY <1>2 DEF Stages, UserStages, TypeOK
<1>5. TypeOK'
  BY <1>1, <1>2, <1>3, <1>4 DEF TypeOK, EnvInv
<1>6. StepInRange'
  BY <1>2, <1>3 DEF StepInRange
<1>7. SlotsChosen'
  BY <1>2 DEF SlotsChosen
<1>8. UserlandOnly'
  BY <1>2 DEF UserlandOnly, UserStages
<1>9. CountingOn'
  <2>1. CASE st = "confirm"
    BY <1>1, <1>2, <2>1 DEF CountingOn, Confirmed, UserStages
  <2>2. CASE st # "confirm"
    BY <1>1, <1>2, <2>2 DEF CountingOn, Confirmed, UserStages
  <2>3. QED
    BY <2>1, <2>2
<1>10. BootcountBounded'
  <2>1. env.bootcount \in Nat /\ env'.bootcount \in Nat /\ faults \in Nat /\ stage # "alt" /\ stage' # "alt"
    BY <1>1, <1>2 DEF EnvInv, EnvType, TypeOK
  <2>2. QED
    BY <1>1, <1>2, <2>1, BoundsAssumption DEF BootcountBounded
<1>11. QED
  BY <1>1, <1>5, <1>6, <1>7, <1>8, <1>9, <1>10 DEF EnvInv

\* The init scripts keep the invariant.
LEMMA InitScriptsKeep ==
  ASSUME IInv, InitScripts
  PROVE  IInv'
<1>1. CASE ConfirmBoot
  <2>1. stage = "confirm" /\ step \in 1 .. 2 /\ ScriptStep("confirm", ConfirmWrites, "services")
        /\ UNCHANGED rebootReq
    BY <1>1 DEF ConfirmBoot, ScriptStep, IInv, StepInRange
  <2>2. /\ SafeWrite(ConfirmWrites[step]) /\ ConfirmWrites[step].var # "ota_pending"
        /\ ConfirmWrites[2].var = "upgrade_available"
    BY <2>1, ConfirmWritesSafe DEF Write
  <2>3. QED
    BY <2>1, <2>2, ConfirmWritesSafe, ScriptStepKeeps
<1>2. CASE CommitSlot
  <2>1. stage = "commit" /\ arg \in Slot /\ ScriptStep("commit", CommitWrites(arg), "done") /\ UNCHANGED rebootReq
    BY <1>2 DEF CommitSlot, ScriptStep, IInv, StepInRange
  <2>2. step \in 1 .. 7
    BY DEF IInv, TypeOK
  <2>3. /\ SafeWrite(CommitWrites(arg)[step]) /\ Len(CommitWrites(arg)) = 7
        /\ CommitWrites(arg)[step].var = "ota_pending" => CommitWrites(arg)[step].val = 0
    BY <2>1, <2>2, CommitWritesSafe
  <2>4. QED
    BY <2>1, <2>2, <2>3, ScriptStepKeeps
<1>3. CASE RollbackFailedSlot
  <2>1. /\ stage = "rollback" /\ arg \in Slot /\ step \in 1 .. 6
        /\ ScriptStep("rollback", RollbackWrites(arg), "done") /\ rebootReq' \in BOOLEAN
    BY <1>3 DEF RollbackFailedSlot, ScriptStep, IInv, StepInRange, TypeOK
  <2>2. /\ SafeWrite(RollbackWrites(arg)[step]) /\ Len(RollbackWrites(arg)) = 6
        /\ RollbackWrites(arg)[step].var = "ota_pending" => RollbackWrites(arg)[step].val = 0
    BY <2>1, RollbackWritesSafe
  <2>3. QED
    BY <2>1, <2>2, ScriptStepKeeps
<1>4. CASE CommitReadActive \/ CommitNotNeeded \/ HealthCheckPasses \/ HealthCheckFails
  <2>1. /\ UNCHANGED <<env, image, bootfs, running, rebootReq, apply, faults, updates, autoSwitches>>
        /\ stage \in UserStages /\ stage' \in UserStages /\ step' = 1
        /\ tried' \in {tried, tried \cup ({running} \cap Slot)}
        /\ arg' \in Slot
        /\ stage # "alt" /\ stage' # "alt"
    <3>1. CASE CommitReadActive
      BY <3>1 DEF CommitReadActive, Enter, UserStages, EffectiveSlot, Slot
    <3>2. CASE CommitNotNeeded
      BY <3>2 DEF CommitNotNeeded, Enter, UserStages, IInv, StepInRange
    <3>3. CASE HealthCheckPasses
      BY <3>3 DEF HealthCheckPasses, Enter, UserStages, IInv, StepInRange
    <3>4. CASE HealthCheckFails
      <4>1. env \in EnvType
        BY DEF IInv, TypeOK
      <4>2. RollbackSlot \in Slot
        BY <4>1 DEF RollbackSlot, EnvType, EffectiveSlot, Other, Slot
      <4>3. QED
        BY <3>4, <4>2 DEF HealthCheckFails, Enter, UserStages, IInv, StepInRange
    <3>5. QED
      BY <1>4, <3>1, <3>2, <3>3, <3>4
  <2> USE DEF IInv
  <2>2. TypeOK'
    BY <2>1 DEF TypeOK, Stages
  <2>3. StepInRange' /\ SlotsChosen' /\ UserlandOnly' /\ CountingOn'
    BY <2>1 DEF StepInRange, SlotsChosen, UserlandOnly, CountingOn, Confirmed, UserStages
  <2>4. TrialIsCounted' /\ SwitchesAtMostOnce' /\ SwitchSpent' /\ BootcountBounded'
    BY <2>1 DEF TrialIsCounted, SwitchesAtMostOnce, SwitchSpent, BootcountBounded
  <2>5. QED
    BY <2>2, <2>3, <2>4
<1>5. QED
  BY <1>1, <1>2, <1>3, <1>4 DEF InitScripts

\* The slots that an ota-apply process in state r has chosen.
ChosenIn(r) ==
  /\ r.pc \in {"mode", "swupdate", "rootfs", "bootopen", "boot", "fw"} => r.target \in Slot
  /\ r.pc \in {"swupdate", "rootfs", "bootopen", "boot"} => r.mode \in Slot

LEMMA IdleTyped == Idle \in ApplyType /\ ChosenIn(Idle)
BY DEF Idle, ApplyType, ApplyPcs, Os, ChosenIn

\* The images a step may leave behind: well typed, boot confirmation enabled.
ImagesOK == /\ image \in [Slot -> [os : Os, stub : BOOLEAN, confirm : BOOLEAN]]
            /\ Confirmed

\* A step of one ota-apply process in userland keeps the invariant, if it keeps what
\* is said of the environment and of the images.
LEMMA ApplyMoveKeeps ==
  ASSUME IInv, NEW p \in Appliers, stage \in UserStages,
         NEW r, r \in ApplyType, ChosenIn(r), apply' = [apply EXCEPT ![p] = r],
         EnvInv', env'.bootcount <= env.bootcount, env'.upgrade_available = 1,
         ImagesOK', bootfs' \in {"good", "dead", "brick"}, rebootReq' \in BOOLEAN,
         updates' \in Nat, tried' \subseteq Slot,
         UNCHANGED <<stage, running, step, arg, faults>>
  PROVE  IInv'
<1> USE DEF IInv
<1>1. TypeOK'
  <2>1. apply' \in [Appliers -> ApplyType]
    BY DEF TypeOK
  <2>2. QED
    BY <2>1 DEF TypeOK, EnvInv, ImagesOK
<1>2. SlotsChosen'
  BY DEF SlotsChosen, ChosenIn, TypeOK
<1>3. StepInRange' /\ UserlandOnly' /\ CountingOn'
  BY DEF StepInRange, UserlandOnly, CountingOn, ImagesOK
<1>4. BootcountBounded'
  <2>1. env.bootcount \in Nat /\ env'.bootcount \in Nat /\ faults \in Nat /\ stage # "alt"
    BY DEF EnvInv, EnvType, TypeOK, UserStages
  <2>2. QED
    BY <2>1, BoundsAssumption DEF BootcountBounded
<1>5. QED
  BY <1>1, <1>2, <1>3, <1>4 DEF EnvInv

\* ota-apply keeps the invariant.
LEMMA ApplyKeeps ==
  ASSUME IInv, NEW p \in Appliers, ApplyStart(p) \/ ApplyRuns(p)
  PROVE  IInv'
<1> DEFINE old == apply[p]
<1> apply \in [Appliers -> ApplyType] /\ old \in ApplyType /\ ChosenIn(old)
  BY DEF IInv, TypeOK, SlotsChosen, ChosenIn
<1>1. stage \in UserStages
  <2>1. CASE ApplyStart(p)
    BY <2>1 DEF ApplyStart, UserStages
  <2>2. CASE ApplyRuns(p)
    <3>1. old.pc # "idle"
      BY <2>2 DEF ApplyRuns, ApplyCheck, ApplySelectTarget, ApplySelectMode, SwuReject, SwuOpen,
                  SwuRootfs, SwuBootOpen, SwuBoot, SwuFail, ApplyFwSetenv, AutoReboot
    <3>2. QED
      BY <3>1, BusyInUserland DEF IInv
  <2>3. QED
    BY <2>1, <2>2
<1>2. /\ EnvInv /\ env.upgrade_available = 1 /\ ImagesOK /\ bootfs \in {"good", "dead", "brick"}
      /\ rebootReq \in BOOLEAN /\ updates \in Nat /\ tried \subseteq Slot
      /\ env \in EnvType /\ env.bootcount \in Nat
  BY <1>1 DEF IInv, TypeOK, CountingOn, EnvInv, ImagesOK, EnvType
<1>3. UNCHANGED <<stage, running, step, arg, faults>>
  BY DEF ApplyStart, ApplyRuns, ApplyCheck, ApplySelectTarget, ApplySelectMode, SwuReject, SwuOpen,
         SwuRootfs, SwuBootOpen, SwuBoot, SwuFail, ApplyFwSetenv, AutoReboot
<1>4. ASSUME UNCHANGED <<env, autoSwitches>>
      PROVE  EnvInv' /\ env'.bootcount <= env.bootcount /\ env'.upgrade_available = 1
  BY <1>2, <1>4 DEF EnvInv, TrialIsCounted, SwitchesAtMostOnce, SwitchSpent
<1>5. ASSUME UNCHANGED image, env'.upgrade_available = 1
      PROVE  ImagesOK'
  BY <1>2, <1>5 DEF ImagesOK, Confirmed
<1>6. CASE ApplyStart(p)
  <2> DEFINE r == [Idle EXCEPT !.pc = "check", !.pending = env.ota_pending]
  <2>1. r \in ApplyType /\ ChosenIn(r)
    BY <1>2, IdleTyped DEF EnvType, ApplyType, ApplyPcs, ChosenIn
  <2>2. /\ apply' = [apply EXCEPT ![p] = r] /\ updates' \in Nat
        /\ UNCHANGED <<env, autoSwitches, image, bootfs, rebootReq, tried>>
    BY <1>2, <1>6 DEF ApplyStart
  <2>3. QED
    BY <1>1, <1>2, <1>3, <1>4, <1>5, <2>1, <2>2, ApplyMoveKeeps
<1>7. CASE ApplyCheck(p)
  <2> DEFINE r == IF Refused(p) THEN Idle ELSE [old EXCEPT !.pc = "target"]
  <2>1. r \in ApplyType /\ ChosenIn(r)
    BY IdleTyped DEF ApplyType, ApplyPcs, ChosenIn
  <2>2. apply' = [apply EXCEPT ![p] = r] /\ UNCHANGED <<autoSwitches, image, bootfs, rebootReq, updates, tried>>
    BY <1>7 DEF ApplyCheck
  <2>3. env' \in {env, [env EXCEPT !.active_slot = running]} /\ (env' # env => running \in Slot)
    BY <1>7 DEF ApplyCheck
  <2>4. EnvInv' /\ env'.bootcount <= env.bootcount /\ env'.upgrade_available = 1
    BY <1>2, <2>2, <2>3 DEF EnvInv, EnvType, TrialIsCounted, SwitchesAtMostOnce, SwitchSpent
  <2>5. QED
    BY <1>1, <1>2, <1>3, <1>5, <2>1, <2>2, <2>4, ApplyMoveKeeps
<1>8. CASE ApplySelectTarget(p)
  <2> DEFINE r == [old EXCEPT !.pc = "mode", !.target = Other(EffectiveSlot)]
  <2>1. r \in ApplyType /\ ChosenIn(r)
    BY DEF ApplyType, ApplyPcs, ChosenIn, Other, Slot
  <2>2. apply' = [apply EXCEPT ![p] = r]
        /\ UNCHANGED <<env, autoSwitches, image, bootfs, rebootReq, updates, tried>>
    BY <1>8 DEF ApplySelectTarget
  <2>3. QED
    BY <1>1, <1>2, <1>3, <1>4, <1>5, <2>1, <2>2, ApplyMoveKeeps
<1>9. CASE ApplySelectMode(p)
  <2> DEFINE r == [old EXCEPT !.pc = "swupdate", !.mode = Other(EffectiveSlot)]
  <2>1. r \in ApplyType /\ ChosenIn(r)
    BY <1>9 DEF ApplySelectMode, ApplyType, ApplyPcs, ChosenIn, Other, Slot
  <2>2. apply' = [apply EXCEPT ![p] = r]
        /\ UNCHANGED <<env, autoSwitches, image, bootfs, rebootReq, updates, tried>>
    BY <1>9 DEF ApplySelectMode
  <2>3. QED
    BY <1>1, <1>2, <1>3, <1>4, <1>5, <2>1, <2>2, ApplyMoveKeeps
<1>10. CASE SwuReject(p) \/ SwuFail(p)
  <2>1. apply' = [apply EXCEPT ![p] = Idle]
        /\ UNCHANGED <<env, autoSwitches, image, bootfs, rebootReq, updates, tried>>
    BY <1>10 DEF SwuReject, SwuFail
  <2>2. QED
    BY <1>1, <1>2, <1>3, <1>4, <1>5, <2>1, IdleTyped, ApplyMoveKeeps
<1>11. CASE SwuOpen(p)
  <2>1. PICK pkg \in Packages : apply' = [apply EXCEPT ![p] = [old EXCEPT !.pc = "rootfs", !.pkg = pkg]]
    BY <1>11 DEF SwuOpen
  <2> DEFINE r == [old EXCEPT !.pc = "rootfs", !.pkg = pkg]
  <2>2. r \in ApplyType /\ ChosenIn(r)
    BY <1>11, PackagesAssumption DEF SwuOpen, ApplyType, ApplyPcs, ChosenIn
  <2>3. ImagesOK' /\ tried' \subseteq Slot
    BY <1>2, <1>11 DEF SwuOpen, ImagesOK, Confirmed, Fresh, Os
  <2>4. UNCHANGED <<env, autoSwitches, bootfs, rebootReq, updates>>
    BY <1>11 DEF SwuOpen
  <2>5. QED
    BY <1>1, <1>2, <1>3, <1>4, <2>1, <2>2, <2>3, <2>4, ApplyMoveKeeps
<1>12. CASE SwuRootfs(p)
  <2> DEFINE r == [old EXCEPT !.pc = "bootopen"]
  <2>1. r \in ApplyType /\ ChosenIn(r)
    BY <1>12 DEF SwuRootfs, ApplyType, ApplyPcs, ChosenIn
  <2>2. ImagesOK'
    BY <1>2, <1>12 DEF SwuRootfs, ImagesOK, Confirmed, Fresh, ApplyType
  <2>3. apply' = [apply EXCEPT ![p] = r] /\ UNCHANGED <<env, autoSwitches, bootfs, rebootReq, updates, tried>>
    BY <1>12 DEF SwuRootfs
  <2>4. QED
    BY <1>1, <1>2, <1>3, <1>4, <2>1, <2>2, <2>3, ApplyMoveKeeps
<1>13. CASE SwuBootOpen(p)
  <2> DEFINE r == [old EXCEPT !.pc = "boot"]
  <2>1. r \in ApplyType /\ ChosenIn(r)
    BY <1>13 DEF SwuBootOpen, ApplyType, ApplyPcs, ChosenIn
  <2>2. apply' = [apply EXCEPT ![p] = r] /\ bootfs' = "brick"
        /\ UNCHANGED <<env, autoSwitches, image, rebootReq, updates, tried>>
    BY <1>13 DEF SwuBootOpen
  <2>3. QED
    BY <1>1, <1>2, <1>3, <1>4, <1>5, <2>1, <2>2, ApplyMoveKeeps
<1>14. CASE SwuBoot(p)
  <2> DEFINE r == [old EXCEPT !.pc = "fw"]
  <2>1. r \in ApplyType /\ ChosenIn(r) /\ old.pkg.kernel \in {"good", "dead"}
    BY <1>14 DEF SwuBoot, ApplyType, ApplyPcs, ChosenIn
  <2>2. apply' = [apply EXCEPT ![p] = r] /\ bootfs' = old.pkg.kernel
        /\ UNCHANGED <<env, autoSwitches, image, rebootReq, updates, tried>>
    BY <1>14 DEF SwuBoot
  <2>3. QED
    BY <1>1, <1>2, <1>3, <1>4, <1>5, <2>1, <2>2, ApplyMoveKeeps
<1>15. CASE ApplyFwSetenv(p)
  <2> DEFINE k == old.step
             r == IF k < 4 THEN [old EXCEPT !.step = k + 1] ELSE [old EXCEPT !.pc = "reboot"]
  <2>1. old.target \in Slot /\ k \in 1 .. 4
    BY <1>15 DEF ApplyFwSetenv, ChosenIn, ApplyType
  <2>2. SafeWrite(ApplyWrites(old.target)[k]) /\ Len(ApplyWrites(old.target)) = 4
    BY <2>1, ApplyWritesSafe
  <2>3. /\ FwSetenv(ApplyWrites(old.target)[k]) /\ apply' = [apply EXCEPT ![p] = r]
        /\ UNCHANGED <<image, bootfs, rebootReq, updates, tried>>
    BY <1>15, <2>2 DEF ApplyFwSetenv
  <2>4. EnvInv' /\ env'.bootcount <= env.bootcount /\ env'.upgrade_available = 1
    BY <1>2, <2>2, <2>3, FwSetenvKeeps
  <2>5. r \in ApplyType /\ ChosenIn(r)
    BY <2>1 DEF ApplyType, ApplyPcs, ChosenIn
  <2>6. QED
    BY <1>1, <1>2, <1>3, <1>5, <2>3, <2>4, <2>5, ApplyMoveKeeps
<1>16. CASE AutoReboot(p)
  <2>1. apply' = [apply EXCEPT ![p] = Idle] /\ rebootReq' = TRUE
        /\ UNCHANGED <<env, autoSwitches, image, bootfs, updates, tried>>
    BY <1>16 DEF AutoReboot
  <2>2. QED
    BY <1>1, <1>2, <1>3, <1>4, <1>5, <2>1, IdleTyped, ApplyMoveKeeps
<1>17. QED
  BY <1>6, <1>7, <1>8, <1>9, <1>10, <1>11, <1>12, <1>13, <1>14, <1>15, <1>16 DEF ApplyRuns

\* A reset, with the environment kept or lost, keeps the invariant.
LEMMA DownKeeps ==
  ASSUME IInv, Down, EnvInv', env'.bootcount <= env.bootcount,
         env'.upgrade_available = env.upgrade_available \/ TornEnv,
         faults' \in {faults, faults + 1}, stage = "alt" => faults' = faults + 1
  PROVE  IInv'
<1> USE DEF IInv
<1>1. /\ stage' = "reset" /\ step' = 1 /\ running' = "none" /\ arg' = "none" /\ rebootReq' = FALSE
      /\ apply' = [p \in Appliers |-> Idle] /\ UNCHANGED <<image, bootfs, updates, tried>>
  BY DEF Down, Enter
<1>2. TypeOK'
  <2>1. apply' \in [Appliers -> ApplyType]
    BY <1>1, IdleTyped
  <2>2. stage' \in Stages /\ step' \in 1 .. 7
    BY <1>1 DEF Stages
  <2>3. faults' \in Nat
    BY DEF TypeOK
  <2>4. QED
    BY <1>1, <2>1, <2>2, <2>3 DEF TypeOK, EnvInv
<1>3. StepInRange' /\ UserlandOnly' /\ CountingOn'
  BY <1>1 DEF StepInRange, UserlandOnly, CountingOn, Confirmed, UserStages
<1>4. SlotsChosen'
  BY <1>1 DEF SlotsChosen, Idle
<1>5. BootcountBounded'
  <2>1. env.bootcount \in Nat /\ env'.bootcount \in Nat /\ faults \in Nat /\ stage' # "alt"
    BY <1>1 DEF EnvInv, EnvType, TypeOK
  <2>2. QED
    BY <2>1, BoundsAssumption DEF BootcountBounded
<1>6. QED
  BY <1>2, <1>3, <1>4, <1>5 DEF EnvInv

LEMMA StepIInv == IInv /\ [Next]_vars => IInv'
<1> SUFFICES ASSUME IInv, [Next]_vars PROVE IInv'
  OBVIOUS
<1>0. EnvInv /\ env \in EnvType /\ env.bootcount \in Nat /\ faults \in Nat
  BY DEF IInv, EnvInv, TypeOK, EnvType
<1>1. CASE UBoot
  BY <1>1, UBootKeeps
<1>2. CASE InitScripts
  BY <1>2, InitScriptsKeep
<1>3. CASE Reset
  <2>1. stage # "alt"
    BY <1>3 DEF Reset, IInv, UserlandOnly, UserStages
  <2>2. Down /\ UNCHANGED <<env, faults, autoSwitches>>
    BY <1>3 DEF Reset
  <2>3. EnvInv' /\ env'.bootcount <= env.bootcount
    BY <1>0, <2>2 DEF EnvInv, TrialIsCounted, SwitchesAtMostOnce, SwitchSpent
  <2>4. QED
    BY <2>1, <2>2, <2>3, DownKeeps
<1>4. ASSUME NEW p \in Appliers, ApplyStart(p) \/ ApplyRuns(p)
      PROVE  IInv'
  BY <1>4, ApplyKeeps
<1>5. CASE PowerLoss
  <2>1. Down /\ faults' = faults + 1 /\ UNCHANGED <<env, autoSwitches>>
    BY <1>5 DEF PowerLoss, Fault
  <2>2. EnvInv' /\ env'.bootcount <= env.bootcount
    BY <1>0, <2>1 DEF EnvInv, TrialIsCounted, SwitchesAtMostOnce, SwitchSpent
  <2>3. QED
    BY <2>1, <2>2, DownKeeps
<1>6. CASE PowerLossTornEnv
  <2>1. Down /\ faults' = faults + 1 /\ env' = DefaultEnv /\ autoSwitches' = 0 /\ TornEnv
    BY <1>6 DEF PowerLossTornEnv, Fault
  <2>2. EnvInv' /\ env'.bootcount <= env.bootcount
    BY <1>0, <2>1 DEF EnvInv, EnvType, DefaultEnv, TrialIsCounted, SwitchesAtMostOnce, SwitchSpent
  <2>3. QED
    BY <2>1, <2>2, DownKeeps
<1>7. ASSUME NEW p \in Appliers, ApplyDies(p)
      PROVE  IInv'
  <2>1. /\ apply[p].pc # "idle" /\ apply' = [apply EXCEPT ![p] = Idle] /\ faults' = faults + 1
        /\ UNCHANGED <<env, image, bootfs, stage, running, step, arg, rebootReq, updates, autoSwitches, tried>>
    BY <1>7 DEF ApplyDies, Fault
  <2> USE DEF IInv
  <2>2. stage \in UserStages
    BY <2>1, BusyInUserland
  <2>3. apply' \in [Appliers -> ApplyType] /\ faults' \in Nat
    BY <1>0, <2>1, IdleTyped DEF TypeOK
  <2>4. TypeOK'
    BY <2>1, <2>3 DEF TypeOK
  <2>5. SlotsChosen'
    BY <2>1 DEF SlotsChosen, TypeOK, Idle
  <2>6. StepInRange' /\ UserlandOnly' /\ CountingOn'
    BY <2>1, <2>2 DEF StepInRange, UserlandOnly, CountingOn, Confirmed
  <2>7. TrialIsCounted' /\ SwitchesAtMostOnce' /\ SwitchSpent'
    BY <2>1 DEF TrialIsCounted, SwitchesAtMostOnce, SwitchSpent
  <2>8. BootcountBounded'
    BY <1>0, <2>1, BoundsAssumption DEF BootcountBounded
  <2>9. QED
    BY <2>4, <2>5, <2>6, <2>7, <2>8
<1>8. CASE UNCHANGED vars
  BY <1>8 DEF vars, IInv, TypeOK, StepInRange, SlotsChosen, UserlandOnly, CountingOn, Confirmed, TrialIsCounted,
              SwitchesAtMostOnce, SwitchSpent, BootcountBounded
<1>9. QED
  BY <1>1, <1>2, <1>3, <1>4, <1>5, <1>6, <1>7, <1>8 DEF Next, Faults

LEMMA Invariance == Spec => []IInv
<1>1. Init => IInv
  BY InitIInv
<1>2. IInv /\ [Next]_vars => IInv'
  BY StepIInv
<1>3. QED
  BY <1>1, <1>2, PTL DEF Spec

-----------------------------------------------------------------------------
(* The theorems *)

\* Every variable keeps its type: U-Boot, the init scripts and ota-apply.
THEOREM TypeCorrect == Spec => []TypeOK
BY Invariance, PTL DEF IInv

\* While ota_pending=1, U-Boot counts the boots (board-boot-confirm, ota-apply and the
\* commit, for any number of callers, killed or cut short anywhere).
THEOREM TrialsAreCounted == Spec => []TrialIsCounted
BY Invariance, PTL DEF IInv

\* altbootcmd switches at most once until failover_done is cleared.
THEOREM OneSwitch == Spec => []SwitchesAtMostOnce
BY Invariance, PTL DEF IInv

\* The counter exceeds bootlimit by no more than the power losses, for every bootlimit.
THEOREM CounterIsBounded == Spec => []BootcountBounded
BY Invariance, PTL DEF IInv

-----------------------------------------------------------------------------
(***************************************************************************)
(* What the lock of ota-agent buys: when every caller of ota-apply takes   *)
(* it, the running slot is never written, ota-apply activates the slot it  *)
(* wrote, and a board that boots from its card keeps a root file system    *)
(* that boots. BoardUpgrade's run with a caller outside the lock shows     *)
(* that the hypothesis is needed.                                          *)
(***************************************************************************)

\* At most one ota-apply at a time.
Mutex == \A p, q \in Appliers :
           apply[p].pc # "idle" /\ apply[q].pc # "idle" => p = q

\* A process in state r that has read, or relies on, ota_pending=0.
RelyOnNoTrial(r) ==
  \/ r.pc = "check" /\ r.pending = 0
  \/ r.pc \in {"target", "mode", "swupdate", "rootfs", "bootopen", "boot"}
  \/ r.pc = "fw" /\ r.step <= 2

\* What ota-apply has established by the time it is in state r: no trial is open, the
\* running slot is the active one, the slots it chose are the other one.
ApplyOK(r) ==
  /\ RelyOnNoTrial(r) => env.ota_pending = 0
  /\ r.pc \in {"target", "mode"} => running \notin Slot \/ running = EffectiveSlot
  /\ r.pc = "mode" => r.target = Other(EffectiveSlot)
  /\ r.pc \in {"swupdate", "rootfs", "bootopen", "boot", "fw"}
       => r.mode = r.target /\ r.mode # running

\* The commit and the rollback write active_slot only while their trial is open.
TrialOpen == stage \in {"commit", "rollback"} /\ step <= 2 => env.ota_pending = 1

LockInv == Mutex /\ TrialOpen /\ \A p \in Appliers : ApplyOK(apply[p])

-----------------------------------------------------------------------------
LEMMA InitLockInv == Init => LockInv
BY DEF Init, LockInv, Mutex, TrialOpen, ApplyOK, RelyOnNoTrial, Idle

\* Steps before userland and resets: no ota-apply process is left or appears.
LEMMA NobodyApplies ==
  ASSUME apply' = [p \in Appliers |-> Idle], stage' \notin {"commit", "rollback"}
  PROVE  LockInv'
BY DEF LockInv, Mutex, TrialOpen, ApplyOK, RelyOnNoTrial, Idle

\* Steps that leave the processes alone, the trial mark at most cleared, and the active
\* slot unless a trial is open.
LEMMA OthersMove ==
  ASSUME LockInv, TrialOpen', UNCHANGED <<apply, running>>,
         env'.ota_pending \in {env.ota_pending, 0},
         EffectiveSlot' = EffectiveSlot \/ env.ota_pending = 1
  PROVE  LockInv'
<1>1. Mutex'
  BY DEF LockInv, Mutex
<1>2. ASSUME NEW p \in Appliers PROVE ApplyOK(apply[p])'
  <2>1. ApplyOK(apply[p])
    BY DEF LockInv
  <2>2. RelyOnNoTrial(apply[p])' <=> RelyOnNoTrial(apply[p])
    BY DEF RelyOnNoTrial
  <2>3. apply[p].pc \in {"target", "mode"} => EffectiveSlot' = EffectiveSlot
    BY <2>1 DEF ApplyOK, RelyOnNoTrial
  <2>4. QED
    BY <2>1, <2>2, <2>3 DEF ApplyOK, Other
<1>3. QED
  BY <1>1, <1>2 DEF LockInv

\* The init scripts: a commit or a rollback starts with its trial open, and its second
\* write closes it.
LEMMA InitScriptsLock ==
  ASSUME IInv, LockInv, InitScripts
  PROVE  LockInv'
<1> env \in EnvType /\ step \in 1 .. 7
  BY DEF IInv, TypeOK
<1>1. CASE ConfirmBoot
  <2>1. stage = "confirm" /\ UNCHANGED apply /\ stage' \in {"confirm", "services"}
    BY <1>1 DEF ConfirmBoot, ScriptStep, Enter
  <2>2. QED
    BY <2>1, NobodyApplies DEF IInv, UserlandOnly, UserStages
<1>2. CASE CommitReadActive \/ CommitNotNeeded \/ HealthCheckPasses \/ HealthCheckFails
  <2>1. UNCHANGED <<apply, running, env>>
    BY <1>2 DEF CommitReadActive, CommitNotNeeded, HealthCheckPasses, HealthCheckFails
  <2>2. stage' \in {"commit", "rollback"} => env.ota_pending = 1
    BY <1>2 DEF CommitReadActive, CommitNotNeeded, HealthCheckPasses, HealthCheckFails, Enter
  <2>3. QED
    BY <2>1, <2>2, OthersMove DEF TrialOpen, EffectiveSlot
<1>3. CASE CommitSlot
  <2> DEFINE w == CommitWrites(arg)[step]
  <2>1. /\ stage = "commit" /\ UNCHANGED <<apply, running>>
        /\ env' = [env EXCEPT ![w.var] = w.val]
        /\ (step < 7 /\ stage' = "commit" /\ step' = step + 1) \/ stage' = "done"
    BY <1>3 DEF CommitSlot, ScriptStep, FwSetenv, CommitWrites, Enter
  <2>2. w.var \in {"bootcount", "ota_pending", "upgrade_available", "failover_done",
                   "last_good_slot", "ota_target_slot", "ota_phase"}
        /\ (w.var = "ota_pending" <=> step = 2) /\ (step = 2 => w.val = 0)
    BY DEF CommitWrites, Write
  <2>3. EffectiveSlot' = EffectiveSlot
    BY <2>1, <2>2 DEF EffectiveSlot, EnvType
  <2>4. env'.ota_pending = IF step = 2 THEN 0 ELSE env.ota_pending
    BY <2>1, <2>2 DEF EnvType
  <2>5. TrialOpen'
    BY <2>1, <2>4 DEF TrialOpen, LockInv
  <2>6. QED
    BY <2>1, <2>3, <2>4, <2>5, OthersMove
<1>4. CASE RollbackFailedSlot
  <2> DEFINE w == RollbackWrites(arg)[step]
  <2>0. step \in 1 .. 6
    BY <1>4 DEF RollbackFailedSlot, ScriptStep, IInv, StepInRange
  <2>1. /\ stage = "rollback" /\ UNCHANGED <<apply, running>>
        /\ env' = [env EXCEPT ![w.var] = w.val]
        /\ (step < 6 /\ stage' = "rollback" /\ step' = step + 1) \/ stage' = "done"
    BY <1>4 DEF RollbackFailedSlot, ScriptStep, FwSetenv, RollbackWrites, Enter
  <2>2. w.var \in {"active_slot", "ota_pending", "upgrade_available", "bootcount",
                   "failover_done", "ota_phase"}
        /\ (w.var = "ota_pending" <=> step = 2) /\ (step = 2 => w.val = 0)
        /\ (w.var = "active_slot" <=> step = 1)
    BY <2>0 DEF RollbackWrites, Write
  <2>3. EffectiveSlot' = EffectiveSlot \/ env.ota_pending = 1
    <3>1. CASE step = 1
      BY <2>1, <3>1 DEF TrialOpen, LockInv
    <3>2. CASE step # 1
      BY <2>1, <2>2, <3>2 DEF EffectiveSlot, EnvType
    <3>3. QED
      BY <3>1, <3>2
  <2>4. env'.ota_pending = IF step = 2 THEN 0 ELSE env.ota_pending
    BY <2>1, <2>2 DEF EnvType
  <2>5. TrialOpen'
    BY <2>1, <2>4 DEF TrialOpen, LockInv
  <2>6. QED
    BY <2>1, <2>3, <2>4, <2>5, OthersMove
<1>5. QED
  BY <1>1, <1>2, <1>3, <1>4 DEF InitScripts

\* One step of one process p, alone under the lock, from ApplyOK to ApplyOK.
LEMMA OwnerMoves ==
  ASSUME IInv, LockInv, NEW p \in Appliers,
         \A q \in Appliers : apply[q].pc # "idle" => q = p,
         NEW r, apply' = [apply EXCEPT ![p] = r], ApplyOK(r)', TrialOpen'
  PROVE  LockInv'
<1>1. apply \in [Appliers -> ApplyType]
  BY DEF IInv, TypeOK
<1>2. \A q \in Appliers : q # p => apply'[q] = apply[q] /\ apply[q].pc = "idle"
  BY <1>1
<1>3. apply'[p] = r
  BY <1>1
<1>4. Mutex'
  BY <1>2, <1>3 DEF Mutex
<1>5. ASSUME NEW q \in Appliers PROVE ApplyOK(apply[q])'
  <2>1. CASE q = p
    BY <1>3, <2>1 DEF ApplyOK, RelyOnNoTrial
  <2>2. CASE q # p
    BY <1>2, <2>2 DEF ApplyOK, RelyOnNoTrial
  <2>3. QED
    BY <2>1, <2>2
<1>6. QED
  BY <1>4, <1>5 DEF LockInv

\* ota-apply under the lock: from the check to the last write before the reboot.
LEMMA ApplyLock ==
  ASSUME Direct = {}, IInv, LockInv, NEW p \in Appliers, ApplyStart(p) \/ ApplyRuns(p)
  PROVE  LockInv'
<1> DEFINE old == apply[p]
<1> apply \in [Appliers -> ApplyType] /\ old \in ApplyType /\ ApplyOK(old) /\ env \in EnvType
    /\ running \in Slot \cup {"NFS", "none"}
  BY DEF IInv, TypeOK, LockInv
<1>1. UNCHANGED <<stage, step, running>>
  BY DEF ApplyStart, ApplyRuns, ApplyCheck, ApplySelectTarget, ApplySelectMode, SwuReject, SwuOpen,
         SwuRootfs, SwuBootOpen, SwuBoot, SwuFail, ApplyFwSetenv, AutoReboot
<1>2. \A q \in Appliers : apply[q].pc # "idle" => q = p
  <2>1. CASE ApplyStart(p)
    BY <2>1 DEF ApplyStart, LockFree, Appliers
  <2>2. CASE ApplyRuns(p)
    <3>1. old.pc # "idle"
      BY <2>2 DEF ApplyRuns, ApplyCheck, ApplySelectTarget, ApplySelectMode, SwuReject, SwuOpen,
                  SwuRootfs, SwuBootOpen, SwuBoot, SwuFail, ApplyFwSetenv, AutoReboot
    <3>2. QED
      BY <3>1 DEF LockInv, Mutex
  <2>3. QED
    BY <2>1, <2>2
<1>3. ASSUME UNCHANGED env PROVE TrialOpen' /\ EffectiveSlot' = EffectiveSlot
  BY <1>1, <1>3 DEF LockInv, TrialOpen, EffectiveSlot
<1>4. CASE ApplyStart(p)
  <2> DEFINE r == [Idle EXCEPT !.pc = "check", !.pending = env.ota_pending]
  <2>1. apply' = [apply EXCEPT ![p] = r] /\ UNCHANGED env
    BY <1>4 DEF ApplyStart
  <2>2. r.pc = "check" /\ r.pending = env.ota_pending
    BY DEF Idle
  <2>3. ApplyOK(r)'
    BY <2>1, <2>2 DEF ApplyOK, RelyOnNoTrial
  <2>4. QED
    BY <1>2, <1>3, <2>1, <2>3, OwnerMoves
<1>5. CASE ApplyCheck(p)
  <2>1. CASE Refused(p)
    <3>1. apply' = [apply EXCEPT ![p] = Idle] /\ env'.ota_pending = env.ota_pending
      BY <1>5, <2>1 DEF ApplyCheck, EnvType
    <3>2. ApplyOK(Idle)' /\ TrialOpen'
      BY <1>1, <3>1 DEF ApplyOK, RelyOnNoTrial, Idle, LockInv, TrialOpen
    <3>3. QED
      BY <1>2, <3>1, <3>2, OwnerMoves
  <2>2. CASE ~Refused(p)
    <3> DEFINE r == [old EXCEPT !.pc = "target"]
    <3>1. apply' = [apply EXCEPT ![p] = r] /\ env'.ota_pending = env.ota_pending
      BY <1>5, <2>2 DEF ApplyCheck, EnvType
    <3>2. env.ota_pending = 0
      BY <1>5, <2>2 DEF ApplyCheck, Refused, ApplyType, ApplyOK, RelyOnNoTrial
    <3>3. running \in Slot => running = EffectiveSlot'
      <4>1. CASE env.active_slot = "unset" /\ running \in Slot
        BY <1>5, <4>1 DEF ApplyCheck, EnvType, EffectiveSlot, Slot
      <4>2. CASE ~(env.active_slot = "unset" /\ running \in Slot)
        BY <1>5, <2>2, <4>2 DEF ApplyCheck, Refused, CheckedActive, EffectiveSlot
      <4>3. QED
        BY <4>1, <4>2
    <3>4. r.pc = "target"
      BY DEF ApplyType
    <3>5. ApplyOK(r)' /\ TrialOpen'
      BY <1>1, <3>1, <3>2, <3>3, <3>4 DEF ApplyOK, RelyOnNoTrial, LockInv, TrialOpen
    <3>6. QED
      BY <1>2, <3>1, <3>5, OwnerMoves
  <2>3. QED
    BY <2>1, <2>2
<1>6. CASE ApplySelectTarget(p)
  <2> DEFINE r == [old EXCEPT !.pc = "mode", !.target = Other(EffectiveSlot)]
  <2>1. apply' = [apply EXCEPT ![p] = r] /\ UNCHANGED env /\ old.pc = "target"
    BY <1>6 DEF ApplySelectTarget
  <2>2. r.pc = "mode" /\ r.target = Other(EffectiveSlot)
    BY DEF ApplyType
  <2>3. ApplyOK(r)'
    BY <1>1, <1>3, <2>1, <2>2 DEF ApplyOK, RelyOnNoTrial, Other
  <2>4. QED
    BY <1>2, <1>3, <2>1, <2>3, OwnerMoves
<1>7. CASE ApplySelectMode(p)
  <2> DEFINE r == [old EXCEPT !.pc = "swupdate", !.mode = Other(EffectiveSlot)]
  <2>1. apply' = [apply EXCEPT ![p] = r] /\ UNCHANGED env /\ old.pc = "mode"
    BY <1>7 DEF ApplySelectMode
  <2>2. r.pc = "swupdate" /\ r.mode = Other(EffectiveSlot) /\ r.target = old.target
    BY DEF ApplyType
  <2>3. Other(EffectiveSlot) # running
    BY <2>1 DEF ApplyOK, Other, Slot, EffectiveSlot
  <2>4. ApplyOK(r)'
    BY <1>1, <1>3, <2>1, <2>2, <2>3 DEF ApplyOK, RelyOnNoTrial
  <2>5. QED
    BY <1>2, <1>3, <2>1, <2>4, OwnerMoves
<1>8. CASE SwuReject(p) \/ SwuFail(p) \/ AutoReboot(p)
  <2>1. apply' = [apply EXCEPT ![p] = Idle] /\ UNCHANGED env
    BY <1>8 DEF SwuReject, SwuFail, AutoReboot
  <2>2. ApplyOK(Idle)'
    BY DEF ApplyOK, RelyOnNoTrial, Idle
  <2>3. QED
    BY <1>2, <1>3, <2>1, <2>2, OwnerMoves
<1>9. ASSUME NEW r, apply' = [apply EXCEPT ![p] = r], UNCHANGED env,
             old.pc \in {"swupdate", "rootfs", "bootopen", "boot"},
             r.pc \in {"rootfs", "bootopen", "boot", "fw"}, r.mode = old.mode, r.target = old.target
      PROVE  LockInv'
  <2>1. ApplyOK(r)'
    BY <1>1, <1>9 DEF ApplyOK, RelyOnNoTrial
  <2>2. QED
    BY <1>2, <1>3, <1>9, <2>1, OwnerMoves
<1>10. CASE SwuOpen(p)
  <2>1. PICK pkg \in Packages : apply' = [apply EXCEPT ![p] = [old EXCEPT !.pc = "rootfs", !.pkg = pkg]]
    BY <1>10 DEF SwuOpen
  <2>2. UNCHANGED env /\ old.pc = "swupdate"
    BY <1>10 DEF SwuOpen
  <2> DEFINE r == [old EXCEPT !.pc = "rootfs", !.pkg = pkg]
  <2>3. r.pc = "rootfs" /\ r.mode = old.mode /\ r.target = old.target
    BY DEF ApplyType
  <2>4. QED
    BY <1>9, <2>1, <2>2, <2>3
<1>11. CASE SwuRootfs(p)
  <2> DEFINE r == [old EXCEPT !.pc = "bootopen"]
  <2>1. apply' = [apply EXCEPT ![p] = r] /\ UNCHANGED env /\ old.pc = "rootfs"
    BY <1>11 DEF SwuRootfs
  <2>2. r.pc = "bootopen" /\ r.mode = old.mode /\ r.target = old.target
    BY DEF ApplyType
  <2>3. QED
    BY <1>9, <2>1, <2>2
<1>12. CASE SwuBootOpen(p)
  <2> DEFINE r == [old EXCEPT !.pc = "boot"]
  <2>1. apply' = [apply EXCEPT ![p] = r] /\ UNCHANGED env /\ old.pc = "bootopen"
    BY <1>12 DEF SwuBootOpen
  <2>2. r.pc = "boot" /\ r.mode = old.mode /\ r.target = old.target
    BY DEF ApplyType
  <2>3. QED
    BY <1>9, <2>1, <2>2
<1>13. CASE SwuBoot(p)
  <2> DEFINE r == [old EXCEPT !.pc = "fw"]
  <2>1. apply' = [apply EXCEPT ![p] = r] /\ UNCHANGED env /\ old.pc = "boot"
    BY <1>13 DEF SwuBoot
  <2>2. r.pc = "fw" /\ r.mode = old.mode /\ r.target = old.target
    BY DEF ApplyType
  <2>3. QED
    BY <1>9, <2>1, <2>2
<1>14. CASE ApplyFwSetenv(p)
  <2> DEFINE k == old.step
             w == ApplyWrites(old.target)[k]
             r == IF k < 4 THEN [old EXCEPT !.step = k + 1] ELSE [old EXCEPT !.pc = "reboot"]
  <2>1. /\ k \in 1 .. 4 /\ old.pc = "fw"
        /\ env' = [env EXCEPT ![w.var] = w.val] /\ apply' = [apply EXCEPT ![p] = r]
    BY <1>14 DEF ApplyFwSetenv, FwSetenv, ApplyWrites, ApplyType
  <2>2. /\ w.var \in {"active_slot", "ota_pending", "upgrade_available", "bootcount"}
        /\ w.var = "ota_pending" <=> k = 2
        /\ k = 2 => w.val = 1
    BY <2>1 DEF ApplyWrites, Write
  <2>3. env'.ota_pending = IF k = 2 THEN 1 ELSE env.ota_pending
    BY <2>1, <2>2 DEF EnvType
  <2>4. TrialOpen'
    BY <1>1, <2>3 DEF TrialOpen, LockInv
  <2>5. /\ r.pc \in {"fw", "reboot"} /\ r.mode = old.mode /\ r.target = old.target
        /\ r.pc = "fw" => r.step = k + 1
    BY <2>1 DEF ApplyType
  <2>6. ASSUME NEW x, x = r PROVE LockInv'
    <3>1. RelyOnNoTrial(x) => k = 1 /\ env.ota_pending = 0
      BY <2>1, <2>5, <2>6 DEF RelyOnNoTrial, ApplyOK
    <3>2. x.mode = x.target /\ x.mode # running
      BY <2>1, <2>5, <2>6 DEF ApplyOK
    <3>3. x.pc \in {"fw", "reboot"}
      BY <2>5, <2>6
    <3>4. ApplyOK(x)'
      BY <1>1, <2>3, <3>1, <3>2, <3>3 DEF ApplyOK, RelyOnNoTrial
    <3>5. apply' = [apply EXCEPT ![p] = x]
      BY <2>1, <2>6
    <3>6. QED
      BY <1>2, <2>4, <3>4, <3>5, OwnerMoves
  <2>7. QED
    BY <2>6
<1>15. QED
  BY <1>4, <1>5, <1>6, <1>7, <1>8, <1>10, <1>11, <1>12, <1>13, <1>14 DEF ApplyRuns

LEMMA StepLockInv == Direct = {} /\ IInv /\ LockInv /\ [Next]_vars => LockInv'
<1> SUFFICES ASSUME Direct = {}, IInv, LockInv, [Next]_vars PROVE LockInv'
  OBVIOUS
<1>1. CASE UBoot
  <2>1. stage \notin UserStages /\ UNCHANGED apply /\ stage' \notin {"commit", "rollback"}
    BY <1>1 DEF UBoot, UBootStart, AltStay, AltSwitch, BootTf, BootNfs, Enter, UserStages
  <2>2. QED
    BY <2>1, NobodyApplies DEF IInv, UserlandOnly
<1>2. CASE InitScripts
  BY <1>2, InitScriptsLock
<1>3. CASE Reset \/ PowerLoss \/ PowerLossTornEnv
  <2>1. apply' = [p \in Appliers |-> Idle] /\ stage' = "reset"
    BY <1>3 DEF Reset, PowerLoss, PowerLossTornEnv, Down, Enter
  <2>2. QED
    BY <2>1, NobodyApplies
<1>4. ASSUME NEW p \in Appliers, ApplyStart(p) \/ ApplyRuns(p)
      PROVE  LockInv'
  BY <1>4, ApplyLock
<1>5. ASSUME NEW p \in Appliers, ApplyDies(p)
      PROVE  LockInv'
  <2>1. apply' = [apply EXCEPT ![p] = Idle] /\ UNCHANGED <<env, stage, step, running>>
    BY <1>5 DEF ApplyDies
  <2>2. \A q \in Appliers : apply[q].pc # "idle" => q = p
    BY <1>5 DEF ApplyDies, LockInv, Mutex
  <2>3. ApplyOK(Idle)' /\ TrialOpen'
    BY <2>1 DEF ApplyOK, RelyOnNoTrial, Idle, LockInv, TrialOpen
  <2>4. QED
    BY <2>1, <2>2, <2>3, OwnerMoves
<1>6. CASE UNCHANGED vars
  BY <1>6 DEF vars, LockInv, Mutex, TrialOpen, ApplyOK, RelyOnNoTrial, EffectiveSlot
<1>7. QED
  BY <1>1, <1>2, <1>3, <1>4, <1>5, <1>6 DEF Next, Faults

LEMMA LockInvariance == ASSUME Direct = {} PROVE Spec => []LockInv
<1>1. Init => LockInv
  BY InitLockInv
<1>2. IInv /\ LockInv /\ [Next]_vars => LockInv'
  BY StepLockInv
<1>3. QED
  BY <1>1, <1>2, Invariance, PTL DEF Spec

\* When every caller of ota-apply holds the agent lock, swupdate never writes the
\* partition that is mounted as root: no interleaving with the commit or the rollback,
\* no kill and no power loss, with or without a lost environment, brings it there.
THEOREM RunningSlotIsSafe == ASSUME Direct = {} PROVE Spec => []RunningSlotNotWritten
<1>1. LockInv => RunningSlotNotWritten
  BY DEF LockInv, ApplyOK, RunningSlotNotWritten
<1>2. QED
  BY <1>1, LockInvariance, PTL

\* Under the same hypothesis, the slot that ota-apply activates is the one it wrote.
THEOREM WrittenSlotIsActivated == ASSUME Direct = {} PROVE Spec => []ActivatesWhatItWrote
<1>1. LockInv => ActivatesWhatItWrote
  BY DEF LockInv, ApplyOK, ActivatesWhatItWrote
<1>2. QED
  BY <1>1, LockInvariance, PTL

-----------------------------------------------------------------------------
(* A root file system that boots *)

\* Once the kernel has started init, the running slot is one that boots.
RootRuns ==
  /\ SomeRootfsBoots
  /\ stage \in {"confirm"} \cup UserStages => running \in Slot /\ RootfsBoots(running)

\* swupdate writes in one slot only, and not in the running one.
LEMMA SwuSparesRoot ==
  ASSUME IInv, LockInv, RootRuns, NEW p \in Appliers, SwuOpen(p) \/ SwuRootfs(p)
  PROVE  RootRuns'
<1>1. stage \in UserStages /\ apply[p].mode # running /\ apply[p].mode \in Slot
  BY BusyInUserland DEF SwuOpen, SwuRootfs, LockInv, ApplyOK, IInv, SlotsChosen
<1>2. running \in Slot /\ RootfsBoots(running) /\ UNCHANGED <<stage, running>>
  BY <1>1 DEF RootRuns, SwuOpen, SwuRootfs
<1>3. image'[running] = image[running]
  BY <1>1, <1>2 DEF SwuOpen, SwuRootfs, IInv, TypeOK
<1>4. QED
  BY <1>2, <1>3 DEF RootRuns, RootfsBoots, SomeRootfsBoots

LEMMA StepRootRuns ==
  ASSUME NfsRoot = FALSE, IInv, LockInv, RootRuns, [Next]_vars
  PROVE  RootRuns'
<1> USE DEF RootRuns, SomeRootfsBoots, RootfsBoots
<1>1. CASE UBootStart \/ AltStay \/ AltSwitch
  BY <1>1 DEF UBootStart, AltStay, AltSwitch, Enter, UserStages
<1>2. CASE BootTf
  BY <1>2 DEF BootTf, Enter, Boots, EffectiveSlot, Slot, UserStages
<1>3. CASE BootNfs
  BY <1>3 DEF BootNfs
<1>4. CASE InitScripts
  <2>1. UNCHANGED <<image, running>> /\ stage \in {"confirm"} \cup UserStages
    BY <1>4 DEF InitScripts, ConfirmBoot, CommitReadActive, CommitNotNeeded,
                HealthCheckPasses, HealthCheckFails, CommitSlot, RollbackFailedSlot, ScriptStep, UserStages
  <2>2. QED
    BY <2>1
<1>5. CASE Reset \/ PowerLoss \/ PowerLossTornEnv
  BY <1>5 DEF Reset, PowerLoss, PowerLossTornEnv, Down, Enter, UserStages
<1>6. ASSUME NEW p \in Appliers, ApplyStart(p) \/ ApplyRuns(p) \/ ApplyDies(p)
      PROVE  RootRuns'
  <2>1. CASE SwuOpen(p) \/ SwuRootfs(p)
    BY <2>1, SwuSparesRoot
  <2>2. CASE ~(SwuOpen(p) \/ SwuRootfs(p))
    <3>1. UNCHANGED <<image, stage, running>>
      BY <1>6, <2>2 DEF ApplyStart, ApplyRuns, ApplyCheck, ApplySelectTarget, ApplySelectMode, SwuReject,
                        SwuBootOpen, SwuBoot, SwuFail, ApplyFwSetenv, AutoReboot, ApplyDies
    <3>2. QED
      BY <3>1
  <2>3. QED
    BY <2>1, <2>2
<1>7. CASE UNCHANGED vars
  BY <1>7 DEF vars
<1>8. QED
  BY <1>1, <1>2, <1>3, <1>4, <1>5, <1>6, <1>7 DEF Next, UBoot, Faults

\* On a board that boots from its card and whose updates all take the lock, one of the
\* two root file systems boots at all times: updates that are bad, cut short or repeated
\* only ever cost the slot that is not running.
THEOREM ARootfsSurvives == ASSUME Direct = {}, NfsRoot = FALSE PROVE Spec => []SomeRootfsBoots
<1>1. Init => RootRuns
  BY DEF Init, RootRuns, SomeRootfsBoots, RootfsBoots, Fresh, Slot, UserStages
<1>2. IInv /\ LockInv /\ RootRuns /\ [Next]_vars => RootRuns'
  BY StepRootRuns
<1>3. RootRuns => SomeRootfsBoots
  BY DEF RootRuns
<1>4. QED
  BY <1>1, <1>2, <1>3, Invariance, LockInvariance, PTL DEF Spec
=============================================================================
