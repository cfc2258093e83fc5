---------------------------- MODULE ABUpdateProofs ----------------------------
(***************************************************************************)
(* The trial of an update, from ota-apply to the commit, when updates wait *)
(* for the end of the init scripts (EarlyUpdates = FALSE): what is         *)
(* committed was tried, what was not tried runs on trial, and the writes   *)
(* of all the programs together implement the atomic protocol of ABUpdate. *)
(***************************************************************************)
EXTENDS BoardUpgradeProofs

-----------------------------------------------------------------------------
(* What the init scripts may rely on, whoever calls ota-apply *)

UpdatesWhenDone == \A p \in Appliers : apply[p].pc # "idle" => stage = "done"

\* The root that runs is the active slot until an update or a rollback changes it, and
\* the slots that the scripts have read are still right when they write them.
RunsActive ==
  /\ env.active_slot = "unset" /\ running \in Slot => running = "A"
  /\ stage = "hung" => running = EffectiveSlot
  /\ stage \in {"confirm", "services", "S99", "commit"} /\ running \in Slot => running = EffectiveSlot
  /\ stage \in {"S99", "commit"} => arg = EffectiveSlot
  /\ stage = "rollback" =>
       /\ running \in Slot /\ arg = Other(running)
       /\ IF step = 1 THEN running = EffectiveSlot ELSE env.active_slot = arg

ScriptInv == UpdatesWhenDone /\ RunsActive

\* One fw_setenv changes one variable.
LEMMA OneVariable ==
  ASSUME NEW w, env \in EnvType, FwSetenv(w)
  PROVE  /\ env'.active_slot = IF w.var = "active_slot" THEN w.val ELSE env.active_slot
         /\ env'.ota_pending = IF w.var = "ota_pending" THEN w.val ELSE env.ota_pending
         /\ env'.failover_done = IF w.var = "failover_done" THEN w.val ELSE env.failover_done
         /\ env'.bootcount = IF w.var = "bootcount" THEN w.val ELSE env.bootcount
BY DEF FwSetenv, EnvType

\* Before userland nobody applies an update.
LEMMA NobodyBefore ==
  ASSUME IInv, stage \notin UserStages
  PROVE  \A p \in Appliers : apply[p].pc = "idle"
BY DEF IInv, UserlandOnly, Idle

LEMMA InitScriptInv == Init => ScriptInv
BY DEF Init, ScriptInv, UpdatesWhenDone, RunsActive, Idle, Slot

\* U-Boot mounts the active slot.
LEMMA UBootScript ==
  ASSUME IInv, ScriptInv, UBoot
  PROVE  ScriptInv'
<1>1. stage \notin UserStages /\ UNCHANGED apply
  BY DEF UBoot, UBootStart, AltStay, AltSwitch, BootTf, BootNfs, UserStages
<1>2. UpdatesWhenDone'
  BY <1>1, NobodyBefore DEF UpdatesWhenDone
<1> env \in EnvType
  BY DEF IInv, TypeOK
<1>3. RunsActive'
  <2> USE DEF ScriptInv, RunsActive, Enter
  <2>1. CASE UBootStart
    <3>1. env'.active_slot = env.active_slot
      BY <2>1 DEF UBootStart, EnvType
    <3>2. QED
      BY <2>1, <3>1 DEF UBootStart
  <2>2. CASE AltStay
    <3>1. env'.active_slot = env.active_slot
      BY <2>2 DEF AltStay, EnvType
    <3>2. QED
      BY <2>2, <3>1 DEF AltStay
  <2>3. CASE AltSwitch
    <3>1. env'.active_slot \in Slot
      BY <2>3 DEF AltSwitch, SwitchedEnv, EnvType, Slot
    <3>2. QED
      BY <2>3, <3>1 DEF AltSwitch, Slot
  <2>4. CASE BootTf
    BY <2>4 DEF BootTf, EffectiveSlot
  <2>5. CASE BootNfs
    BY <2>5 DEF BootNfs, Slot
  <2>6. QED
    BY <2>1, <2>2, <2>3, <2>4, <2>5 DEF UBoot
<1>4. QED
  BY <1>2, <1>3 DEF ScriptInv

\* The slot a rollback goes back to is always the other one.
LEMMA RollbackSlotIsOther ==
  ASSUME env \in EnvType
  PROVE  RollbackSlot = Other(EffectiveSlot)
BY DEF RollbackSlot, EnvType, Slot, EffectiveSlot, Other

LEMMA InitScriptsScript ==
  ASSUME IInv, ScriptInv, InitScripts
  PROVE  ScriptInv'
<1> env \in EnvType /\ step \in 1 .. 7
  BY DEF IInv, TypeOK
<1>1. stage # "done" /\ UNCHANGED <<apply, running>>
  BY DEF InitScripts, ConfirmBoot, CommitReadActive, CommitNotNeeded, HealthCheckPasses,
         HealthCheckFails, CommitSlot, RollbackFailedSlot, ScriptStep
<1>2. UpdatesWhenDone'
  BY <1>1 DEF ScriptInv, UpdatesWhenDone
<1>3. RunsActive'
  <2> USE DEF ScriptInv, RunsActive
  <2>1. CASE ConfirmBoot
    <3>1. stage = "confirm" /\ stage' \in {"confirm", "services"} /\ step \in 1 .. 2 /\ FwSetenv(ConfirmWrites[step])
      BY <2>1 DEF ConfirmBoot, ScriptStep, Enter, IInv, StepInRange
    <3>2. env'.active_slot = env.active_slot
      BY <3>1, OneVariable DEF ConfirmWrites, Write
    <3>3. QED
      BY <1>1, <3>1, <3>2 DEF EffectiveSlot
  <2>2. CASE CommitReadActive
    BY <2>2 DEF CommitReadActive, Enter, EffectiveSlot
  <2>3. CASE CommitNotNeeded
    BY <2>3 DEF CommitNotNeeded, Enter
  <2>4. CASE HealthCheckPasses
    BY <2>4 DEF HealthCheckPasses, Enter, EffectiveSlot
  <2>5. CASE HealthCheckFails
    <3>1. running \in Slot /\ running = EffectiveSlot
      BY <2>5 DEF HealthCheckFails, Healthy
    <3>2. QED
      BY <2>5, <3>1, RollbackSlotIsOther DEF HealthCheckFails, Enter, EffectiveSlot
  <2>6. CASE CommitSlot
    <3>1. stage = "commit" /\ stage' \in {"commit", "done"} /\ FwSetenv(CommitWrites(arg)[step]) /\ arg' = arg
      BY <2>6 DEF CommitSlot, ScriptStep, Enter
    <3>2. env'.active_slot = env.active_slot
      BY <3>1, OneVariable DEF CommitWrites, Write
    <3>3. QED
      BY <1>1, <3>1, <3>2 DEF EffectiveSlot
  <2>7. CASE RollbackFailedSlot
    <3>1. /\ stage = "rollback" /\ FwSetenv(RollbackWrites(arg)[step]) /\ arg' = arg
          /\ (stage' = "rollback" /\ step' = step + 1) \/ stage' = "done"
      BY <2>7 DEF RollbackFailedSlot, ScriptStep, Enter
    <3>2. step \in 1 .. 6 /\ arg \in Slot
      BY <3>1 DEF IInv, StepInRange
    <3>3. env'.active_slot = IF step = 1 THEN arg ELSE env.active_slot
      BY <3>1, <3>2, OneVariable DEF RollbackWrites, Write
    <3>4. QED
      BY <1>1, <3>1, <3>2, <3>3 DEF Slot
  <2>8. QED
    BY <2>1, <2>2, <2>3, <2>4, <2>5, <2>6, <2>7 DEF InitScripts
<1>4. QED
  BY <1>2, <1>3 DEF ScriptInv

\* ota-apply runs when the scripts have ended, and what it writes to active_slot is a slot.
LEMMA ApplyScript ==
  ASSUME EarlyUpdates = FALSE, IInv, ScriptInv,
         NEW p \in Appliers, ApplyStart(p) \/ ApplyRuns(p) \/ ApplyDies(p)
  PROVE  ScriptInv'
<1> env \in EnvType /\ apply \in [Appliers -> ApplyType]
  BY DEF IInv, TypeOK
<1>1. stage = "done" /\ UNCHANGED <<stage, running>>
  <2>1. CASE ApplyStart(p)
    BY <2>1 DEF ApplyStart
  <2>2. CASE ApplyRuns(p) \/ ApplyDies(p)
    BY <2>2 DEF ApplyRuns, ApplyCheck, ApplySelectTarget, ApplySelectMode, SwuReject, SwuOpen, SwuRootfs,
                SwuBootOpen, SwuBoot, SwuFail, ApplyFwSetenv, AutoReboot, ApplyDies, ScriptInv, UpdatesWhenDone
  <2>3. QED
    BY <2>1, <2>2
<1>2. UpdatesWhenDone'
  BY <1>1 DEF UpdatesWhenDone
<1>3. env'.active_slot = env.active_slot \/ env'.active_slot = running \/ env'.active_slot \in Slot
  <2>1. CASE ApplyCheck(p)
    BY <2>1 DEF ApplyCheck, EnvType
  <2>2. CASE ApplyFwSetenv(p)
    <3> DEFINE w == ApplyWrites(apply[p].target)[apply[p].step]
    <3>1. FwSetenv(w) /\ apply[p].step \in 1 .. 4 /\ apply[p].target \in Slot
      BY <2>2 DEF ApplyFwSetenv, ApplyType, IInv, SlotsChosen
    <3>2. w.var = "active_slot" => w.val \in Slot
      BY <3>1 DEF ApplyWrites, Write
    <3>3. QED
      BY <3>1, <3>2, OneVariable
  <2>3. CASE ~ApplyCheck(p) /\ ~ApplyFwSetenv(p)
    BY <2>3 DEF ApplyStart, ApplyRuns, ApplySelectTarget, ApplySelectMode, SwuReject, SwuOpen, SwuRootfs,
                SwuBootOpen, SwuBoot, SwuFail, AutoReboot, ApplyDies
  <2>4. QED
    BY <2>1, <2>2, <2>3
<1>4. RunsActive'
  BY <1>1, <1>3 DEF ScriptInv, RunsActive, Slot
<1>5. QED
  BY <1>2, <1>4 DEF ScriptInv

LEMMA StepScriptInv ==
  ASSUME EarlyUpdates = FALSE, IInv, ScriptInv, [Next]_vars
  PROVE  ScriptInv'
<1>1. CASE UBoot
  BY <1>1, UBootScript
<1>2. CASE InitScripts
  BY <1>2, InitScriptsScript
<1>3. CASE Reset \/ PowerLoss \/ PowerLossTornEnv
  <2>1. stage' = "reset" /\ running' = "none" /\ apply' = [p \in Appliers |-> Idle]
    BY <1>3 DEF Reset, PowerLoss, PowerLossTornEnv, Down, Enter
  <2>2. QED
    BY <2>1 DEF ScriptInv, UpdatesWhenDone, RunsActive, Slot, Idle
<1>4. ASSUME NEW p \in Appliers, ApplyStart(p) \/ ApplyRuns(p) \/ ApplyDies(p)
      PROVE  ScriptInv'
  BY <1>4, ApplyScript
<1>5. CASE UNCHANGED vars
  BY <1>5 DEF vars, ScriptInv, UpdatesWhenDone, RunsActive, EffectiveSlot
<1>6. QED
  BY <1>1, <1>2, <1>3, <1>4, <1>5 DEF Next, Faults

LEMMA ScriptInvariance == ASSUME EarlyUpdates = FALSE PROVE Spec => []ScriptInv
<1>1. Init => ScriptInv
  BY InitScriptInv
<1>2. IInv /\ ScriptInv /\ [Next]_vars => ScriptInv'
  BY StepScriptInv
<1>3. QED
  BY <1>1, <1>2, Invariance, PTL DEF Spec

-----------------------------------------------------------------------------
(* A commit is of a slot that was tried *)

\* Without the NFS root, what runs is one of the slots.
OnCard == stage \in {"hung", "confirm"} \cup UserStages => running \in Slot

TriedInv == OnCard /\ CommitsTriedSlot

LEMMA StepTriedInv ==
  ASSUME EarlyUpdates = FALSE, NfsRoot = FALSE, IInv, ScriptInv, TriedInv, [Next]_vars
  PROVE  TriedInv'
<1> USE DEF TriedInv, OnCard, CommitsTriedSlot
<1>1. CASE UBootStart \/ AltStay \/ AltSwitch
  BY <1>1 DEF UBootStart, AltStay, AltSwitch, Enter, UserStages
<1>2. CASE BootTf
  BY <1>2 DEF BootTf, Enter, EffectiveSlot, Slot, UserStages
<1>3. CASE BootNfs
  BY <1>3 DEF BootNfs
<1>4. CASE HealthCheckPasses
  <2>1. stage = "S99" /\ stage' = "commit" /\ UNCHANGED <<running, arg>> /\ tried' = tried \cup ({running} \cap Slot)
    BY <1>4 DEF HealthCheckPasses, Enter
  <2>2. running \in Slot /\ arg = running
    BY <2>1 DEF ScriptInv, RunsActive, UserStages
  <2>3. QED
    BY <2>1, <2>2
<1>5. CASE ConfirmBoot \/ CommitReadActive \/ CommitNotNeeded \/ HealthCheckFails \/ CommitSlot \/ RollbackFailedSlot
  <2>1. stage \in {"confirm"} \cup UserStages /\ UNCHANGED <<running, tried>>
        /\ (stage' = "commit" => stage = "commit" /\ arg' = arg)
    BY <1>5 DEF ConfirmBoot, CommitReadActive, CommitNotNeeded, HealthCheckFails, CommitSlot,
                RollbackFailedSlot, ScriptStep, Enter, UserStages
  <2>2. QED
    BY <2>1
<1>6. CASE Reset \/ PowerLoss \/ PowerLossTornEnv
  BY <1>6 DEF Reset, PowerLoss, PowerLossTornEnv, Down, Enter, UserStages
<1>7. ASSUME NEW p \in Appliers, ApplyStart(p) \/ ApplyRuns(p) \/ ApplyDies(p)
      PROVE  TriedInv'
  <2>1. stage = "done" /\ UNCHANGED <<stage, running>>
    BY <1>7 DEF ApplyStart, ApplyRuns, ApplyCheck, ApplySelectTarget, ApplySelectMode, SwuReject, SwuOpen,
                SwuRootfs, SwuBootOpen, SwuBoot, SwuFail, ApplyFwSetenv, AutoReboot, ApplyDies,
                ScriptInv, UpdatesWhenDone
  <2>2. QED
    BY <2>1 DEF UserStages
<1>8. CASE UNCHANGED vars
  BY <1>8 DEF vars
<1>9. QED
  BY <1>1, <1>2, <1>3, <1>4, <1>5, <1>6, <1>7, <1>8 DEF Next, UBoot, InitScripts, Faults

LEMMA TriedInvariance == ASSUME EarlyUpdates = FALSE, NfsRoot = FALSE PROVE Spec => []TriedInv
<1>1. Init => TriedInv
  BY DEF Init, TriedInv, OnCard, CommitsTriedSlot, UserStages
<1>2. IInv /\ ScriptInv /\ TriedInv /\ [Next]_vars => TriedInv'
  BY StepTriedInv
<1>3. QED
  BY <1>1, <1>2, Invariance, ScriptInvariance, PTL DEF Spec

\* On a board that boots from its card and updates after S99, a slot is committed only
\* when its own image has passed the health check of board-upgrade-commit: for callers
\* with or without the lock, and whatever is killed, cut short or lost.
THEOREM CommitIsOfTriedSlot ==
  ASSUME EarlyUpdates = FALSE, NfsRoot = FALSE PROVE Spec => []CommitsTriedSlot
BY TriedInvariance, PTL DEF TriedInv

-----------------------------------------------------------------------------
(* What ota-apply has planned, when every caller takes the lock *)

\* State r of an ota-apply, when this slot is active and ota_pending has this value.
Plan(r, active, pending) ==
  /\ r.pc \notin {"fw", "reboot"} => r.step = 1
  /\ r.pc \in {"mode", "swupdate", "rootfs", "bootopen", "boot"} \/ (r.pc = "fw" /\ r.step = 1)
       => r.target = Other(active)
  /\ r.pc = "reboot" \/ (r.pc = "fw" /\ r.step > 2) => pending = 1

\* Once a reboot is due no ota-apply gets past its check: a trial is open, or the root
\* that runs has just been given up.
RebootDue ==
  rebootReq =>
    /\ stage = "done"
    /\ env.ota_pending = 1 \/ (running \in Slot /\ env.active_slot = Other(running))
    /\ \A p \in Appliers : apply[p].pc \in {"idle", "check"}

PlanInv == RebootDue /\ \A p \in Appliers : Plan(apply[p], EffectiveSlot, env.ota_pending)

\* Nothing is planned, and no reboot is due: before userland, and after a reset.
LEMMA NoPlan ==
  ASSUME apply' = [p \in Appliers |-> Idle], rebootReq' = FALSE
  PROVE  PlanInv'
BY DEF PlanInv, RebootDue, Plan, Idle

\* The scripts run without any ota-apply, and a rollback ends with a reboot that is due.
LEMMA InitScriptsPlan ==
  ASSUME IInv, ScriptInv, PlanInv, InitScripts
  PROVE  PlanInv'
<1>1. stage # "done" /\ UNCHANGED <<apply, running>> /\ ~rebootReq
  BY DEF InitScripts, ConfirmBoot, CommitReadActive, CommitNotNeeded, HealthCheckPasses,
         HealthCheckFails, CommitSlot, RollbackFailedSlot, ScriptStep, PlanInv, RebootDue
<1>2. \A p \in Appliers : apply[p].pc = "idle" /\ apply[p].step = 1
  BY <1>1 DEF ScriptInv, UpdatesWhenDone, PlanInv, Plan
<1>3. \A p \in Appliers : Plan(apply[p], EffectiveSlot, env.ota_pending)'
  BY <1>1, <1>2 DEF Plan
<1>4. RebootDue'
  <2>1. CASE ~rebootReq'
    BY <2>1 DEF RebootDue
  <2>2. CASE rebootReq'
    <3>1. stage = "rollback" /\ step = Len(RollbackWrites(arg)) /\ RollbackFailedSlot
      BY <1>1, <2>2 DEF InitScripts, ConfirmBoot, CommitReadActive, CommitNotNeeded, HealthCheckPasses,
                        HealthCheckFails, CommitSlot, RollbackFailedSlot, ScriptStep
    <3>2. step = 6 /\ arg \in Slot /\ env \in EnvType
      BY <3>1, RollbackWritesSafe DEF IInv, StepInRange, TypeOK
    <3>3. stage' = "done" /\ FwSetenv(RollbackWrites(arg)[6])
      BY <3>1, <3>2 DEF RollbackFailedSlot, ScriptStep, RollbackWrites, Enter
    <3>4. env'.active_slot = env.active_slot
      BY <3>2, <3>3, OneVariable DEF RollbackWrites, Write
    <3>5. running \in Slot /\ env.active_slot = Other(running)
      BY <3>1, <3>2 DEF ScriptInv, RunsActive
    <3>6. QED
      BY <1>1, <1>2, <3>3, <3>4, <3>5 DEF RebootDue
  <2>3. QED
    BY <2>1, <2>2
<1>5. QED
  BY <1>3, <1>4 DEF PlanInv

\* One step of the ota-apply that holds the lock, from plan to plan.
LEMMA OwnerPlans ==
  ASSUME IInv, NEW p \in Appliers, \A q \in Appliers : apply[q].pc # "idle" => q = p,
         PlanInv, NEW r, apply' = [apply EXCEPT ![p] = r], Plan(r, EffectiveSlot', env'.ota_pending), RebootDue'
  PROVE  PlanInv'
<1>1. apply \in [Appliers -> ApplyType]
  BY DEF IInv, TypeOK
<1>2. ASSUME NEW q \in Appliers PROVE Plan(apply[q], EffectiveSlot, env.ota_pending)'
  <2>1. CASE q = p
    BY <1>1, <2>1 DEF Plan
  <2>2. CASE q # p
    <3>1. apply'[q] = apply[q] /\ apply[q].pc = "idle" /\ apply[q].step = 1
      BY <1>1, <2>2 DEF PlanInv, Plan
    <3>2. QED
      BY <3>1 DEF Plan
  <2>3. QED
    BY <2>1, <2>2
<1>3. QED
  BY <1>2 DEF PlanInv

\* The check leaves the active slot and the trial as they are, and refuses once a reboot
\* is due.
LEMMA CheckKeeps ==
  ASSUME IInv, LockInv, ScriptInv, PlanInv, NEW p \in Appliers, ApplyCheck(p)
  PROVE  /\ EffectiveSlot' = EffectiveSlot
         /\ env' = [env EXCEPT !.active_slot = env'.active_slot]
         /\ env.active_slot # "unset" => env'.active_slot = env.active_slot
         /\ rebootReq => Refused(p)
<1>1. env \in EnvType /\ apply[p].pc = "check" /\ apply[p] \in ApplyType
  BY DEF IInv, TypeOK, ApplyCheck
<1>2. env.active_slot = "unset" /\ running \in Slot => running = "A"
  BY DEF ScriptInv, RunsActive
<1>3. EffectiveSlot' = EffectiveSlot
  BY <1>1, <1>2 DEF ApplyCheck, EffectiveSlot, EnvType
<1>4. ASSUME rebootReq PROVE Refused(p)
  <2>1. env.ota_pending = 1 => apply[p].pending = 1
    BY <1>1 DEF LockInv, ApplyOK, RelyOnNoTrial, ApplyType
  <2>2. running \in Slot /\ env.active_slot = Other(running) => running # CheckedActive
    BY DEF CheckedActive, EffectiveSlot, Other, Slot
  <2>3. QED
    BY <1>4, <2>1, <2>2 DEF PlanInv, RebootDue, Refused
<1>5. QED
  BY <1>1, <1>3, <1>4 DEF ApplyCheck, EnvType

\* ota-apply under the lock, from the check to the reboot it asks for.
LEMMA ApplyPlan ==
  ASSUME Direct = {}, EarlyUpdates = FALSE, IInv, LockInv, ScriptInv, PlanInv,
         NEW p \in Appliers, ApplyStart(p) \/ ApplyRuns(p) \/ ApplyDies(p)
  PROVE  PlanInv'
<1> DEFINE old == apply[p]
<1> apply \in [Appliers -> ApplyType] /\ old \in ApplyType /\ env \in EnvType
    /\ Plan(old, EffectiveSlot, env.ota_pending) /\ RebootDue
  BY DEF IInv, TypeOK, PlanInv
<1>1. UNCHANGED <<stage, running>> /\ stage = "done"
  <2>1. CASE ApplyStart(p)
    BY <2>1 DEF ApplyStart
  <2>2. CASE ApplyRuns(p) \/ ApplyDies(p)
    BY <2>2 DEF ApplyRuns, ApplyCheck, ApplySelectTarget, ApplySelectMode, SwuReject, SwuOpen, SwuRootfs,
                SwuBootOpen, SwuBoot, SwuFail, ApplyFwSetenv, AutoReboot, ApplyDies, ScriptInv, UpdatesWhenDone
  <2>3. QED
    BY <2>1, <2>2
<1>2. \A q \in Appliers : apply[q].pc # "idle" => q = p
  <2>1. CASE ApplyStart(p)
    BY <2>1 DEF ApplyStart, LockFree, Appliers
  <2>2. CASE ApplyRuns(p) \/ ApplyDies(p)
    <3>1. old.pc # "idle"
      BY <2>2 DEF ApplyRuns, ApplyCheck, ApplySelectTarget, ApplySelectMode, SwuReject, SwuOpen,
                  SwuRootfs, SwuBootOpen, SwuBoot, SwuFail, ApplyFwSetenv, AutoReboot, ApplyDies
    <3>2. QED
      BY <3>1 DEF LockInv, Mutex
  <2>3. QED
    BY <2>1, <2>2
<1>3. CASE ApplyStart(p)
  <2> DEFINE r == [Idle EXCEPT !.pc = "check", !.pending = env.ota_pending]
  <2>1. apply' = [apply EXCEPT ![p] = r] /\ UNCHANGED <<env, rebootReq>>
    BY <1>3 DEF ApplyStart
  <2>2. r.pc = "check" /\ r.step = 1
    BY DEF Idle
  <2>3. Plan(r, EffectiveSlot', env'.ota_pending) /\ RebootDue'
    BY <1>1, <2>1, <2>2 DEF Plan, RebootDue
  <2>4. QED
    BY <1>2, <2>1, <2>3, OwnerPlans
<1>4. CASE ApplyCheck(p)
  <2> DEFINE r == IF Refused(p) THEN Idle ELSE [old EXCEPT !.pc = "target"]
  <2>1. apply' = [apply EXCEPT ![p] = r] /\ UNCHANGED rebootReq /\ old.pc = "check"
    BY <1>4 DEF ApplyCheck
  <2>2. r.pc \in {"idle", "target"} /\ r.step = 1 /\ (Refused(p) => r.pc = "idle")
    BY <2>1 DEF Idle, ApplyType, Plan
  <2>3. Plan(r, EffectiveSlot', env'.ota_pending)
    BY <2>2 DEF Plan
  <2>4. RebootDue'
    BY <1>1, <1>4, <2>1, <2>2, CheckKeeps DEF RebootDue, EnvType, Other, Slot
  <2>5. QED
    BY <1>2, <2>1, <2>3, <2>4, OwnerPlans
<1>5. CASE ApplySelectTarget(p)
  <2> DEFINE r == [old EXCEPT !.pc = "mode", !.target = Other(EffectiveSlot)]
  <2>1. apply' = [apply EXCEPT ![p] = r] /\ UNCHANGED <<env, rebootReq>> /\ old.pc = "target"
    BY <1>5 DEF ApplySelectTarget
  <2>2. r.pc = "mode" /\ r.target = Other(EffectiveSlot) /\ r.step = 1 /\ ~rebootReq
    BY <2>1 DEF ApplyType, Plan, RebootDue
  <2>3. Plan(r, EffectiveSlot', env'.ota_pending) /\ RebootDue'
    BY <2>1, <2>2 DEF Plan, RebootDue, EffectiveSlot
  <2>4. QED
    BY <1>2, <2>1, <2>3, OwnerPlans
<1>6. CASE SwuReject(p) \/ SwuFail(p) \/ ApplyDies(p)
  <2>1. apply' = [apply EXCEPT ![p] = Idle] /\ UNCHANGED <<env, rebootReq>>
    BY <1>6 DEF SwuReject, SwuFail, ApplyDies
  <2>2. Plan(Idle, EffectiveSlot', env'.ota_pending) /\ RebootDue'
    BY <1>1, <2>1 DEF Plan, Idle, RebootDue
  <2>3. QED
    BY <1>2, <2>1, <2>2, OwnerPlans
<1>7. CASE AutoReboot(p)
  <2>1. apply' = [apply EXCEPT ![p] = Idle] /\ UNCHANGED env /\ old.pc = "reboot"
    BY <1>7 DEF AutoReboot
  <2>2. Plan(Idle, EffectiveSlot', env'.ota_pending)
    BY DEF Plan, Idle
  <2>3. \A q \in Appliers : apply'[q].pc = "idle"
    BY <1>2, <2>1 DEF Idle
  <2>4. RebootDue'
    BY <1>1, <2>1, <2>3 DEF Plan, RebootDue
  <2>5. QED
    BY <1>2, <2>1, <2>2, <2>4, OwnerPlans
<1>8. ASSUME NEW r, apply' = [apply EXCEPT ![p] = r], UNCHANGED <<env, rebootReq>>,
             old.pc \in {"mode", "swupdate", "rootfs", "bootopen", "boot"},
             r.pc \in {"swupdate", "rootfs", "bootopen", "boot", "fw"},
             r.target = old.target, r.step = old.step
      PROVE  PlanInv'
  <2>1. Plan(r, EffectiveSlot', env'.ota_pending) /\ RebootDue'
    BY <1>8 DEF Plan, RebootDue, EffectiveSlot
  <2>2. QED
    BY <1>2, <1>8, <2>1, OwnerPlans
<1>9. CASE ApplySelectMode(p)
  <2> DEFINE r == [old EXCEPT !.pc = "swupdate", !.mode = Other(EffectiveSlot)]
  <2>1. apply' = [apply EXCEPT ![p] = r] /\ UNCHANGED <<env, rebootReq>> /\ old.pc = "mode"
    BY <1>9 DEF ApplySelectMode
  <2>2. r.pc = "swupdate" /\ r.target = old.target /\ r.step = old.step
    BY DEF ApplyType
  <2>3. QED
    BY <1>8, <2>1, <2>2
<1>10. CASE SwuOpen(p)
  <2>1. PICK pkg \in Packages : apply' = [apply EXCEPT ![p] = [old EXCEPT !.pc = "rootfs", !.pkg = pkg]]
    BY <1>10 DEF SwuOpen
  <2> DEFINE r == [old EXCEPT !.pc = "rootfs", !.pkg = pkg]
  <2>2. UNCHANGED <<env, rebootReq>> /\ old.pc = "swupdate"
    BY <1>10 DEF SwuOpen
  <2>3. r.pc = "rootfs" /\ r.target = old.target /\ r.step = old.step
    BY DEF ApplyType
  <2>4. QED
    BY <1>8, <2>1, <2>2, <2>3
<1>11. CASE SwuRootfs(p)
  <2> DEFINE r == [old EXCEPT !.pc = "bootopen"]
  <2>1. apply' = [apply EXCEPT ![p] = r] /\ UNCHANGED <<env, rebootReq>> /\ old.pc = "rootfs"
    BY <1>11 DEF SwuRootfs
  <2>2. r.pc = "bootopen" /\ r.target = old.target /\ r.step = old.step
    BY DEF ApplyType
  <2>3. QED
    BY <1>8, <2>1, <2>2
<1>12. CASE SwuBootOpen(p)
  <2> DEFINE r == [old EXCEPT !.pc = "boot"]
  <2>1. apply' = [apply EXCEPT ![p] = r] /\ UNCHANGED <<env, rebootReq>> /\ old.pc = "bootopen"
    BY <1>12 DEF SwuBootOpen
  <2>2. r.pc = "boot" /\ r.target = old.target /\ r.step = old.step
    BY DEF ApplyType
  <2>3. QED
    BY <1>8, <2>1, <2>2
<1>13. CASE SwuBoot(p)
  <2> DEFINE r == [old EXCEPT !.pc = "fw"]
  <2>1. apply' = [apply EXCEPT ![p] = r] /\ UNCHANGED <<env, rebootReq>> /\ old.pc = "boot"
    BY <1>13 DEF SwuBoot
  <2>2. r.pc = "fw" /\ r.target = old.target /\ r.step = old.step
    BY DEF ApplyType
  <2>3. QED
    BY <1>8, <2>1, <2>2
<1>14. CASE ApplyFwSetenv(p)
  <2> DEFINE k == old.step
             w == ApplyWrites(old.target)[k]
             r == IF k < 4 THEN [old EXCEPT !.step = k + 1] ELSE [old EXCEPT !.pc = "reboot"]
  <2>1. /\ k \in 1 .. 4 /\ old.pc = "fw" /\ UNCHANGED rebootReq
        /\ FwSetenv(w) /\ apply' = [apply EXCEPT ![p] = r]
    BY <1>14 DEF ApplyFwSetenv, ApplyWrites, ApplyType
  <2>2. env'.ota_pending = IF k = 2 THEN 1 ELSE env.ota_pending
    BY <2>1, OneVariable DEF ApplyWrites, Write
  <2>3. (r.pc = "fw" /\ r.step \in 2 .. 4 /\ r.step = k + 1) \/ (r.pc = "reboot" /\ k = 4)
    BY <2>1 DEF ApplyType
  <2>4. Plan(r, EffectiveSlot', env'.ota_pending)
    BY <2>1, <2>2, <2>3 DEF Plan
  <2>5. RebootDue'
    BY <2>1 DEF RebootDue
  <2>6. QED
    BY <1>2, <2>1, <2>4, <2>5, OwnerPlans
<1>15. QED
  BY <1>3, <1>4, <1>5, <1>6, <1>7, <1>9, <1>10, <1>11, <1>12, <1>13, <1>14 DEF ApplyRuns

LEMMA StepPlanInv ==
  ASSUME Direct = {}, EarlyUpdates = FALSE, IInv, LockInv, ScriptInv, PlanInv, [Next]_vars
  PROVE  PlanInv'
<1>1. CASE UBoot
  <2>1. stage \notin UserStages /\ UNCHANGED <<apply, rebootReq>>
    BY <1>1 DEF UBoot, UBootStart, AltStay, AltSwitch, BootTf, BootNfs, UserStages
  <2>2. \A p \in Appliers : apply[p].pc = "idle"
    BY <2>1, NobodyBefore
  <2>3. ~rebootReq
    BY <2>1 DEF PlanInv, RebootDue, UserStages
  <2>4. QED
    BY <2>1, <2>2, <2>3 DEF PlanInv, Plan, RebootDue
<1>2. CASE InitScripts
  BY <1>2, InitScriptsPlan
<1>3. CASE Reset \/ PowerLoss \/ PowerLossTornEnv
  BY <1>3, NoPlan DEF Reset, PowerLoss, PowerLossTornEnv, Down
<1>4. ASSUME NEW p \in Appliers, ApplyStart(p) \/ ApplyRuns(p) \/ ApplyDies(p)
      PROVE  PlanInv'
  BY <1>4, ApplyPlan
<1>5. CASE UNCHANGED vars
  BY <1>5 DEF vars, PlanInv, Plan, RebootDue, EffectiveSlot
<1>6. QED
  BY <1>1, <1>2, <1>3, <1>4, <1>5 DEF Next, Faults

LEMMA PlanInvariance ==
  ASSUME Direct = {}, EarlyUpdates = FALSE PROVE Spec => []PlanInv
<1>1. Init => PlanInv
  BY DEF Init, PlanInv, Plan, RebootDue, Idle
<1>2. IInv /\ LockInv /\ ScriptInv /\ PlanInv /\ [Next]_vars => PlanInv'
  BY StepPlanInv
<1>3. QED
  BY <1>1, <1>2, Invariance, LockInvariance, ScriptInvariance, PTL DEF Spec

-----------------------------------------------------------------------------
(* U-Boot, the scripts and ota-apply implement ABUpdate *)

\* The values the mapping gives the variables of ABUpdate.
ABSlotNow   == IF InstallOpen \/ RevertOpen THEN Other(EffectiveSlot) ELSE EffectiveSlot
ABTrialNow  == env.ota_pending = 1
ABCreditNow == CommitOpen \/ (env.failover_done = 0 /\ ~RevertTail)

ABStep == [AB!ABNext]_(AB!abVars)

LEMMA Mapped == ABSlotNow \in AB!ABSlot /\ ABTrialNow \in BOOLEAN /\ ABCreditNow \in BOOLEAN
BY DEF ABSlotNow, ABTrialNow, ABCreditNow, EffectiveSlot, Other, AB!ABSlot

\* A step that the abstract protocol does not see.
LEMMA Unseen ==
  ASSUME UNCHANGED <<ABSlotNow, ABTrialNow, ABCreditNow, faults>>
  PROVE  ABStep
BY DEF ABStep, ABSlotNow, ABTrialNow, ABCreditNow, AB!abVars

\* A fault that leaves the mark of the trial alone.
LEMMA FaultCuts ==
  ASSUME Fault, UNCHANGED ABTrialNow
  PROVE  ABStep
<1>1. ABSlotNow' \in AB!ABSlot /\ ABCreditNow' \in BOOLEAN
  BY DEF ABSlotNow, ABCreditNow, EffectiveSlot, Other, AB!ABSlot
<1>2. AB!Cut
  BY <1>1 DEF AB!Cut, Fault, ABSlotNow, ABTrialNow, ABCreditNow
<1>3. QED
  BY <1>2 DEF ABStep, AB!ABNext

\* No ota-apply is past its first write: no installation is open.
LEMMA NoInstallOpen ==
  ASSUME \A p \in Appliers : apply[p].pc # "fw"
  PROVE  ~InstallOpen
BY DEF InstallOpen

LEMMA InitMapped == Init => AB!ABInit
BY DEF Init, AB!ABInit, InstallOpen, RevertOpen, CommitOpen, RevertTail, Idle, DefaultEnv, EffectiveSlot

\* The automatic switch of altbootcmd is the only step of U-Boot that is seen.
LEMMA UBootMapped ==
  ASSUME IInv, UBoot
  PROVE  ABStep
<1>1. /\ stage \notin UserStages /\ stage' \in {"alt", "bootcmd", "hung", "confirm"}
      /\ UNCHANGED <<apply, faults>> /\ env \in EnvType
  BY DEF UBoot, UBootStart, AltStay, AltSwitch, BootTf, BootNfs, UserStages, Enter, IInv, TypeOK
<1>2. ~InstallOpen /\ ~InstallOpen'
  BY <1>1, NobodyBefore DEF InstallOpen
<1>3. ~RevertOpen /\ ~CommitOpen /\ ~RevertTail /\ ~RevertOpen' /\ ~CommitOpen' /\ ~RevertTail'
  BY <1>1 DEF RevertOpen, CommitOpen, RevertTail, UserStages
<1>4. CASE AltSwitch
  <2>1. /\ env.failover_done = 0 /\ EffectiveSlot' = Other(EffectiveSlot)
        /\ env'.ota_pending = 0 /\ env'.failover_done = 1
    BY <1>1, <1>4 DEF AltSwitch, SwitchedEnv, EnvType, EffectiveSlot, Other
  <2>2. AB!Failover
    BY <1>1, <1>2, <1>3, <2>1 DEF AB!Failover, AB!Flip, Other
  <2>3. QED
    BY <2>2 DEF ABStep, AB!ABNext
<1>5. CASE ~AltSwitch
  <2>1. /\ env'.active_slot = env.active_slot /\ env'.ota_pending = env.ota_pending
        /\ env'.failover_done = env.failover_done
    BY <1>1, <1>5 DEF UBoot, UBootStart, AltStay, BootTf, BootNfs, EnvType
  <2>2. QED
    BY <1>1, <1>2, <1>3, <2>1, Unseen DEF ABSlotNow, ABTrialNow, ABCreditNow, EffectiveSlot
<1>6. QED
  BY <1>4, <1>5

\* The second write of a commit is the commit, the second one of a rollback the revert;
\* the writes before and after it are unseen.
LEMMA CommitMapped ==
  ASSUME IInv, LockInv, ScriptInv, CommitSlot
  PROVE  ABStep
<1> DEFINE w == CommitWrites(arg)[step]
<1>1. /\ stage = "commit" /\ FwSetenv(w) /\ UNCHANGED <<apply, faults>>
      /\ env \in EnvType /\ step \in 1 .. 7
      /\ IF step < 7 THEN stage' = "commit" /\ step' = step + 1 ELSE stage' = "done"
  BY DEF CommitSlot, ScriptStep, CommitWrites, Enter, IInv, TypeOK
<1>2. /\ env'.active_slot = env.active_slot
      /\ env'.ota_pending = IF step = 2 THEN 0 ELSE env.ota_pending
      /\ env'.failover_done = IF step = 4 THEN 0 ELSE env.failover_done
  BY <1>1, OneVariable DEF CommitWrites, Write
<1>3. ~InstallOpen /\ ~InstallOpen'
  BY <1>1 DEF InstallOpen, ScriptInv, UpdatesWhenDone
<1>4. ~RevertOpen /\ ~RevertOpen' /\ ~RevertTail /\ ~RevertTail' /\ UNCHANGED EffectiveSlot
  BY <1>1, <1>2 DEF RevertOpen, RevertTail, EffectiveSlot
<1>5. CASE step = 2
  <2>1. env.ota_pending = 1
    BY <1>1, <1>5 DEF LockInv, TrialOpen
  <2>2. AB!Commit
    BY <1>1, <1>2, <1>3, <1>4, <1>5, <2>1 DEF AB!Commit, CommitOpen
  <2>3. QED
    BY <2>2 DEF ABStep, AB!ABNext
<1>6. CASE step # 2
  <2>1. UNCHANGED ABCreditNow
    BY <1>1, <1>2, <1>4, <1>6 DEF ABCreditNow, CommitOpen
  <2>2. QED
    BY <1>1, <1>2, <1>3, <1>4, <1>6, <2>1, Unseen DEF ABSlotNow, ABTrialNow
<1>7. QED
  BY <1>5, <1>6

LEMMA RollbackMapped ==
  ASSUME IInv, LockInv, ScriptInv, RollbackFailedSlot
  PROVE  ABStep
<1> DEFINE w == RollbackWrites(arg)[step]
<1>1. /\ stage = "rollback" /\ FwSetenv(w) /\ UNCHANGED <<apply, faults>>
      /\ env \in EnvType /\ step \in 1 .. 6
      /\ IF step < 6 THEN stage' = "rollback" /\ step' = step + 1 ELSE stage' = "done"
  BY DEF RollbackFailedSlot, ScriptStep, RollbackWrites, Enter, IInv, TypeOK, StepInRange
<1>2. /\ env'.active_slot = IF step = 1 THEN arg ELSE env.active_slot
      /\ env'.ota_pending = IF step = 2 THEN 0 ELSE env.ota_pending
      /\ env'.failover_done = IF step = 5 THEN 1 ELSE env.failover_done
  BY <1>1, OneVariable DEF RollbackWrites, Write
<1>3. ~InstallOpen /\ ~InstallOpen' /\ ~CommitOpen /\ ~CommitOpen'
  BY <1>1 DEF InstallOpen, CommitOpen, ScriptInv, UpdatesWhenDone
<1>4. (step = 1 => EffectiveSlot' = Other(EffectiveSlot)) /\ (step # 1 => EffectiveSlot' = EffectiveSlot)
  BY <1>1, <1>2 DEF ScriptInv, RunsActive, EffectiveSlot, Other, Slot
<1>5. CASE step = 2
  <2>1. env.ota_pending = 1
    BY <1>1, <1>5 DEF LockInv, TrialOpen
  <2>2. RevertOpen /\ ~RevertOpen' /\ RevertTail'
    BY <1>1, <1>5 DEF RevertOpen, RevertTail
  <2>3. AB!Revert
    BY <1>1, <1>2, <1>3, <1>4, <1>5, <2>1, <2>2 DEF AB!Revert, AB!Flip, Other, EffectiveSlot
  <2>4. QED
    BY <2>3 DEF ABStep, AB!ABNext
<1>6. CASE step # 2
  <2>1. UNCHANGED ABSlotNow
    BY <1>1, <1>3, <1>4, <1>6 DEF ABSlotNow, RevertOpen, EffectiveSlot, Other
  <2>2. UNCHANGED ABCreditNow
    BY <1>1, <1>2, <1>3, <1>6 DEF ABCreditNow, RevertTail
  <2>3. QED
    BY <1>1, <1>2, <1>6, <2>1, <2>2, Unseen DEF ABTrialNow
<1>7. QED
  BY <1>5, <1>6

LEMMA InitScriptsMapped ==
  ASSUME IInv, LockInv, ScriptInv, InitScripts
  PROVE  ABStep
<1> env \in EnvType
  BY DEF IInv, TypeOK
<1>1. CASE CommitSlot
  BY <1>1, CommitMapped
<1>2. CASE RollbackFailedSlot
  BY <1>2, RollbackMapped
<1>3. CASE ConfirmBoot \/ CommitReadActive \/ CommitNotNeeded \/ HealthCheckPasses \/ HealthCheckFails
  <2>1. /\ stage \in {"confirm", "services", "S99"} /\ (stage' \in {"commit", "rollback"} => step' = 1)
        /\ UNCHANGED <<apply, faults>>
    BY <1>3 DEF ConfirmBoot, CommitReadActive, CommitNotNeeded, HealthCheckPasses, HealthCheckFails, ScriptStep, Enter
  <2>2. /\ env'.active_slot = env.active_slot /\ env'.ota_pending = env.ota_pending
        /\ env'.failover_done = env.failover_done
    <3>1. CASE ConfirmBoot
      <4>1. step \in 1 .. 2 /\ FwSetenv(ConfirmWrites[step])
        BY <3>1 DEF ConfirmBoot, ScriptStep, IInv, StepInRange
      <4>2. QED
        BY <4>1, OneVariable DEF ConfirmWrites, Write
    <3>2. CASE ~ConfirmBoot
      BY <1>3, <3>2 DEF CommitReadActive, CommitNotNeeded, HealthCheckPasses, HealthCheckFails
    <3>3. QED
      BY <3>1, <3>2
  <2>3. UNCHANGED InstallOpen
    BY <2>1 DEF InstallOpen
  <2>4. ~RevertOpen /\ ~CommitOpen /\ ~RevertTail /\ ~RevertOpen' /\ ~CommitOpen' /\ ~RevertTail'
    BY <2>1 DEF RevertOpen, CommitOpen, RevertTail
  <2>5. QED
    BY <2>1, <2>2, <2>3, <2>4, Unseen DEF ABSlotNow, ABTrialNow, ABCreditNow, EffectiveSlot
<1>4. QED
  BY <1>1, <1>2, <1>3 DEF InitScripts

\* The second write of ota-apply is the installation.
LEMMA ApplyFwMapped ==
  ASSUME IInv, LockInv, PlanInv, stage = "done",
         NEW p \in Appliers, \A q \in Appliers : apply[q].pc # "idle" => q = p, ApplyFwSetenv(p)
  PROVE  ABStep
<1> DEFINE old == apply[p]
           k   == old.step
           w   == ApplyWrites(old.target)[k]
<1>1. /\ apply \in [Appliers -> ApplyType] /\ old \in ApplyType /\ env \in EnvType
      /\ old.pc = "fw" /\ k \in 1 .. 4 /\ FwSetenv(w) /\ UNCHANGED <<stage, faults>>
  BY DEF IInv, TypeOK, ApplyFwSetenv, ApplyType
<1>2. apply' = [apply EXCEPT ![p] = IF k < 4 THEN [old EXCEPT !.step = k + 1] ELSE [old EXCEPT !.pc = "reboot"]]
  BY DEF ApplyFwSetenv, ApplyWrites
<1>3. (InstallOpen <=> k = 2) /\ (InstallOpen' <=> k = 1)
  <2>1. InstallOpen <=> k = 2
    BY <1>1 DEF InstallOpen
  <2>2. CASE k < 4
    <3>1. apply'[p].pc = "fw" /\ apply'[p].step = k + 1 /\ \A q \in Appliers : q # p => apply'[q].pc = "idle"
      BY <1>1, <1>2, <2>2 DEF ApplyType
    <3>2. QED
      BY <1>1, <2>1, <3>1 DEF InstallOpen
  <2>3. CASE k = 4
    <3>1. apply'[p].pc = "reboot" /\ \A q \in Appliers : q # p => apply'[q].pc = "idle"
      BY <1>1, <1>2, <2>3 DEF ApplyType
    <3>2. QED
      BY <2>1, <2>3, <3>1 DEF InstallOpen
  <2>4. QED
    BY <1>1, <2>1, <2>2, <2>3
<1>4. ~RevertOpen /\ ~CommitOpen /\ ~RevertTail /\ ~RevertOpen' /\ ~CommitOpen' /\ ~RevertTail'
  BY <1>1 DEF RevertOpen, CommitOpen, RevertTail
<1>5. /\ env'.active_slot = IF k = 1 THEN old.target ELSE env.active_slot
      /\ env'.ota_pending = IF k = 2 THEN 1 ELSE env.ota_pending
      /\ env'.failover_done = env.failover_done
  BY <1>1, OneVariable DEF ApplyWrites, Write
<1>6. CASE k = 1
  <2>1. old.target = Other(EffectiveSlot)
    BY <1>1, <1>6 DEF PlanInv, Plan
  <2>2. UNCHANGED ABSlotNow
    BY <1>3, <1>4, <1>5, <1>6, <2>1 DEF ABSlotNow, EffectiveSlot, Other
  <2>3. QED
    BY <1>1, <1>4, <1>5, <1>6, <2>2, Unseen DEF ABTrialNow, ABCreditNow
<1>7. CASE k = 2
  <2>1. env.ota_pending = 0
    BY <1>1, <1>7 DEF LockInv, ApplyOK, RelyOnNoTrial
  <2>2. EffectiveSlot' = EffectiveSlot
    BY <1>5, <1>7 DEF EffectiveSlot
  <2>3. AB!Install
    BY <1>1, <1>3, <1>4, <1>5, <1>7, <2>1, <2>2 DEF AB!Install, AB!Flip, Other, EffectiveSlot
  <2>4. QED
    BY <2>3 DEF ABStep, AB!ABNext
<1>8. CASE k \in 3 .. 4
  BY <1>1, <1>3, <1>4, <1>5, <1>8, Unseen DEF ABSlotNow, ABTrialNow, ABCreditNow, EffectiveSlot
<1>9. QED
  BY <1>1, <1>6, <1>7, <1>8

\* Every other step of ota-apply is unseen.
LEMMA ApplyMapped ==
  ASSUME Direct = {}, EarlyUpdates = FALSE, IInv, LockInv, ScriptInv, PlanInv,
         NEW p \in Appliers, ApplyStart(p) \/ ApplyRuns(p)
  PROVE  ABStep
<1> DEFINE old == apply[p]
<1>1. apply \in [Appliers -> ApplyType] /\ old \in ApplyType /\ env \in EnvType
  BY DEF IInv, TypeOK
<1>2. stage = "done" /\ \A q \in Appliers : apply[q].pc # "idle" => q = p
  <2>1. CASE ApplyStart(p)
    BY <2>1 DEF ApplyStart, LockFree, Appliers
  <2>2. CASE ApplyRuns(p)
    <3>1. old.pc # "idle"
      BY <2>2 DEF ApplyRuns, ApplyCheck, ApplySelectTarget, ApplySelectMode, SwuReject, SwuOpen,
                  SwuRootfs, SwuBootOpen, SwuBoot, SwuFail, ApplyFwSetenv, AutoReboot
    <3>2. QED
      BY <3>1 DEF LockInv, Mutex, ScriptInv, UpdatesWhenDone
  <2>3. QED
    BY <2>1, <2>2
<1>3. CASE ApplyFwSetenv(p)
  BY <1>2, <1>3, ApplyFwMapped
<1>4. CASE ~ApplyFwSetenv(p)
  <2>1. /\ UNCHANGED <<stage, faults, EffectiveSlot>> /\ env'.ota_pending = env.ota_pending
        /\ env'.failover_done = env.failover_done
    <3>1. CASE ApplyCheck(p)
      <4>1. env' = [env EXCEPT !.active_slot = env'.active_slot] /\ UNCHANGED EffectiveSlot
        BY <3>1, CheckKeeps
      <4>2. QED
        BY <1>1, <3>1, <4>1 DEF ApplyCheck, EnvType
    <3>2. CASE ~ApplyCheck(p)
      BY <1>4, <3>2 DEF ApplyStart, ApplyRuns, ApplySelectTarget, ApplySelectMode, SwuReject, SwuOpen,
                        SwuRootfs, SwuBootOpen, SwuBoot, SwuFail, AutoReboot, EffectiveSlot
    <3>3. QED
      BY <3>1, <3>2
  <2>2. ~InstallOpen
    <3>1. old.pc # "fw"
      BY <1>4 DEF ApplyStart, ApplyRuns, ApplyCheck, ApplySelectTarget, ApplySelectMode, SwuReject, SwuOpen,
                  SwuRootfs, SwuBootOpen, SwuBoot, SwuFail, AutoReboot
    <3>2. QED
      BY <1>2, <3>1 DEF InstallOpen
  <2>3. ~InstallOpen'
    <3>1. apply'[p].pc = "fw" => apply'[p].step = 1
      <4>1. CASE SwuBoot(p)
        BY <1>1, <4>1 DEF SwuBoot, PlanInv, Plan, ApplyType
      <4>2. CASE SwuOpen(p)
        BY <1>1, <4>2 DEF SwuOpen, ApplyType
      <4>3. CASE ApplyStart(p) \/ ApplyCheck(p) \/ SwuReject(p) \/ SwuFail(p) \/ AutoReboot(p)
        <5>1. apply'[p].pc \in {"idle", "check", "target"}
          <6>1. CASE ApplyStart(p)
            BY <1>1, <6>1 DEF ApplyStart, Idle
          <6>2. CASE ApplyCheck(p)
            BY <1>1, <6>2 DEF ApplyCheck, Idle, ApplyType
          <6>3. CASE SwuReject(p) \/ SwuFail(p) \/ AutoReboot(p)
            BY <1>1, <6>3 DEF SwuReject, SwuFail, AutoReboot, Idle
          <6>4. QED
            BY <4>3, <6>1, <6>2, <6>3
        <5>2. QED
          BY <5>1
      <4>4. CASE ApplySelectTarget(p) \/ ApplySelectMode(p) \/ SwuRootfs(p) \/ SwuBootOpen(p)
        BY <1>1, <4>4 DEF ApplySelectTarget, ApplySelectMode, SwuRootfs, SwuBootOpen, ApplyType
      <4>5. QED
        BY <1>4, <4>1, <4>2, <4>3, <4>4 DEF ApplyRuns
    <3>2. \A q \in Appliers : q # p => apply'[q].pc = "idle"
      BY <1>1, <1>2, <1>4 DEF ApplyRuns, ApplyStart, ApplyCheck, ApplySelectTarget, ApplySelectMode, SwuReject,
                              SwuOpen, SwuRootfs, SwuBootOpen, SwuBoot, SwuFail, AutoReboot
    <3>3. QED
      BY <3>1, <3>2 DEF InstallOpen
  <2>4. ~RevertOpen /\ ~CommitOpen /\ ~RevertTail /\ ~RevertOpen' /\ ~CommitOpen' /\ ~RevertTail'
    BY <1>2, <2>1 DEF RevertOpen, CommitOpen, RevertTail
  <2>5. QED
    BY <2>1, <2>2, <2>3, <2>4, Unseen DEF ABSlotNow, ABTrialNow, ABCreditNow
<1>5. QED
  BY <1>3, <1>4

\* A reset finds nothing open: it is unseen. A loss of the environment is Lost, any
\* other power loss a Cut.
LEMMA DownMapped ==
  ASSUME IInv, ScriptInv, PlanInv, Reset \/ PowerLoss \/ PowerLossTornEnv
  PROVE  ABStep
<1>1. stage' = "reset" /\ apply' = [p \in Appliers |-> Idle]
  BY DEF Reset, PowerLoss, PowerLossTornEnv, Down, Enter
<1>2. ~InstallOpen' /\ ~RevertOpen' /\ ~CommitOpen' /\ ~RevertTail'
  BY <1>1 DEF InstallOpen, Idle, RevertOpen, CommitOpen, RevertTail
<1>3. CASE Reset
  <2>1. stage \in {"hung", "done"} /\ UNCHANGED <<env, faults>>
    BY <1>3 DEF Reset, PlanInv, RebootDue
  <2>2. ~InstallOpen
    BY <1>3, NobodyBefore DEF Reset, PlanInv, RebootDue, InstallOpen, UserStages
  <2>3. ~RevertOpen /\ ~CommitOpen /\ ~RevertTail
    BY <2>1 DEF RevertOpen, CommitOpen, RevertTail
  <2>4. QED
    BY <1>2, <2>1, <2>2, <2>3, Unseen DEF ABSlotNow, ABTrialNow, ABCreditNow, EffectiveSlot
<1>4. CASE PowerLoss
  BY <1>4, FaultCuts DEF PowerLoss, ABTrialNow
<1>5. CASE PowerLossTornEnv
  <2>1. env' = DefaultEnv /\ faults' = faults + 1
    BY <1>5 DEF PowerLossTornEnv, Fault
  <2>2. AB!Lost
    BY <1>2, <2>1 DEF AB!Lost, DefaultEnv, EffectiveSlot
  <2>3. QED
    BY <2>2 DEF ABStep, AB!ABNext
<1>6. QED
  BY <1>3, <1>4, <1>5

LEMMA StepMapped ==
  ASSUME Direct = {}, EarlyUpdates = FALSE, IInv, LockInv, ScriptInv, PlanInv, [Next]_vars
  PROVE  ABStep
<1>1. CASE UBoot
  BY <1>1, UBootMapped
<1>2. CASE InitScripts
  BY <1>2, InitScriptsMapped
<1>3. CASE Reset \/ PowerLoss \/ PowerLossTornEnv
  BY <1>3, DownMapped
<1>4. ASSUME NEW p \in Appliers, ApplyStart(p) \/ ApplyRuns(p)
      PROVE  ABStep
  BY <1>4, ApplyMapped
<1>5. ASSUME NEW p \in Appliers, ApplyDies(p)
      PROVE  ABStep
  BY <1>5, FaultCuts DEF ApplyDies, ABTrialNow
<1>6. CASE UNCHANGED vars
  BY <1>6, Unseen DEF vars, ABSlotNow, ABTrialNow, ABCreditNow, EffectiveSlot, InstallOpen, RevertOpen,
                      CommitOpen, RevertTail
<1>7. QED
  BY <1>1, <1>2, <1>3, <1>4, <1>5, <1>6 DEF Next, Faults

\* When every caller of ota-apply takes the lock and updates wait for S99, the programs
\* that share the environment implement the atomic protocol of ABUpdate: an update is an
\* installation or nothing, it ends in a commit, a revert or one failover, and a power
\* loss or a kill costs no more than Cut and Lost allow.
THEOREM UpdateIsAtomic ==
  ASSUME Direct = {}, EarlyUpdates = FALSE PROVE Spec => ImplementsABUpdate
<1>1. Init => AB!ABInit
  BY InitMapped
<1>2. IInv /\ LockInv /\ ScriptInv /\ PlanInv /\ [Next]_vars => [AB!ABNext]_(AB!abVars)
  BY StepMapped DEF ABStep
<1>3. QED
  BY <1>1, <1>2, Invariance, LockInvariance, ScriptInvariance, PlanInvariance, PTL
     DEF Spec, ImplementsABUpdate, AB!ABSpec

-----------------------------------------------------------------------------
(* An untried image runs on trial *)

\* An image that was tried is a good one, and nobody is writing it.
TriedAreGood ==
  /\ \A s \in Slot : ~image[s].stub
  /\ \A s \in tried : image[s].os = "good"
  /\ \A p \in Appliers : apply[p].pc = "rootfs" => apply[p].mode \notin tried
  /\ stage = "rollback" => running \in Slot /\ image[running].os # "good"

\* Without a fault, a boot count that userland has not cleared is the count of a slot
\* that does not boot.
CountsHangs ==
  /\ stage \in UserStages \/ (stage = "confirm" /\ step = 2) => env.bootcount = 0
  /\ faults = 0 =>
       /\ stage = "reset" /\ env.bootcount >= 1 => ~Boots(EffectiveSlot)
       /\ stage = "bootcmd" /\ env.bootcount >= 2 => ~Boots(EffectiveSlot)
       /\ stage \in {"alt", "hung"} => ~Boots(EffectiveSlot)

\* The active slot was tried, or a trial that can return to the other one is open.
SafeSlot ==
  \/ EffectiveSlot \in tried
  \/ Other(EffectiveSlot) \in tried /\ (env.ota_pending = 1 \/ InstallOpen)

TrialCovers ==
  faults = 0 /\ (stage \in {"confirm"} \cup UserStages \/ bootfs = "good") => SafeSlot

TrialInv == TriedAreGood /\ CountsHangs /\ TrialCovers

LEMMA InitTrialInv == Init => TrialInv
BY DEF Init, TrialInv, TriedAreGood, CountsHangs, TrialCovers, SafeSlot, Fresh, Idle, DefaultEnv,
       EffectiveSlot, Slot, UserStages

\* When no ota-apply runs, what it leaves open is nothing.
LEMMA UBootTrial ==
  ASSUME NfsRoot = FALSE, IInv, TrialInv, UBoot
  PROVE  TrialInv'
<1>1. /\ stage \in {"reset", "alt", "bootcmd"} /\ stage \notin UserStages
      /\ stage' \in {"alt", "bootcmd", "hung", "confirm"} /\ step' = 1
      /\ UNCHANGED <<image, bootfs, apply, faults, tried>>
      /\ env \in EnvType /\ BootLimit \in Nat \ {0}
  BY BoundsAssumption
  DEF UBoot, UBootStart, AltStay, AltSwitch, BootTf, BootNfs, UserStages, Enter, IInv, TypeOK
<1>2. ~InstallOpen /\ ~InstallOpen'
  BY <1>1, NobodyBefore DEF InstallOpen
<1>3. TriedAreGood'
  BY <1>1 DEF TrialInv, TriedAreGood
<1>4. UNCHANGED <<Boots("A"), Boots("B")>>
  BY <1>1 DEF Boots, RootfsBoots
<1>5. CASE UBootStart
  <2>1. /\ env'.active_slot = env.active_slot /\ env'.ota_pending = env.ota_pending
        /\ stage = "reset" /\ stage' \in {"alt", "bootcmd"}
        /\ stage' = "alt" \/ env'.bootcount >= 2 => env.bootcount >= 1
    BY <1>1, <1>5 DEF UBootStart, Counted, Enter, EnvType
  <2>2. UNCHANGED EffectiveSlot /\ EffectiveSlot \in {"A", "B"}
    BY <2>1 DEF EffectiveSlot
  <2>3. CountsHangs'
    BY <1>1, <1>4, <2>1, <2>2 DEF TrialInv, CountsHangs, UserStages
  <2>4. TrialCovers'
    BY <1>1, <1>2, <2>1, <2>2 DEF TrialInv, TrialCovers, SafeSlot, UserStages
  <2>5. QED
    BY <1>3, <2>3, <2>4 DEF TrialInv
<1>6. CASE AltStay
  <2>1. /\ env'.active_slot = env.active_slot /\ env'.ota_pending = env.ota_pending
        /\ env'.bootcount = 0 /\ stage = "alt" /\ stage' = "bootcmd"
    BY <1>1, <1>6 DEF AltStay, Enter, EnvType
  <2>2. CountsHangs' /\ TrialCovers'
    BY <1>1, <1>2, <2>1 DEF TrialInv, CountsHangs, TrialCovers, SafeSlot, EffectiveSlot, UserStages
  <2>3. QED
    BY <1>3, <2>2 DEF TrialInv
<1>7. CASE AltSwitch
  <2>1. /\ EffectiveSlot' = Other(EffectiveSlot) /\ env'.bootcount = 0
        /\ stage = "alt" /\ stage' = "bootcmd"
    BY <1>1, <1>7 DEF AltSwitch, SwitchedEnv, Enter, EnvType, EffectiveSlot, Other
  <2>2. CountsHangs'
    BY <1>1, <2>1 DEF CountsHangs, UserStages
  <2>3. faults = 0 /\ bootfs = "good" => EffectiveSlot \notin tried
    BY <2>1 DEF TrialInv, TriedAreGood, CountsHangs, Boots, RootfsBoots, EffectiveSlot, Slot
  <2>4. TrialCovers'
    BY <1>1, <2>1, <2>3 DEF TrialInv, TrialCovers, SafeSlot, UserStages
  <2>5. QED
    BY <1>3, <2>2, <2>4 DEF TrialInv
<1>8. CASE BootTf
  <2>1. UNCHANGED env /\ (stage' = "confirm" => bootfs = "good") /\ (stage' = "hung" <=> ~Boots(EffectiveSlot))
        /\ stage' \in {"hung", "confirm"}
    BY <1>1, <1>8 DEF BootTf, Enter, Boots
  <2>2. UNCHANGED EffectiveSlot /\ EffectiveSlot \in {"A", "B"}
    BY <2>1 DEF EffectiveSlot
  <2>3. CountsHangs'
    BY <1>1, <1>4, <2>1, <2>2 DEF CountsHangs, UserStages
  <2>4. TrialCovers'
    BY <1>1, <1>2, <2>1, <2>2 DEF TrialInv, TrialCovers, SafeSlot, UserStages
  <2>5. QED
    BY <1>3, <2>3, <2>4 DEF TrialInv
<1>9. QED
  BY <1>5, <1>6, <1>7, <1>8 DEF UBoot, BootNfs

\* Down to a reset: what was safe when the reboot was asked for, or when the board
\* hung, still is; a fault promises nothing.
LEMMA DownTrial ==
  ASSUME IInv, PlanInv, TrialInv, Reset \/ PowerLoss \/ PowerLossTornEnv
  PROVE  TrialInv'
<1>1. /\ stage' = "reset" /\ apply' = [p \in Appliers |-> Idle] /\ UNCHANGED <<image, bootfs, tried>>
      /\ faults \in Nat
  BY DEF Reset, PowerLoss, PowerLossTornEnv, Down, Enter, IInv, TypeOK
<1>2. TriedAreGood'
  BY <1>1 DEF TrialInv, TriedAreGood, Idle
<1>3. CASE Reset
  <2>1. /\ UNCHANGED <<env, faults>> /\ stage \in {"hung", "done"}
        /\ \A p \in Appliers : apply[p].pc # "fw"
    BY <1>3, NobodyBefore DEF Reset, PlanInv, RebootDue, UserStages
  <2>2. ~InstallOpen
    BY <2>1 DEF InstallOpen
  <2>3. CountsHangs'
    BY <1>1, <2>1 DEF TrialInv, CountsHangs, UserStages, Boots, RootfsBoots, EffectiveSlot
  <2>4. TrialCovers'
    BY <1>1, <2>1, <2>2 DEF TrialInv, TrialCovers, SafeSlot, UserStages, EffectiveSlot
  <2>5. QED
    BY <1>2, <2>3, <2>4 DEF TrialInv
<1>4. CASE PowerLoss \/ PowerLossTornEnv
  <2>1. faults' # 0
    BY <1>1, <1>4 DEF PowerLoss, PowerLossTornEnv, Fault
  <2>2. QED
    BY <1>1, <1>2, <2>1 DEF TrialInv, CountsHangs, TrialCovers, UserStages
<1>5. QED
  BY <1>3, <1>4

LEMMA InitScriptsTrial ==
  ASSUME NfsRoot = FALSE, IInv, LockInv, ScriptInv, TriedInv, TrialInv, InitScripts
  PROVE  TrialInv'
<1>1. /\ UNCHANGED <<image, bootfs, running, apply, faults>>
      /\ stage \in {"confirm"} \cup UserStages /\ stage # "done"
      /\ stage' \in {"confirm"} \cup UserStages
      /\ env \in EnvType /\ step \in 1 .. 7 /\ running \in Slot
  BY DEF InitScripts, ConfirmBoot, CommitReadActive, CommitNotNeeded, HealthCheckPasses,
         HealthCheckFails, CommitSlot, RollbackFailedSlot, ScriptStep, Enter, UserStages,
         IInv, TypeOK, TriedInv, OnCard
<1>2. ~InstallOpen /\ ~InstallOpen' /\ (\A p \in Appliers : apply[p].pc = "idle")
  BY <1>1 DEF InstallOpen, ScriptInv, UpdatesWhenDone
<1>3. ASSUME UNCHANGED <<tried, EffectiveSlot>>, stage' # "rollback",
             env'.ota_pending = env.ota_pending,
             stage' \in UserStages \/ step' = 2 => env'.bootcount = 0
      PROVE  TrialInv'
  BY <1>1, <1>2, <1>3 DEF TrialInv, TriedAreGood, CountsHangs, TrialCovers, SafeSlot, UserStages
<1>4. CASE ConfirmBoot
  <2>1. /\ step \in 1 .. 2 /\ FwSetenv(ConfirmWrites[step]) /\ UNCHANGED tried
        /\ stage = "confirm" /\ stage' = IF step = 1 THEN "confirm" ELSE "services"
    BY <1>4 DEF ConfirmBoot, ScriptStep, ConfirmWrites, Enter, IInv, StepInRange
  <2>2. /\ env'.active_slot = env.active_slot /\ env'.ota_pending = env.ota_pending
        /\ env'.bootcount = IF step = 1 THEN 0 ELSE env.bootcount
    BY <1>1, <2>1, OneVariable DEF ConfirmWrites, Write
  <2>3. env'.bootcount = 0
    BY <2>1, <2>2 DEF TrialInv, CountsHangs
  <2>4. QED
    BY <1>3, <2>1, <2>2, <2>3 DEF EffectiveSlot
<1>5. CASE CommitReadActive \/ CommitNotNeeded \/ HealthCheckFails
  <2>1. UNCHANGED <<env, tried>> /\ stage \in UserStages /\ (stage' = "rollback" => ~Healthy)
    BY <1>5 DEF CommitReadActive, CommitNotNeeded, HealthCheckFails, Enter, UserStages
  <2>2. env.bootcount = 0
    BY <2>1 DEF TrialInv, CountsHangs
  <2>3. CASE stage' = "rollback"
    BY <1>1, <1>2, <2>1, <2>2, <2>3
    DEF TrialInv, TriedAreGood, CountsHangs, TrialCovers, SafeSlot, EffectiveSlot, UserStages, Healthy
  <2>4. CASE stage' # "rollback"
    BY <1>3, <2>1, <2>2, <2>4 DEF EffectiveSlot
  <2>5. QED
    BY <2>3, <2>4
<1>6. CASE HealthCheckPasses
  <2>1. /\ UNCHANGED env /\ stage = "S99" /\ stage' = "commit" /\ tried' = tried \cup {running}
        /\ image[running].os = "good"
    BY <1>1, <1>6 DEF HealthCheckPasses, Healthy, Enter
  <2>2. env.bootcount = 0
    BY <2>1 DEF TrialInv, CountsHangs, UserStages
  <2>3. TriedAreGood'
    BY <1>1, <1>2, <2>1 DEF TrialInv, TriedAreGood
  <2>4. CountsHangs'
    BY <1>1, <2>1, <2>2 DEF CountsHangs, UserStages
  <2>5. TrialCovers'
    BY <1>1, <1>2, <2>1 DEF TrialInv, TrialCovers, SafeSlot, EffectiveSlot
  <2>6. QED
    BY <2>3, <2>4, <2>5 DEF TrialInv
<1>7. CASE CommitSlot
  <2>1. /\ stage = "commit" /\ stage' \in {"commit", "done"} /\ UNCHANGED tried
        /\ FwSetenv(CommitWrites(arg)[step])
    BY <1>7 DEF CommitSlot, ScriptStep, Enter
  <2>2. /\ env'.active_slot = env.active_slot
        /\ env'.ota_pending = IF step = 2 THEN 0 ELSE env.ota_pending
        /\ env'.bootcount = IF step = 1 THEN 0 ELSE env.bootcount
    BY <1>1, <2>1, OneVariable DEF CommitWrites, Write
  <2>3. EffectiveSlot' = EffectiveSlot /\ EffectiveSlot \in tried /\ env'.bootcount = 0
    BY <2>1, <2>2 DEF EffectiveSlot, ScriptInv, RunsActive, TriedInv, CommitsTriedSlot,
                      TrialInv, CountsHangs, UserStages
  <2>4. QED
    BY <1>1, <1>2, <2>1, <2>3 DEF TrialInv, TriedAreGood, CountsHangs, TrialCovers, SafeSlot, UserStages
<1>8. CASE RollbackFailedSlot
  <2>1. /\ stage = "rollback" /\ step \in 1 .. 6 /\ UNCHANGED <<tried, arg>> /\ stage' \in {"rollback", "done"}
        /\ FwSetenv(RollbackWrites(arg)[step])
    BY <1>8 DEF RollbackFailedSlot, ScriptStep, Enter, IInv, StepInRange
  <2>2. /\ env'.active_slot = IF step = 1 THEN arg ELSE env.active_slot
        /\ env'.ota_pending = IF step = 2 THEN 0 ELSE env.ota_pending
        /\ env'.bootcount = IF step = 4 THEN 0 ELSE env.bootcount
    BY <1>1, <2>1, OneVariable DEF RollbackWrites, Write
  <2>3. /\ TriedAreGood' /\ running \notin tried /\ env'.bootcount = 0
    BY <1>1, <1>2, <2>1, <2>2 DEF TrialInv, TriedAreGood, CountsHangs, UserStages
  <2>4. EffectiveSlot' = Other(running) /\ EffectiveSlot \in {running, Other(running)}
    BY <1>1, <2>1, <2>2 DEF ScriptInv, RunsActive, EffectiveSlot, Other, Slot
  <2>5. Other(Other(running)) = running
    BY <1>1 DEF Other, Slot
  <2>6. TrialCovers'
    BY <1>1, <1>2, <2>1, <2>3, <2>4, <2>5 DEF TrialInv, TrialCovers, SafeSlot
  <2>7. CountsHangs'
    BY <1>1, <2>1, <2>3 DEF CountsHangs, UserStages
  <2>8. QED
    BY <2>3, <2>6, <2>7 DEF TrialInv
<1>9. QED
  BY <1>4, <1>5, <1>6, <1>7, <1>8 DEF InitScripts

\* ota-apply writes the other slot, which it gives up as tried, before it activates it;
\* between the two writes that activate and mark, the installation is open.
LEMMA ApplyTrial ==
  ASSUME Direct = {}, EarlyUpdates = FALSE, NfsRoot = FALSE,
         IInv, LockInv, ScriptInv, PlanInv, TrialInv,
         NEW p \in Appliers, ApplyStart(p) \/ ApplyRuns(p) \/ ApplyDies(p)
  PROVE  TrialInv'
<1> DEFINE old == apply[p]
<1>1. apply \in [Appliers -> ApplyType] /\ old \in ApplyType /\ env \in EnvType /\ faults \in Nat
      /\ image \in [Slot -> [os : Os, stub : BOOLEAN, confirm : BOOLEAN]] /\ tried \subseteq Slot
  BY DEF IInv, TypeOK
<1>2. stage = "done" /\ UNCHANGED stage /\ \A q \in Appliers : apply[q].pc # "idle" => q = p
  <2>1. CASE ApplyStart(p)
    BY <2>1 DEF ApplyStart, LockFree, Appliers
  <2>2. CASE ApplyRuns(p) \/ ApplyDies(p)
    <3>1. old.pc # "idle" /\ UNCHANGED stage
      BY <2>2 DEF ApplyRuns, ApplyCheck, ApplySelectTarget, ApplySelectMode, SwuReject, SwuOpen,
                  SwuRootfs, SwuBootOpen, SwuBoot, SwuFail, ApplyFwSetenv, AutoReboot, ApplyDies
    <3>2. QED
      BY <3>1 DEF LockInv, Mutex, ScriptInv, UpdatesWhenDone
  <2>3. QED
    BY <2>1, <2>2
<1>3. env.bootcount = 0
  BY <1>2 DEF TrialInv, CountsHangs, UserStages
<1>4. \A q \in Appliers : q # p => apply'[q].pc = "idle"
  BY <1>1, <1>2 DEF ApplyRuns, ApplyStart, ApplyCheck, ApplySelectTarget, ApplySelectMode, SwuReject,
                    SwuOpen, SwuRootfs, SwuBootOpen, SwuBoot, SwuFail, ApplyFwSetenv, AutoReboot, ApplyDies
<1>5. ASSUME env'.bootcount = 0 PROVE CountsHangs'
  BY <1>2, <1>5 DEF CountsHangs, UserStages
<1>6. CASE SwuOpen(p)
  <2>1. /\ UNCHANGED <<env, faults>> /\ old.pc = "swupdate" /\ apply'[p].pc = "rootfs" /\ apply'[p].mode = old.mode
        /\ image' = [image EXCEPT ![old.mode] = Fresh("dead")] /\ tried' = tried \ {old.mode}
    BY <1>1, <1>6 DEF SwuOpen, ApplyType
  <2>2. old.mode = Other(EffectiveSlot) /\ old.mode # EffectiveSlot /\ env.ota_pending = 0
    BY <2>1 DEF LockInv, ApplyOK, RelyOnNoTrial, PlanInv, Plan, Other, EffectiveSlot
  <2>3. TriedAreGood'
    BY <1>1, <1>2, <1>4, <2>1 DEF TrialInv, TriedAreGood, Fresh
  <2>4. ~InstallOpen /\ ~(env.ota_pending = 1)
    BY <1>2, <2>1, <2>2 DEF InstallOpen
  <2>5. TrialCovers'
    BY <1>2, <2>1, <2>2, <2>4 DEF TrialInv, TrialCovers, SafeSlot, UserStages, EffectiveSlot
  <2>6. QED
    BY <1>3, <1>5, <2>1, <2>3, <2>5 DEF TrialInv
<1>7. CASE SwuRootfs(p)
  <2>1. /\ UNCHANGED <<env, faults, tried>> /\ old.pc = "rootfs" /\ apply'[p].pc = "bootopen"
        /\ image' = [image EXCEPT ![old.mode] = Fresh(old.pkg.rootfs)]
    BY <1>1, <1>7 DEF SwuRootfs, ApplyType
  <2>2. TriedAreGood'
    BY <1>1, <1>2, <1>4, <2>1 DEF TrialInv, TriedAreGood, Fresh
  <2>3. ~InstallOpen
    BY <1>2, <2>1 DEF InstallOpen
  <2>4. TrialCovers'
    BY <1>2, <2>1, <2>3 DEF TrialInv, TrialCovers, SafeSlot, UserStages, EffectiveSlot
  <2>5. QED
    BY <1>3, <1>5, <2>1, <2>2, <2>4 DEF TrialInv
<1>8. CASE ApplyFwSetenv(p)
  <2> DEFINE k == old.step
             w == ApplyWrites(old.target)[k]
  <2>1. /\ old.pc = "fw" /\ k \in 1 .. 4 /\ FwSetenv(w) /\ UNCHANGED <<image, faults, tried>>
        /\ apply' = [apply EXCEPT ![p] = IF k < 4 THEN [old EXCEPT !.step = k + 1] ELSE [old EXCEPT !.pc = "reboot"]]
    BY <1>1, <1>8 DEF ApplyFwSetenv, ApplyWrites, ApplyType
  <2>2. /\ env'.active_slot = IF k = 1 THEN old.target ELSE env.active_slot
        /\ env'.ota_pending = IF k = 2 THEN 1 ELSE env.ota_pending
        /\ env'.bootcount = IF k = 4 THEN 0 ELSE env.bootcount
    BY <1>1, <2>1, OneVariable DEF ApplyWrites, Write
  <2>3. apply'[p].pc \in {"fw", "reboot"} /\ (k < 4 => apply'[p].pc = "fw" /\ apply'[p].step = k + 1)
    BY <1>1, <2>1 DEF ApplyType
  <2>4. TriedAreGood'
    BY <1>2, <1>4, <2>1, <2>3 DEF TrialInv, TriedAreGood
  <2>5. faults = 0 => SafeSlot
    BY <1>2 DEF TrialInv, TrialCovers, UserStages
  <2>6. ASSUME faults = 0 PROVE SafeSlot'
    <3>1. CASE k = 1
      <4>1. old.target = Other(EffectiveSlot) /\ env.ota_pending = 0
        BY <2>1, <3>1 DEF PlanInv, Plan, LockInv, ApplyOK, RelyOnNoTrial
      <4>2. ~InstallOpen
        BY <1>2, <3>1 DEF InstallOpen
      <4>3. EffectiveSlot \in tried
        BY <2>5, <2>6, <4>1, <4>2 DEF SafeSlot
      <4>4. InstallOpen'
        BY <2>3, <3>1 DEF InstallOpen
      <4>5. Other(EffectiveSlot') = EffectiveSlot
        BY <2>2, <3>1, <4>1 DEF EffectiveSlot, Other
      <4>6. QED
        BY <2>1, <4>3, <4>4, <4>5 DEF SafeSlot
    <3>2. CASE k \in 2 .. 4
      <4>1. env'.ota_pending = 1
        BY <2>1, <2>2, <3>2 DEF PlanInv, Plan
      <4>2. UNCHANGED EffectiveSlot
        BY <2>2, <3>2 DEF EffectiveSlot
      <4>3. QED
        BY <2>1, <2>5, <2>6, <4>1, <4>2 DEF SafeSlot
    <3>3. QED
      BY <2>1, <3>1, <3>2
  <2>7. QED
    BY <1>3, <1>5, <2>1, <2>2, <2>4, <2>6 DEF TrialInv, TrialCovers
<1>9. CASE ApplyDies(p)
  <2>1. /\ UNCHANGED <<env, image, tried>> /\ faults' = faults + 1 /\ apply'[p].pc = "idle"
    BY <1>1, <1>9 DEF ApplyDies, Fault, Idle
  <2>2. TriedAreGood'
    BY <1>2, <1>4, <2>1 DEF TrialInv, TriedAreGood
  <2>3. QED
    BY <1>1, <1>3, <1>5, <2>1, <2>2 DEF TrialInv, TrialCovers
<1>10. CASE ~(SwuOpen(p) \/ SwuRootfs(p) \/ ApplyFwSetenv(p) \/ ApplyDies(p))
  <2>1. UNCHANGED <<image, tried, faults>> /\ old.pc # "fw"
    BY <1>10 DEF ApplyRuns, ApplyStart, ApplyCheck, ApplySelectTarget, ApplySelectMode, SwuReject,
                 SwuBootOpen, SwuBoot, SwuFail, AutoReboot
  <2>2. UNCHANGED EffectiveSlot /\ env'.ota_pending = env.ota_pending /\ env'.bootcount = env.bootcount
    <3>1. CASE ApplyCheck(p)
      <4>1. env' = [env EXCEPT !.active_slot = env'.active_slot] /\ UNCHANGED EffectiveSlot
        BY <3>1, CheckKeeps
      <4>2. QED
        BY <1>1, <3>1, <4>1 DEF ApplyCheck, EnvType
    <3>2. CASE ~ApplyCheck(p)
      BY <1>10, <3>2 DEF ApplyRuns, ApplyStart, ApplySelectTarget, ApplySelectMode, SwuReject,
                         SwuBootOpen, SwuBoot, SwuFail, AutoReboot, EffectiveSlot
    <3>3. QED
      BY <3>1, <3>2
  <2>3. apply'[p].pc # "rootfs"
    <3>1. CASE ApplyStart(p)
      BY <1>1, <3>1 DEF ApplyStart, Idle
    <3>2. CASE ApplyCheck(p)
      BY <1>1, <3>2 DEF ApplyCheck, Idle, ApplyType
    <3>3. CASE SwuReject(p) \/ SwuFail(p) \/ AutoReboot(p)
      BY <1>1, <3>3 DEF SwuReject, SwuFail, AutoReboot, Idle
    <3>4. CASE ApplySelectTarget(p) \/ ApplySelectMode(p) \/ SwuBootOpen(p) \/ SwuBoot(p)
      BY <1>1, <3>4 DEF ApplySelectTarget, ApplySelectMode, SwuBootOpen, SwuBoot, ApplyType
    <3>5. QED
      BY <1>10, <3>1, <3>2, <3>3, <3>4 DEF ApplyRuns
  <2>4. TriedAreGood'
    BY <1>2, <1>4, <2>1, <2>3 DEF TrialInv, TriedAreGood
  <2>5. ~InstallOpen
    BY <1>2, <2>1 DEF InstallOpen
  <2>6. TrialCovers'
    BY <1>2, <2>1, <2>2, <2>5 DEF TrialInv, TrialCovers, SafeSlot, UserStages
  <2>7. QED
    BY <1>3, <1>5, <2>2, <2>4, <2>6 DEF TrialInv
<1>11. QED
  BY <1>6, <1>7, <1>8, <1>9, <1>10

LEMMA StepTrialInv ==
  ASSUME Direct = {}, EarlyUpdates = FALSE, NfsRoot = FALSE,
         IInv, LockInv, ScriptInv, PlanInv, TriedInv, TrialInv, [Next]_vars
  PROVE  TrialInv'
<1>1. CASE UBoot
  BY <1>1, UBootTrial
<1>2. CASE InitScripts
  BY <1>2, InitScriptsTrial
<1>3. CASE Reset \/ PowerLoss \/ PowerLossTornEnv
  BY <1>3, DownTrial
<1>4. ASSUME NEW p \in Appliers, ApplyStart(p) \/ ApplyRuns(p) \/ ApplyDies(p)
      PROVE  TrialInv'
  BY <1>4, ApplyTrial
<1>5. CASE UNCHANGED vars
  BY <1>5 DEF vars, TrialInv, TriedAreGood, CountsHangs, TrialCovers, SafeSlot, InstallOpen,
              EffectiveSlot, Boots, RootfsBoots
<1>6. QED
  BY <1>1, <1>2, <1>3, <1>4, <1>5 DEF Next, Faults

\* On a board that boots from its card, whose updates all take the lock and wait for S99,
\* and that no power loss and no kill has interrupted, an image that nobody has tried is
\* on trial when board-upgrade-commit looks: whatever updates, rollbacks and failovers of
\* the bootloader came before.
THEOREM UntriedIsOnTrial ==
  ASSUME Direct = {}, EarlyUpdates = FALSE, NfsRoot = FALSE PROVE Spec => []TrialUnlessFault
<1>1. Init => TrialInv
  BY InitTrialInv
<1>2. IInv /\ LockInv /\ ScriptInv /\ PlanInv /\ TriedInv /\ TrialInv /\ [Next]_vars => TrialInv'
  BY StepTrialInv
<1>3. ScriptInv /\ TrialInv => TrialUnlessFault
  <2> SUFFICES ASSUME ScriptInv, TrialInv, faults = 0, stage = "S99", running \in Slot \ tried
               PROVE  env.ota_pending = 1
    BY DEF TrialUnlessFault, UntriedRunsOnTrial
  <2>1. EffectiveSlot \notin tried /\ ~InstallOpen
    BY DEF ScriptInv, RunsActive, UpdatesWhenDone, InstallOpen
  <2>2. QED
    BY <2>1 DEF TrialInv, TrialCovers, SafeSlot, UserStages
<1>4. QED
  BY <1>1, <1>2, <1>3, Invariance, LockInvariance, ScriptInvariance, PlanInvariance, TriedInvariance, PTL
     DEF Spec
=============================================================================
