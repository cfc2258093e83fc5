---------------------------- MODULE BoardUpgrade ----------------------------
(***************************************************************************)
(* The A/B update protocol of the board: U-Boot (boot.cmd and the boot     *)
(* counter of the defconfig), the SysV scripts that confirm and commit a   *)
(* boot, and the ota-apply processes that install an update, all of them   *)
(* acting on one shared store, the U-Boot environment.                     *)
(*                                                                         *)
(* Every fw_setenv is a step of its own: a power loss may fall between any *)
(* two of them, and any two processes may interleave there.                *)
(***************************************************************************)
EXTENDS Naturals, Sequences, FiniteSets

CONSTANTS
  Agents,        \* ota-agent processes: they flock /var/run/ota-agent.lock
  Direct,        \* ota-apply callers without the lock: webserver, shell
  Packages,      \* what .swu files contain: records [rootfs, kernel]
  BootLimit,     \* CONFIG_BOOTCOUNT_BOOTLIMIT
  RollbackOnFail,\* BOARD_UPGRADE_ROLLBACK_ON_FAIL
  NfsRoot,       \* may the boot menu be told to boot from NFS?
  EarlyUpdates,  \* may ota-apply start before S99 board-upgrade-commit has ended?
  TornEnv,       \* may a power loss tear the single copy of the environment?
  MaxFaults,     \* bound: power losses and killed processes
  MaxUpdates     \* bound: runs of ota-apply that get past the lock

Appliers == Agents \cup Direct
Slot     == {"A", "B"}
Os       == {"good", "unhealthy", "dead"}  \* dead: never reaches board-boot-confirm

ASSUME AppliersAssumption == Agents \cap Direct = {}
ASSUME PackagesAssumption == Packages \subseteq [rootfs : Os, kernel : {"good", "dead"}]
ASSUME BoundsAssumption   == /\ BootLimit \in Nat \ {0}
                             /\ MaxFaults \in Nat
                             /\ MaxUpdates \in Nat
ASSUME FlagsAssumption    == {RollbackOnFail, NfsRoot, EarlyUpdates, TornEnv} \subseteq BOOLEAN

VARIABLES
  env,          \* the U-Boot environment: the variables the protocol reads
  image,        \* what each root file system partition holds
  bootfs,       \* the shared boot partition and u-boot.imx: "good", "dead"
                \* (the kernel does not boot) or "brick" (nor does U-Boot)
  stage,        \* where the board is, from U-Boot to the end of the rc scripts
  running,      \* the mounted root: a slot, "NFS", or "none"
  step,         \* next write of the init script that runs in this stage
  arg,          \* the slot that script read: $activeSlot or $lastGood
  rebootReq,    \* reboot(8) has been asked for
  apply,        \* the ota-apply process of each caller
  faults,       \* history: faults so far
  updates,      \* history: ota-apply runs so far
  autoSwitches, \* history: slot switches of the bootloader since failover_done=0
  tried         \* history: slots whose image was flashed or passed a health check

vars == <<env, image, bootfs, stage, running, step, arg, rebootReq, apply,
          faults, updates, autoSwitches, tried>>

-----------------------------------------------------------------------------
(* The environment and the writes made to it *)

\* Absent and empty variables are "unset", or 0, the default every reader falls back to.
EnvType == [active_slot       : Slot \cup {"unset"},
            ota_pending       : {0, 1},
            upgrade_available : {0, 1},
            bootcount         : Nat,
            failover_done     : {0, 1},
            last_good_slot    : Slot \cup {"unset"},
            ota_target_slot   : Slot \cup {"unset"},
            ota_phase         : {"unset", "committed", "failed"}]

\* What U-Boot and fw_printenv see when the stored copy is absent or its CRC is bad.
DefaultEnv == [active_slot |-> "unset", ota_pending |-> 0, upgrade_available |-> 0,
               bootcount |-> 0, failover_done |-> 0, last_good_slot |-> "unset",
               ota_target_slot |-> "unset", ota_phase |-> "unset"]

Write(var, val) == [var |-> var, val |-> val]

\* One fw_setenv: an atomic read-modify-write of the whole environment.
FwSetenv(w) ==
  /\ env' = [env EXCEPT ![w.var] = w.val]
  /\ autoSwitches' = IF w.var = "failover_done" /\ w.val = 0 THEN 0 ELSE autoSwitches

Other(s) == IF s = "A" THEN "B" ELSE "A"

\* select_slot and board_read_active_slot: anything but B is A.
EffectiveSlot == IF env.active_slot = "B" THEN "B" ELSE "A"

-----------------------------------------------------------------------------
(* The images *)

Fresh(os) == [os |-> os, stub |-> FALSE, confirm |-> TRUE]

RootfsBoots(s) == image[s].os # "dead" /\ ~image[s].stub
Boots(s)       == RootfsBoots(s) /\ bootfs = "good"

\* board-upgrade-healthcheck on the mounted root; the NFS root is taken as good.
Healthy == running \in Slot => image[running].os = "good"

-----------------------------------------------------------------------------
(* U-Boot *)

UserStages == {"services", "S99", "commit", "rollback", "done"}
Stages     == {"reset", "alt", "bootcmd", "hung", "confirm"} \cup UserStages

Enter(st) == stage' = st /\ step' = 1

\* Faulty variant: the boot counter is read and never incremented.
CountedNever == env.bootcount

Counted == IF env.upgrade_available = 1 THEN env.bootcount + 1 ELSE 0

\* bootcount_inc, then altbootcmd instead of bootcmd once past the limit.
UBootStart ==
  /\ stage = "reset"
  /\ bootfs # "brick"
  /\ env' = IF env.upgrade_available = 1 THEN [env EXCEPT !.bootcount = Counted] ELSE env
  /\ Enter(IF Counted > BootLimit THEN "alt" ELSE "bootcmd")
  /\ UNCHANGED <<image, bootfs, running, arg, rebootReq, apply, faults, updates, autoSwitches, tried>>

\* altbootcmd (rollback_slot) when a switch was already made: stay, open the menu.
AltStay ==
  /\ stage = "alt"
  /\ env.failover_done = 1
  /\ env' = [env EXCEPT !.bootcount = 0, !.upgrade_available = 1]
  /\ Enter("bootcmd")
  /\ UNCHANGED <<image, bootfs, running, arg, rebootReq, apply, faults, updates, autoSwitches, tried>>

\* Faulty variants of the switch: no failover_done, no reset of the counter, the trial
\* left open, the slot left as it is.
SwitchedEnvNotSpent ==
  [env EXCEPT !.active_slot = IF env.active_slot = "B" THEN "A" ELSE "B",
              !.ota_pending = 0, !.upgrade_available = 1, !.bootcount = 0]
SwitchedEnvNoReset ==
  [env EXCEPT !.active_slot = IF env.active_slot = "B" THEN "A" ELSE "B",
              !.failover_done = 1, !.ota_pending = 0, !.upgrade_available = 1]
SwitchedEnvKeepsTrial ==
  [env EXCEPT !.active_slot = IF env.active_slot = "B" THEN "A" ELSE "B",
              !.failover_done = 1, !.upgrade_available = 1, !.bootcount = 0]
SwitchedEnvSameSlot ==
  [env EXCEPT !.failover_done = 1, !.ota_pending = 0, !.upgrade_available = 1, !.bootcount = 0]

\* What altbootcmd saves when it switches.
SwitchedEnv ==
  [env EXCEPT !.active_slot = IF env.active_slot = "B" THEN "A" ELSE "B",
              !.failover_done = 1, !.ota_pending = 0,
              !.upgrade_available = 1, !.bootcount = 0]

AltSwitch ==
  /\ stage = "alt"
  /\ env.failover_done # 1
  /\ env' = SwitchedEnv
  /\ autoSwitches' = autoSwitches + 1
  /\ Enter("bootcmd")
  /\ UNCHANGED <<image, bootfs, running, arg, rebootReq, apply, faults, updates, tried>>

\* Faulty variant: the root is always the first slot, whatever active_slot says.
BootTfFirstSlot ==
  /\ stage = "bootcmd"
  /\ running' = "A"
  /\ Enter(IF Boots("A") THEN "confirm" ELSE "hung")
  /\ UNCHANGED <<env, image, bootfs, arg, rebootReq, apply, faults, updates, autoSwitches, tried>>

\* boot_tf: the kernel and DTB come from the shared partition, the root from the slot.
BootTf ==
  /\ stage = "bootcmd"
  /\ running' = EffectiveSlot
  /\ Enter(IF Boots(EffectiveSlot) THEN "confirm" ELSE "hung")
  /\ UNCHANGED <<env, image, bootfs, arg, rebootReq, apply, faults, updates, autoSwitches, tried>>

\* boot_nfs: kernel and root come from the network; boot.scr, which defines the
\* menu, still comes from the shared partition.
BootNfs ==
  /\ NfsRoot
  /\ bootfs = "good"
  /\ stage = "bootcmd"
  /\ running' = "NFS"
  /\ Enter("confirm")
  /\ UNCHANGED <<env, image, bootfs, arg, rebootReq, apply, faults, updates, autoSwitches, tried>>

-----------------------------------------------------------------------------
(* The init scripts: S12 board-boot-confirm, S99 board-upgrade-commit. ota_result and *)
(* ota_detail, which nothing in the protocol reads, are left out of the writes.       *)

\* Faulty variant: the counter is cleared and not armed again.
ConfirmWritesUncounted == <<Write("bootcount", 0)>>

ConfirmWrites == <<Write("bootcount", 0), Write("upgrade_available", 1)>>

CommitWrites(s) ==
  <<Write("bootcount", 0), Write("ota_pending", 0), Write("upgrade_available", 1),
    Write("failover_done", 0), Write("last_good_slot", s),
    Write("ota_target_slot", s), Write("ota_phase", "committed")>>

RollbackWrites(s) ==
  <<Write("active_slot", s), Write("ota_pending", 0), Write("upgrade_available", 1),
    Write("bootcount", 0), Write("failover_done", 1), Write("ota_phase", "failed")>>

\* Faulty variant: last_good_slot as it is read.
RollbackSlotUnchecked == env.last_good_slot

\* rollbackFailedSlot: last_good_slot, unless it is empty or the failed slot itself.
RollbackSlot ==
  IF env.last_good_slot \in {"unset", EffectiveSlot} THEN Other(EffectiveSlot)
                                                ELSE env.last_good_slot

\* One write of the script of this stage; after the last one the stage is `next`.
ScriptStep(st, writes, next) ==
  /\ stage = st
  /\ FwSetenv(writes[step])
  /\ IF step < Len(writes) THEN stage' = st /\ step' = step + 1 ELSE Enter(next)
  /\ UNCHANGED <<image, bootfs, running, arg, apply, faults, updates, tried>>

\* confirmBoot; startWatchdog has no effect on the environment.
ConfirmBoot ==
  /\ running \in Slot => image[running].confirm
  /\ ScriptStep("confirm", ConfirmWrites, "services")
  /\ UNCHANGED rebootReq

\* commitSlot reads active_slot ...
CommitReadActive ==
  /\ stage = "services"
  /\ arg' = EffectiveSlot
  /\ Enter("S99")
  /\ UNCHANGED <<env, image, bootfs, running, rebootReq, apply, faults, updates, autoSwitches, tried>>

\* ... then ota_pending, and returns when no trial is in progress.
CommitNotNeeded ==
  /\ stage = "S99"
  /\ env.ota_pending # 1
  /\ Enter("done")
  /\ UNCHANGED <<env, image, bootfs, running, arg, rebootReq, apply, faults, updates, autoSwitches, tried>>

HealthCheckPasses ==
  /\ stage = "S99"
  /\ env.ota_pending = 1
  /\ Healthy
  /\ Enter("commit")
  /\ tried' = tried \cup ({running} \cap Slot)
  /\ UNCHANGED <<env, image, bootfs, running, arg, rebootReq, apply, faults, updates, autoSwitches>>

\* With rollback disabled the trial is left pending.
HealthCheckFails ==
  /\ stage = "S99"
  /\ env.ota_pending = 1
  /\ ~Healthy
  /\ IF RollbackOnFail THEN Enter("rollback") /\ arg' = RollbackSlot
                       ELSE Enter("done") /\ UNCHANGED arg
  /\ UNCHANGED <<env, image, bootfs, running, rebootReq, apply, faults, updates, autoSwitches, tried>>

CommitSlot == ScriptStep("commit", CommitWrites(arg), "done") /\ UNCHANGED rebootReq

\* rollbackFailedSlot ends with sync and reboot.
RollbackFailedSlot ==
  /\ ScriptStep("rollback", RollbackWrites(arg), "done")
  /\ rebootReq' = (rebootReq \/ step = Len(RollbackWrites(arg)))

-----------------------------------------------------------------------------
(* ota-apply, one process per caller *)

Idle == [pc |-> "idle", pending |-> 0, target |-> "none", mode |-> "none",
         pkg |-> [rootfs |-> "good", kernel |-> "good"], step |-> 1]

\* Faulty variant: the lock is not kept while ota-apply runs.
LockDropped == TRUE

\* otaStateAcquireLock: LOCK_EX | LOCK_NB, kept by ota-apply (the descriptor is
\* inherited) until the agent or its child ends.
LockFree == \A q \in Agents : apply[q].pc = "idle"

\* main reads ota_pending first (board_require_safe_upgrade_state).
ApplyStart(p) ==
  /\ stage \in IF EarlyUpdates THEN UserStages ELSE {"done"}
  /\ apply[p].pc = "idle"
  /\ p \in Agents => LockFree
  /\ updates < MaxUpdates
  /\ updates' = updates + 1
  /\ apply' = [apply EXCEPT ![p] = [Idle EXCEPT !.pc = "check", !.pending = env.ota_pending]]
  /\ UNCHANGED <<env, image, bootfs, stage, running, step, arg, rebootReq, faults, autoSwitches, tried>>

\* The slot the check compares with: an empty active_slot takes the running one.
CheckedActive ==
  IF env.active_slot = "unset" /\ running \in Slot THEN running ELSE EffectiveSlot

\* Faulty variant: the running slot is not compared.
RefusedOnTrialOnly(p) == apply[p].pending = 1

Refused(p) == apply[p].pending = 1 \/ (running \in Slot /\ running # CheckedActive)

\* ... then the slots; it fills in an empty active_slot and refuses or goes on.
ApplyCheck(p) ==
  /\ apply[p].pc = "check"
  /\ env' = IF env.active_slot = "unset" /\ running \in Slot
            THEN [env EXCEPT !.active_slot = running] ELSE env
  /\ apply' = [apply EXCEPT ![p] = IF Refused(p) THEN Idle ELSE [@ EXCEPT !.pc = "target"]]
  /\ UNCHANGED <<image, bootfs, stage, running, step, arg, rebootReq, faults, updates, autoSwitches, tried>>

\* board_select_target_slot reads active_slot again ...
ApplySelectTarget(p) ==
  /\ apply[p].pc = "target"
  /\ apply' = [apply EXCEPT ![p].pc = "mode", ![p].target = Other(EffectiveSlot)]
  /\ UNCHANGED <<env, image, bootfs, stage, running, step, arg, rebootReq, faults, updates, autoSwitches, tried>>

\* Faulty variant: the modes of the two slots are swapped.
ApplySelectModeSwapped(p) ==
  /\ apply[p].pc = "mode"
  /\ apply' = [apply EXCEPT ![p].pc = "swupdate", ![p].mode = EffectiveSlot]
  /\ UNCHANGED <<env, image, bootfs, stage, running, step, arg, rebootReq, faults, updates, autoSwitches, tried>>

\* ... and so does board_select_swu_mode, which decides the partition written.
ApplySelectMode(p) ==
  /\ apply[p].pc = "mode"
  /\ apply' = [apply EXCEPT ![p].pc = "swupdate", ![p].mode = Other(EffectiveSlot)]
  /\ UNCHANGED <<env, image, bootfs, stage, running, step, arg, rebootReq, faults, updates, autoSwitches, tried>>

\* swupdate rejects the package before it writes (signature, hwrevision, format).
SwuReject(p) ==
  /\ apply[p].pc = "swupdate"
  /\ apply' = [apply EXCEPT ![p] = Idle]
  /\ UNCHANGED <<env, image, bootfs, stage, running, step, arg, rebootReq, faults, updates, autoSwitches, tried>>

\* swupdate starts to stream the root file system over the partition.
SwuOpen(p) ==
  /\ apply[p].pc = "swupdate"
  /\ \E pkg \in Packages : apply' = [apply EXCEPT ![p].pc = "rootfs", ![p].pkg = pkg]
  /\ image' = [image EXCEPT ![apply[p].mode] = Fresh("dead")]
  /\ tried' = tried \ {apply[p].mode}
  /\ UNCHANGED <<env, bootfs, stage, running, step, arg, rebootReq, faults, updates, autoSwitches>>

\* The root file system is complete.
SwuRootfs(p) ==
  /\ apply[p].pc = "rootfs"
  /\ image' = [image EXCEPT ![apply[p].mode] = Fresh(apply[p].pkg.rootfs)]
  /\ apply' = [apply EXCEPT ![p].pc = "bootopen"]
  /\ UNCHANGED <<env, bootfs, stage, running, step, arg, rebootReq, faults, updates, autoSwitches, tried>>

\* u-boot.imx is overwritten in place, then zImage, the DTB and boot.scr.
SwuBootOpen(p) ==
  /\ apply[p].pc = "bootopen"
  /\ bootfs' = "brick"
  /\ apply' = [apply EXCEPT ![p].pc = "boot"]
  /\ UNCHANGED <<env, image, stage, running, step, arg, rebootReq, faults, updates, autoSwitches, tried>>

SwuBoot(p) ==
  /\ apply[p].pc = "boot"
  /\ bootfs' = apply[p].pkg.kernel
  /\ apply' = [apply EXCEPT ![p].pc = "fw"]
  /\ UNCHANGED <<env, image, stage, running, step, arg, rebootReq, faults, updates, autoSwitches, tried>>

\* swupdate fails midway and ota-apply exits: what was written stays.
SwuFail(p) ==
  /\ apply[p].pc \in {"rootfs", "bootopen", "boot"}
  /\ apply' = [apply EXCEPT ![p] = Idle]
  /\ UNCHANGED <<env, image, bootfs, stage, running, step, arg, rebootReq, faults, updates, autoSwitches, tried>>

\* Faulty variant: the trial is not marked.
ApplyWritesUnmarked(s) ==
  <<Write("active_slot", s), Write("upgrade_available", 1), Write("bootcount", 0)>>

ApplyWrites(s) == <<Write("active_slot", s), Write("ota_pending", 1),
                    Write("upgrade_available", 1), Write("bootcount", 0)>>

ApplyFwSetenv(p) ==
  LET writes == ApplyWrites(apply[p].target)
      k      == apply[p].step
  IN  /\ apply[p].pc = "fw"
      /\ FwSetenv(writes[k])
      /\ apply' = [apply EXCEPT ![p] = IF k < Len(writes) THEN [@ EXCEPT !.step = k + 1]
                                                          ELSE [@ EXCEPT !.pc = "reboot"]]
      /\ UNCHANGED <<image, bootfs, stage, running, step, arg, rebootReq, faults, updates, tried>>

\* autoReboot: reboot(8) returns at once, the board goes down later.
AutoReboot(p) ==
  /\ apply[p].pc = "reboot"
  /\ rebootReq' = TRUE
  /\ apply' = [apply EXCEPT ![p] = Idle]
  /\ UNCHANGED <<env, image, bootfs, stage, running, step, arg, faults, updates, autoSwitches, tried>>

-----------------------------------------------------------------------------
(* Resets and faults *)

Down ==
  /\ Enter("reset")
  /\ running' = "none" /\ arg' = "none" /\ rebootReq' = FALSE
  /\ apply' = [p \in Appliers |-> Idle]
  /\ UNCHANGED <<image, bootfs, updates, tried>>

\* The requested reboot; or somebody power-cycles a board that hangs before S12, where
\* board-watchdog-feed has not opened the watchdog and bootargs have no panic=.
Reset ==
  /\ rebootReq \/ stage = "hung"
  /\ Down
  /\ UNCHANGED <<env, faults, autoSwitches>>

Fault == faults < MaxFaults /\ faults' = faults + 1

\* Power loss, or a watchdog reset of a running system.
PowerLoss == Fault /\ Down /\ UNCHANGED <<env, autoSwitches>>

\* Some process or U-Boot is in the middle of storing the environment.
StoringEnv ==
  \/ stage \in {"alt", "bootcmd", "confirm", "commit", "rollback"}
  \/ (stage = "reset" /\ env.upgrade_available = 1)
  \/ \E p \in Appliers : \/ apply[p].pc = "fw"
                        \/ (apply[p].pc = "check" /\ env.active_slot = "unset")

PowerLossTornEnv == TornEnv /\ StoringEnv /\ Fault /\ Down /\ env' = DefaultEnv /\ autoSwitches' = 0

\* ota-apply is killed, or one of its fw_setenv fails and set -e ends it.
ApplyDies(p) ==
  /\ apply[p].pc # "idle"
  /\ Fault
  /\ apply' = [apply EXCEPT ![p] = Idle]
  /\ UNCHANGED <<env, image, bootfs, stage, running, step, arg, rebootReq, updates, autoSwitches, tried>>

-----------------------------------------------------------------------------
Init ==
  /\ env = DefaultEnv
  /\ image = [s \in Slot |-> Fresh("good")]   \* the .wic fills both slots
  /\ bootfs = "good"
  /\ stage = "reset" /\ step = 1
  /\ running = "none" /\ arg = "none" /\ rebootReq = FALSE
  /\ apply = [p \in Appliers |-> Idle]
  /\ faults = 0 /\ updates = 0 /\ autoSwitches = 0 /\ tried = Slot

UBoot == UBootStart \/ AltStay \/ AltSwitch \/ BootTf \/ BootNfs

InitScripts ==
  \/ ConfirmBoot \/ CommitReadActive \/ CommitNotNeeded
  \/ HealthCheckPasses \/ HealthCheckFails \/ CommitSlot \/ RollbackFailedSlot

ApplyRuns(p) ==
  \/ ApplyCheck(p) \/ ApplySelectTarget(p) \/ ApplySelectMode(p)
  \/ SwuReject(p) \/ SwuOpen(p) \/ SwuRootfs(p) \/ SwuBootOpen(p)
  \/ SwuBoot(p) \/ SwuFail(p)
  \/ ApplyFwSetenv(p) \/ AutoReboot(p)

Faults == PowerLoss \/ PowerLossTornEnv \/ \E p \in Appliers : ApplyDies(p)

Next ==
  \/ UBoot \/ InitScripts \/ Reset
  \/ \E p \in Appliers : ApplyStart(p) \/ ApplyRuns(p)
  \/ Faults

Spec == Init /\ [][Next]_vars

\* Code that runs keeps running, and a board told to reboot is reset. Nobody has to
\* start an update or to reset a board that hangs, and nothing has to fail.
Fairness ==
  /\ WF_vars(UBoot) /\ WF_vars(InitScripts) /\ WF_vars(rebootReq /\ Reset)
  /\ \A p \in Appliers : WF_vars(ApplyRuns(p))

FairSpec == Spec /\ Fairness

-----------------------------------------------------------------------------
(* Properties *)

ApplyPcs == {"idle", "check", "target", "mode", "swupdate", "rootfs", "bootopen",
             "boot", "fw", "reboot"}

ApplyType == [pc : ApplyPcs, pending : {0, 1}, target : Slot \cup {"none"},
              mode : Slot \cup {"none"}, pkg : [rootfs : Os, kernel : {"good", "dead"}],
              step : 1 .. 4]

\* The type invariant.
TypeOK ==
  /\ env \in EnvType
  /\ image \in [Slot -> [os : Os, stub : BOOLEAN, confirm : BOOLEAN]]
  /\ bootfs \in {"good", "dead", "brick"}
  /\ stage \in Stages /\ step \in 1 .. 7
  /\ running \in Slot \cup {"NFS", "none"}
  /\ arg \in Slot \cup {"none"}
  /\ rebootReq \in BOOLEAN
  /\ apply \in [Appliers -> ApplyType]
  /\ faults \in Nat /\ updates \in Nat /\ autoSwitches \in Nat
  /\ tried \subseteq Slot

\* swupdate never writes the partition that is mounted as root, whatever ota-apply
\* processes run and are killed and wherever the power fails (ota-apply, guarded by
\* board_require_safe_upgrade_state and, between agents, by the lock).
RunningSlotNotWritten ==
  \A p \in Appliers :
    apply[p].pc \in {"swupdate", "rootfs"} => apply[p].mode # running

\* The two reads of active_slot that choose the partition to write and the slot to
\* activate agree: ota-apply activates the slot it has written.
ActivatesWhatItWrote ==
  \A p \in Appliers :
    apply[p].pc \in {"swupdate", "rootfs", "bootopen", "boot", "fw"}
      => apply[p].mode = apply[p].target

\* No sequence of updates, failed or interrupted anywhere, leaves the board without a
\* root file system that boots.
SomeRootfsBoots == \E s \in Slot : RootfsBoots(s)

\* A slot is committed only after its own image has passed the health check.
CommitsTriedSlot == stage = "commit" => arg \in tried

\* An image that was never tried runs as a trial: when S99 asks, ota_pending is 1.
UntriedRunsOnTrial ==
  stage = "S99" /\ running \in Slot \ tried => env.ota_pending = 1

\* Without a fault, that is so for any sequence of updates and rollbacks.
TrialUnlessFault == faults = 0 => UntriedRunsOnTrial

\* A trial is never left uncounted: while ota_pending=1, upgrade_available=1, so that
\* U-Boot counts the boots of a trial that does not come up. ota-apply sets them one
\* after the other; board-boot-confirm must have set the second one before.
TrialIsCounted == env.ota_pending = 1 => env.upgrade_available = 1

\* The boot counter passes the limit only on its way into altbootcmd, which writes it
\* back to 0; each power loss before that saveenv adds one more count, no more.
BootcountBounded ==
  env.bootcount <= BootLimit + faults + (IF stage = "alt" THEN 1 ELSE 0)

\* The bootloader switches slots at most once until a commit (or an operator) sets
\* failover_done back to 0: two dead slots never make it ping-pong (altbootcmd).
SwitchesAtMostOnce == autoSwitches <= 1

\* What the code leaves to a user: a board that hangs before S12 is reset, each time.
SomebodyResets == []<>(stage # "hung")

\* A trial that has been booted does not stay pending forever: it is committed, rolled
\* back, or ended by the bootloader's switch, as long as that switch is still allowed (and,
\* for an image that never reaches S12, somebody resets the board).
BootedTrialSettles ==
  SomebodyResets =>
    ((stage = "reset" /\ env.ota_pending = 1 /\ env.failover_done = 0 /\ bootfs # "brick")
       ~> env.ota_pending = 0)

\* guide/ota-failover-test.md: a slot that fails to start again and again is left for the
\* other one, by U-Boot itself (if that one boots, and the switch is not spent).
StartFailureFallsBack ==
  \A s \in Slot :
    (stage = "hung" /\ running = s /\ env.failover_done = 0 /\ Boots(Other(s)))
      ~> (stage \in UserStages /\ running = Other(s))

\* It is so when somebody resets the board each time it hangs: the boots of the bad slot
\* are counted up to the limit, whatever faults fall between, and altbootcmd switches.
HungSlotFallsBack == SomebodyResets => StartFailureFallsBack

-----------------------------------------------------------------------------
(* Refinement of ABUpdate. A transition of the abstract protocol takes effect at the *)
(* write of ota_pending; the writes around it that belong to it are hidden.          *)

InstallOpen == \E p \in Appliers : apply[p].pc = "fw" /\ apply[p].step = 2
RevertOpen  == stage = "rollback" /\ step = 2
CommitOpen  == stage = "commit" /\ step \in 3 .. 4
RevertTail  == stage = "rollback" /\ step \in 3 .. 5

AB == INSTANCE ABUpdate WITH
  slot   <- IF InstallOpen \/ RevertOpen THEN Other(EffectiveSlot) ELSE EffectiveSlot,
  trial  <- env.ota_pending = 1,
  credit <- CommitOpen \/ (env.failover_done = 0 /\ ~RevertTail),
  faults <- faults

\* U-Boot, the commit script and ota-apply together implement the atomic protocol; a
\* power loss or a kill can only cost what ABUpdate allows in Cut and Lost.
ImplementsABUpdate == AB!ABSpec
=============================================================================
