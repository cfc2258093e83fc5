------------------------- MODULE FailoverLabProofs -------------------------
(***************************************************************************)
(* The writes of ota-failover-test among those of the boot and of updates: *)
(* the invariant of BoardUpgrade is kept by an operator too, as long as no *)
(* power loss tears the environment (TornEnv = FALSE).                     *)
(***************************************************************************)
EXTENDS FailoverLab, BoardUpgradeProofs

\* A command has started in userland, and what is left of it are the last writes of arm or
\* of a board-boot-confirm start.
LabLeft ==
  /\ lab # <<>> => stage \in UserStages
  /\ lab \in {<<>>, ArmWrites, Tail(ArmWrites), Tail(Tail(ArmWrites)),
              ConfirmWrites, Tail(ConfirmWrites)}

LabInv == IInv /\ LabLeft

\* Every one of them is a write the invariant allows.
LEMMA LabWrites ==
  ASSUME LabLeft, lab # <<>>
  PROVE  /\ SafeWrite(Head(lab)) /\ Head(lab).var # "ota_pending"
         /\ Tail(lab) \in {<<>>, Tail(ArmWrites), Tail(Tail(ArmWrites)), Tail(ConfirmWrites)}
<1> DEFINE w1 == Write("failover_done", 0)
           w2 == Write("upgrade_available", 1)
           w3 == Write("bootcount", 0)
<1>1. SafeWrite(w1) /\ SafeWrite(w2) /\ SafeWrite(w3)
  BY DEF Write, SafeWrite
<1>2. w1.var # "ota_pending" /\ w2.var # "ota_pending" /\ w3.var # "ota_pending"
  BY DEF Write
<1>3. ArmWrites = <<w1, w2, w3>> /\ ConfirmWrites = <<w3, w2>>
  BY DEF ArmWrites, ConfirmWrites
<1> HIDE DEF w1, w2, w3
<1>4. Tail(ArmWrites) = <<w2, w3>> /\ Tail(Tail(ArmWrites)) = <<w3>>
  BY <1>3
<1>5. Tail(ConfirmWrites) = <<w2>>
  BY <1>3
<1>6. lab \in {<<w1, w2, w3>>, <<w2, w3>>, <<w3>>, <<w3, w2>>, <<w2>>}
  BY <1>3, <1>4, <1>5 DEF LabLeft
<1>7. Head(lab) \in {w1, w2, w3}
  <2>1. /\ Head(<<w1, w2, w3>>) = w1 /\ Head(<<w2, w3>>) = w2 /\ Head(<<w3>>) = w3
        /\ Head(<<w3, w2>>) = w3 /\ Head(<<w2>>) = w2
    OBVIOUS
  <2>2. QED
    BY <1>6, <2>1, Zenon
<1>8. Tail(lab) \in {<<>>, Tail(ArmWrites), Tail(Tail(ArmWrites)), Tail(ConfirmWrites)}
  <2>1. /\ Tail(<<w1, w2, w3>>) = <<w2, w3>> /\ Tail(<<w2, w3>>) = <<w3>> /\ Tail(<<w3>>) = <<>>
        /\ Tail(<<w3, w2>>) = <<w2>> /\ Tail(<<w2>>) = <<>>
    OBVIOUS
  <2>2. QED
    BY <1>4, <1>5, <1>6, <2>1, Zenon
<1>9. QED
  BY <1>1, <1>2, <1>7, <1>8

\* Outside userland a step enters it with nothing, and a reset is the only way out.
LEMMA LeavesByReset ==
  ASSUME Next, stage \in UserStages, stage' # "reset"
  PROVE  stage' \in UserStages
<1>1. CASE UBoot
  BY <1>1 DEF UBoot, UBootStart, AltStay, AltSwitch, BootTf, BootNfs, UserStages
<1>2. CASE InitScripts
  BY <1>2 DEF InitScripts, ConfirmBoot, CommitReadActive, CommitNotNeeded, HealthCheckPasses,
              HealthCheckFails, CommitSlot, RollbackFailedSlot, ScriptStep, Enter, UserStages
<1>3. CASE Reset \/ PowerLoss \/ PowerLossTornEnv
  BY <1>3 DEF Reset, PowerLoss, PowerLossTornEnv, Down, Enter
<1>4. ASSUME NEW p \in Appliers, ApplyStart(p) \/ ApplyRuns(p) \/ ApplyDies(p)
      PROVE  stage' = stage
  BY <1>4 DEF ApplyStart, ApplyRuns, ApplyCheck, ApplySelectTarget, ApplySelectMode, SwuReject,
              SwuOpen, SwuRootfs, SwuBootOpen, SwuBoot, SwuFail, ApplyFwSetenv, AutoReboot, ApplyDies
<1>5. QED
  BY <1>1, <1>2, <1>3, <1>4 DEF Next, Faults

\* One write of a command.
LEMMA LabFwSetenvKeeps ==
  ASSUME LabInv, LabFwSetenv
  PROVE  LabInv'
<1> USE DEF LabInv
<1>1. /\ FwSetenv(Head(lab)) /\ lab # <<>> /\ lab' = Tail(lab)
      /\ UNCHANGED <<image, bootfs, stage, running, step, arg, apply, faults, updates, tried>>
      /\ rebootReq' \in {rebootReq, TRUE}
  BY DEF LabFwSetenv, MaybeReboot
<1>2. EnvInv /\ stage \in UserStages /\ env.upgrade_available = 1 /\ rebootReq' \in BOOLEAN
  BY <1>1 DEF LabLeft, IInv, EnvInv, TypeOK, CountingOn
<1>3. /\ EnvInv' /\ env'.bootcount <= env.bootcount /\ env'.upgrade_available = 1
  BY <1>1, <1>2, LabWrites, FwSetenvKeeps
<1>4. TypeOK'
  BY <1>1, <1>2, <1>3 DEF IInv, TypeOK, EnvInv
<1>5. StepInRange' /\ SlotsChosen' /\ UserlandOnly'
  BY <1>1, <1>2 DEF IInv, StepInRange, SlotsChosen, UserlandOnly
<1>6. CountingOn'
  BY <1>1, <1>2, <1>3 DEF IInv, CountingOn, Confirmed
<1>7. BootcountBounded'
  <2>1. env.bootcount \in Nat /\ env'.bootcount \in Nat /\ faults \in Nat /\ stage # "alt"
    BY <1>2, <1>3 DEF IInv, EnvInv, EnvType, TypeOK, UserStages
  <2>2. QED
    BY <1>1, <1>3, <2>1, BoundsAssumption DEF IInv, BootcountBounded
<1>8. LabLeft'
  BY <1>1, <1>2, LabWrites DEF LabLeft
<1>9. QED
  BY <1>3, <1>4, <1>5, <1>6, <1>7, <1>8 DEF IInv, EnvInv

\* A command that changes a root file system, and asks for a reboot perhaps. Only now the
\* invariant needs that counting is on: a root loses its confirmation.
LEMMA ChangeImageKeeps ==
  ASSUME IInv, TornEnv = FALSE, stage \in UserStages, rebootReq' \in BOOLEAN,
         NEW s \in Slot, NEW img \in [os : Os, stub : BOOLEAN, confirm : BOOLEAN],
         ChangeImage(s, img)
  PROVE  IInv'
<1>1. /\ image' = [image EXCEPT ![s] = img]
      /\ UNCHANGED <<env, bootfs, stage, running, step, arg, apply, faults, updates, autoSwitches, tried>>
  BY DEF ChangeImage
<1>2. env.upgrade_available = 1
  BY DEF IInv, CountingOn
<1>3. TypeOK'
  BY <1>1 DEF IInv, TypeOK
<1>4. StepInRange' /\ SlotsChosen' /\ UserlandOnly'
  BY <1>1 DEF IInv, StepInRange, SlotsChosen, UserlandOnly
<1>5. CountingOn'
  BY <1>1, <1>2 DEF CountingOn, Confirmed
<1>6. TrialIsCounted' /\ SwitchesAtMostOnce' /\ SwitchSpent' /\ BootcountBounded'
  BY <1>1 DEF IInv, TrialIsCounted, SwitchesAtMostOnce, SwitchSpent, BootcountBounded
<1>7. QED
  BY <1>3, <1>4, <1>5, <1>6 DEF IInv

LEMMA CommandsKeep ==
  ASSUME LabInv, TornEnv = FALSE, LabCommands
  PROVE  LabInv'
<1> USE DEF LabInv
<1>1. /\ image \in [Slot -> [os : Os, stub : BOOLEAN, confirm : BOOLEAN]] /\ rebootReq \in BOOLEAN
      /\ stage \in UserStages /\ lab = <<>>
  BY DEF IInv, TypeOK, LabCommands, Arm, Break, Restore, Soft, SoftUndo, Command
<1>2. CASE Arm
  <2>1. IInv'
    BY <1>2 DEF Arm, vars, IInv, TypeOK, StepInRange, SlotsChosen, UserlandOnly, CountingOn,
                Confirmed, TrialIsCounted, SwitchesAtMostOnce, SwitchSpent, BootcountBounded
  <2>2. LabLeft'
    BY <1>1, <1>2 DEF Arm, vars, LabLeft
  <2>3. QED
    BY <2>1, <2>2
<1>3. ASSUME NEW s \in Slot, NEW img \in [os : Os, stub : BOOLEAN, confirm : BOOLEAN],
             ChangeImage(s, img), rebootReq' \in {rebootReq, TRUE}, lab' \in {lab, ConfirmWrites}
      PROVE  LabInv'
  <2>1. IInv'
    BY <1>1, <1>3, ChangeImageKeeps
  <2>2. LabLeft'
    BY <1>1, <1>3 DEF LabLeft, ChangeImage
  <2>3. QED
    BY <2>1, <2>2
<1>4. CASE Break
  BY <1>1, <1>3, <1>4 DEF Break, MaybeReboot
<1>5. CASE Restore
  <2>1. RestoredSlot \in Slot
    BY <1>5 DEF Restore, RestoredSlot, Other, Slot
  <2>2. QED
    BY <1>1, <1>3, <1>5, <2>1 DEF Restore
<1>6. CASE Soft
  BY <1>1, <1>3, <1>6 DEF Soft, MaybeReboot
<1>7. CASE SoftUndo
  BY <1>1, <1>3, <1>7 DEF SoftUndo
<1>8. QED
  BY <1>2, <1>4, <1>5, <1>6, <1>7 DEF LabCommands

\* A boot without board-boot-confirm: it goes on with the counting of the one before.
LEMMA SkippedKeeps ==
  ASSUME LabInv, ConfirmSkipped
  PROVE  LabInv'
<1>1. /\ stage = "confirm" /\ stage' = "services" /\ step' = 1 /\ running \in Slot /\ ~image[running].confirm
      /\ UNCHANGED <<env, image, bootfs, running, arg, rebootReq, apply, faults, updates,
                     autoSwitches, tried, lab>>
  BY DEF ConfirmSkipped, Enter
<1>2. env.upgrade_available = 1
  BY <1>1 DEF LabInv, IInv, CountingOn, Confirmed
<1>3. TypeOK'
  BY <1>1 DEF LabInv, IInv, TypeOK, Stages, UserStages
<1>4. StepInRange' /\ SlotsChosen' /\ UserlandOnly'
  BY <1>1 DEF LabInv, IInv, StepInRange, SlotsChosen, UserlandOnly, UserStages
<1>5. CountingOn'
  BY <1>1, <1>2 DEF LabInv, IInv, CountingOn, Confirmed
<1>6. TrialIsCounted' /\ SwitchesAtMostOnce' /\ SwitchSpent' /\ BootcountBounded'
  BY <1>1 DEF LabInv, IInv, TrialIsCounted, SwitchesAtMostOnce, SwitchSpent, BootcountBounded
<1>7. LabLeft'
  BY <1>1 DEF LabInv, LabLeft, UserStages
<1>8. QED
  BY <1>3, <1>4, <1>5, <1>6, <1>7 DEF LabInv, IInv

LEMMA StepLabInv ==
  ASSUME LabInv, TornEnv = FALSE, [LabNext]_labVars
  PROVE  LabInv'
<1>1. CASE BoardStep
  <2>1. IInv'
    BY <1>1, StepIInv DEF BoardStep, LabInv
  <2>2. LabLeft'
    <3>1. CASE stage' = "reset" \/ lab = <<>>
      BY <1>1, <3>1 DEF BoardStep, LabLeft
    <3>2. CASE stage' # "reset" /\ lab # <<>>
      BY <1>1, <3>2, LeavesByReset DEF BoardStep, LabInv, LabLeft
    <3>3. QED
      BY <3>1, <3>2
  <2>3. QED
    BY <2>1, <2>2 DEF LabInv
<1>2. CASE LabFwSetenv
  BY <1>2, LabFwSetenvKeeps
<1>3. CASE LabCommands
  BY <1>3, CommandsKeep
<1>4. CASE ConfirmSkipped
  BY <1>4, SkippedKeeps
<1>5. CASE UNCHANGED labVars
  <2>1. [Next]_vars /\ UNCHANGED <<stage, lab>>
    BY <1>5 DEF labVars, vars
  <2>2. IInv'
    BY <2>1, StepIInv DEF LabInv
  <2>3. QED
    BY <2>1, <2>2 DEF LabInv, LabLeft
<1>6. QED
  BY <1>1, <1>2, <1>3, <1>4, <1>5 DEF LabNext

LEMMA LabInvariance == ASSUME TornEnv = FALSE PROVE LabSpec => []LabInv
<1>1. LabInit => LabInv
  BY InitIInv DEF LabInit, LabInv, LabLeft
<1>2. LabInv /\ [LabNext]_labVars => LabInv'
  BY StepLabInv
<1>3. QED
  BY <1>1, <1>2, PTL DEF LabSpec

\* With an operator at work too, who re-arms the switch, breaks and repairs roots, and takes
\* the confirmation from them and gives it back: a trial has its boots counted, whatever
\* callers apply updates meanwhile, with the lock or without, and however often the power
\* fails between two writes.
THEOREM LabTrialsAreCounted == ASSUME TornEnv = FALSE PROVE LabSpec => []TrialIsCounted
BY LabInvariance, PTL DEF LabInv, IInv

\* The bootloader still switches at most once until the operator, or a commit, re-arms it,
\* and its counter stays within its limit.
THEOREM LabSwitchesOnce == ASSUME TornEnv = FALSE PROVE LabSpec => [](SwitchesAtMostOnce /\ BootcountBounded)
BY LabInvariance, PTL DEF LabInv, IInv
=============================================================================
