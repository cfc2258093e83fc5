---------------------------- MODULE FailoverLab ----------------------------
(***************************************************************************)
(* ota-failover-test, the laboratory tool for the steady failover, on top  *)
(* of BoardUpgrade: an operator breaks the running slot, disables its boot *)
(* confirmation, repairs a slot, and re-arms the bootloader's switch,      *)
(* while updates and boots go on.                                          *)
(***************************************************************************)
EXTENDS BoardUpgrade

CONSTANT MaxLab   \* bound: commands of the operator

ASSUME LabAssumption == MaxLab \in Nat

VARIABLES
  lab,     \* the writes the running command still has to make
  labOps   \* history: commands so far

labVars == <<vars, lab, labOps>>

\* Faulty variant: counting switched off with the counter.
ArmWritesUncounted ==
  <<Write("failover_done", 0), Write("upgrade_available", 0), Write("bootcount", 0)>>

ArmWrites == <<Write("failover_done", 0), Write("upgrade_available", 1), Write("bootcount", 0)>>

\* A command starts in a shell of the running system; one at a time.
Command ==
  /\ stage \in UserStages
  /\ lab = <<>>
  /\ labOps < MaxLab
  /\ labOps' = labOps + 1

\* cmdArm
Arm == Command /\ lab' = ArmWrites /\ UNCHANGED vars

\* With --reboot, a command ends by resetting the board.
MaybeReboot == rebootReq' \in {rebootReq, TRUE}

\* One fw_setenv of arm, or of the board-boot-confirm start of soft-undo.
LabFwSetenv ==
  /\ lab # <<>>
  /\ FwSetenv(Head(lab))
  /\ lab' = Tail(lab)
  /\ IF lab = <<ArmWrites[3]>> THEN MaybeReboot ELSE UNCHANGED rebootReq
  /\ UNCHANGED <<image, bootfs, stage, running, step, arg, apply, faults, updates, tried, labOps>>

\* What a command changes in a root file system.
ChangeImage(s, img) ==
  /\ image' = [image EXCEPT ![s] = img]
  /\ UNCHANGED <<env, bootfs, stage, running, step, arg, apply, faults, updates,
                 autoSwitches, tried>>

\* cmdBreak: init goes to init.bak, a stub that resets the board takes its place. Cut
\* short in between, there is no init at all: that slot does not boot either, and
\* restore repairs it in the same way.
Break ==
  /\ Command
  /\ running \in Slot
  /\ ~image[running].stub
  /\ ChangeImage(running, [image[running] EXCEPT !.stub = TRUE])
  /\ MaybeReboot
  /\ UNCHANGED lab

\* The slot restore repairs: its own root if that one is broken, else the other slot.
RestoredSlot == IF image[running].stub THEN running ELSE Other(running)

\* cmdRestore, cmdRestoreHere
Restore ==
  /\ Command
  /\ running \in Slot
  /\ image[RestoredSlot].stub
  /\ ChangeImage(RestoredSlot, [image[RestoredSlot] EXCEPT !.stub = FALSE])
  /\ UNCHANGED <<rebootReq, lab>>

\* cmdSoft; the feeder it stops lets the watchdog reset the board too.
Soft ==
  /\ Command
  /\ running \in Slot
  /\ ChangeImage(running, [image[running] EXCEPT !.confirm = FALSE])
  /\ MaybeReboot
  /\ UNCHANGED lab

\* cmdSoftUndo makes the script executable again and starts it.
SoftUndo ==
  /\ Command
  /\ running \in Slot
  /\ ChangeImage(running, [image[running] EXCEPT !.confirm = TRUE])
  /\ lab' = ConfirmWrites
  /\ UNCHANGED rebootReq

\* A reset ends the operator's shell with everything else.
BoardStep ==
  /\ Next
  /\ lab' = IF stage' = "reset" THEN <<>> ELSE lab
  /\ UNCHANGED labOps

\* S12 after soft: the script is not executable, rc skips it.
ConfirmSkipped ==
  /\ stage = "confirm"
  /\ running \in Slot /\ ~image[running].confirm
  /\ Enter("services")
  /\ UNCHANGED <<env, image, bootfs, running, arg, rebootReq, apply, faults, updates,
                 autoSwitches, tried, lab, labOps>>

LabInit == Init /\ lab = <<>> /\ labOps = 0

LabCommands == Arm \/ Break \/ Restore \/ Soft \/ SoftUndo

LabNext == BoardStep \/ ConfirmSkipped \/ LabFwSetenv \/ LabCommands

LabSpec == LabInit /\ [][LabNext]_labVars

=============================================================================
