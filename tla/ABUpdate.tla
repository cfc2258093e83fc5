------------------------------ MODULE ABUpdate ------------------------------
(***************************************************************************)
(* What the A/B update promises, without its mechanism: one slot is        *)
(* active, a new slot is on trial until it is committed or reverted, and   *)
(* the bootloader may switch slots by itself while it has a credit, which  *)
(* a switch spends and a commit restores. A fault may cut a transition     *)
(* short; without faults every transition is atomic.                       *)
(***************************************************************************)
EXTENDS Naturals

VARIABLES slot, trial, credit, faults

abVars == <<slot, trial, credit, faults>>

ABSlot  == {"A", "B"}
Flip(s) == IF s = "A" THEN "B" ELSE "A"

ABInit == slot = "A" /\ trial = FALSE /\ credit = TRUE /\ faults = 0

\* An update: the other slot becomes active, on trial.
Install == ~trial /\ trial' = TRUE /\ slot' = Flip(slot) /\ UNCHANGED <<credit, faults>>

\* The health check passed: the trial is over and the credit restored.
Commit == trial /\ trial' = FALSE /\ credit' = TRUE /\ UNCHANGED <<slot, faults>>

\* The health check failed: back to the other slot, no automatic switch after that.
Revert == trial /\ trial' = FALSE /\ slot' = Flip(slot) /\ credit' = FALSE /\ UNCHANGED faults

\* The active slot did not come up: the bootloader switches, once.
Failover == credit /\ credit' = FALSE /\ slot' = Flip(slot) /\ trial' = FALSE /\ UNCHANGED faults

\* A power loss or a kill inside a transition: the slot may have been switched and the
\* trial not yet marked, the credit may not have been written. The trial mark itself is
\* neither made nor lost.
Cut == faults' = faults + 1 /\ slot' \in ABSlot /\ credit' \in BOOLEAN /\ UNCHANGED trial

\* A power loss that destroys the stored state: everything is as it was when it shipped.
Lost == faults' = faults + 1 /\ slot' = "A" /\ trial' = FALSE /\ credit' = TRUE

ABNext == Install \/ Commit \/ Revert \/ Failover \/ Cut \/ Lost

ABSpec == ABInit /\ [][ABNext]_abVars
=============================================================================
