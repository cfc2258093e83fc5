# TLA+ models of the alientek board software

The repository builds the image of an i.MX6ULL board: U-Boot, Linux, drivers for its
sensors, the services that log and show their values, and an A/B update of the root
file system over MQTT, HTTP or the web page. What can go wrong in it is mostly in the
update: several programs in three languages, written in different places and started
at different times of the boot, cooperate through the U-Boot environment alone, and
every one of them may lose its power between two writes.

This directory holds TLA+ models of it, the TLC configurations that check them and
proofs checked by TLAPS. Paths below are relative to `src/meta-alientek/`.

## 1. Inventory

| Component | State it keeps | Operations | Talks to |
|---|---|---|---|
| U-Boot (`recipes-bsp/bootloader/u-boot`) | boot counter, `active_slot`, `failover_done` in the environment | count a boot, `altbootcmd`, menu entries TF and NFS | environment; hands the root over to Linux |
| `board-boot-confirm` (S12) and `board-watchdog-feed` | `bootcount`, `upgrade_available` | confirm the boot, feed the watchdog | environment, watchdog |
| `board-upgrade-commit` (S99) and `board-upgrade-healthcheck` | `ota_pending`, `failover_done`, `last_good_slot`, `ota_phase` | commit, or roll back and reboot | environment |
| `ota-apply`, `board-slot-lib.sh` | `active_slot`, `ota_pending`; the two root partitions, the boot partition, `u-boot.imx` | check, choose slot and mode, run swupdate, activate, reboot | swupdate, environment; called by ota-agent, webserver, operator |
| `ota-failover-test` | `init`, the confirm script of a slot; `failover_done` | arm, break, restore, soft, soft-undo | environment, both roots |
| `ota-agent` | `/var/run/ota-agent.lock`, `state.json` of the slot, seven `ota_*` variables | apply, pull-latest, mqtt-precheck, mqtt-command, startup recovery | curl, `ota-apply`, stdout to mqtt-agent |
| `mqtt-agent`, `ota-mqtt` | session, a one-message buffer, a child process, the cached host of the broker | find the broker, connect, receive a command, precheck, run, forward status, heartbeat | broker, `ota-agent` |
| `ota-discover`, `compareVersions` | none | choose the newest package of a listing, compare versions | firmware server |
| webserver | one connection at a time, the uploaded file and package, the listening socket | upgrade, two history pages, stop and restart | `ota-apply`, the loggers' databases |
| dashboard (Qt) | the page shown, a child for each of two commands, their messages and buttons | LEDs, sensors, system information, OTA and FAILOVER pages | sysfs, drivers, `ota-agent`, `ota-failover-test` |
| sensor loggers | a table of samples in SQLite | sample, insert, purge | drivers, webserver |
| drivers `ap3216c`, `icm20608`, `alientek-led` | last values and their time, mutex; one LED bit | probe, read | device files |
| board-data, network, ntpdate, switch-led-dtb, key and touch monitors | little | start-up scripts and examples | |
| build scripts, recipes, device tree, tests | none at run time | | |

### How they interact

A boot goes: U-Boot counts it, chooses the slot (`altbootcmd` instead of `bootcmd` when
the counter is past its limit), and starts Linux from the shared boot partition with
the root of that slot. S12 clears the counter and starts to feed the watchdog. S20
starts the webserver and the mqtt-agent, whose script runs the recovery of ota-agent
first. S99 asks whether the boot is a trial (`ota_pending=1`) and, if it is, runs the
health check and commits or rolls back. An update may come from the mqtt-agent, the
dashboard or a shell through `ota-agent`, which holds a lock while `ota-apply` runs, or
directly through `ota-apply` from the webserver or a shell, which does not.

### What is hard

* Everything is one `fw_setenv` after the other: four in `ota-apply`, two in
  board-boot-confirm, nine in a commit, eight in a rollback, seven in each phase change
  of ota-agent. Power may fail between any two, and another process may write there.
* The environment has one copy. A power loss while it is stored gives the defaults back.
* `ota-apply` reads `active_slot` three times: to check, to choose the slot to activate,
  to choose the partition to write.
* The boot counter is shared by trials, steady failover and the laboratory tool.
* The state of ota-agent is in a file of the slot that runs and in the environment that
  both slots share; they disagree after every switch.
* Recovery runs at S20 and waits for what S99 decides.
* The MQTT callbacks and the main loop of mqtt-agent share the session flag and one
  message slot, without a lock.
* The webserver serves one client at a time, and its `ota-apply` outlives it, with the
  listening socket.
* Loggers and web pages meet at the lock of a database; loggers and dashboard at the
  cache of a driver.

`PROJECT.json` lists each of these under `hazards`, at its line, with the properties
that cover it.

### What makes each component correct

* A/B update: the mounted root is never overwritten; what is activated is what was
  written; at any time one root boots; a new slot is on trial until it is committed, and
  a trial is always counted; only a slot that was tried is committed; every trial ends;
  a dead slot is left for a good one; two dead slots never alternate.
* ota-agent: one pipeline at a time; a request is executed at most once; the phase a
  user sees is one the request went through; after a restart an interrupted upgrade is
  reported as committed or failed, and the boot is never blocked.
* mqtt-agent: what is taken from the buffer is a whole command; a command that was kept
  is refused or run to its end; statuses arrive in order; a lost session comes back.
* Texts: exactly the commands are accepted; a status says what the command said, and
  fits.
* Discovery: the chosen package is the newest; versions compare as numbers.
* Drivers and loggers: a value handed out is one word of one burst of reads, the newest
  that is valid; a sample is not older than its time; what has expired is deleted.
* webserver: `ota-apply` applies the package of the client it was started for, the answer
  tells what became of it, every client is answered or disconnected.
* dashboard: a page shows how its last command ended; its buttons come back.

## 2. Modules and plan

| Module | Contents | State |
|---|---|---|
| `ABUpdate` | abstract A/B protocol: slot, trial, credit | done |
| `BoardUpgrade` | U-Boot, S12, S99, `ota-apply` over the environment | done |
| `MCBoardUpgrade` | packages for TLC | done |
| `FailoverLab`, `MCFailoverLab` | `ota-failover-test` composed with BoardUpgrade | done |
| `BoardUpgradeProofs` | inductive invariant; type, counting, switching; with the lock, what is written and what survives | done |
| `FailoverLabProofs` | counting and switching with the operator's writes among those of an update | done |
| `OtaAgent` | pipelines, state file and environment, duplicate check, recovery at S20, over an abstract `ota-apply`, commit and bootloader taken from `ABUpdate` | done |
| `MCOtaAgent` | versions and symmetry for TLC | done |
| `MqttAgent`, `MCMqttAgent` | session, buffer, callbacks, precheck, child, restart | done |
| `CommandText` | parser of commands, UTF-8, status builder of `ota-mqtt.cpp` | done |
| `FirmwareChoice` | choice of the package, comparison of versions | done |
| `Texts` | reference definitions for the two, and what is said of them for any set of inputs | done |
| `MCTexts` | inputs for TLC | done |
| `SensorLog` | chip, driver, logger, database, query | done |
| `WebServer` | clients, uploads, `ota-apply`, signals, init script | done |
| `Dashboard` | the two commands of the dashboard | done |
| `MCBoardUi` | the three for TLC, one at a time | done |
| `ABUpdateProofs` | what is committed was tried, what was not tried is on trial, `BoardUpgrade` implements `ABUpdate` | done |
| `OtaAgentProofs` | types of the agent; the lock excludes two pipelines; the request that ran last is remembered | done |
| `OtaCommitProofs` | what is reported as failed is not committed; a boot settles what it finds | done |
| `MqttAgentProofs` | types; what is popped is whole; statuses in order | done |
| `BoardUiProofs` | sensors, web server and dashboard | done |
| `TextsProofs` | UTF-8, strings, statuses, listings and versions of any length; the command object | done |

The order follows what a failure costs: a board that does not boot, then an update that
is misreported, then a command that is lost, then a wrong choice of package, then what
a page shows. The number of runs stays small: one per question, and one for each
disagreement between code and documentation that the code could settle.

## 3. The A/B update: `BoardUpgrade`

`env` is the U-Boot environment, restricted to the eight variables the protocol reads or
that a property needs. `image[s]` says what is in a root partition: `os` is "good",
"unhealthy" (boots, and fails the health check) or "dead" (never reaches S12); `stub`
and `confirm` are what `ota-failover-test` changes. `bootfs` stands for the shared boot
partition and `u-boot.imx`. `stage`, `step` and `running` say where the boot is and
which root is mounted; `arg` is the slot the commit script has read into a shell
variable; `apply[p]` is the `ota-apply` process of caller `p`, with what it has read so
far. `faults`, `updates`, `autoSwitches` and `tried` are history: they bound the runs or
are there for the properties.

| Code | Actions |
|---|---|
| U-Boot `bootcount_inc`, `bootcmd` / `altbootcmd` | `UBootStart`, `AltStay`, `AltSwitch` |
| `boot_tf`, `boot_nfs` | `BootTf`, `BootNfs` |
| `board-boot-confirm start` | `ConfirmBoot` (one write a step) |
| `board-upgrade-commit start` | `CommitReadActive`, `CommitNotNeeded`, `HealthCheckPasses`, `HealthCheckFails`, `CommitSlot`, `RollbackFailedSlot` (one write a step) |
| ota-agent taking its lock and starting `ota-apply`, or another caller starting it | `ApplyStart` |
| `board_require_safe_upgrade_state` | `ApplyStart` (reads `ota_pending`), `ApplyCheck` |
| `board_select_target_slot`, `board_select_swu_mode` | `ApplySelectTarget`, `ApplySelectMode` |
| swupdate, in the order of sw-description | `SwuReject`, `SwuOpen`, `SwuRootfs`, `SwuBootOpen`, `SwuBoot`, `SwuFail` |
| the four `fw_setenv` and `reboot` of `ota-apply` | `ApplyFwSetenv`, `AutoReboot` |
| `reboot`; somebody who resets a board that hangs before S12 (the watchdog is opened there) | `Reset` |
| faults | `PowerLoss`, `PowerLossTornEnv`, `ApplyDies` |

A `fw_setenv` is atomic: libubootenv locks, reads the environment, changes it and
writes it back. A power loss in the middle of that write is `PowerLossTornEnv`: the CRC
is bad and the next reader sees defaults.

`FailoverLab` adds an operator's shell: a command of `ota-failover-test` may start
whenever the rc scripts run, its environment writes are steps of their own, and a reset
ends it. After `soft`, S12 is not executable and the boot goes on without it
(`ConfirmSkipped`). The module EXTENDS `BoardUpgrade` and steps it through `BoardStep`.

`ABUpdate` is the contract: install, commit, revert and failover are atomic; a fault may
cost a commit or revert its effect on the credit (`Cut`), or the whole state (`Lost`),
and nothing else. The refinement mapping reads the slot, the trial and the credit off
the environment, hiding the writes that belong to a transition that has not taken
effect yet. The effect of each transition is its write of `ota_pending`.

## 4. The agent: `OtaAgent`

Everything ota-agent knows of an update is a record of `request`, `version`, `target`
and `phase`. It saves the record in `file[s]`, which is in the root of the slot and so
lost when the slot is written, and, one variable after the other, in `env`, which both
slots share. `disk` is what a power loss would leave of the files. `proc[p]` is an
ota-agent somebody has started, with its record in memory; `rec` is the one init starts.
`stored`, `lastGood` and `named` are what recovery needs to know of the board:
`active_slot` is in no default environment, `last_good_slot` only exists after a first
commit, and the root must be named in a form `readCurrentSlot` knows.

| Code | Actions |
|---|---|
| `executeMqttPrecheck`, `executeMqttCommandJson` up to the lock | `MqttCommand` |
| ... and from the lock on | `MqttLock` |
| `otaAgentRunPullLatest`, `otaAgentRunApply` | `LocalCommand` |
| `savePhase` | `SavePhaseFile`, `SavePhaseEnv` (one variable a step) |
| `executeApplyPipeline`, `executePullLatestPipeline` | `Guard`, `Download`, `Verify`, `RunUpgrade` |
| `ota-apply` | `Flash`, `Switch` |
| `do_start` of mqtt-agent.init | `Boot`, `RecoveryEnded`, `RecoveryTimeout` |
| `recoverPendingAtStartup`, `completeStartupRecovery` | `RecoverTry`, `RecoverReport`, `RecoverSaveFile`, `RecoverSaveEnv` |
| `board-upgrade-commit` | `CommitStart`, `CommitSlot`, `RollbackFailedSlot` |
| U-Boot | `Failover` |
| faults | `PowerLoss`, `PowerLossTornEnv`, `AgentDies`, `SaveFails` |

What happens to the slots themselves is a step of `ABUpdate` (`AB!Install`, `AB!Commit`,
`AB!Revert`, `AB!Failover`, `AB!Cut`, `AB!Lost`), which `BoardUpgrade` is shown to
implement. What is new here is what the agent believes about them. The health of an
image is fixed when it is written, as in `BoardUpgrade`.

Left out: `ota_result`, `ota_detail` and `ota_auto_reboot`, which are saved and decide
nothing; the `accepted` and `completed` statuses, which belong to the MQTT part; the
branch of recovery that reports "committed", which needs `upgrade_available=0`: S12
sets it to 1 and only a default environment or a manual write has 0.

## 5. Commands over MQTT: `MqttAgent`, `CommandText`, `FirmwareChoice`

`MqttAgent` has two kinds of threads. `main` is where the main loop is; `cb` is the thread
of the library in `onMqttMessageArrived`, and `lost` a callback of a lost session that is
due. `uri`, `client`, `connected`, `topic`, `hasPending` and `pending` are the variables
they share (`g_mqtt...`): every access to them is a step, the copy of a payload is two,
and the two stores of `clearMqttPending` may be swapped. `sess`, `listens` and `wire` are
the broker's side. `child` is the ota-agent of `g_otaPid` with what its pipe holds, `lock`
who else holds the lock of ota-agent. `heard`, `kept`, `settled` and `excused` are
history.

| Code | Actions |
|---|---|
| `onMqttMessageArrived`, `storeMqttPendingPayload` | `MessageArrived`, `CopyPayload`, `SetPending` |
| `onMqttConnectionLost` | `ConnectionLost` |
| `ensureSession`, `resolveHost`, `scanLanForBroker` | `EnsureSession` |
| `otaMqttConnect`: `clearMqttPending`, `createMqttClient`, `attemptMqttConnect` | `ClearMqttPending`, `CreateMqttClient`, `AttemptMqttConnect`, `SetConnected` |
| `otaMqttSubscribeCommand`, `resubscribeCommandTopic` | `Subscribe` |
| `otaMqttYield`, `reconnectMqttIfNeeded` | `OtaMqttYield` |
| `processCommand`, `otaMqttPopCommand` | `OtaMqttPopCommand`, `ClearMqttPending` |
| `runOtaPrecheck`, `startOtaChild` | `RunOtaPrecheck`, `StartOtaChild` |
| `pollOtaOutput`, `finishOtaChild` | `PollOtaOutput` |
| `ota-agent --mqtt-command` | `ChildStart`, `ChildEnds`, `ChildKilled`, `ChildGone` |
| `mqtt-agent.init restart` | `Restart` |
| LAN, broker, operator | `HostChange`, `LoseSession`, `Send`, `OtherAgentEnds`, `Tick` |

A command is a number here. What its text may be is `CommandText`: strings are sequences
of characters, a character the sequence of its bytes, and the object is read token by
token. `FirmwareChoice` reads a directory page attribute by attribute and compares two
versions component by component; a component wraps as 32-bit arithmetic does, which is
one of the outcomes an overflow may have, and the property is about components that fit.
`Texts` holds the definitions they are compared with: UTF-16 for the escapes, "encodes
a scalar that is no surrogate" for UTF-8, the set of all command texts for the parser, the
maximum for the choice, lexicographic order of the numbers for versions. Its inputs are
constants, so that the proofs can be about inputs of any length; what the code computes in a
loop is a recursive function of the position the loop is at. A raw character of a string is
as many bytes as the code looks at together: one character, or none.

## 6. What users see: `SensorLog`, `WebServer`, `Dashboard`

`SensorLog` is one of two chains, `kind`. A value is a word of two bytes, each named by the
frame of the chip it was read from, and a row is named by its time, because that is all the
properties and the queries look at. `drv` is the state of the driver and `burst` what each of
its readers (probe, logger, dashboard) has read of the six registers of ap3216c; who is in a
burst has the mutex. The chip converts on between the registers, so that the bytes of a
value may be of different frames. `logger` is the daemon with the sample it holds, `rows` the
table and `lock` the lock SQLite keeps on it. A burst of icm20608 is one transfer and one
step.

| Code | Actions |
|---|---|
| `ap3216c_probe`, `icm20608_probe` | `Probe`, `ProbeFails` |
| `ap3216c_misc_read`, `icm20608_read_raw` | `ReadValues`, `ReadRaw` (in `ReadsDevice`, `DashboardReads`) |
| `ap3216c_read_data_regs`, the three parsers | `ReadRegister` (one register a step), `Parsed` |
| the time test of `ap3216c_read_values` | `ConversionOver`, `FromCache` |
| `main` of the loggers, `ensureDbDir`, `openDb` | `LoggerStarts` (either logger may end here), `SampleBegins` |
| `readDeviceSample`, `iioIcmReadSample` | `ReadsDevice` (for the ICM one channel a step) |
| `insertSample`, `purgeOldSamples` | `Commits`, `Inserted`, `PurgeEnds` |
| their error paths, a bus error in a burst | `SampleFails`, `DashboardFails` |
| `handleSamplesRequest`, `handleIcmSamplesRequest` | `QueryOpens`, `QueryReads`, `QueryEnds` |
| chip, time, faults | `Convert`, `Tick`, `ClockSetBack`, `PowerCut` |

`WebServer` is the loop of `main`: `server` is where the process is and whose request it
serves, `queue` the clients the kernel holds, `port` who has the listening socket open.
The socket is not closed on exec, so that `ota-apply` has it too: that is what keeps two
servers, and so two uploads, from meeting in `/var/tmp`.

| Code | Actions |
|---|---|
| `accept`, `handleClient`, `recvHttpHeaders`, the pages | `Accept`, `RefuseRequest`, `ServePage` |
| `handleUpgrade`, `recvBodyToFile`, `extractSwuFromMime` | `BeginUpload`, `Body`, `Extract` |
| `runBoardApplyUpdate` | `Fork`, `Wait` |
| `sendResponse`, `close`, SIGPIPE | `Send` |
| `handleSignal`, the end of `main` | `Terminate`, `Exit` |
| `webserver.init` | `Terminate`, `Kill`, `Start`, `StartAgain` |
| `ota-apply`: swupdate, the four `fw_setenv`, `reboot`, its end | `Installs`, `SetsEnv`, `CallsReboot`, `ApplyEnds` (with an error anywhere), `Reboot` |

`Dashboard` has the two commands that run a program: the upgrade of the OTA page and the
three of the FAILOVER page, which share a process and a message. A handler is one step,
except where it opens a dialog: the dialog runs the event loop, so that it is open between
`Press` and `AnswerYes` or `AnswerNo`.

| Code | Actions |
|---|---|
| `openOta`, `openFailover`, `backHome` | `OpenPage`, `BackHome` |
| `onOtaPullLatest`; `onFailoverArm`, `onFailoverSoft`, `onFailoverSoftUndo`, `runFailoverCmd` | `Press`, `AnswerNo`, `AnswerYes` |
| `onOtaPullStdout`, `applyOtaProgressLine` | `OnStdout` |
| `onOtaPullFinished`, `onFailoverCmdFinished` | `OnFinished` |
| `refreshFailoverLabels` | `Refresh` |
| the programs | `Prints`, `Ends` |

`MCBoardUi` extends all three. They share no state, so a behaviour moves one of them, its
`focus`, and the run has the sum of their states. Of `SensorLog` there are two, one on the
drivers and one on what is stored as time goes by.

## 7. Runs

| Run | Question | Bounds |
|---|---|---|
| `BoardUpgradeAgents` | Is the protocol safe with two agents and faults anywhere? `TypeOK`, `RunningSlotNotWritten`, `ActivatesWhatItWrote`, `SomeRootfsBoots`, `TrialIsCounted`, `BootcountBounded`, `SwitchesAtMostOnce` | 2 agents, 3 updates, 2 faults, torn environment, updates at any time after S12 |
| `BoardUpgradeRefines` | Does it implement `ABUpdate`? | the same, NFS boots, updates after S99 |
| `BoardUpgradeLive` | Does every trial end, and end well? `CommitsTriedSlot`, `TrialUnlessFault`, `BootedTrialSettles`, `HungSlotFallsBack` | 1 agent, 3 updates, 2 faults, fairness |
| `FailoverLab` | Can the operator's writes, among those of an update, leave a trial uncounted? `TrialIsCounted` | 1 agent, 2 updates, 3 commands, 1 fault |
| `OtaAgent` | What do a later command and a later boot find of the last request? `TypeOK`, `OnePipeline`, `RemembersLastRequest`, `CommitsNothingReportedFailed`, `SettledAfterBoot` | 2 callers (symmetric), 2 requests beside `--apply` and `--pull-latest`, 2 commands, 1 retry, 2 faults |
| `OtaAgentLive` | Does the boot always go on? `BootNotBlocked` | 1 caller, 2 commands, 2 retries, 1 fault, fairness |
| `OtaAgentStale` | violated: a committed update reported as failed | 1 command, no fault |
| `BoardUpgradeConcurrent` | violated: two callers, one without the lock | 2 updates, no fault |
| `MqttAgent` | What becomes of a command, and of the session? `TypeOK`, `PopsWholeCommands`, `StatusesInOrder`, `KeptIsAnswered`, `ComesBack` | 2 commands, 2 hosts, 1 host that comes or goes, 1 fault, fairness |
| `MqttDeaf` | violated: connected again, and not subscribed | 1 command, the broker alone, no fault |
| `Texts` | Do the algorithms compute what they should? `ParsesExactlyCommands`, `Utf8AsEncoded`, `StringsReadBack`, `EveryStatusFits`, `PicksNewest`, `ComparesAsNumbers`, `ComparisonEnds` | all token sequences of the parser; 4 bytes and 2 items of a string from both sides of every boundary; strings around the 63 bytes of a requestId; 4 links of a page, with room for 3 names; versions of 2 components up to 19, with a leading zero or without, and integers up to 15 |
| `BoardUi` | Is what users see current, is what they are told true, and does it come? `UiTypeOK`; `ServesLastValid`, `SampleIsCurrent`; `ExpiredGoes`; `AppliesOwnUpload`, `AnswerTellsOutcome`, `EveryClientEnds`; `ShowsLastResult`, `ButtonsComeBack` | drivers: 2 frames, 1 instant, 2 troubles; loggers: 1 frame, 3 instants, 2 troubles; 2 clients, 2 restarts; 2 commands, 2 lines; fairness |

The boot limit is the 3 of the defconfig. Three updates are enough to overwrite a slot
that was itself the result of an update, and to install after a rollback and after an
automatic switch; two faults are enough for a fault in the recovery from a fault. Two
callers are enough for every interference between two `ota-apply`. Deadlock is not
checked: a board that has booted, with no update left, stops, as does one without a
bootloader.

Updates while the rc scripts still run (`EarlyUpdates`) are legal in the code, since
mqtt-agent and webserver start at S20. `BoardUpgradeAgents` has them and is safe. The
refinement and the trial properties exclude them: an update that writes `ota_pending`
before the S99 of its own boot has read it is committed there, and the board then
reboots into a slot nobody tries.

`BootedTrialSettles` and `HungSlotFallsBack` carry the condition `failover_done=0`
because the code needs it: `ota-apply` does not reset that variable, so that an update
installed after an automatic switch or a rollback, and which does not boot, is not
switched back. Only a commit or an operator gives the switch back.
Both also have the hypothesis `SomebodyResets`, that a board which hangs before S12 is reset
each time. The code does not see to it: the watchdog is opened by S12, the kernel is given no
`panic=`, and U-Boot starts no watchdog either. What the guide promises without the
hypothesis is `StartFailureFallsBack`, which TLC finds violated when it is put in the place
of `HungSlotFallsBack`: section 9. A trial whose image reaches S99 needs nobody.

In `OtaAgent`, two commands are enough for one to meet the record of another, and two
faults for a power loss in the recovery from a power loss. One retry and thirty differ
only in time. `EarlyUpdates` is FALSE here: an update does not start between the writes
of S99, milliseconds apart, and does not end before S99. Both are legal in the code; the
first loses `ota_target_slot` to the commit, and recovery then misjudges the update.
`RemembersLastRequest` sets aside what `forgot` lists: a record saved while a trial or a
reboot is open (it is in the slot about to be left), a power loss that takes the file
back, a switch of the bootloader. `SettledAfterBoot` is about boots without faults,
because a fault can cost any of the writes it depends on.

In `MqttAgent`, two commands are enough for one to meet the other in the buffer and
behind a child that runs, and one fault for a session lost, a call that fails, a child
killed or a restart at any step. The second host is a decoy that has the port open.
`KeptIsAnswered` excepts what `excused` lists: a command that a reconnection clears from
the buffer (`otaMqttConnect` starts with `clearMqttPending`), one whose callback
`clearMqttPending` meets between copy and flag, and what a fault takes. `ComesBack`
excepts `StuckConnected`: the callback of a session that is lost at once may run before
`attemptMqttConnect` stores `connected=1`, and nothing looks again.

In `Texts`, the bounds are on both sides of every comparison of the code: the first and
last byte of every class of UTF-8, the first and last surrogate, sizes that just fit and
just do not. `MaxNames` and `MaxInt` stand for 64 and INT_MAX and are small so that pages
and versions reach them.

In `BoardUi`, three instants with a retention of one interval let a row expire; whether it
goes does not depend on what is in a frame, so one is enough (`OneFrame`). What the drivers
hand out does not depend on the clock or on a query (`OneTime`), and for it there are two, which
is enough for a valid one to be followed by one that is not, and for a burst, or a sample,
to span two; two troubles are enough for a bus error in a burst and one in the next, or a
power cut after either. Two clients: one that is served, and one that waits or uploads next. Two
restarts: one during an `ota-apply`, and one of the server that could not start.

### Fairness

`FairSpec` of `BoardUpgrade` assumes weak fairness of U-Boot, of the init scripts, of a reboot
that a program has called, and of an `ota-apply` that runs: code that has started goes on.
Nothing obliges anybody to reset a board that hangs (`SomebodyResets` is a hypothesis of the
two properties that need it), to start an update, a fault to happen, or swupdate to succeed
rather than fail.
`FairSpec` of `OtaAgent` assumes weak fairness of the pipelines, of recovery and of the
boot. It does not assume the `timeout 35` of the init script, which is only used when
the command exists: recovery ends by its own limit.
`FairSpec` of `MqttAgent` assumes weak fairness of the main loop, of the library's threads
and of a child that runs; a session need not last, but the bound on faults and changes lets
it. `BoardUi` assumes that a daemon that runs goes on, that the chip converts and the kernel
probes, that a burst of reads goes on, that the logger gets the mutex of its driver in the end
(the one strong fairness: the dashboard reads by a timer, and a mutex of the kernel is
handed to a waiter), that a program the dashboard has started ends, that an init script goes on, and
that a client the server is serving sends its request or leaves. The last one is not
the code's doing: `recv` has no time limit, and a client that keeps silent keeps all others
waiting. Nothing starts a server that has died.

## 8. Proofs

`BoardUpgradeProofs` proves, for every set of callers with or without the lock, every
set of packages, every boot limit and every bound:

* `TypeCorrect`: `Spec => []TypeOK`;
* `TrialsAreCounted`: a trial has its boots counted;
* `OneSwitch`: at most one automatic switch until `failover_done` is reset;
* `CounterIsBounded`: the counter passes its limit only on the way into `altbootcmd`.

None of them is inductive. The invariant `IInv` they follow from adds to `TypeOK` what
each stage of the boot has already written: from the end of S12 on, counting is on
(that is why `ota-apply`, which sets `ota_pending` before `upgrade_available`, cannot
leave a trial uncounted); in `alt` the counter is past the limit and in the other
stages not, up to one count per power loss; `autoSwitches` is 1 only when
`failover_done` is 1. There is one
lemma per group of actions and one step per conjunct an action disturbs.

The second half of the module adds, under the assumption `Direct = {}` (every caller is an
agent):

* `RunningSlotIsSafe`: swupdate never writes the mounted root;
* `WrittenSlotIsActivated`: mode and target agree;
* `ARootfsSurvives` (also without NFS): at any time one root file system boots.

The argument is the exclusion the lock gives, and the fact that nobody else writes
`active_slot` while an `ota-apply` is past its check, except the rollback of S99; a
rollback needs a trial, which makes the check refuse. `BoardUpgradeConcurrent` shows
that the assumption is needed.

`FailoverLabProofs` proves `LabTrialsAreCounted` and `LabSwitchesOnce` for `ota-failover-test`
composed with all of `BoardUpgrade`: a command of the operator, one write at a time, may come
between any two writes of the scripts, of the bootloader and of `ota-apply`. The invariant is
`IInv` again, with `LabLeft` for the command: what is left of it are the last writes of `arm` or
of `board-boot-confirm start`, and each of these may stand anywhere in userland. The hypothesis
`TornEnv = FALSE`, which the run `FailoverLab` has too, is needed: S12 is not executable after
`soft`, so that a root which boots after a torn environment boots uncounted, and an update
from it is a trial that is not counted.

`ABUpdateProofs` follows an update from `ota-apply` to the commit, for updates that wait
for S99 (`EarlyUpdates = FALSE`; section 7 says what an earlier one does):

* `CommitIsOfTriedSlot` (without NFS, with or without the lock): only an image that has
  passed the health check is committed;
* `UpdateIsAtomic` (with the lock): `BoardUpgrade` implements `ABUpdate`. Every write of
  U-Boot, of the scripts and of `ota-apply` is a step of the atomic protocol or a stutter;
* `UntriedIsOnTrial` (with the lock, without NFS): without a fault, an image nobody has
  tried is on trial when S99 looks.

`ScriptInv` is what the scripts rely on: nobody applies an update while they run, and the
slot they have read is still the active one when they write it. `PlanInv` says, for each
write of an `ota-apply`, what the writes before it have made of the environment, which is
what the refinement mapping needs to see an installation open and close. The refinement
has one lemma per program, on the three values of the mapping (slot, trial, credit). For
`UntriedIsOnTrial`, `TrialInv` adds that every slot that was tried is good, that without a
fault a count that reaches the limit is that of a slot that does not boot, and that the
active slot was tried or an open trial can return to one that was. The hypothesis on NFS
is needed by both: a board whose root is on the network commits a slot that it does not
run.

`OtaAgentProofs` proves `AgentTyped` and, from the lock, `PipelinesExclude`: at most one
pipeline works, whoever is killed while its children go on. Its assumption on the
constants is that no request has the name of what the code saves of its own accord
(`RequestsAssumption`; `ota-agent.cpp:176` saves "pull-latest" where a requestId would be).

The second half of the module proves `DuplicatesAreKnown`, with no hypothesis. The property speaks of
the slot that runs; `Kept`, the core of the invariant, of every slot that may run next:
each loads the last request, from its file or, where the file went with the old image, from
the environment, and none of them has a file that knows of a pending upgrade the
environment does not. `PipesOK` says how far a pipeline has got with both copies, variable by variable.

`OtaCommitProofs` is about recovery at S20 and the commit at S99, for updates that wait for
the scripts of the boot:

* `ReportedIsNotCommitted`: a slot that recovery has reported as failed is not the one S99
  commits. `Trusted` says that no slot an open trial may end in was reported; `Spared`, that
  nothing recovery could load on the slot on trial calls for a verdict on the slot it came
  from;
* `BootsSettle` (with `MaxAttempts # 0`): a boot without a fault leaves nothing pending.
  `Quiet` says that as long as nothing was lost an open trial is known from the environment
  only, and that an upgrade a file knows of is one of the other slot. A recovery that is
  stopped before its first attempt judges nothing, hence the hypothesis; the code has 30
  attempts.

`MqttAgentProofs` proves, for any number of commands, hosts and faults, `MqttTyped`,
`PopsAreWhole` and `StatusesAreOrdered`. A command goes from the wire through the callback,
the buffer, the main loop and the child, in pieces and without a lock. `OInv` says that
each of them holds a later command than the next (`InOrder`), that the buffer is not
written while the flag is set (`Buffered`), and how much the operator has heard of the
command that each of them holds (`Popped`, `Running`). The delicate case is a text that was
popped and not yet cleared: it is in the buffer and in the main loop.

`BoardUiProofs` has one invariant per part, and `UiTyped` composes the three as the run
does:

* `SInv` of `SensorLog`: whoever reads ap3216c reads alone (`LockOK`), the registers it has
  read are of frames in their order, none before the last burst (`BurstOK`), and each field
  of the driver is a word of the newest burst that is valid for it (`ChipOK`); the values a
  sample has so far are not older than its beginning, in the order of the reads
  (`SampleOK`). `LastValidIsServed` and `SamplesAreCurrent` follow, for any number of
  frames, instants and bus errors;
* `WInv` of `WebServer`: while an `ota-apply` runs the server waits for it, has been told to
  stop, or is dead, and then the socket that the child has inherited keeps the next server
  from starting (`OneApply`); an exit status is that of the package it was started with, ok
  only when that was applied (`Exits`), and a client whose upload has not come to its
  `ota-apply` has none (`Untried`). `OwnUploadIsApplied` and `AnswersAreTrue` follow, for any
  number of clients and restarts;
* `PInv` of `Dashboard`: a dialog is open on the page of its command, and what a command has
  printed is read before its end. `LastResultIsShown` follows.

`TextsProofs` is about the algorithms, for texts of any length (`TextsAssumption` says what
the inputs are made of, `LimitsAssumption` that there is room for one name at least):

* `EncodingsAreTaken`: `utf8SequenceLength` takes exactly the encodings of scalars that are no
  surrogates;
* `StatusesFit`: the three kinds of status of precheck fit into their 512 bytes, whatever string the
  requestId was read from. What was read is at most 63 bytes, and none of them becomes
  more than six;
* `StringsAreReadBack`: the strings that are read are the well-formed ones that fit, what is
  read is what they spell, and an accepted string survives a status and its reader. What the
  output says in UTF-16, with the half of a pair that is waiting, is what the items read so
  far say; a smaller buffer holds the same as a larger one, or nothing; and what is escaped
  spells the characters it was made from;
* `CommandsAreParsed`: the object parser accepts the commands and nothing else, and refuses
  nothing that a command could begin with. `CommandInv` says how far into a command the
  tokens read so far reach (`Place`): four tokens a member, its key among those taken, and
  whether all values so far are good. An error is then a token that no order of the
  members has at that place; the end is reached with all five keys, each once;
* `NewestIsPicked`: the package chosen from a page is listed, and none listed is newer. The
  names found so far are those listed so far, each once, as long as there is room;
* `VersionsCompare`: versions compare as the sequences of their numbers, if these fit. Each
  turn of the loop drops one number of each, equal so far.

The loops are recursive functions; `Recursion` unfolds one of them at any position, and what
holds at every position is proved by looking at the first at which it would not (`Least`,
`UpTo`), because the library's induction takes an operator as a parameter.

Every invariant that a passing run checks is proved. Model-checked only, and why:

* the liveness properties `BootedTrialSettles`, `HungSlotFallsBack`, `BootNotBlocked`,
  `KeptIsAnswered`, `ComesBack`, `ComparisonEnds`, `ExpiredGoes`, `EveryClientEnds` and
  `ButtonsComeBack`: they rest on fairness, which is beyond the prover;
* the runs that are violated, which are counterexamples.

## 9. Disagreements between the code and its documentation

Three are runs that TLC finds violated (`findings` in PROJECT.json): the unlocked callers
of `ota-apply` against "always the inactive slot" (`guide/ota-swupdate.md:61`); the file of
the old slot, which overrides a committed `--pull-latest`, against "a final environment
decides" (`ota-agent.cpp:423`); the session that comes back without its subscription,
against "reconnects in the background and subscribes again"
(`tests/ota-agent/MQTT-VERIFICATION.md:30`).

Others met while modelling, which the models take from the code and no run is about:

* a slot that hangs, panics or ends in the emergency shell before S12 is counted once and then
  nothing resets the board: `boot_tf` passes no `panic=` (`boot.cmd:43`, and no PANIC_TIMEOUT is
  configured), and only S12 opens the watchdog (`board-watchdog-feed:23`). `bootcount` stays at 1
  and U-Boot does not switch until somebody has reset the board three times. Against "when a
  slot fails to start again and again U-Boot switches by itself" (`guide/ota-failover-test.md:3`),
  "in production a panic, a hang and the watchdog reset the board" (its `:229`) and
  `guide/ota-swupdate.md:128`; line 53 of the first says of the emergency shell what the code does;
* the guide says the switch comes at `bootcount` ≥ 3 (`:112`, `:128`); U-Boot switches
  when the counter is past 3, at the fourth start;
* the guide says a failed update returns to the old slot (`:118`); after a switch that
  was not followed by a commit it does not, as said above;
* zImage, the DTB and boot.scr are shared: an update with a kernel that does not boot
  breaks both slots. `Packages` may contain one; the runs' packages do not;
* an MQTT command that arrives between the switch of `ota-apply` and the reboot is
  refused, but its record replaces the one in the environment, and S99 of the new slot
  then marks it as committed;
* `/etc/init.d/mqtt-agent restart` runs recovery during an upgrade, which it reports as
  failed ("not in the target slot"); the upgrade goes on and is committed;
* after an update that failed behind `upgrading`, and a switch of the bootloader to the
  slot it was writing, recovery waits its 30 s at every boot: nothing will ever commit
  that slot;
* `autoReboot` of a command is saved and reported, and not looked at (`ota-exec.cpp:165`,
  `tests/ota-agent/MQTT-VERIFICATION.md:101`);
* U-Boot stores its environment before it computes the PARTUUIDs, so that `root=` is
  normally given in a form `readCurrentSlot` does not know and recovery is skipped;
* after a torn environment `upgrade_available` is absent: no boot is counted until S12
  has run once.
* a power loss between the first two writes of `ota-apply` runs the new slot without a
  trial (`TrialUnlessFault` says that it takes a fault), and an update installed from
  the NFS root is committed from it, both against "tried first, committed when confirmed"
  (`:118`);
* u-boot.imx, which the guide says is generally not changed (`:19`), is written by every
  package, in place; a power loss in that write leaves a board that does not start;
* `compareVersions` does not end when both versions reach a character that is neither a
  digit nor a dot after components that are equal, as in `1.0-a` against `1.0-b`
  (`ota-agent.cpp:270`), and mqtt-agent waits for its precheck without a time limit;
* among packages without a stamp and without a link the first of the page is taken, and
  one beyond the 64th name is not seen;
* a web upgrade that is interrupted by a stop of the server, or by the reboot its own
  `ota-apply` has begun, is answered as failed although it may be applied
  (`webserver-upgrade.c:226`); the `ota-apply` left behind keeps the port, and a server
  started meanwhile ends;
* a client that leaves before its answer can end the webserver (SIGPIPE), which nobody
  starts again before the next boot;
* an `ota-apply` that fails or is killed after its first `fw_setenv` leaves `active_slot`
  switched; the web client is told that its upgrade has failed, and the next boot takes the
  new slot (`ota-apply:51`, `webserver-upgrade.c:231`);
* the loggers have no busy timeout, and purge only after an insert; icm20608-logger ends
  when its device is late, and either logger when its database cannot be opened
  (`ap3216c-logger.c:256`, `icm20608-logger.c:226`); nothing starts them again before the
  next boot;
* "IR and PS keep their last valid value, so that they do not jump" (`ap3216c-hw.c:92`) holds
  of the valid bit, which is in the low byte: the high byte is read later and may be of the
  next frame, as may that of ALS, for the chip converts while it is read.

## 10. Not modelled

What `components` lists as `not_modelled`: the LED driver and its device tree switch (one
bit, one variable), board-data (partition and file system tools, once), network and time
scripts (no state of their own), key and touch monitors (examples that print events), build
and BSP configuration (nothing that runs). Of the modelled parts: the text of messages and
logs, the parsing of the kernel command line, swupdate's checks of signature and hardware
revision (one action, `SwuReject`), the contents of files, durations; of mqtt-agent the
heartbeat, which publishes and changes nothing; of the dashboard the pages without a
command, the LED buttons, the timers and the drawing; of the webserver the HTML and JSON
it makes; of the sensors what is computed from a raw value. mqtt-agent and ota-agent are
not composed write by write: `MqttAgent` knows of an ota-agent its lock, its lines and
its end, and the recovery that `restart` runs in the middle of an upgrade is not in it.

Where a definition is coarser than the code, in ways no property depends on:

* `OtaAgent`: a record that is incomplete in the environment, with no file, is forgotten
  (`Loaded`), where `ota-agent.cpp:27` keeps the part it has; versions are always compared,
  where `ota-agent.cpp:352` goes on without when os-release cannot be read;
* `MqttAgent`: the copy of a message and the store of its flag are not reordered (`SetPending`,
  `ota-mqtt.cpp:604`), though the two stores of `clearMqttPending` are; a precheck always ends
  (section 9 says when the code's does not);
* `FirmwareChoice`: a link whose quote is not closed ends the page, where
  `ota-discover.cpp:158` takes what is before the next quote of the kind;
* `Texts`: a status that quotes the system's error text of a state file that cannot be read
  is not measured;
* `BoardUpgrade`: S12 and S99 stop only by a power loss; under `set -eu` a `fw_setenv` that
  fails would stop them too, at the same places.
