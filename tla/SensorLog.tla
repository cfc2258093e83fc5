----------------------------- MODULE SensorLog -----------------------------
(***************************************************************************)
(* From a sensor to the page that shows its history: the chip, its kernel  *)
(* driver, the logger that stores a sample every interval in SQLite, and   *)
(* the query of the web server. The two chains of the board (ap3216c and   *)
(* icm20608) share nothing: "kind" says which one a behaviour is about.    *)
(*                                                                         *)
(* A value is a word of two registers, each named by the frame of the chip *)
(* it was read from: the chip converts on while a driver reads. A row of   *)
(* the table is named by its time: a query and a purge look at nothing     *)
(* else.                                                                   *)
(***************************************************************************)
EXTENDS Integers, Sequences, FiniteSetsExt

CONSTANTS
  Retain,     \* gRetainSeconds, in sampling intervals
  MaxTime,    \* bound: the clock of the board
  MaxFrames,  \* bound: frames the chip produces
  MaxTroubles \* bound: bus errors, power cuts, queries, times the clock is set back

ASSUME RetainAssumption == Retain \in Nat \ {0}
ASSUME TimeAssumption   == MaxTime \in Nat

\* The channels, in the order a sample reads them.
Channels(k) ==
  IF k = "ap3216c" THEN <<"ir", "als", "ps">>
  ELSE <<"accel_x", "accel_y", "accel_z", "anglvel_x", "anglvel_y", "anglvel_z", "temp">>

VARIABLES
  kind,    \* the chain: "ap3216c" or "icm20608"
  clock,   \* time(NULL)
  frames,  \* the frames the chip has produced: are IR and PS valid in it?
  drv,     \* the driver: bound ("no", "yes", "failed"), have_sample, is the conversion
           \* time not over?, the last values
  burst,   \* ap3216c: for each reader, is it in a burst, and the registers read so far
  logger,  \* the daemon: where it is, the time and the values of its sample
  rows,    \* the times in table samples
  lock,    \* the lock of the database: "none", "shared" (query) or "exclusive" (commit)
  page,    \* the query: "idle", "open" or "reading"
  troubles, \* bound
  readOf,  \* history: the bursts of ap3216c that ended since it was bound
  began    \* history: what a sample may not be older than

sensor == <<frames, drv, burst, readOf>>
store  == <<rows, lock>>
sensorVars == <<kind, clock, sensor, logger, store, page, troubles, began>>

Whole(f) == <<f, f>>  \* a word whose low and high byte are of one frame
NoFrame  == Whole(0)
Unbound  == [bound |-> "no", have |-> FALSE, converting |-> FALSE,
             ir |-> NoFrame, als |-> NoFrame, ps |-> NoFrame]
Readers  == {"probe", "logger", "dashboard"}
Idle     == [reading |-> FALSE, regs |-> <<>>]
NoBurst  == [r \in Readers |-> Idle]
At(pc)   == [pc |-> pc, ts |-> 0, sample |-> <<>>]

SensorInit ==
  /\ kind \in {"ap3216c", "icm20608"}
  /\ clock = 0 /\ frames = <<>> /\ drv = Unbound /\ burst = NoBurst
  /\ logger = At("off")
  /\ rows = {} /\ lock = "none" /\ page = "idle"
  /\ troubles = 0 /\ readOf = {} /\ began = NoFrame

Trouble == troubles < MaxTroubles /\ troubles' = troubles + 1
NewestFrame == Len(frames)

\* The chip ends a conversion. It marks the IR and the PS value of a frame it cannot trust.
Convert ==
  /\ NewestFrame < MaxFrames
  /\ \E ir, ps \in IF kind = "ap3216c" THEN BOOLEAN ELSE {TRUE} :
       frames' = Append(frames, [ir |-> ir, ps |-> ps])
  /\ UNCHANGED <<kind, clock, drv, burst, readOf, logger, store, page, troubles, began>>

\* 120 ms have passed since the driver read the chip.
ConversionOver ==
  /\ drv.converting /\ drv' = [drv EXCEPT !.converting = FALSE]
  /\ UNCHANGED <<kind, clock, frames, burst, readOf, logger, store, page, troubles, began>>

-----------------------------------------------------------------------------
(* The drivers *)

\* Faulty variant: an invalid value is handed out as it was read.
TrustsEveryFrame(d, b) ==
  [d EXCEPT !.have = TRUE, !.converting = TRUE,
            !.ir = <<b[1], b[2]>>, !.als = <<b[3], b[4]>>, !.ps = <<b[5], b[6]>>]

\* parse_ir, parse_als, parse_ps: the fields after burst b. The low bytes of IR and PS say
\* whether the value is valid; that of an invalid one is kept.
Parsed(d, b) ==
  [d EXCEPT !.have = TRUE, !.converting = TRUE, !.als = <<b[3], b[4]>>,
            !.ir = IF frames[b[1]].ir THEN <<b[1], b[2]>> ELSE @,
            !.ps = IF frames[b[5]].ps THEN <<b[5], b[6]>> ELSE @]

FromCache == drv.have /\ drv.converting
Locked    == \E r \in Readers : burst[r].reading

\* Faulty variant: the mutex is not taken.
ReadsUnlocked(who) ==
  /\ burst' = IF FromCache THEN burst ELSE [burst EXCEPT ![who].reading = TRUE]
  /\ UNCHANGED <<drv, readOf>>

\* ap3216c_misc_read takes the mutex; ap3216c_read_values answers from the cache while a
\* conversion may be running, else it begins to read the registers, and keeps the mutex.
ReadValues(who) ==
  /\ ~Locked
  /\ burst' = IF FromCache THEN burst ELSE [burst EXCEPT ![who].reading = TRUE]
  /\ UNCHANGED <<drv, readOf>>

\* What the logger goes on with: one line of /dev/ap3216c has the three values.
Sampled(d) == [logger EXCEPT !.pc = "insert", !.sample = <<d.ir, d.als, d.ps>>]

\* ap3216c_read_data_regs: one register after another, of the frame there is then. After
\* the sixth they are parsed, the reader has its answer, and ap3216c_probe makes the device.
ReadRegister(who) ==
  /\ burst[who].reading
  /\ LET regs == Append(burst[who].regs, NewestFrame) IN
     IF Len(regs) < 6
     THEN burst' = [burst EXCEPT ![who].regs = regs] /\ UNCHANGED <<drv, readOf, logger>>
     ELSE /\ burst' = [burst EXCEPT ![who] = Idle] /\ readOf' = readOf \cup {regs}
          /\ drv' = [Parsed(drv, regs) EXCEPT !.bound = "yes"]
          /\ logger' = IF who = "logger" THEN Sampled(drv') ELSE logger
  /\ UNCHANGED <<kind, clock, frames, store, page, troubles, began>>

\* Faulty variant: a channel comes from the last burst, whoever read it.
RawFromLastBurst == IF drv.als # NoFrame THEN UNCHANGED drv ELSE drv' = [drv EXCEPT !.als = Whole(NewestFrame)]

\* icm20608_read_raw: each channel is taken from a burst read for it in one transfer, under
\* the mutex.
ReadRaw == drv' = [drv EXCEPT !.als = Whole(NewestFrame)]

\* ap3216c_probe and icm20608_probe: the chip is set up, and ap3216c read once ...
Probe ==
  /\ drv.bound = "no" /\ frames # <<>> /\ ~Locked
  /\ IF kind = "ap3216c" THEN burst' = [burst EXCEPT !["probe"].reading = TRUE] /\ UNCHANGED drv
     ELSE drv' = [drv EXCEPT !.bound = "yes"] /\ UNCHANGED burst
  /\ UNCHANGED <<kind, clock, frames, readOf, logger, store, page, troubles, began>>

\* ... an error on the bus fails the probe, and nothing tries again until the next boot.
ProbeFails ==
  /\ drv.bound = "no" /\ Trouble
  /\ drv' = [drv EXCEPT !.bound = "failed"] /\ burst' = [burst EXCEPT !["probe"] = Idle]
  /\ UNCHANGED <<kind, clock, frames, readOf, logger, store, page, began>>

\* The dashboard reads the same device ...
DashboardReads ==
  /\ drv.bound = "yes"
  /\ IF kind = "ap3216c" THEN ReadValues("dashboard") ELSE ReadRaw /\ UNCHANGED <<burst, readOf>>
  /\ UNCHANGED <<kind, clock, frames, logger, store, page, troubles, began>>

\* ... and an error of the bus leaves the fields of the driver alone.
DashboardFails ==
  /\ burst["dashboard"].reading /\ burst' = [burst EXCEPT !["dashboard"] = Idle]
  /\ UNCHANGED <<kind, clock, frames, drv, readOf, logger, store, page, troubles, began>>

-----------------------------------------------------------------------------
(* The loggers *)

Asleep == At("sleep")

\* main: ensureDbDir and openDb make the table when it is missing. icm20608-logger looks for
\* its device once, and ends when it is not there; ap3216c-logger opens it for each sample.
\* Either ends for good when the database cannot be opened: a full or read-only disk, or
\* what a power cut has left of a commit, that is to be rolled back when others read.
LoggerStarts ==
  /\ logger.pc = "off"
  /\ \/ /\ logger' = IF kind = "icm20608" /\ drv.bound # "yes" THEN At("gone") ELSE Asleep
        /\ UNCHANGED troubles
     \/ Trouble /\ logger' = At("gone")
  /\ UNCHANGED <<kind, clock, sensor, store, page, began>>

\* sampleOnce: the time is taken before the device is read.
SampleBegins ==
  /\ logger.pc = "sleep"
  /\ logger' = [pc |-> "device", ts |-> clock, sample |-> <<>>]
  /\ began' = IF kind = "icm20608" THEN Whole(NewestFrame) ELSE drv.als
  /\ UNCHANGED <<kind, clock, sensor, store, page, troubles>>

\* readDeviceSample: a read of /dev/ap3216c is over at once when the cache answers; of the
\* IIO device each channel is a file of its own (the scales, which never change, come after
\* them).
ReadsDevice ==
  /\ logger.pc = "device" /\ drv.bound = "yes"
  /\ IF kind = "ap3216c"
     THEN ReadValues("logger") /\ logger' = IF FromCache THEN Sampled(drv) ELSE logger
     ELSE /\ ReadRaw /\ UNCHANGED <<burst, readOf>>
          /\ logger' = [logger EXCEPT
               !.sample = Append(@, drv'.als),
               !.pc = IF Len(logger.sample) + 1 = Len(Channels(kind)) THEN "insert" ELSE "device"]
  /\ UNCHANGED <<kind, clock, frames, store, page, troubles, began>>

\* A sample that fails is given up, in the middle of a burst, too. SQLite has no busy timeout
\* here: a commit that meets a query fails at once, and is rolled back.
SampleFails ==
  /\ \/ logger.pc = "device" /\ drv.bound # "yes" /\ UNCHANGED troubles
     \/ logger.pc = "device" /\ drv.bound = "yes" /\ Trouble
     \/ logger.pc = "insert" /\ lock = "shared" /\ UNCHANGED troubles
     \/ logger.pc = "purge" /\ lock = "shared" /\ UNCHANGED troubles
        /\ \E t \in rows : t < logger.ts - Retain
  /\ logger' = Asleep /\ began' = NoFrame
  /\ burst' = [burst EXCEPT !["logger"] = Idle]
  /\ UNCHANGED <<kind, clock, frames, drv, readOf, store, page>>

\* insertSample, purgeOldSamples: the commit takes the database for itself.
Commits ==
  /\ logger.pc \in {"insert", "purge"} /\ lock = "none"
  /\ lock' = "exclusive"
  /\ logger' = [logger EXCEPT !.pc = IF @ = "insert" THEN "inserting" ELSE "purging"]
  /\ UNCHANGED <<kind, clock, sensor, rows, page, troubles, began>>

Inserted ==
  /\ logger.pc = "inserting"
  /\ rows' = rows \cup {logger.ts} /\ lock' = "none"
  /\ logger' = [logger EXCEPT !.pc = "purge", !.sample = <<>>] /\ began' = NoFrame
  /\ UNCHANGED <<kind, clock, sensor, page, troubles>>

\* Faulty variant: the rows kept are those before the cutoff.
PurgesTheYoung(now) == {t \in rows : t > now - Retain}

\* purgeOldSamples: what is deleted.
Purged(now) == {t \in rows : t < now - Retain}

\* A purge that deletes nothing has nothing to commit, and meets no query.
PurgeEnds ==
  /\ \/ logger.pc = "purging" /\ lock' = "none"
     \/ logger.pc = "purge" /\ lock = "shared" /\ UNCHANGED lock
        /\ \A t \in rows : t >= logger.ts - Retain
  /\ rows' = rows \ Purged(logger.ts)
  /\ logger' = Asleep /\ UNCHANGED <<kind, clock, sensor, page, troubles, began>>

-----------------------------------------------------------------------------
(* The query of the web server *)

\* openSamplesDb
QueryOpens ==
  /\ page = "idle" /\ Trouble /\ page' = "open"
  /\ UNCHANGED <<kind, clock, sensor, logger, store, began>>

\* Faulty variant: the statement is not finalized, and keeps its lock.
ForgetsFinalize ==
  /\ page = "reading" /\ page' = "idle"
  /\ UNCHANGED <<kind, clock, sensor, logger, store, troubles, began>>

\* querySamplesJson: during a commit it fails (500); else it holds the shared lock from
\* its first row to sqlite3_finalize.
QueryReads ==
  /\ page = "open"
  /\ IF lock = "exclusive" THEN page' = "idle" /\ UNCHANGED lock
     ELSE page' = "reading" /\ lock' = "shared"
  /\ UNCHANGED <<kind, clock, sensor, logger, rows, troubles, began>>

QueryEnds ==
  /\ page = "reading"
  /\ page' = "idle" /\ lock' = "none"
  /\ UNCHANGED <<kind, clock, sensor, logger, rows, troubles, began>>

-----------------------------------------------------------------------------
(* The board *)

Tick ==
  /\ clock < MaxTime /\ clock' = clock + 1
  /\ UNCHANGED <<kind, sensor, logger, store, page, troubles, began>>

\* The time service sets a clock that was ahead.
ClockSetBack ==
  /\ Trouble
  /\ \E t \in 0..clock - 1 : clock' = t
  /\ UNCHANGED <<kind, sensor, logger, store, page, began>>

\* A commit that a power cut interrupts is rolled back from its journal.
PowerCut ==
  /\ Trouble
  /\ drv' = Unbound /\ burst' = NoBurst /\ readOf' = {} /\ frames' = <<>> /\ began' = NoFrame
  /\ logger' = At("off") /\ lock' = "none" /\ page' = "idle"
  /\ UNCHANGED <<kind, clock, rows>>

LoggerStep == SampleBegins \/ ReadsDevice \/ SampleFails \/ Commits \/ Inserted \/ PurgeEnds
QueryStep  == QueryReads \/ QueryEnds

SensorNext ==
  \/ Convert \/ ConversionOver \/ Probe \/ ProbeFails
  \/ DashboardReads \/ DashboardFails \/ \E r \in Readers : ReadRegister(r)
  \/ LoggerStarts \/ LoggerStep \/ QueryOpens \/ QueryStep
  \/ Tick \/ ClockSetBack \/ PowerCut

\* The chip and the clock go on, the kernel probes, a burst goes on, and the daemons run. The
\* logger gets the mutex in the end: the dashboard reads by a timer, and a mutex of the
\* kernel is handed to a waiter.
SensorFairness ==
  /\ WF_sensorVars(Convert) /\ WF_sensorVars(ConversionOver) /\ WF_sensorVars(Probe)
  /\ WF_sensorVars(\E r \in Readers : ReadRegister(r)) /\ SF_sensorVars(ReadsDevice)
  /\ WF_sensorVars(LoggerStarts) /\ WF_sensorVars(LoggerStep) /\ WF_sensorVars(QueryStep)
  /\ WF_sensorVars(Tick)

SensorSpec == SensorInit /\ [][SensorNext]_sensorVars /\ SensorFairness

-----------------------------------------------------------------------------
(* Properties *)

Words == (0..NewestFrame) \X (0..NewestFrame)
SensorTypeOK ==
  /\ kind \in {"ap3216c", "icm20608"} /\ clock \in 0..MaxTime
  /\ drv.bound \in {"no", "yes", "failed"} /\ {drv.have, drv.converting} \subseteq BOOLEAN
  /\ {drv.ir, drv.als, drv.ps, began} \subseteq Words
  /\ \A r \in Readers : burst[r].reading \in BOOLEAN /\ Len(burst[r].regs) < 6
  /\ burst["logger"].reading => logger.pc = "device"
  /\ burst["probe"].reading => drv.bound = "no"
  /\ readOf \subseteq [1..6 -> 1..NewestFrame]
  /\ logger.pc \in {"off", "gone", "sleep", "device", "insert", "inserting", "purge", "purging"}
  /\ Len(logger.sample) <= Len(Channels(kind)) /\ logger.ts \in 0..MaxTime
  /\ rows \subseteq 0..MaxTime /\ page \in {"idle", "open", "reading"}
  /\ (lock = "shared") <=> (page = "reading")
  /\ (lock = "exclusive") <=> (logger.pc \in {"inserting", "purging"})

\* Whoever reads ap3216c, wherever conversions, the reads of another and errors of the bus
\* fall between its registers, each value the driver hands out is one word of one burst:
\* ALS that of the last burst, IR and PS those of the last one that read them valid (0
\* before there is one), so that nothing older comes back. The two bytes of a word may still
\* be of two frames, for nothing but the chip keeps a conversion from ending between them.
OfNewest(word, low, S) ==
  IF S = {} THEN word = NoFrame
  ELSE \E b \in S : /\ word = <<b[low], b[low + 1]>>
                    /\ \A c \in S : c = b \/ c[6] <= b[1]
ServesLastValid ==
  kind = "ap3216c" /\ drv.bound = "yes" =>
    /\ OfNewest(drv.ir, 1, {b \in readOf : frames[b[1]].ir})
    /\ OfNewest(drv.als, 3, readOf)
    /\ OfNewest(drv.ps, 5, {b \in readOf : frames[b[5]].ps})

\* What is stored under a time was measured after it: no channel of icm20608 is older than
\* the beginning of the sample, though the dashboard reads in between, and the seven are
\* in the order of the reads (they may be of different bursts); of the ALS value of ap3216c
\* neither byte is older than what the driver had then.
NotOlder(v, w) == v[1] >= w[1] /\ v[2] >= w[2]
SampleIsCurrent ==
  logger.pc = "insert" =>
    IF kind = "ap3216c" THEN NotOlder(logger.sample[2], began)
    ELSE \A i, j \in DOMAIN logger.sample :
           /\ NotOlder(logger.sample[i], began)
           /\ i <= j => NotOlder(logger.sample[j], logger.sample[i])

\* A row that has expired is deleted in the end, whatever samples fail, queries come in
\* the way, or power cuts: unless there is no sample to store any more, for the logger could
\* not open its database (or icm20608-logger did not find its device) and has ended, or the
\* driver could not be bound (rows are only deleted after an insert).
Expired(t) == t \in rows /\ t < clock - Retain
NoMoreSamples == logger.pc = "gone" \/ drv.bound = "failed"
ExpiredGoes == \A t \in 0..MaxTime : Expired(t) ~> (~Expired(t) \/ NoMoreSamples)
=============================================================================
