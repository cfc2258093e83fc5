--------------------------- MODULE BoardUiProofs ---------------------------
(***************************************************************************)
(* What users of the board see: that the driver and the logger of a sensor *)
(* never mix the bursts of two readers, that ota-apply reads the package   *)
(* of its own client and the client hears how it ended, and that the       *)
(* dashboard shows how a command ended.                                    *)
(***************************************************************************)
EXTENDS MCBoardUi, SequenceTheorems, TLAPS

-----------------------------------------------------------------------------
(* The sensors *)

Frame      == [ir : BOOLEAN, ps : BOOLEAN]
Word       == Nat \X Nat
DrvType    == [bound : {"no", "yes", "failed"}, have : BOOLEAN, converting : BOOLEAN,
               ir : Word, als : Word, ps : Word]
BurstType  == [reading : BOOLEAN, regs : Seq(Nat)]
LoggerPcs  == {"off", "gone", "sleep", "device", "insert", "inserting", "purge", "purging"}
LoggerType == [pc : LoggerPcs, ts : 0 .. MaxTime, sample : Seq(Word)]

\* No byte of word w is of a frame after f.
Below(w, f) == w[1] <= f /\ w[2] <= f

\* The values of the driver, for the bursts read so far.
Serves(d, R) ==
  /\ OfNewest(d.ir, 1, {b \in R : frames[b[1]].ir})
  /\ OfNewest(d.als, 3, R)
  /\ OfNewest(d.ps, 5, {b \in R : frames[b[5]].ps})

\* The chip: what the driver has read are frames there were.
ChipOK ==
  /\ frames \in Seq(Frame) /\ readOf \subseteq [1 .. 6 -> 1 .. Len(frames)]
  /\ drv \in DrvType
  /\ Below(drv.ir, Len(frames)) /\ Below(drv.als, Len(frames)) /\ Below(drv.ps, Len(frames))
  /\ drv.bound = "yes" => frames # <<>>
  /\ kind = "ap3216c" => Serves(drv, readOf)

\* Frame f is not before what the driver has, nor before the end of a burst.
NotBefore(f, d, R) ==
  /\ Below(d.ir, f) /\ Below(d.als, f) /\ Below(d.ps, f)
  /\ \A b \in R : b[6] <= f

\* The mutex: who reads does it alone, so that what the driver had when a burst began is
\* what it has until the burst ends, and no register read meanwhile is older.
BurstOK ==
  /\ burst \in [Readers -> BurstType]
  /\ \A r \in Readers :
       /\ Len(burst[r].regs) < 6
       /\ ~burst[r].reading => burst[r].regs = <<>>
       /\ burst[r].reading => /\ frames # <<>> /\ kind = "ap3216c"
                              /\ drv.bound = (IF r = "probe" THEN "no" ELSE "yes")
       /\ \A q \in Readers : burst[r].reading /\ burst[q].reading => r = q
       /\ \A i \in 1 .. Len(burst[r].regs) :
            /\ burst[r].regs[i] \in 1 .. Len(frames)
            /\ NotBefore(burst[r].regs[i], drv, readOf)
  /\ burst["logger"].reading => logger.pc = "device"

\* The values a sample has so far are between what there was when it began and what there
\* is now, in the order of the reads.
SampleOK ==
  /\ began \in Word /\ Below(began, Len(frames))
  /\ kind = "ap3216c" =>
       /\ logger.pc = "device" => NotOlder(drv.als, began)
       /\ logger.pc = "insert" => NotOlder(logger.sample[2], began)
  /\ kind = "icm20608" /\ logger.pc \in {"device", "insert"} =>
       \A i, j \in 1 .. Len(logger.sample) :
         /\ NotOlder(logger.sample[i], began) /\ Below(logger.sample[i], Len(frames))
         /\ i <= j => NotOlder(logger.sample[j], logger.sample[i])

\* How many values a sample has.
SampleSize ==
  /\ logger.pc \in {"off", "gone", "sleep", "purge", "purging"} => logger.sample = <<>>
  /\ logger.pc = "device" => IF kind = "ap3216c" THEN logger.sample = <<>>
                             ELSE Len(logger.sample) < 7
  /\ Len(logger.sample) <= IF kind = "ap3216c" THEN 3 ELSE 7

\* Who has the lock of the database.
LockOK ==
  /\ (lock = "shared") <=> (page = "reading")
  /\ (lock = "exclusive") <=> (logger.pc \in {"inserting", "purging"})

SInv ==
  /\ kind \in {"ap3216c", "icm20608"} /\ clock \in 0 .. MaxTime /\ rows \subseteq 0 .. MaxTime
  /\ page \in {"idle", "open", "reading"} /\ logger \in LoggerType
  /\ ChipOK /\ BurstOK /\ SampleOK /\ SampleSize /\ LockOK

LEMMA FramesTyped ==
  ASSUME ChipOK
  PROVE  /\ Len(frames) \in Nat /\ frames \in [1 .. Len(frames) -> Frame]
         /\ frames # <<>> => Len(frames) \in 1 .. Len(frames)
<1>1. frames \in Seq(Frame)
  BY DEF ChipOK
<1>2. QED
  BY <1>1, LenProperties, EmptySeq

LEMMA WordParts ==
  /\ \A w \in Word : w[1] \in Nat /\ w[2] \in Nat
  /\ \A f \in Nat : Whole(f) \in Word /\ Whole(f)[1] = f /\ Whole(f)[2] = f
  /\ NoFrame \in Word /\ NoFrame[1] = 0 /\ NoFrame[2] = 0
BY DEF Word, Whole, NoFrame

\* Frames of two reads.
LEMMA Orders ==
  ASSUME NEW u \in Word, NEW v \in Word, NEW w \in Word, NEW f \in Nat, NEW g \in Nat
  PROVE  /\ Below(u, f) /\ f <= g => Below(u, g)
         /\ NotOlder(u, v) /\ NotOlder(v, w) => NotOlder(u, w)
         /\ NotOlder(u, u) /\ NotOlder(u, NoFrame) /\ Below(NoFrame, f)
         /\ Below(u, f) /\ Below(u, g) => NotOlder(<<f, g>>, u)
         /\ Below(u, f) => NotOlder(Whole(f), u)
         /\ Below(Whole(f), f)
BY WordParts DEF Below, NotOlder

LEMMA DrvWords ==
  ASSUME NEW d \in DrvType
  PROVE  d.ir \in Word /\ d.als \in Word /\ d.ps \in Word
BY DEF DrvType

\* A burst that begins after all others have ended is the newest.
LEMMA NewestJoins ==
  ASSUME NEW S, NEW b, NEW low, \A c \in S : c[6] <= b[1]
  PROVE  OfNewest(<<b[low], b[low + 1]>>, low, S \cup {b})
<1> DEFINE T == S \cup {b}
<1>1. b \in T /\ T # {} /\ \A c \in T : c = b \/ c[6] <= b[1]
  OBVIOUS
<1> HIDE DEF T
<1>2. OfNewest(<<b[low], b[low + 1]>>, low, T)
  BY <1>1 DEF OfNewest
<1>3. QED
  BY <1>2 DEF T

LEMMA ParsedServes ==
  ASSUME ChipOK, frames # <<>>, NEW d \in DrvType, NEW R,
         NEW b \in [1 .. 6 -> 1 .. Len(frames)],
         \A i \in 1 .. 6 : NotBefore(b[i], d, R), Serves(d, R)
  PROVE  /\ Parsed(d, b) \in DrvType /\ Parsed(d, b).bound = d.bound
         /\ Below(Parsed(d, b).ir, Len(frames)) /\ Below(Parsed(d, b).als, Len(frames))
         /\ Below(Parsed(d, b).ps, Len(frames))
         /\ NotOlder(Parsed(d, b).als, d.als)
         /\ Serves(Parsed(d, b), R \cup {b})
<1> DEFINE n == Len(frames)
           p == Parsed(d, b)
           ir == IF frames[b[1]].ir THEN <<b[1], b[2]>> ELSE d.ir
           ps == IF frames[b[5]].ps THEN <<b[5], b[6]>> ELSE d.ps
           als == <<b[3], b[4]>>
<1>1. n \in Nat /\ \A i \in 1 .. 6 : b[i] \in Nat /\ b[i] <= n
  BY FramesTyped
<1>2. /\ b[1] \in Nat /\ b[2] \in Nat /\ b[3] \in Nat /\ b[4] \in Nat /\ b[5] \in Nat /\ b[6] \in Nat
      /\ b[1] <= n /\ b[2] <= n /\ b[3] <= n /\ b[4] <= n /\ b[5] <= n /\ b[6] <= n
  BY <1>1
<1>3. p = [d EXCEPT !.have = TRUE, !.converting = TRUE, !.als = als, !.ir = ir, !.ps = ps]
  BY DEF Parsed, DrvType
<1>4. d.ir \in Word /\ d.als \in Word /\ d.ps \in Word
  BY DrvWords
<1>5. /\ Below(d.ir, b[1]) /\ Below(d.als, b[3]) /\ Below(d.als, b[4]) /\ Below(d.ps, b[1])
      /\ \A c \in R : c[6] <= b[1]
  BY DEF NotBefore
<1>6. Below(d.ir, n) /\ Below(d.ps, n)
  BY <1>1, <1>2, <1>4, <1>5, Orders
<1> HIDE DEF n, p
<1>7. \A f, g \in Nat : f <= n /\ g <= n => <<f, g>> \in Word /\ Below(<<f, g>>, n)
  BY DEF Word, Below
<1>8. ir \in Word /\ ps \in Word /\ als \in Word /\ Below(ir, n) /\ Below(ps, n) /\ Below(als, n)
  BY <1>2, <1>4, <1>6, <1>7
<1>9. NotOlder(als, d.als)
  BY <1>2, <1>4, <1>5, Orders
<1>10. OfNewest(als, 3, R \cup {b})
  <2>1. OfNewest(<<b[3], b[3 + 1]>>, 3, R \cup {b})
    BY <1>5, NewestJoins
  <2>2. QED
    BY <2>1
<1>11. OfNewest(ir, 1, {c \in R \cup {b} : frames[c[1]].ir})
  <2> DEFINE S == {c \in R : frames[c[1]].ir}
  <2>1. CASE frames[b[1]].ir
    <3>1. {c \in R \cup {b} : frames[c[1]].ir} = S \cup {b} /\ ir = <<b[1], b[1 + 1]>>
      BY <2>1
    <3>2. OfNewest(<<b[1], b[1 + 1]>>, 1, S \cup {b})
      BY <1>5, NewestJoins
    <3>3. QED
      BY <3>1, <3>2
  <2>2. CASE ~frames[b[1]].ir
    <3>1. {c \in R \cup {b} : frames[c[1]].ir} = S /\ ir = d.ir
      BY <2>2
    <3>2. QED
      BY <3>1 DEF Serves
  <2>3. QED
    BY <2>1, <2>2
<1>12. OfNewest(ps, 5, {c \in R \cup {b} : frames[c[5]].ps})
  <2> DEFINE S == {c \in R : frames[c[5]].ps}
  <2>1. CASE frames[b[5]].ps
    <3>1. {c \in R \cup {b} : frames[c[5]].ps} = S \cup {b} /\ ps = <<b[5], b[5 + 1]>>
      BY <2>1
    <3>2. OfNewest(<<b[5], b[5 + 1]>>, 5, S \cup {b})
      BY <1>5, NewestJoins
    <3>3. QED
      BY <3>1, <3>2
  <2>2. CASE ~frames[b[5]].ps
    <3>1. {c \in R \cup {b} : frames[c[5]].ps} = S /\ ps = d.ps
      BY <2>2
    <3>2. QED
      BY <3>1 DEF Serves
  <2>3. QED
    BY <2>1, <2>2
<1> HIDE DEF ir, ps, als
<1>13. /\ p.bound = d.bound /\ p.als = als /\ p.ir = ir /\ p.ps = ps /\ p \in DrvType
  BY <1>3, <1>8 DEF DrvType
<1>14. Serves(p, R \cup {b})
  BY <1>10, <1>11, <1>12, <1>13 DEF Serves
<1>15. QED
  BY <1>8, <1>9, <1>13, <1>14 DEF n, p

LEMMA UnboundServes ==
  /\ Unbound \in DrvType /\ Unbound.bound = "no"
  /\ Unbound.als = NoFrame /\ Unbound.ir = NoFrame /\ Unbound.ps = NoFrame
  /\ Serves(Unbound, {})
<1>1. /\ Unbound \in DrvType /\ Unbound.bound = "no"
      /\ Unbound.als = NoFrame /\ Unbound.ir = NoFrame /\ Unbound.ps = NoFrame
  BY WordParts DEF Unbound, DrvType
<1>2. {b \in {} : frames[b[1]].ir} = {} /\ {b \in {} : frames[b[5]].ps} = {}
  OBVIOUS
<1>3. QED
  BY <1>1, <1>2 DEF Serves, OfNewest

-----------------------------------------------------------------------------
(* The bursts *)

LEMMA IdleTyped == Idle \in BurstType /\ Idle.reading = FALSE /\ Idle.regs = <<>> /\ Len(<<>>) = 0
<1>1. <<>> \in Seq(Nat) /\ Len(<<>>) = 0
  BY EmptySeq
<1>2. QED
  BY <1>1 DEF Idle, BurstType

\* A step that leaves the reads alone.
LEMMA BurstKept ==
  ASSUME BurstOK, UNCHANGED <<kind, burst, readOf>>, frames' = frames, drv'.bound = drv.bound,
         drv'.ir = drv.ir, drv'.als = drv.als, drv'.ps = drv.ps,
         logger.pc = "device" /\ logger'.pc # "device" => ~burst["logger"].reading
  PROVE  BurstOK'
BY DEF BurstOK, NotBefore, Readers

\* A reader begins, with the mutex, or with none to begin with.
LEMMA BurstBegins ==
  ASSUME BurstOK, ~Locked, NEW who \in Readers, frames # <<>>, kind = "ap3216c",
         drv.bound = (IF who = "probe" THEN "no" ELSE "yes"),
         burst' = [burst EXCEPT ![who].reading = TRUE],
         UNCHANGED <<kind, frames, drv, readOf, logger>>, who = "logger" => logger.pc = "device"
  PROVE  BurstOK'
<1> DEFINE e == [burst[who] EXCEPT !.reading = TRUE]
<1>1. burst \in [Readers -> BurstType] /\ \A r \in Readers : ~burst[r].reading /\ burst[r].regs = <<>>
  BY DEF BurstOK, Locked
<1>2. e \in BurstType /\ e.reading = TRUE /\ e.regs = <<>>
  BY <1>1 DEF BurstType
<1> HIDE DEF e
<1>3. /\ burst' \in [Readers -> BurstType] /\ burst'[who] = e
      /\ \A r \in Readers : r # who => burst'[r] = burst[r]
  BY <1>1, <1>2 DEF e
<1>4. \A r \in Readers : burst'[r].regs = <<>> /\ (burst'[r].reading <=> r = who)
  BY <1>1, <1>2, <1>3
<1>5. "logger" \in Readers
  BY DEF Readers
<1>6. QED
  BY <1>3, <1>4, <1>5, IdleTyped DEF BurstOK

\* A reader gives up, or ends; then the values of the driver may change.
LEMMA BurstEnds ==
  ASSUME BurstOK, NEW who \in Readers, burst' = [burst EXCEPT ![who] = Idle],
         UNCHANGED <<kind, frames>>,
         UNCHANGED <<drv, readOf>> \/ \A r \in Readers \ {who} : ~burst[r].reading,
         logger'.pc = logger.pc \/ who = "logger" \/ ~burst["logger"].reading
  PROVE  BurstOK' /\ (burst[who].reading => \A r \in Readers : ~burst'[r].reading)
<1>1. burst \in [Readers -> BurstType]
  BY DEF BurstOK
<1>2. /\ burst' \in [Readers -> BurstType] /\ burst'[who] = Idle
      /\ \A r \in Readers : r # who => burst'[r] = burst[r]
  BY <1>1, IdleTyped
<1>3. ~burst'[who].reading /\ burst'[who].regs = <<>>
  BY <1>2, IdleTyped
<1>4. burst[who].reading => \A r \in Readers : ~burst'[r].reading
  BY <1>2, <1>3 DEF BurstOK
<1>5. burst'["logger"].reading => logger'.pc = "device"
  BY <1>2, <1>3 DEF BurstOK, Readers
<1>6. CASE UNCHANGED <<drv, readOf>>
  <2>1. ASSUME NEW r \in Readers
        PROVE  /\ Len(burst'[r].regs) < 6
               /\ ~burst'[r].reading => burst'[r].regs = <<>>
               /\ burst'[r].reading => /\ frames # <<>> /\ kind = "ap3216c"
                                      /\ drv.bound = (IF r = "probe" THEN "no" ELSE "yes")
               /\ \A q \in Readers : burst'[r].reading /\ burst'[q].reading => r = q
               /\ \A i \in 1 .. Len(burst'[r].regs) :
                    /\ burst'[r].regs[i] \in 1 .. Len(frames)
                    /\ NotBefore(burst'[r].regs[i], drv, readOf)
    BY <1>2, <1>3, IdleTyped DEF BurstOK
  <2>2. QED
    BY <1>2, <1>4, <1>5, <1>6, <2>1 DEF BurstOK, NotBefore
<1>7. CASE \A r \in Readers \ {who} : ~burst[r].reading
  <2>1. \A r \in Readers : ~burst'[r].reading /\ burst'[r].regs = <<>>
    BY <1>2, <1>3, <1>7 DEF BurstOK
  <2>2. QED
    BY <1>2, <1>4, <1>5, <2>1, IdleTyped DEF BurstOK
<1>8. QED
  BY <1>6, <1>7

-----------------------------------------------------------------------------
(* The steps of the sensors *)

\* While the logger neither takes nor gives up the database.
LEMMA LockKept ==
  ASSUME LockOK, UNCHANGED <<lock, page>>,
         logger.pc \notin {"inserting", "purging"}, logger'.pc \notin {"inserting", "purging"}
  PROVE  LockOK'
BY DEF LockOK

LEMMA Sizes == Len(Channels("ap3216c")) = 3 /\ Len(Channels("icm20608")) = 7
BY DEF Channels

LEMMA AtTyped ==
  ASSUME NEW pc \in LoggerPcs
  PROVE  At(pc) \in LoggerType /\ At(pc).pc = pc /\ At(pc).sample = <<>>
<1>1. <<>> \in Seq(Word) /\ 0 \in 0 .. MaxTime
  BY TimeAssumption, EmptySeq
<1>2. QED
  BY <1>1 DEF At, LoggerType

\* A logger that has no sample, after a step that leaves the database to whom it was.
LEMMA WithoutSample ==
  ASSUME SInv, kind' = kind, NEW pc \in {"off", "gone", "sleep"}, logger' = At(pc),
         began' \in Word, Below(began', Len(frames'))
  PROVE  SampleOK' /\ SampleSize' /\ logger' \in LoggerType
<1>1. /\ logger' \in LoggerType /\ logger'.pc = pc /\ logger'.sample = <<>> /\ Len(logger'.sample) = 0
  BY AtTyped, IdleTyped DEF LoggerPcs
<1>2. QED
  BY <1>1 DEF SampleOK, SampleSize

\* The three values of a sample of ap3216c, when its logger has them.
LEMMA SampledOK ==
  ASSUME SInv, kind = "ap3216c", kind' = kind, logger.pc = "device", NEW d \in DrvType,
         NotOlder(d.als, drv.als), began' = began, frames' = frames,
         logger' = Sampled(d), UNCHANGED <<lock, page>>
  PROVE  SampleOK' /\ SampleSize' /\ LockOK' /\ logger' \in LoggerType /\ logger'.pc = "insert"
<1> DEFINE s == <<d.ir, d.als, d.ps>>
           l == [logger EXCEPT !.pc = "insert", !.sample = s]
<1>1. logger' = l
  BY DEF Sampled
<1>2. s \in Seq(Word) /\ Len(s) = 3 /\ s[2] = d.als
  <2>1. \A a, b, c \in Word : <<a, b, c>> \in Seq(Word)
    OBVIOUS
  <2>2. s \in Seq(Word)
    BY <2>1, DrvWords
  <2>3. QED
    BY <2>2
<1> HIDE DEF s
<1>3. logger \in LoggerType
  BY DEF SInv
<1>4. l \in LoggerType /\ l.pc = "insert" /\ l.sample = s
  BY <1>2, <1>3 DEF LoggerType, LoggerPcs
<1> HIDE DEF l
<1>5. NotOlder(drv.als, began) /\ began \in Word /\ drv.als \in Word /\ Below(began, Len(frames))
  BY DrvWords DEF SInv, SampleOK, ChipOK
<1>6. NotOlder(d.als, began)
  BY <1>5, DrvWords, Orders
<1>7. SampleOK'
  BY <1>1, <1>2, <1>4, <1>5, <1>6 DEF SampleOK
<1>8. SampleSize'
  <2>1. kind' = "ap3216c" /\ logger'.pc = "insert" /\ Len(logger'.sample) = 3
    BY <1>1, <1>2, <1>4
  <2>2. QED
    BY <2>1 DEF SampleSize
<1>9. LockOK'
  BY <1>1, <1>4, LockKept DEF SInv
<1>10. QED
  BY <1>1, <1>4, <1>7, <1>8, <1>9

\* The light sensor read by one that waits for the mutex: nothing changes yet but the burst.
LEMMA ReadValuesStep ==
  ASSUME SInv, kind = "ap3216c", drv.bound = "yes", NEW who \in {"logger", "dashboard"}, ReadValues(who),
         UNCHANGED <<kind, frames, logger>>, who = "logger" => logger.pc = "device"
  PROVE  BurstOK'
<1>1. ~Locked /\ UNCHANGED <<drv, readOf>> /\ who \in Readers /\ frames # <<>> /\ BurstOK
  BY DEF ReadValues, Readers, SInv, ChipOK
<1>2. CASE burst' = burst
  BY <1>1, <1>2, BurstKept
<1>3. CASE burst' = [burst EXCEPT ![who].reading = TRUE]
  BY <1>1, <1>3, BurstBegins
<1>4. QED
  BY <1>2, <1>3 DEF ReadValues

\* A channel of the motion sensor.
LEMMA ReadRawStep ==
  ASSUME SInv, kind = "icm20608", drv.bound = "yes", ReadRaw, UNCHANGED <<kind, frames, burst, readOf>>
  PROVE  /\ ChipOK' /\ BurstOK' /\ drv'.als = Whole(Len(frames)) /\ Len(frames) \in Nat
<1> DEFINE n == Len(frames)
           r == [drv EXCEPT !.als = Whole(n)]
<1>1. n \in Nat /\ drv \in DrvType /\ drv' = r
  BY FramesTyped DEF SInv, ChipOK, ReadRaw, NewestFrame
<1> HIDE DEF n
<1>2. Whole(n) \in Word /\ Below(Whole(n), n)
  BY <1>1, WordParts, Orders
<1>3. r \in DrvType /\ r.bound = drv.bound /\ r.als = Whole(n) /\ r.ir = drv.ir /\ r.ps = drv.ps
  BY <1>1, <1>2 DEF DrvType
<1> HIDE DEF r
<1>4. ChipOK'
  BY <1>1, <1>2, <1>3 DEF SInv, ChipOK, n
<1>5. BurstOK'
  <2>1. \A r0 \in Readers : ~burst[r0].reading /\ burst[r0].regs = <<>>
    BY DEF SInv, BurstOK
  <2>2. "logger" \in Readers
    BY DEF Readers
  <2>3. QED
    BY <2>1, <2>2, IdleTyped DEF SInv, BurstOK
<1>6. QED
  BY <1>1, <1>3, <1>4, <1>5 DEF n

LEMMA ReadsDeviceStep ==
  ASSUME SInv, ReadsDevice
  PROVE  SInv'
<1>1. /\ UNCHANGED <<kind, clock, frames, rows, lock, page, began>> /\ logger.pc = "device"
      /\ kind \in {"ap3216c", "icm20608"} /\ logger \in LoggerType /\ drv.bound = "yes" /\ drv \in DrvType
  BY DEF SInv, ReadsDevice, store, ChipOK
<1>2. CASE kind = "ap3216c"
  <2>1. ReadValues("logger") /\ logger' = IF FromCache THEN Sampled(drv) ELSE logger
    BY <1>2 DEF ReadsDevice
  <2>2. UNCHANGED <<drv, readOf>> /\ ~Locked
    BY <2>1 DEF ReadValues
  <2>3. ChipOK'
    BY <1>1, <2>2 DEF SInv, ChipOK, Serves
  <2>4. CASE FromCache
    <3>1. logger' = Sampled(drv) /\ burst' = burst
      BY <2>1, <2>4 DEF ReadValues
    <3>2. NotOlder(drv.als, drv.als)
      BY <1>1, DrvWords, Orders, 0 \in Nat
    <3>3. SampleOK' /\ SampleSize' /\ LockOK' /\ logger' \in LoggerType
      BY <1>1, <1>2, <3>1, <3>2, SampledOK
    <3>4. BurstOK'
      <4>1. ~burst["logger"].reading
        BY <2>2 DEF Locked, Readers
      <4>2. QED
        BY <1>1, <2>2, <3>1, <4>1, BurstKept DEF SInv
    <3>5. QED
      BY <1>1, <2>3, <3>3, <3>4 DEF SInv
  <2>5. CASE ~FromCache
    <3>1. logger' = logger
      BY <2>1, <2>5
    <3>2. BurstOK'
      BY <1>1, <1>2, <2>1, <3>1, ReadValuesStep
    <3>3. SampleOK'
      BY <1>1, <2>2, <3>1 DEF SInv, SampleOK
    <3>4. QED
      BY <1>1, <2>3, <3>1, <3>2, <3>3 DEF SInv, SampleSize, LockOK
  <2>6. QED
    BY <2>4, <2>5
<1>3. CASE kind = "icm20608"
  <2> DEFINE n == Len(frames)
             v == Whole(n)
             m == Len(logger.sample)
             s == Append(logger.sample, v)
             pc == IF m + 1 = 7 THEN "insert" ELSE "device"
             l == [logger EXCEPT !.sample = s, !.pc = pc]
  <2>1. ChipOK' /\ BurstOK' /\ drv'.als = v /\ n \in Nat
    BY <1>1, <1>3, ReadRawStep DEF ReadsDevice
  <2>2. logger' = l
    BY <1>3, <2>1, Sizes DEF ReadsDevice
  <2>3. logger.sample \in Seq(Word)
    BY <1>1 DEF LoggerType
  <2>4. m \in Nat /\ m < 7
    BY <1>1, <1>3, <2>3, LenProperties DEF SInv, SampleSize
  <2>5. began \in Word /\ Below(began, n) /\ v \in Word /\ Below(v, n)
    BY <2>1, WordParts, Orders DEF SInv, SampleOK
  <2>6. /\ s \in Seq(Word) /\ Len(s) = m + 1 /\ s[m + 1] = v
        /\ \A i \in 1 .. m : s[i] = logger.sample[i] /\ s[i] \in Word
    BY <2>3, <2>4, <2>5, AppendProperties, LenProperties
  <2>7. \A i, j \in 1 .. m :
          /\ NotOlder(s[i], began) /\ Below(s[i], n)
          /\ i <= j => NotOlder(s[j], s[i])
    BY <1>1, <1>3, <2>6 DEF SInv, SampleOK
  <2>8. NotOlder(v, began) /\ NotOlder(v, v) /\ \A i \in 1 .. m : NotOlder(v, s[i])
    BY <2>1, <2>5, <2>6, <2>7, Orders
  <2> HIDE DEF v, m, s, n
  <2>9. \A i, j \in 1 .. m + 1 :
          /\ NotOlder(s[i], began) /\ Below(s[i], n)
          /\ i <= j => NotOlder(s[j], s[i])
    <3>1. \A i \in 1 .. m + 1 : i \in 1 .. m \/ i = m + 1
      BY <2>4
    <3>2. \A i \in 1 .. m : ~(m + 1 <= i)
      BY <2>4
    <3>3. QED
      BY <2>5, <2>6, <2>7, <2>8, <3>1, <3>2
  <2>10. pc \in {"insert", "device"} /\ (pc = "device" => m + 1 < 7)
    BY <2>4
  <2> HIDE DEF pc
  <2>11. l \in LoggerType /\ l.pc = pc /\ l.sample = s
    BY <1>1, <2>6, <2>10 DEF LoggerType, LoggerPcs
  <2> HIDE DEF l
  <2>12. SampleOK'
    <3>1. kind' = "icm20608" /\ Len(logger'.sample) = m + 1 /\ logger'.sample = s /\ began' = began /\ Len(frames') = n
      BY <1>1, <1>3, <2>2, <2>6, <2>11 DEF n
    <3>2. QED
      BY <2>5, <2>9, <3>1 DEF SampleOK
  <2>13. SampleSize'
    BY <1>1, <1>3, <2>2, <2>4, <2>6, <2>10, <2>11 DEF SampleSize
  <2>14. LockOK'
    BY <1>1, <2>2, <2>10, <2>11, LockKept DEF SInv
  <2>15. QED
    BY <1>1, <2>1, <2>2, <2>11, <2>12, <2>13, <2>14 DEF SInv
<1>4. QED
  BY <1>1, <1>2, <1>3

\* A register: within the burst, or the one that ends it.
LEMMA ReadRegisterStep ==
  ASSUME SInv, NEW who \in Readers, ReadRegister(who)
  PROVE  SInv'
<1> DEFINE n    == Len(frames)
           old  == burst[who].regs
           m    == Len(old)
           regs == Append(old, n)
<1>1. /\ UNCHANGED <<kind, clock, frames, rows, lock, page, began>> /\ burst[who].reading
      /\ kind = "ap3216c" /\ frames # <<>> /\ burst \in [Readers -> BurstType] /\ BurstOK
      /\ ChipOK /\ drv \in DrvType /\ logger \in LoggerType /\ Serves(drv, readOf)
  BY DEF ReadRegister, store, SInv, BurstOK, ChipOK
<1>2. n \in Nat /\ n \in 1 .. n
  BY <1>1, FramesTyped
<1>3. old \in Seq(Nat) /\ m \in Nat /\ m < 6
  <2>1. old \in Seq(Nat)
    BY <1>1 DEF BurstType
  <2>2. QED
    BY <1>1, <2>1, LenProperties DEF BurstOK
<1>4. /\ regs \in Seq(Nat) /\ Len(regs) = m + 1 /\ regs[m + 1] = n
      /\ \A i \in 1 .. m : regs[i] = old[i]
  BY <1>2, <1>3, AppendProperties
<1>5. NotBefore(n, drv, readOf)
  <2>1. \A b \in readOf : b[6] \in 1 .. n
    BY <1>1 DEF ChipOK
  <2>2. QED
    BY <1>1, <1>2, <2>1 DEF ChipOK, NotBefore
<1>6. \A i \in 1 .. m : old[i] \in 1 .. n /\ NotBefore(old[i], drv, readOf)
  BY <1>1 DEF BurstOK
<1>7. IF Len(regs) < 6
      THEN burst' = [burst EXCEPT ![who].regs = regs] /\ UNCHANGED <<drv, readOf, logger>>
      ELSE /\ burst' = [burst EXCEPT ![who] = Idle] /\ readOf' = readOf \cup {regs}
           /\ drv' = [Parsed(drv, regs) EXCEPT !.bound = "yes"]
           /\ logger' = IF who = "logger" THEN Sampled(drv') ELSE logger
  BY DEF ReadRegister, NewestFrame
<1> HIDE DEF n, m, regs
<1>8. \A i \in 1 .. m + 1 : regs[i] \in 1 .. n /\ NotBefore(regs[i], drv, readOf)
  <2>1. \A i \in 1 .. m + 1 : i \in 1 .. m \/ i = m + 1
    BY <1>3
  <2>2. QED
    BY <1>2, <1>4, <1>5, <1>6, <2>1
<1> HIDE DEF old
<1>9. CASE m + 1 < 6
  <2> DEFINE e == [burst[who] EXCEPT !.regs = regs]
  <2>1. burst' = [burst EXCEPT ![who] = e] /\ UNCHANGED <<drv, readOf, logger>>
    BY <1>4, <1>7, <1>9
  <2>2. e \in BurstType /\ e.reading = burst[who].reading /\ e.regs = regs
    BY <1>1, <1>4 DEF BurstType
  <2> HIDE DEF e
  <2>3. /\ burst' \in [Readers -> BurstType] /\ burst'[who] = e
        /\ \A r \in Readers : r # who => burst'[r] = burst[r]
        /\ \A r \in Readers : burst'[r].reading = burst[r].reading
    BY <1>1, <2>1, <2>2
  <2>4. BurstOK'
    <3>1. ASSUME NEW r \in Readers
          PROVE  /\ Len(burst'[r].regs) < 6
                 /\ ~burst'[r].reading => burst'[r].regs = <<>>
                 /\ \A i \in 1 .. Len(burst'[r].regs) :
                      /\ burst'[r].regs[i] \in 1 .. Len(frames)
                      /\ NotBefore(burst'[r].regs[i], drv, readOf)
      <4>1. CASE r = who
        <5>1. burst'[r].regs = regs /\ burst'[r].reading
          BY <1>1, <2>2, <2>3, <4>1
        <5>2. QED
          BY <1>4, <1>8, <1>9, <5>1 DEF n
      <4>2. CASE r # who
        BY <1>1, <2>3, <4>2 DEF BurstOK
      <4>3. QED
        BY <4>1, <4>2
    <3>2. /\ \A r \in Readers : burst'[r].reading => /\ frames # <<>> /\ kind = "ap3216c"
                                  /\ drv.bound = (IF r = "probe" THEN "no" ELSE "yes")
          /\ \A r, q \in Readers : burst'[r].reading /\ burst'[q].reading => r = q
      BY <1>1, <2>3 DEF BurstOK
    <3>3. burst'["logger"].reading => logger.pc = "device"
      BY <1>1, <2>3 DEF BurstOK, Readers
    <3>4. QED
      BY <1>1, <2>1, <2>3, <3>1, <3>2, <3>3 DEF BurstOK, NotBefore
  <2>5. ChipOK' /\ SampleOK'
    BY <1>1, <2>1 DEF SInv, ChipOK, SampleOK, Serves
  <2>6. QED
    BY <1>1, <2>1, <2>4, <2>5 DEF SInv, SampleSize, LockOK
<1>10. CASE m + 1 = 6
  <2> DEFINE p == Parsed(drv, regs)
             q == [p EXCEPT !.bound = "yes"]
  <2>1. /\ burst' = [burst EXCEPT ![who] = Idle] /\ readOf' = readOf \cup {regs} /\ drv' = q
        /\ logger' = IF who = "logger" THEN Sampled(drv') ELSE logger
    BY <1>4, <1>7, <1>10
  <2>2. regs \in [1 .. 6 -> 1 .. n] /\ \A i \in 1 .. 6 : NotBefore(regs[i], drv, readOf)
    <3>1. regs \in [1 .. 6 -> Nat]
      BY <1>4, <1>10, LenProperties
    <3>2. QED
      BY <1>8, <1>10, <3>1
  <2>3. /\ p \in DrvType /\ Below(p.ir, n) /\ Below(p.als, n) /\ Below(p.ps, n)
        /\ NotOlder(p.als, drv.als) /\ Serves(p, readOf \cup {regs})
    BY <1>1, <2>2, ParsedServes DEF n
  <2> HIDE DEF p
  <2>4. q \in DrvType /\ q.bound = "yes" /\ q.ir = p.ir /\ q.als = p.als /\ q.ps = p.ps
    BY <2>3 DEF DrvType
  <2> HIDE DEF q
  <2>5. ChipOK'
    <3>1. readOf' \subseteq [1 .. 6 -> 1 .. n]
      BY <1>1, <2>1, <2>2 DEF ChipOK, n
    <3>2. Serves(drv', readOf')
      BY <2>1, <2>3, <2>4 DEF Serves
    <3>3. Serves(drv, readOf)'
      BY <1>1, <3>2 DEF Serves
    <3>4. QED
      BY <1>1, <2>1, <2>3, <2>4, <3>1, <3>3 DEF ChipOK, n
  <2>6. BurstOK'
    <3>1. \A r \in Readers \ {who} : ~burst[r].reading
      BY <1>1 DEF BurstOK
    <3>2. logger'.pc = logger.pc \/ who = "logger"
      BY <2>1
    <3>3. QED
      BY <1>1, <2>1, <3>1, <3>2, BurstEnds
  <2>7. CASE who = "logger"
    <3>1. logger.pc = "device"
      BY <1>1, <2>7 DEF BurstOK
    <3>2. SampleOK' /\ SampleSize' /\ LockOK' /\ logger' \in LoggerType
      BY <1>1, <2>1, <2>3, <2>4, <2>7, <3>1, SampledOK
    <3>3. QED
      BY <1>1, <2>5, <2>6, <3>2 DEF SInv
  <2>8. CASE who # "logger"
    <3>1. logger' = logger
      BY <2>1, <2>8
    <3>2. logger.pc = "device" => NotOlder(q.als, began)
      <4>1. /\ logger.pc = "device" => NotOlder(drv.als, began)
            /\ began \in Word /\ drv.als \in Word /\ q.als \in Word
        BY <1>1, <2>4, DrvWords DEF SInv, SampleOK
      <4>2. QED
        BY <1>2, <2>3, <2>4, <4>1, Orders
    <3>3. SampleOK'
      BY <1>1, <2>1, <3>1, <3>2 DEF SInv, SampleOK
    <3>4. QED
      BY <1>1, <2>5, <2>6, <3>1, <3>3 DEF SInv, SampleSize, LockOK
  <2>9. QED
    BY <2>7, <2>8
<1>11. QED
  BY <1>3, <1>9, <1>10

LEMMA ChipKept ==
  ASSUME SInv, UNCHANGED <<kind, sensor>>,
         logger.pc = "device" => logger'.pc = "device"
  PROVE  /\ ChipOK' /\ BurstOK' /\ Len(frames) \in Nat
         /\ frames' = frames /\ Len(frames') = Len(frames) /\ drv' = drv
<1>1. UNCHANGED <<kind, frames, drv, burst, readOf>>
  BY DEF sensor
<1>2. ChipOK' /\ BurstOK'
  BY <1>1, BurstKept DEF SInv, ChipOK, Serves
<1>3. QED
  BY <1>1, <1>2, FramesTyped DEF SInv

LEMMA ConvertStep ==
  ASSUME SInv, Convert
  PROVE  SInv'
<1> DEFINE n == Len(frames)
<1>1. PICK f \in Frame : frames' = Append(frames, f)
  BY DEF Convert, Frame
<1>2. /\ UNCHANGED <<kind, clock, drv, burst, readOf, logger, rows, lock, page, began>>
      /\ frames \in Seq(Frame) /\ readOf \subseteq [1 .. 6 -> 1 .. n] /\ drv \in DrvType
  BY DEF Convert, store, SInv, ChipOK
<1>3. /\ frames' \in Seq(Frame) /\ frames' # <<>> /\ Len(frames') = n + 1
      /\ \A i \in 1 .. n : frames'[i] = frames[i]
  BY <1>1, <1>2, AppendProperties
<1>4. n \in Nat
  BY <1>2, LenProperties
<1> HIDE DEF n
<1>5. \A w \in Word : Below(w, n) => Below(w, n + 1)
  <2> SUFFICES ASSUME NEW w \in Word, Below(w, n) PROVE Below(w, n + 1)
    OBVIOUS
  <2>1. n + 1 \in Nat /\ n <= n + 1
    BY <1>4
  <2>2. QED
    BY <1>4, <2>1, Orders
<1>6. 1 .. n \subseteq 1 .. n + 1
  BY <1>4
<1>7. ChipOK'
  <2>1. Below(drv.ir, n) /\ Below(drv.als, n) /\ Below(drv.ps, n)
    BY DEF SInv, ChipOK, n
  <2>2. Below(drv.ir, n + 1) /\ Below(drv.als, n + 1) /\ Below(drv.ps, n + 1)
    BY <1>2, <1>5, <2>1, DrvWords
  <2>3. readOf \subseteq [1 .. 6 -> 1 .. n + 1]
    BY <1>2, <1>6
  <2>4. kind = "ap3216c" => Serves(drv, readOf)'
    <3>1. \A b \in readOf : b[1] \in 1 .. n /\ b[5] \in 1 .. n
      BY <1>2
    <3>2. /\ {b \in readOf : frames'[b[1]].ir} = {b \in readOf : frames[b[1]].ir}
          /\ {b \in readOf : frames'[b[5]].ps} = {b \in readOf : frames[b[5]].ps}
      BY <1>3, <3>1
    <3>3. kind = "ap3216c" => Serves(drv, readOf)
      BY DEF SInv, ChipOK
    <3>4. QED
      BY <1>2, <3>2, <3>3 DEF Serves
  <2>5. QED
    BY <1>2, <1>3, <2>2, <2>3, <2>4 DEF ChipOK
<1>8. BurstOK'
  <2>1. BurstOK
    BY DEF SInv
  <2>2. ASSUME NEW r \in Readers, NEW i \in 1 .. Len(burst[r].regs)
        PROVE  burst[r].regs[i] \in 1 .. n + 1 /\ NotBefore(burst[r].regs[i], drv, readOf)
    BY <1>6, <2>1 DEF BurstOK, n
  <2>3. QED
    BY <1>2, <1>3, <2>1, <2>2 DEF BurstOK, NotBefore
<1>9. SampleOK'
  <2>1. /\ began \in Word /\ Below(began, n)
        /\ kind = "ap3216c" =>
             /\ logger.pc = "device" => NotOlder(drv.als, began)
             /\ logger.pc = "insert" => NotOlder(logger.sample[2], began)
        /\ kind = "icm20608" /\ logger.pc \in {"device", "insert"} =>
             \A i, j \in 1 .. Len(logger.sample) :
               /\ NotOlder(logger.sample[i], began) /\ Below(logger.sample[i], n)
               /\ i <= j => NotOlder(logger.sample[j], logger.sample[i])
    BY DEF SInv, SampleOK, n
  <2>2. logger.sample \in Seq(Word)
    BY DEF SInv, LoggerType
  <2>3. \A i \in 1 .. Len(logger.sample) : logger.sample[i] \in Word
    BY <2>2, LenProperties
  <2>4. QED
    BY <1>2, <1>3, <1>5, <2>1, <2>3 DEF SampleOK
<1>10. QED
  BY <1>2, <1>7, <1>8, <1>9 DEF SInv, SampleSize, LockOK

LEMMA ConversionOverStep ==
  ASSUME SInv, ConversionOver
  PROVE  SInv'
<1>1. UNCHANGED <<kind, clock, frames, burst, readOf, logger, rows, lock, page, began>>
  BY DEF ConversionOver, store
<1>2. /\ drv' \in DrvType /\ drv'.ir = drv.ir /\ drv'.als = drv.als /\ drv'.ps = drv.ps
      /\ drv'.bound = drv.bound
  BY DEF ConversionOver, SInv, ChipOK, DrvType
<1>3. ChipOK'
  BY <1>1, <1>2 DEF SInv, ChipOK, Serves
<1>4. BurstOK'
  BY <1>1, <1>2, BurstKept DEF SInv
<1>5. SampleOK'
  BY <1>1, <1>2 DEF SInv, SampleOK
<1>6. QED
  BY <1>1, <1>3, <1>4, <1>5 DEF SInv, SampleSize, LockOK

LEMMA ProbeStep ==
  ASSUME SInv, Probe
  PROVE  SInv'
<1>1. /\ UNCHANGED <<kind, clock, frames, readOf, logger, rows, lock, page, began>>
      /\ frames # <<>> /\ drv.bound = "no" /\ ~Locked
  BY DEF Probe, store
<1>2. CASE kind = "ap3216c"
  <2>1. burst' = [burst EXCEPT !["probe"].reading = TRUE] /\ drv' = drv
    BY <1>2 DEF Probe
  <2>2. BurstOK'
    <3>1. "probe" \in Readers /\ BurstOK
      BY DEF Readers, SInv
    <3>2. QED
      BY <1>1, <1>2, <2>1, <3>1, BurstBegins
  <2>3. ChipOK' /\ SampleOK'
    BY <1>1, <2>1 DEF SInv, ChipOK, Serves, SampleOK
  <2>4. QED
    BY <1>1, <2>1, <2>2, <2>3 DEF SInv, SampleSize, LockOK
<1>3. CASE kind # "ap3216c"
  <2>1. burst' = burst /\ drv' = [drv EXCEPT !.bound = "yes"]
    BY <1>3 DEF Probe
  <2>2. drv' \in DrvType /\ drv'.ir = drv.ir /\ drv'.als = drv.als /\ drv'.ps = drv.ps
    BY <2>1 DEF SInv, ChipOK, DrvType
  <2>3. \A r \in Readers : ~burst[r].reading /\ burst[r].regs = <<>>
    BY <1>3 DEF SInv, BurstOK
  <2>4. BurstOK'
    BY <1>1, <2>1, <2>3, IdleTyped DEF SInv, BurstOK, Readers
  <2>5. ChipOK' /\ SampleOK'
    BY <1>1, <1>3, <2>1, <2>2 DEF SInv, ChipOK, SampleOK
  <2>6. QED
    BY <1>1, <2>4, <2>5 DEF SInv, SampleSize, LockOK
<1>4. QED
  BY <1>2, <1>3

LEMMA ProbeFailsStep ==
  ASSUME SInv, ProbeFails
  PROVE  SInv'
<1>1. /\ UNCHANGED <<kind, clock, frames, readOf, logger, rows, lock, page, began>>
      /\ drv.bound = "no" /\ drv' = [drv EXCEPT !.bound = "failed"]
      /\ burst' = [burst EXCEPT !["probe"] = Idle]
  BY DEF ProbeFails, store
<1>2. /\ drv' \in DrvType /\ drv'.ir = drv.ir /\ drv'.als = drv.als /\ drv'.ps = drv.ps
      /\ drv'.bound = "failed"
  BY <1>1 DEF SInv, ChipOK, DrvType
<1>3. ChipOK' /\ SampleOK'
  BY <1>1, <1>2 DEF SInv, ChipOK, Serves, SampleOK
<1>4. BurstOK'
  <2>1. \A r \in Readers \ {"probe"} : ~burst[r].reading
    BY <1>1 DEF SInv, BurstOK
  <2>2. "probe" \in Readers /\ BurstOK
    BY DEF Readers, SInv
  <2>3. QED
    BY <1>1, <2>1, <2>2, BurstEnds
<1>5. QED
  BY <1>1, <1>3, <1>4 DEF SInv, SampleSize, LockOK

LEMMA DashboardReadsStep ==
  ASSUME SInv, DashboardReads
  PROVE  SInv'
<1>1. /\ UNCHANGED <<kind, clock, frames, logger, rows, lock, page, began>> /\ drv.bound = "yes"
      /\ kind \in {"ap3216c", "icm20608"}
  BY DEF DashboardReads, store, SInv
<1>2. CASE kind = "ap3216c"
  <2>1. ReadValues("dashboard") /\ UNCHANGED <<drv, readOf>>
    BY <1>2 DEF DashboardReads, ReadValues
  <2>2. BurstOK'
    BY <1>1, <1>2, <2>1, ReadValuesStep
  <2>3. ChipOK' /\ SampleOK'
    BY <1>1, <2>1 DEF SInv, ChipOK, Serves, SampleOK
  <2>4. QED
    BY <1>1, <2>2, <2>3 DEF SInv, SampleSize, LockOK
<1>3. CASE kind = "icm20608"
  <2>1. ReadRaw /\ UNCHANGED <<burst, readOf>>
    BY <1>3 DEF DashboardReads
  <2>2. ChipOK' /\ BurstOK'
    BY <1>1, <1>3, <2>1, ReadRawStep
  <2>3. SampleOK'
    BY <1>1, <1>3 DEF SInv, SampleOK
  <2>4. QED
    BY <1>1, <2>2, <2>3 DEF SInv, SampleSize, LockOK
<1>4. QED
  BY <1>1, <1>2, <1>3

LEMMA DashboardFailsStep ==
  ASSUME SInv, DashboardFails
  PROVE  SInv'
<1>1. /\ UNCHANGED <<kind, clock, frames, drv, readOf, logger, rows, lock, page, began>>
      /\ burst' = [burst EXCEPT !["dashboard"] = Idle]
  BY DEF DashboardFails, store
<1>2. BurstOK'
  <2>1. "dashboard" \in Readers /\ BurstOK
    BY DEF Readers, SInv
  <2>2. QED
    BY <1>1, <2>1, BurstEnds
<1>3. ChipOK' /\ SampleOK'
  BY <1>1 DEF SInv, ChipOK, Serves, SampleOK
<1>4. QED
  BY <1>1, <1>2, <1>3 DEF SInv, SampleSize, LockOK

LEMMA SampleStarts ==
  ASSUME SInv, LoggerStarts \/ SampleBegins \/ SampleFails
  PROVE  SInv'
<1>1. UNCHANGED <<kind, clock, frames, drv, readOf, rows, lock, page>>
  BY DEF LoggerStarts, SampleBegins, SampleFails, sensor, store
<1>2. ChipOK' /\ Len(frames) \in Nat
  BY <1>1, FramesTyped DEF SInv, ChipOK, Serves
<1>3. BurstOK'
  <2>1. CASE LoggerStarts \/ SampleBegins
    <3>1. burst' = burst /\ logger.pc # "device"
      BY <2>1 DEF LoggerStarts, SampleBegins, sensor
    <3>2. QED
      BY <1>1, <3>1, BurstKept DEF SInv
  <2>2. CASE SampleFails
    <3>1. burst' = [burst EXCEPT !["logger"] = Idle] /\ "logger" \in Readers
      BY <2>2 DEF SampleFails, Readers
    <3>2. QED
      BY <1>1, <3>1, BurstEnds DEF SInv
  <2>3. QED
    BY <2>1, <2>2
<1>4. CASE LoggerStarts \/ SampleFails
  <2>1. PICK pc \in {"gone", "sleep"} : logger' = At(pc)
    BY <1>4 DEF LoggerStarts, SampleFails, Asleep
  <2>2. began' \in Word /\ Below(began', Len(frames'))
    <3>1. began' = began \/ began' = NoFrame
      BY <1>4 DEF LoggerStarts, SampleFails
    <3>2. NoFrame \in Word /\ Below(NoFrame, Len(frames))
      BY <1>2, WordParts, Orders
    <3>3. QED
      BY <1>1, <3>1, <3>2 DEF SInv, SampleOK
  <2>3. SampleOK' /\ SampleSize' /\ logger' \in LoggerType
    BY <1>1, <2>1, <2>2, WithoutSample
  <2>4. logger'.pc \notin {"inserting", "purging"}
    BY <2>1 DEF At
  <2>5. logger.pc \notin {"inserting", "purging"}
    BY <1>4 DEF LoggerStarts, SampleFails
  <2>6. LockOK'
    BY <1>1, <2>4, <2>5, LockKept DEF SInv
  <2>7. QED
    BY <1>1, <1>2, <1>3, <2>3, <2>6 DEF SInv
<1>5. CASE SampleBegins
  <2> DEFINE l == [pc |-> "device", ts |-> clock, sample |-> <<>>]
  <2>1. logger' = l /\ logger.pc = "sleep"
    BY <1>5 DEF SampleBegins
  <2>2. l \in LoggerType /\ l.pc = "device" /\ l.sample = <<>>
    <3>1. <<>> \in Seq(Word) /\ clock \in 0 .. MaxTime
      BY EmptySeq DEF SInv
    <3>2. QED
      BY <3>1 DEF LoggerType, LoggerPcs
  <2> HIDE DEF l
  <2>3. Len(logger'.sample) = 0 /\ logger'.pc = "device" /\ logger'.sample = <<>>
    BY <2>1, <2>2, IdleTyped
  <2>4. drv.als \in Word /\ Below(drv.als, Len(frames))
    BY DrvWords DEF SInv, ChipOK
  <2>5. began' \in Word /\ Below(began', Len(frames)) /\ (kind = "ap3216c" => began' = drv.als)
    <3>1. began' = IF kind = "icm20608" THEN Whole(Len(frames)) ELSE drv.als
      BY <1>5 DEF SampleBegins, NewestFrame
    <3>2. Whole(Len(frames)) \in Word /\ Below(Whole(Len(frames)), Len(frames))
      BY <1>2, WordParts, Orders
    <3>3. QED
      BY <2>4, <3>1, <3>2
  <2>6. SampleOK'
    <3>1. NotOlder(drv.als, drv.als)
      BY <1>2, <2>4, Orders
    <3>2. kind' = "ap3216c" => NotOlder(drv'.als, began')
      BY <1>1, <2>5, <3>1
    <3>3. QED
      BY <1>1, <2>3, <2>5, <3>2 DEF SampleOK
  <2>7. SampleSize'
    BY <2>3 DEF SampleSize
  <2>8. LockOK'
    BY <1>1, <2>1, <2>3, LockKept DEF SInv
  <2>9. QED
    BY <1>1, <1>2, <1>3, <2>1, <2>2, <2>6, <2>7, <2>8 DEF SInv
<1>6. QED
  BY <1>4, <1>5

LEMMA CommitsStep ==
  ASSUME SInv, Commits
  PROVE  SInv'
<1> DEFINE pc == IF logger.pc = "insert" THEN "inserting" ELSE "purging"
           l  == [logger EXCEPT !.pc = pc]
<1>1. /\ UNCHANGED <<kind, clock, sensor, rows, page, began>> /\ lock = "none" /\ lock' = "exclusive"
      /\ logger.pc \in {"insert", "purge"} /\ logger' = l
  BY DEF Commits, SInv, LoggerType
<1>2. ChipOK' /\ BurstOK' /\ Len(frames') = Len(frames)
  BY <1>1, ChipKept
<1>3. pc \in {"inserting", "purging"} /\ (pc = "purging" => logger.pc = "purge")
  BY <1>1
<1> HIDE DEF pc
<1>4. l \in LoggerType /\ l.pc = pc /\ l.sample = logger.sample
  BY <1>3 DEF SInv, LoggerType, LoggerPcs
<1> HIDE DEF l
<1>5. SampleOK'
  BY <1>1, <1>2, <1>3, <1>4 DEF SInv, SampleOK
<1>6. SampleSize'
  BY <1>1, <1>3, <1>4 DEF SInv, SampleSize
<1>7. LockOK'
  BY <1>1, <1>3, <1>4 DEF SInv, LockOK
<1>8. QED
  BY <1>1, <1>2, <1>4, <1>5, <1>6, <1>7 DEF SInv

LEMMA InsertedStep ==
  ASSUME SInv, Inserted
  PROVE  SInv'
<1> DEFINE l == [logger EXCEPT !.pc = "purge", !.sample = <<>>]
<1>1. /\ UNCHANGED <<kind, clock, sensor, page>> /\ logger.pc = "inserting"
      /\ logger' = l /\ lock' = "none" /\ rows' = rows \cup {logger.ts} /\ began' = NoFrame
  BY DEF Inserted, SInv, LoggerType
<1>2. ChipOK' /\ BurstOK' /\ Len(frames') = Len(frames) /\ Len(frames) \in Nat
  BY <1>1, ChipKept
<1>3. <<>> \in Seq(Word) /\ NoFrame \in Word /\ Below(NoFrame, Len(frames'))
  BY <1>2, EmptySeq, WordParts, Orders
<1>4. l \in LoggerType /\ l.pc = "purge" /\ l.sample = <<>> /\ logger.ts \in 0 .. MaxTime
  BY <1>3 DEF SInv, LoggerType, LoggerPcs
<1> HIDE DEF l
<1>5. SampleOK'
  BY <1>1, <1>3, <1>4 DEF SampleOK
<1>6. SampleSize'
  BY <1>1, <1>4, IdleTyped DEF SampleSize
<1>7. LockOK'
  BY <1>1, <1>4 DEF SInv, LockOK
<1>8. rows' \subseteq 0 .. MaxTime
  BY <1>1, <1>4 DEF SInv
<1>9. QED
  BY <1>1, <1>2, <1>4, <1>5, <1>6, <1>7, <1>8 DEF SInv

LEMMA PurgeEndsStep ==
  ASSUME SInv, PurgeEnds
  PROVE  SInv'
<1>1. /\ UNCHANGED <<kind, clock, sensor, page, began>> /\ rows' \subseteq rows
      /\ logger' = At("sleep") /\ logger.pc \in {"purging", "purge"}
      /\ logger.pc = "purging" => lock' = "none"
      /\ logger.pc = "purge" => lock' = lock
  BY DEF PurgeEnds, Asleep
<1>2. ChipOK' /\ BurstOK' /\ Len(frames') = Len(frames)
  BY <1>1, ChipKept
<1>3. SampleOK' /\ SampleSize' /\ logger' \in LoggerType
  BY <1>1, <1>2, WithoutSample DEF SInv, SampleOK
<1>4. LockOK'
  <2>1. logger'.pc = "sleep"
    BY <1>1 DEF At
  <2>2. QED
    BY <1>1, <2>1 DEF SInv, LockOK
<1>5. rows' \subseteq 0 .. MaxTime
  BY <1>1 DEF SInv
<1>6. QED
  BY <1>1, <1>2, <1>3, <1>4, <1>5 DEF SInv

LEMMA QuerySteps ==
  ASSUME SInv, QueryOpens \/ QueryStep
  PROVE  SInv'
<1>1. /\ UNCHANGED <<kind, clock, sensor, logger, rows, began>>
      /\ page' \in {"idle", "open", "reading"}
  BY DEF QueryOpens, QueryStep, QueryReads, QueryEnds, store
<1>2. ChipOK' /\ BurstOK' /\ drv' = drv /\ Len(frames') = Len(frames)
  BY <1>1, ChipKept
<1>3. LockOK'
  <2>1. CASE QueryOpens
    BY <2>1 DEF QueryOpens, store, SInv, LockOK
  <2>2. CASE QueryReads
    BY <1>1, <2>2 DEF QueryReads, SInv, LockOK
  <2>3. CASE QueryEnds
    BY <1>1, <2>3 DEF QueryEnds, SInv, LockOK
  <2>4. QED
    BY <2>1, <2>2, <2>3 DEF QueryStep
<1>4. SampleOK'
  BY <1>1, <1>2 DEF SInv, SampleOK
<1>5. QED
  BY <1>1, <1>2, <1>3, <1>4 DEF SInv, SampleSize

LEMMA ClockSteps ==
  ASSUME SInv, Tick \/ ClockSetBack
  PROVE  SInv'
<1>1. UNCHANGED <<kind, sensor, logger, rows, lock, page, began>> /\ clock' \in 0 .. MaxTime
  BY TimeAssumption DEF Tick, ClockSetBack, store, SInv
<1>2. ChipOK' /\ BurstOK' /\ drv' = drv /\ Len(frames') = Len(frames)
  BY <1>1, ChipKept
<1>3. SampleOK'
  BY <1>1, <1>2 DEF SInv, SampleOK
<1>4. QED
  BY <1>1, <1>2, <1>3 DEF SInv, SampleSize, LockOK

\* A board without power, or one that has not run yet.
Off ==
  /\ drv = Unbound /\ burst = NoBurst /\ readOf = {} /\ frames = <<>> /\ began = NoFrame
  /\ logger = At("off") /\ lock = "none" /\ page = "idle"
  /\ kind \in {"ap3216c", "icm20608"} /\ clock \in 0 .. MaxTime /\ rows \subseteq 0 .. MaxTime

LEMMA OffInv == Off => SInv
<1> SUFFICES ASSUME Off PROVE SInv
  OBVIOUS
<1>1. /\ Unbound \in DrvType /\ Unbound.bound = "no" /\ Unbound.als = NoFrame
      /\ Unbound.ir = NoFrame /\ Unbound.ps = NoFrame /\ Serves(Unbound, {})
  BY UnboundServes
<1>2. frames \in Seq(Frame) /\ Len(frames) = 0 /\ NoFrame \in Word /\ Below(NoFrame, 0)
  BY EmptySeq, WordParts, Orders DEF Off
<1>3. logger \in LoggerType /\ logger.pc = "off" /\ logger.sample = <<>> /\ Len(logger.sample) = 0
  BY AtTyped, IdleTyped DEF Off, LoggerPcs
<1>4. ChipOK
  BY <1>1, <1>2 DEF Off, ChipOK
<1>5. SampleOK /\ SampleSize
  BY <1>2, <1>3 DEF Off, SampleOK, SampleSize
<1>6. LockOK
  BY <1>3 DEF Off, LockOK
<1>7. BurstOK
  <2>1. /\ burst \in [Readers -> BurstType]
        /\ \A r \in Readers : burst[r].reading = FALSE /\ burst[r].regs = <<>>
    BY IdleTyped DEF Off, NoBurst
  <2>2. "logger" \in Readers
    BY DEF Readers
  <2>3. QED
    BY <2>1, <2>2, IdleTyped DEF BurstOK
<1>8. QED
  BY <1>3, <1>4, <1>5, <1>6, <1>7 DEF SInv, Off

LEMMA StepSInv == SInv /\ [SensorNext]_sensorVars => SInv'
<1> SUFFICES ASSUME SInv, [SensorNext]_sensorVars PROVE SInv'
  OBVIOUS
<1>1. CASE PowerCut
  <2>1. Off'
    BY <1>1 DEF PowerCut, Off, SInv
  <2>2. QED
    BY <2>1, OffInv, PTL
<1>2. CASE UNCHANGED sensorVars
  <2>1. UNCHANGED <<kind, clock, sensor, logger, rows, lock, page, began, drv>>
    BY <1>2 DEF sensorVars, sensor, store
  <2>2. ChipOK' /\ BurstOK' /\ Len(frames') = Len(frames)
    BY <2>1, ChipKept
  <2>3. SampleOK'
    BY <2>1, <2>2 DEF SInv, SampleOK
  <2>4. QED
    BY <2>1, <2>2, <2>3 DEF SInv, SampleSize, LockOK
<1>3. QED
  BY <1>1, <1>2, ConvertStep, ConversionOverStep, ProbeStep, ProbeFailsStep, DashboardReadsStep,
     DashboardFailsStep, ReadRegisterStep, SampleStarts, ReadsDeviceStep, CommitsStep, InsertedStep,
     PurgeEndsStep, QuerySteps, ClockSteps
     DEF SensorNext, LoggerStep

LEMMA InitSInv == SensorInit => SInv
<1>1. SensorInit => Off
  BY TimeAssumption DEF SensorInit, Off
<1>2. QED
  BY <1>1, OffInv

\* SensorLog!ServesLastValid: wherever the conversions of the light sensor, the reads of
\* others and the errors of the bus fall between the six registers of a burst, each value
\* handed out is a word of one burst, and of the newest that read it valid.
THEOREM LastValidIsServed == SensorSpec => []ServesLastValid
<1>1. SInv => ServesLastValid
  BY DEF SInv, ChipOK, Serves, ServesLastValid
<1>2. QED
  BY <1>1, InitSInv, StepSInv, PTL DEF SensorSpec

\* SensorLog!SampleIsCurrent: no value that is stored is older than the time it is stored
\* under, and the seven values of the motion sensor are in the order they were read in,
\* although the dashboard reads the same device in between.
THEOREM SamplesAreCurrent == SensorSpec => []SampleIsCurrent
<1>1. SInv => SampleIsCurrent
  <2> SUFFICES ASSUME SInv PROVE SampleIsCurrent
    OBVIOUS
  <2>1. logger.sample \in Seq(Word) /\ kind \in {"ap3216c", "icm20608"}
    BY DEF SInv, LoggerType
  <2>2. DOMAIN logger.sample = 1 .. Len(logger.sample)
    BY <2>1, LenProperties
  <2>3. QED
    BY <2>1, <2>2 DEF SInv, SampleOK, SampleIsCurrent
<1>2. QED
  BY <1>1, InitSInv, StepSInv, PTL DEF SensorSpec

LEMMA SensorTyped == SInv => SensorTypeOK
<1> SUFFICES ASSUME SInv PROVE SensorTypeOK
  OBVIOUS
<1> DEFINE n == Len(frames)
<1>1. drv \in DrvType /\ logger \in LoggerType /\ kind \in {"ap3216c", "icm20608"}
  BY DEF SInv, ChipOK
<1>2. n \in Nat
  BY FramesTyped DEF SInv
<1>3. {drv.have, drv.converting} \subseteq BOOLEAN
  <2>1. drv.have \in BOOLEAN /\ drv.converting \in BOOLEAN
    BY <1>1 DEF DrvType
  <2>2. QED
    BY <2>1
<1>4. \A w \in Word : Below(w, n) => w \in (0 .. n) \X (0 .. n)
  BY <1>2 DEF Word, Below
<1>5. /\ drv.ir \in Word /\ drv.als \in Word /\ drv.ps \in Word /\ began \in Word
      /\ Below(drv.ir, n) /\ Below(drv.als, n) /\ Below(drv.ps, n) /\ Below(began, n)
  BY <1>1, DrvWords DEF SInv, ChipOK, SampleOK
<1>6. {drv.ir, drv.als, drv.ps, began} \subseteq Words
  <2> HIDE DEF n
  <2>1. drv.ir \in (0 .. n) \X (0 .. n) /\ drv.als \in (0 .. n) \X (0 .. n)
        /\ drv.ps \in (0 .. n) \X (0 .. n) /\ began \in (0 .. n) \X (0 .. n)
    BY <1>4, <1>5
  <2>2. QED
    BY <2>1 DEF Words, NewestFrame, n
<1>7. Len(logger.sample) <= Len(Channels(kind))
  BY <1>1, Sizes DEF SInv, SampleSize
<1>8. drv.bound \in {"no", "yes", "failed"} /\ logger.ts \in 0 .. MaxTime /\ logger.pc \in LoggerPcs
  BY <1>1 DEF DrvType, LoggerType
<1>9. /\ \A r \in Readers : burst[r].reading \in BOOLEAN /\ Len(burst[r].regs) < 6
      /\ burst["logger"].reading => logger.pc = "device"
      /\ burst["probe"].reading => drv.bound = "no"
  BY DEF SInv, BurstOK, BurstType, Readers
<1>10. readOf \subseteq [1 .. 6 -> 1 .. NewestFrame]
  BY DEF SInv, ChipOK, NewestFrame
<1>11. QED
  BY <1>1, <1>3, <1>6, <1>7, <1>8, <1>9, <1>10 DEF SensorTypeOK, LoggerPcs, SInv, LockOK
-----------------------------------------------------------------------------
(* The web server *)

ServerType == [pc : {"accept", "headers", "body", "extract", "apply", "wait", "respond", "dead"},
               client : Clients \cup {None}, status : {"none", "page", "refused", "failed", "done"}]
WebChild   == [pc : {"none", "running", "writing", "rebooted", "ended"}, client : Clients \cup {None},
               written : 0 .. Len(Variables), exit : {"none", "error", "ok"}]
Outcomes   == {"none", "started", "applied"}
Answers    == {"none", "page", "refused", "failed", "done"}

\* A client waits at one place of the queue.
QueueOK ==
  /\ conn \in [Clients -> {"new", "queued", "served", "ended"}]
  /\ queue \in Seq(Clients) /\ Len(queue) <= Backlog
  /\ \A i \in 1 .. Len(queue) : conn[queue[i]] = "queued"
  /\ \A i, j \in 1 .. Len(queue) : queue[i] = queue[j] => i = j

WebTyped ==
  /\ QueueOK /\ gone \subseteq Clients
  /\ server \in ServerType /\ child \in WebChild
  /\ mime \in Clients \cup {None} /\ swu \in Clients \cup {None}
  /\ init \in {"idle", "term", "start"} /\ stop \in BOOLEAN /\ rebooting \in BOOLEAN
  /\ interrupted \subseteq Clients
  /\ answer \in [Clients -> Answers] /\ outcome \in [Clients -> Outcomes]

\* The socket is open in whoever runs.
Sockets ==
  /\ port \subseteq {"server", "child"}
  /\ "server" \in port <=> server.pc # "dead"
  /\ "child" \in port <=> Alive
  /\ init = "start" => server.pc = "dead"

\* The server serves a client that is served, and one that is served or waits has had no
\* answer.
Serving ==
  /\ IF server.pc \in {"accept", "dead"} THEN server.client = None
     ELSE server.client \in Clients /\ conn[server.client] = "served"
  /\ server.pc # "respond" => server.status = "none"
  /\ server.pc = "apply" => swu = server.client
  /\ \A c \in Clients : conn[c] # "ended" => answer[c] = "none"

\* While an ota-apply runs the server waits for it, has been told to stop, or is dead: so
\* nobody replaces the file it reads.
OneApply ==
  Alive =>
    /\ child.client \in Clients /\ swu = child.client
    /\ \/ server.pc = "dead"
       \/ server.pc = "wait" /\ server.client = child.client
       \/ server.pc = "respond" /\ server.client = child.client /\ stop
          /\ server.status = "failed" /\ child.client \in interrupted

\* What became of the package of the ota-apply that runs or ran last, which is the one the
\* server waits for.
Exits ==
  /\ child.pc # "none" => child.client \in Clients /\ outcome[child.client] # "none"
  /\ child.pc = "rebooted" \/ child.exit = "ok" =>
       child.client \in Clients /\ outcome[child.client] = "applied"
  /\ server.pc = "wait" => child.pc # "none" /\ server.client = child.client

\* Before its own ota-apply is started nothing has become of a client's package.
Untried ==
  /\ \A c \in Clients : conn[c] \in {"new", "queued"} => outcome[c] = "none"
  /\ server.pc \in {"headers", "body", "extract", "apply"} => outcome[server.client] = "none"

\* What a client was told, or is about to be told, is what became of its package.
Tells(c, status) ==
  /\ status = "done" => outcome[c] = "applied"
  /\ status = "failed" /\ c \notin interrupted => ~(Alive /\ child.client = c)
  /\ status \in {"refused", "page"} => outcome[c] = "none"

TellsRight ==
  /\ \A c \in Clients : Tells(c, answer[c])
  /\ server.pc = "respond" => Tells(server.client, server.status)

WInv == WebTyped /\ Sockets /\ Serving /\ OneApply /\ Exits /\ Untried /\ TellsRight

LEMMA ApplyTyped ==
  /\ NoApply \in WebChild /\ NoApply.pc = "none" /\ NoApply.exit = "none"
  /\ \A c \in Clients : /\ Applying(c) \in WebChild /\ Applying(c).pc = "running"
                        /\ Applying(c).client = c /\ Applying(c).exit = "none"
<1>1. Len(Variables) = 4
  BY DEF Variables
<1>2. 0 \in 0 .. Len(Variables)
  BY <1>1
<1>3. NoApply \in WebChild /\ NoApply.pc = "none" /\ NoApply.exit = "none"
  BY <1>2 DEF NoApply, WebChild
<1>4. ASSUME NEW c \in Clients
      PROVE  /\ Applying(c) \in WebChild /\ Applying(c).pc = "running"
             /\ Applying(c).client = c /\ Applying(c).exit = "none"
  BY <1>3 DEF Applying, WebChild
<1>5. QED
  BY <1>3, <1>4

LEMMA DoingTyped ==
  ASSUME NEW pc \in {"accept", "headers", "body", "extract", "apply", "wait", "dead"},
         NEW c \in Clients \cup {None}
  PROVE  /\ Doing(pc, c) \in ServerType /\ Doing(pc, c).pc = pc /\ Doing(pc, c).client = c
         /\ Doing(pc, c).status = "none"
BY DEF Doing, ServerType

LEMMA DeadTyped == Dead \in ServerType /\ Dead.pc = "dead" /\ Dead.client = None /\ Dead.status = "none"
BY DEF Dead, Doing, ServerType

LEMMA RespondTyped ==
  ASSUME NEW c \in Clients \cup {None}, NEW status \in {"none", "page", "refused", "failed", "done"},
         Respond(c, status)
  PROVE  /\ server' \in ServerType /\ server'.pc = "respond" /\ server'.client = c
         /\ server'.status = status
BY DEF Respond, ServerType

\* The client of a server that is at work, and who else is at work then.
LEMMA AtWork ==
  ASSUME WInv, server.pc \notin {"accept", "dead"}
  PROVE  /\ server.client \in Clients /\ conn[server.client] = "served"
         /\ answer[server.client] = "none" /\ init # "start" /\ server.client # None
         /\ server.pc \in {"headers", "body", "extract", "apply"} =>
              ~Alive /\ outcome[server.client] = "none"
<1>1. server.client \in Clients /\ conn[server.client] = "served" /\ init # "start"
  BY DEF WInv, Serving, Sockets
<1>2. answer[server.client] = "none"
  BY <1>1 DEF WInv, Serving
<1>3. server.pc \in {"headers", "body", "extract", "apply"} =>
        ~Alive /\ outcome[server.client] = "none"
  BY DEF WInv, OneApply, Untried
<1>4. QED
  BY <1>1, <1>2, <1>3, NoneAssumption

\* Who is disconnected when a client is closed or a socket given up.
LEMMA DisconnectedOK ==
  ASSUME QueueOK, NEW closed, NEW holders, Disconnected(closed, holders),
         closed \in Clients => conn[closed] = "served"
  PROVE  /\ QueueOK' /\ port' = holders
         /\ \A c \in Clients : conn'[c] = conn[c] \/ conn'[c] = "ended"
         /\ \A c \in Clients : c # closed /\ conn[c] = "served" => conn'[c] = "served"
         /\ closed \in Clients => conn'[closed] = "ended"
<1>1. /\ port' = holders
      /\ \A c \in Clients : conn'[c] = conn[c] \/ conn'[c] = "ended"
      /\ \A c \in Clients : c # closed /\ conn[c] = "served" => conn'[c] = "served"
      /\ closed \in Clients => conn'[closed] = "ended"
      /\ conn' \in [Clients -> {"new", "queued", "served", "ended"}]
  BY DEF Disconnected, QueueOK
<1>2. CASE holders = {}
  <2>1. queue' = <<>>
    BY <1>2 DEF Disconnected
  <2>2. queue' \in Seq(Clients) /\ Len(queue') = 0
    BY <2>1, EmptySeq
  <2>3. Len(queue') <= Backlog
    BY <2>2, BacklogAssumption
  <2>4. QueueOK'
    BY <1>1, <2>2, <2>3 DEF QueueOK
  <2>5. QED
    BY <1>1, <2>4
<1>3. CASE holders # {}
  <2>1. queue' = queue
    BY <1>3 DEF Disconnected
  <2>2. \A i \in 1 .. Len(queue) : queue[i] \in Clients /\ conn[queue[i]] = "queued"
    BY LenProperties DEF QueueOK
  <2>3. \A c \in Clients : conn[c] = "queued" => conn'[c] = "queued"
    BY <1>3 DEF Disconnected
  <2>4. QueueOK'
    BY <1>1, <2>1, <2>2, <2>3 DEF QueueOK
  <2>5. QED
    BY <1>1, <2>4
<1>4. QED
  BY <1>2, <1>3

\* The steps of a request before ota-apply is started.
LEMMA RequestSteps ==
  ASSUME WInv, RefuseRequest \/ ServePage \/ BeginUpload \/ Body \/ Extract
  PROVE  WInv'
<1> DEFINE c == server.client
<1>1. /\ UNCHANGED <<conn, gone, queue, service, child, rebooting, told>>
      /\ server.pc \in {"headers", "body", "extract"}
  BY DEF RefuseRequest, ServePage, BeginUpload, Body, Extract, files
<1>2. /\ c \in Clients /\ conn[c] = "served" /\ init # "start" /\ ~Alive /\ outcome[c] = "none"
  BY <1>1, AtWork
<1>3. /\ server' \in ServerType /\ server'.client = c
      /\ \/ server'.pc = "respond" /\ server'.status \in {"page", "refused"}
         \/ server'.pc \in {"body", "extract", "apply"} /\ server'.status = "none"
      /\ server'.pc = "apply" => swu' = c
  <2>1. CASE \E status \in {"page", "refused"} : Respond(c, status)
    BY <1>2, <2>1, RespondTyped
  <2>2. CASE \E pc \in {"body", "extract"} : server' = Doing(pc, c)
    BY <1>2, <2>2, DoingTyped
  <2>3. CASE server' = Doing("apply", c) /\ swu' = c
    BY <1>2, <2>3, DoingTyped
  <2>4. QED
    BY <2>1, <2>2, <2>3 DEF RefuseRequest, ServePage, BeginUpload, Body, Extract
<1>4. mime' \in Clients \cup {None} /\ swu' \in Clients \cup {None}
  BY <1>2 DEF RefuseRequest, ServePage, BeginUpload, Body, Extract, files, WInv, WebTyped
<1> HIDE DEF c
<1>5. WebTyped'
  BY <1>1, <1>3, <1>4 DEF WInv, WebTyped, QueueOK, service, told
<1>6. Sockets'
  BY <1>1, <1>2, <1>3 DEF WInv, Sockets, service, Alive
<1>7. Serving'
  BY <1>1, <1>2, <1>3 DEF WInv, Serving, told
<1>8. OneApply'
  BY <1>1, <1>2 DEF OneApply, Alive
<1>9. Exits' /\ Untried'
  BY <1>1, <1>2, <1>3 DEF WInv, Exits, Untried, told
<1>10. TellsRight'
  BY <1>1, <1>2, <1>3 DEF WInv, TellsRight, Tells, told, Alive
<1>11. QED
  BY <1>5, <1>6, <1>7, <1>8, <1>9, <1>10 DEF WInv

LEMMA ForkStep ==
  ASSUME WInv, Fork
  PROVE  WInv'
<1> DEFINE c == server.client
<1>1. /\ UNCHANGED <<conn, gone, queue, stop, init, restarts, files, rebooting, answer, interrupted>>
      /\ server.pc = "apply" /\ swu = c
  BY DEF Fork, WInv, Serving
<1>2. /\ c \in Clients /\ conn[c] = "served" /\ answer[c] = "none" /\ init # "start"
      /\ ~Alive /\ outcome[c] = "none"
  BY <1>1, AtWork
<1>3. outcome \in [Clients -> Outcomes] /\ child \in WebChild
  BY DEF WInv, WebTyped
<1>4. CASE Respond(c, "failed") /\ UNCHANGED <<child, port, outcome>>
  <2>1. server' \in ServerType /\ server'.pc = "respond" /\ server'.client = c /\ server'.status = "failed"
    BY <1>2, <1>4, RespondTyped
  <2> HIDE DEF c
  <2>2. WebTyped'
    BY <1>1, <1>4, <2>1 DEF WInv, WebTyped, QueueOK, files
  <2>3. Sockets'
    BY <1>1, <1>2, <1>4, <2>1 DEF WInv, Sockets, Alive
  <2>4. Serving'
    BY <1>1, <1>2, <2>1 DEF WInv, Serving
  <2>5. OneApply'
    BY <1>2, <1>4 DEF OneApply, Alive
  <2>6. Exits' /\ Untried'
    BY <1>1, <1>4, <2>1 DEF WInv, Exits, Untried
  <2>7. TellsRight'
    BY <1>1, <1>2, <1>4, <2>1 DEF WInv, TellsRight, Tells, Alive
  <2>8. QED
    BY <2>2, <2>3, <2>4, <2>5, <2>6, <2>7 DEF WInv
<1>5. CASE /\ server' = Doing("wait", c) /\ child' = Applying(c)
           /\ port' = port \cup {"child"} /\ outcome' = [outcome EXCEPT ![c] = "started"]
  <2>1. server' \in ServerType /\ server'.pc = "wait" /\ server'.client = c /\ server'.status = "none"
    BY <1>2, <1>5, DoingTyped
  <2>2. child' \in WebChild /\ child'.pc = "running" /\ child'.client = c /\ child'.exit = "none"
    BY <1>2, <1>5, ApplyTyped
  <2>3. /\ outcome' \in [Clients -> Outcomes] /\ outcome'[c] = "started"
        /\ \A d \in Clients : d # c => outcome'[d] = outcome[d]
    BY <1>2, <1>3, <1>5 DEF Outcomes
  <2>4. port' = port \cup {"child"} /\ swu' = swu /\ mime' = mime
    BY <1>1, <1>5 DEF files
  <2> HIDE DEF c
  <2>5. WebTyped'
    BY <1>1, <2>1, <2>2, <2>3, <2>4 DEF WInv, WebTyped, QueueOK
  <2>6. Sockets'
    BY <1>1, <1>2, <2>1, <2>2, <2>4 DEF WInv, Sockets, Alive
  <2>7. Serving'
    BY <1>1, <1>2, <2>1 DEF WInv, Serving
  <2>8. OneApply'
    BY <1>1, <1>2, <2>1, <2>2, <2>4 DEF OneApply
  <2>9. Exits' /\ Untried'
    BY <1>1, <1>2, <2>1, <2>2, <2>3 DEF WInv, Exits, Untried
  <2>10. TellsRight'
    <3>1. \A d \in Clients : Tells(d, answer[d])
      BY DEF WInv, TellsRight
    <3>2. answer' = answer /\ interrupted' = interrupted /\ answer[c] = "none"
      BY <1>1, <1>2
    <3>3. \A d \in Clients : Tells(d, answer[d])'
      BY <2>2, <2>3, <3>1, <3>2 DEF Tells, Alive
    <3>4. QED
      BY <2>1, <3>3 DEF TellsRight
  <2>11. QED
    BY <2>5, <2>6, <2>7, <2>8, <2>9, <2>10 DEF WInv
<1>6. QED
  BY <1>4, <1>5 DEF Fork

LEMMA WaitStep ==
  ASSUME WInv, Wait
  PROVE  WInv'
<1> DEFINE c == server.client
           status == IF child.exit = "ok" THEN "done" ELSE "failed"
<1>1. /\ UNCHANGED <<conn, gone, queue, service, files, child, rebooting, told>>
      /\ server.pc = "wait" /\ child.pc = "ended" /\ Respond(c, status)
  BY DEF Wait
<1>2. /\ c \in Clients /\ conn[c] = "served" /\ init # "start" /\ ~Alive
  BY <1>1, AtWork DEF Alive
<1>3. status \in {"done", "failed"} /\ (status = "done" => outcome[c] = "applied")
  BY <1>1 DEF WInv, Exits
<1> HIDE DEF c, status
<1>4. server' \in ServerType /\ server'.pc = "respond" /\ server'.client = c /\ server'.status = status
  BY <1>1, <1>2, <1>3, RespondTyped
<1>5. WebTyped'
  BY <1>1, <1>4 DEF WInv, WebTyped, QueueOK, files, service, told
<1>6. Sockets'
  BY <1>1, <1>2, <1>4 DEF WInv, Sockets, service, Alive
<1>7. Serving'
  BY <1>1, <1>2, <1>4 DEF WInv, Serving, told
<1>8. OneApply'
  BY <1>1, <1>2 DEF OneApply, Alive
<1>9. Exits' /\ Untried'
  BY <1>1, <1>4 DEF WInv, Exits, Untried, told
<1>10. TellsRight'
  BY <1>1, <1>2, <1>3, <1>4 DEF WInv, TellsRight, Tells, told, Alive
<1>11. QED
  BY <1>5, <1>6, <1>7, <1>8, <1>9, <1>10 DEF WInv

LEMMA AcceptStep ==
  ASSUME WInv, Accept
  PROVE  WInv'
<1> DEFINE c == Head(queue)
<1>1. /\ UNCHANGED <<gone, service, files, child, rebooting, told>>
      /\ server.pc = "accept" /\ queue # <<>> /\ queue' = Tail(queue)
      /\ conn' = [conn EXCEPT ![c] = "served"] /\ server' = Doing("headers", c)
      /\ queue \in Seq(Clients) /\ QueueOK
  BY DEF Accept, WInv, WebTyped, QueueOK
<1>2. c \in Clients /\ Tail(queue) \in Seq(Clients) /\ Len(Tail(queue)) = Len(queue) - 1
      /\ \A i \in 1 .. Len(Tail(queue)) : Tail(queue)[i] = queue[i + 1]
  BY <1>1, HeadTailProperties
<1>3. c = queue[1] /\ Len(queue) \in Nat /\ Len(queue) # 0
  BY <1>1, EmptySeq, LenProperties
<1>4. server' \in ServerType /\ server'.pc = "headers" /\ server'.client = c /\ server'.status = "none"
  BY <1>1, <1>2, DoingTyped
<1>5. conn[c] = "queued" /\ conn \in [Clients -> {"new", "queued", "served", "ended"}]
  BY <1>1, <1>3 DEF QueueOK
<1> HIDE DEF c
<1>6. /\ conn' \in [Clients -> {"new", "queued", "served", "ended"}] /\ conn'[c] = "served"
      /\ \A d \in Clients : d # c => conn'[d] = conn[d]
  BY <1>1, <1>2, <1>5
<1>7. QueueOK'
  <2>1. \A i \in 1 .. Len(queue) : queue[i] \in Clients
    BY <1>1, LenProperties
  <2>2. \A i \in 1 .. Len(queue) - 1 : queue'[i] = queue[i + 1] /\ i + 1 \in 1 .. Len(queue)
    BY <1>1, <1>2, <1>3
  <2>3. Len(queue') = Len(queue) - 1 /\ queue' \in Seq(Clients) /\ Len(queue) <= Backlog
    BY <1>1, <1>2 DEF QueueOK
  <2>4. Len(queue') <= Backlog
    BY <1>3, <2>3, BacklogAssumption
  <2>5. \A i \in 1 .. Len(queue) : conn[queue[i]] = "queued"
    BY <1>1 DEF QueueOK
  <2>6. \A i, j \in 1 .. Len(queue) : queue[i] = queue[j] => i = j
    BY <1>1 DEF QueueOK
  <2>7. \A i \in 1 .. Len(queue) - 1 : queue'[i] # c
    <3> SUFFICES ASSUME NEW i \in 1 .. Len(queue) - 1, queue'[i] = c PROVE FALSE
      OBVIOUS
    <3>1. queue[i + 1] = queue[1] /\ i + 1 \in 1 .. Len(queue) /\ 1 \in 1 .. Len(queue)
      BY <1>3, <2>2
    <3>2. i + 1 = 1
      BY <2>6, <3>1
    <3>3. QED
      BY <1>3, <3>2
  <2>8. \A i \in 1 .. Len(queue) - 1 : conn'[queue'[i]] = "queued"
    BY <1>6, <2>1, <2>2, <2>5, <2>7
  <2>9. \A i, j \in 1 .. Len(queue) - 1 : queue'[i] = queue'[j] => i = j
    <3> SUFFICES ASSUME NEW i \in 1 .. Len(queue) - 1, NEW j \in 1 .. Len(queue) - 1, queue'[i] = queue'[j]
                 PROVE  i = j
      OBVIOUS
    <3>1. i + 1 = j + 1
      BY <2>2, <2>6
    <3>2. QED
      BY <1>3, <3>1
  <2>10. QED
    BY <1>6, <2>3, <2>4, <2>8, <2>9 DEF QueueOK
<1>8. WebTyped'
  BY <1>1, <1>4, <1>7 DEF WInv, WebTyped, files, service, told
<1>9. Sockets'
  BY <1>1, <1>4 DEF WInv, Sockets, service, Alive
<1>10. Serving'
  BY <1>1, <1>2, <1>4, <1>5, <1>6 DEF WInv, Serving, told
<1>11. OneApply'
  BY <1>1, <1>4 DEF WInv, OneApply, Alive
<1>12. Exits' /\ Untried'
  BY <1>1, <1>2, <1>4, <1>5, <1>6 DEF WInv, Exits, Untried, told
<1>13. TellsRight'
  BY <1>1, <1>4 DEF WInv, TellsRight, Tells, told, Alive
<1>14. QED
  BY <1>8, <1>9, <1>10, <1>11, <1>12, <1>13 DEF WInv

LEMMA SendStep ==
  ASSUME WInv, Send
  PROVE  WInv'
<1> DEFINE c == server.client
<1>1. /\ UNCHANGED <<gone, stop, init, restarts, files, child, rebooting, outcome, interrupted>>
      /\ server.pc = "respond"
  BY DEF Send
<1>2. /\ c \in Clients /\ conn[c] = "served" /\ init # "start"
      /\ QueueOK /\ Tells(c, server.status) /\ server.status \in Answers
  BY <1>1, AtWork DEF WInv, WebTyped, TellsRight, ServerType, Answers
<1>3. /\ answer \in [Clients -> Answers]
      /\ answer' = answer \/ answer' = [answer EXCEPT ![c] = server.status]
  BY DEF Send, WInv, WebTyped
<1>4. PICK holders : Disconnected(c, holders)
                     /\ \/ server' = Dead /\ holders = port \ {"server"}
                        \/ server' = Doing("accept", None) /\ holders = port /\ ~stop
  BY DEF Send, NextTurn
<1> HIDE DEF c
<1>5. /\ QueueOK' /\ port' = holders
      /\ \A d \in Clients : conn'[d] = conn[d] \/ conn'[d] = "ended"
      /\ conn'[c] = "ended"
  BY <1>2, <1>4, DisconnectedOK
<1>6. /\ server' \in ServerType /\ server'.client = None /\ server'.status = "none"
      /\ \/ server'.pc = "dead" /\ port' = port \ {"server"}
         \/ server'.pc = "accept" /\ port' = port /\ ~stop
  BY <1>4, <1>5, DeadTyped, DoingTyped
<1>7. /\ answer' \in [Clients -> Answers]
      /\ \A d \in Clients : d # c => answer'[d] = answer[d]
      /\ answer'[c] = answer[c] \/ answer'[c] = server.status
  BY <1>2, <1>3
<1>8. WebTyped'
  BY <1>1, <1>5, <1>6, <1>7 DEF WInv, WebTyped, files
<1>9. Sockets'
  BY <1>1, <1>2, <1>6 DEF WInv, Sockets, Alive
<1>10. Serving'
  BY <1>5, <1>6, <1>7 DEF WInv, Serving
<1>11. OneApply'
  BY <1>1, <1>6 DEF WInv, OneApply, files, Alive
<1>12. Exits' /\ Untried'
  BY <1>1, <1>5, <1>6 DEF WInv, Exits, Untried
<1>13. TellsRight'
  <2>1. \A d \in Clients : Tells(d, answer'[d])
    BY <1>2, <1>7 DEF WInv, TellsRight
  <2>2. \A d \in Clients : Tells(d, answer[d])'
    BY <1>1, <2>1 DEF Tells, Alive
  <2>3. QED
    BY <1>6, <2>2 DEF TellsRight
<1>14. QED
  BY <1>8, <1>9, <1>10, <1>11, <1>12, <1>13 DEF WInv

\* The server ends: by its flag, or killed.
LEMMA DiesStep ==
  ASSUME WInv, Exit \/ Kill
  PROVE  WInv'
<1>1. /\ UNCHANGED <<gone, stop, restarts, files, child, rebooting, told>> /\ server' = Dead
      /\ init' \in {"idle", "term", "start"}
  BY DEF Exit, Kill, service, WInv, WebTyped
<1>2. /\ server' \in ServerType /\ server'.pc = "dead" /\ server'.client = None /\ server'.status = "none"
  BY <1>1, DeadTyped
<1>3. /\ QueueOK' /\ \A c \in Clients : conn'[c] = conn[c] \/ conn'[c] = "ended"
      /\ port' = port \ {"server"}
  <2>1. CASE server.pc = "dead" /\ UNCHANGED <<conn, queue, port>>
    <3>1. "server" \notin port
      BY <2>1 DEF WInv, Sockets
    <3>2. QED
      BY <2>1, <3>1 DEF WInv, WebTyped, QueueOK
  <2>2. CASE server.pc = "accept" /\ Disconnected(None, port \ {"server"})
    BY <2>2, NoneAssumption, DisconnectedOK DEF WInv, WebTyped
  <2>3. CASE server.pc # "dead" /\ Disconnected(server.client, port \ {"server"})
    <3>1. server.client \in Clients => conn[server.client] = "served"
      BY <2>3, NoneAssumption DEF WInv, Serving
    <3>2. QED
      BY <2>3, <3>1, DisconnectedOK DEF WInv, WebTyped
  <2>4. QED
    BY <2>1, <2>2, <2>3 DEF Exit, Kill
<1>4. WebTyped'
  BY <1>1, <1>2, <1>3 DEF WInv, WebTyped, files, told
<1>5. Sockets'
  BY <1>1, <1>2, <1>3 DEF WInv, Sockets, Alive
<1>6. Serving'
  BY <1>1, <1>2, <1>3 DEF WInv, Serving, told
<1>7. OneApply'
  BY <1>1, <1>2 DEF WInv, OneApply, files, told, Alive
<1>8. Exits' /\ Untried'
  BY <1>1, <1>2, <1>3 DEF WInv, Exits, Untried, told
<1>9. TellsRight'
  BY <1>1, <1>2 DEF WInv, TellsRight, Tells, told, Alive
<1>10. QED
  BY <1>4, <1>5, <1>6, <1>7, <1>8, <1>9 DEF WInv

\* ota-apply writes the slot and the variables.
LEMMA WritesStep ==
  ASSUME WInv, Installs \/ SetsEnv
  PROVE  WInv'
<1>1. /\ UNCHANGED <<conn, gone, queue, server, service, files, rebooting, told>>
      /\ child.pc \in {"running", "writing"} /\ child \in WebChild
  BY DEF Installs, SetsEnv, WInv, WebTyped
<1>2. /\ child' \in WebChild /\ child'.pc = "writing" /\ child'.client = child.client
      /\ child'.exit = child.exit
  <2>1. CASE Installs
    BY <1>1, <2>1 DEF Installs, WebChild
  <2>2. CASE SetsEnv
    <3>1. child' = [child EXCEPT !.written = child.written + 1] /\ child.written < Len(Variables)
          /\ child.pc = "writing"
      BY <2>2 DEF SetsEnv
    <3>2. Len(Variables) = 4
      BY DEF Variables
    <3>3. child.written + 1 \in 0 .. Len(Variables)
      BY <1>1, <3>1, <3>2 DEF WebChild
    <3>4. QED
      BY <1>1, <3>1, <3>3 DEF WebChild
  <2>3. QED
    BY <2>1, <2>2
<1>3. Alive /\ Alive'
  BY <1>1, <1>2 DEF Alive
<1>4. WebTyped'
  BY <1>1, <1>2 DEF WInv, WebTyped, QueueOK, files, service, told
<1>5. Sockets'
  BY <1>1, <1>3 DEF WInv, Sockets, service
<1>6. Serving'
  BY <1>1 DEF WInv, Serving, files, told
<1>7. OneApply'
  BY <1>1, <1>2, <1>3 DEF WInv, OneApply, files, service, told
<1>8. Exits' /\ Untried'
  BY <1>1, <1>2 DEF WInv, Exits, Untried, told
<1>9. TellsRight'
  BY <1>1, <1>2, <1>3 DEF WInv, TellsRight, Tells, told
<1>10. QED
  BY <1>4, <1>5, <1>6, <1>7, <1>8, <1>9 DEF WInv

LEMMA CallsRebootStep ==
  ASSUME WInv, CallsReboot
  PROVE  WInv'
<1> DEFINE c == child.client
<1>1. /\ UNCHANGED <<conn, gone, queue, server, service, files, answer, interrupted>>
      /\ child.pc = "writing" /\ child' = [child EXCEPT !.pc = "rebooted"]
      /\ rebooting' = TRUE /\ outcome' = [outcome EXCEPT ![c] = "applied"]
  BY DEF CallsReboot
<1>2. /\ c \in Clients /\ child \in WebChild /\ outcome \in [Clients -> Outcomes]
      /\ outcome[c] # "none"
  BY <1>1 DEF WInv, WebTyped, Exits
<1>3. /\ child' \in WebChild /\ child'.pc = "rebooted" /\ child'.client = c
      /\ child'.exit = child.exit
  BY <1>1, <1>2 DEF WebChild
<1>4. /\ outcome' \in [Clients -> Outcomes] /\ outcome'[c] = "applied"
      /\ \A d \in Clients : d # c => outcome'[d] = outcome[d]
  BY <1>1, <1>2 DEF Outcomes
<1>5. Alive /\ Alive'
  BY <1>1, <1>3 DEF Alive
<1>6. WebTyped'
  BY <1>1, <1>3, <1>4 DEF WInv, WebTyped, QueueOK, files, service
<1>7. Sockets'
  BY <1>1, <1>5 DEF WInv, Sockets, service
<1>8. Serving'
  BY <1>1 DEF WInv, Serving, files
<1>9. OneApply'
  BY <1>1, <1>3, <1>5 DEF WInv, OneApply, files, service
<1>10. Exits'
  BY <1>1, <1>2, <1>3, <1>4 DEF WInv, Exits
<1>11. Untried'
  <2>1. \A d \in Clients : conn[d] \in {"new", "queued"} => d # c
    BY <1>2 DEF WInv, Untried
  <2>2. server.pc \notin {"headers", "body", "extract", "apply"}
    BY <1>5 DEF WInv, OneApply
  <2>3. QED
    BY <1>1, <1>4, <2>1, <2>2 DEF WInv, Untried
<1>12. \A d \in Clients, st \in Answers : Tells(d, st) => Tells(d, st)'
  BY <1>1, <1>2, <1>3, <1>4, <1>5 DEF Tells
<1>13. TellsRight'
  <2>1. /\ \A d \in Clients : answer[d] \in Answers /\ Tells(d, answer[d])
        /\ server.pc = "respond" => /\ server.client \in Clients /\ server.status \in Answers
                                    /\ Tells(server.client, server.status)
    BY DEF WInv, WebTyped, TellsRight, Serving, ServerType, Answers
  <2>2. QED
    BY <1>1, <1>12, <2>1 DEF TellsRight, Tells
<1>14. QED
  BY <1>6, <1>7, <1>8, <1>9, <1>10, <1>11, <1>13 DEF WInv

LEMMA ApplyEndsStep ==
  ASSUME WInv, ApplyEnds
  PROVE  WInv'
<1> DEFINE c == child.client
<1>1. /\ UNCHANGED <<gone, server, stop, init, restarts, files, rebooting, told>>
      /\ Alive /\ Disconnected(None, port \ {"child"})
      /\ \/ child.pc = "rebooted" /\ child' = [child EXCEPT !.pc = "ended", !.exit = "ok"]
         \/ child' = [child EXCEPT !.pc = "ended", !.exit = "error"]
  BY DEF ApplyEnds
<1>2. c \in Clients /\ child \in WebChild /\ QueueOK
  BY <1>1 DEF WInv, WebTyped, OneApply
<1>3. /\ child' \in WebChild /\ child'.pc = "ended" /\ child'.client = c
      /\ child'.exit = "ok" => child.pc = "rebooted"
  BY <1>1, <1>2 DEF WebChild
<1>4. /\ QueueOK' /\ port' = port \ {"child"}
      /\ \A d \in Clients : conn'[d] = conn[d] \/ conn'[d] = "ended"
      /\ \A d \in Clients : conn[d] = "served" => conn'[d] = "served"
  BY <1>1, <1>2, NoneAssumption, DisconnectedOK
<1>5. ~Alive'
  BY <1>3 DEF Alive
<1>6. WebTyped'
  BY <1>1, <1>3, <1>4 DEF WInv, WebTyped, files, told
<1>7. Sockets'
  BY <1>1, <1>4, <1>5 DEF WInv, Sockets
<1>8. Serving'
  BY <1>1, <1>4 DEF WInv, Serving, files, told
<1>9. OneApply'
  BY <1>5 DEF OneApply
<1>10. Exits'
  BY <1>1, <1>2, <1>3 DEF WInv, Exits, told, Alive
<1>11. Untried'
  BY <1>1, <1>4 DEF WInv, Untried, told
<1>12. TellsRight'
  BY <1>1, <1>5 DEF WInv, TellsRight, Tells, told
<1>13. QED
  BY <1>6, <1>7, <1>8, <1>9, <1>10, <1>11, <1>12 DEF WInv

LEMMA TerminateStep ==
  ASSUME WInv, Terminate
  PROVE  WInv'
<1> DEFINE c == server.client
<1>1. /\ UNCHANGED <<conn, gone, queue, port, files, child, rebooting, answer, outcome>>
      /\ server.pc # "dead" /\ init' = "term" /\ stop' = TRUE
  BY DEF Terminate
<1>2. CASE UNCHANGED <<server, interrupted>>
  <2>1. WebTyped' /\ Sockets' /\ Serving'
    BY <1>1, <1>2 DEF WInv, WebTyped, QueueOK, files, Sockets, Serving, Alive
  <2>2. OneApply' /\ Exits' /\ Untried'
    BY <1>1, <1>2 DEF WInv, OneApply, Exits, Untried, files, Alive
  <2>3. TellsRight'
    BY <1>1, <1>2 DEF WInv, TellsRight, Tells, Alive
  <2>4. QED
    BY <2>1, <2>2, <2>3 DEF WInv
<1>3. CASE server.pc = "wait" /\ Respond(c, "failed") /\ interrupted' = interrupted \cup {c}
  <2>1. c \in Clients /\ conn[c] = "served"
    BY <1>3, AtWork
  <2>2. server' \in ServerType /\ server'.pc = "respond" /\ server'.client = c /\ server'.status = "failed"
    BY <1>3, <2>1, RespondTyped
  <2>3. interrupted' \subseteq Clients /\ interrupted \subseteq interrupted' /\ c \in interrupted'
    BY <1>3, <2>1 DEF WInv, WebTyped
  <2>4. Alive => child.client = c
    BY <1>3 DEF WInv, OneApply
  <2> HIDE DEF c
  <2>5. WebTyped'
    BY <1>1, <2>2, <2>3 DEF WInv, WebTyped, QueueOK, files
  <2>6. Sockets'
    BY <1>1, <2>2 DEF WInv, Sockets, Alive
  <2>7. Serving'
    BY <1>1, <2>1, <2>2 DEF WInv, Serving
  <2>8. OneApply' /\ Exits' /\ Untried'
    BY <1>1, <2>1, <2>2, <2>3, <2>4 DEF WInv, OneApply, Exits, Untried, files, Alive
  <2>9. TellsRight'
    <3>1. \A d \in Clients : Tells(d, answer[d])
      BY DEF WInv, TellsRight
    <3>2. \A d \in Clients : Tells(d, answer[d])'
      BY <1>1, <2>3, <3>1 DEF Tells, Alive
    <3>3. Tells(server.client, server.status)'
      BY <2>2, <2>3 DEF Tells
    <3>4. QED
      BY <3>2, <3>3 DEF TellsRight
  <2>10. QED
    BY <2>5, <2>6, <2>7, <2>8, <2>9 DEF WInv
<1>4. QED
  BY <1>2, <1>3 DEF Terminate

\* The server starts, with an ota-apply of the last one or without.
LEMMA StartSteps ==
  ASSUME WInv, Start \/ StartAgain
  PROVE  WInv'
<1>1. /\ UNCHANGED <<conn, gone, queue, files, child, rebooting, told>> /\ server.pc = "dead"
      /\ init' \in {"idle", "start"} /\ stop' \in BOOLEAN
  BY DEF Start, StartAgain, WInv, WebTyped, Sockets
<1>2. CASE UNCHANGED <<server, port>>
  <2>1. WebTyped' /\ Sockets' /\ Serving'
    BY <1>1, <1>2 DEF WInv, WebTyped, QueueOK, files, told, Sockets, Serving, Alive
  <2>2. OneApply' /\ Exits' /\ Untried' /\ TellsRight'
    BY <1>1, <1>2 DEF WInv, OneApply, Exits, Untried, files, told, TellsRight, Tells, Alive
  <2>3. QED
    BY <2>1, <2>2 DEF WInv
<1>3. CASE port = {} /\ server' = Doing("accept", None) /\ port' = {"server"} /\ init' = "idle"
  <2>1. server' \in ServerType /\ server'.pc = "accept" /\ server'.client = None /\ server'.status = "none"
    BY <1>3, DoingTyped
  <2>2. ~Alive /\ ~Alive'
    BY <1>1, <1>3 DEF WInv, Sockets, Alive
  <2>3. WebTyped'
    BY <1>1, <2>1 DEF WInv, WebTyped, QueueOK, files, told
  <2>4. Sockets'
    BY <1>1, <1>3, <2>1, <2>2 DEF Sockets
  <2>5. Serving' /\ OneApply' /\ Exits' /\ Untried'
    BY <1>1, <2>1, <2>2 DEF WInv, Serving, OneApply, Exits, Untried, told
  <2>6. TellsRight'
    BY <1>1, <2>1, <2>2 DEF WInv, TellsRight, Tells, told
  <2>7. QED
    BY <2>3, <2>4, <2>5, <2>6 DEF WInv
<1>4. QED
  BY <1>2, <1>3 DEF Start, StartAgain

LEMMA RebootStep ==
  ASSUME WInv, Reboot
  PROVE  WInv'
<1>1. /\ UNCHANGED <<gone, restarts, files, told>> /\ rebooting' = FALSE /\ queue' = <<>>
      /\ server' = Doing("accept", None) /\ stop' = FALSE /\ port' = {"server"}
      /\ child' = NoApply /\ init' = "idle"
      /\ conn' = [c \in Clients |-> IF conn[c] \in {"queued", "served"} THEN "ended" ELSE conn[c]]
  BY DEF Reboot
<1>2. server' \in ServerType /\ server'.pc = "accept" /\ server'.client = None /\ server'.status = "none"
  BY <1>1, DoingTyped
<1>3. child' \in WebChild /\ child'.pc = "none" /\ child'.exit = "none" /\ ~Alive'
  BY <1>1, ApplyTyped DEF Alive
<1>4. /\ conn' \in [Clients -> {"new", "queued", "served", "ended"}]
      /\ \A c \in Clients : conn'[c] = conn[c] \/ conn'[c] = "ended"
  BY <1>1 DEF WInv, WebTyped, QueueOK
<1>5. QueueOK'
  <2>1. queue' \in Seq(Clients) /\ Len(queue') = 0
    BY <1>1, EmptySeq
  <2>2. QED
    BY <1>4, <2>1, BacklogAssumption DEF QueueOK
<1>6. WebTyped'
  BY <1>1, <1>2, <1>3, <1>5 DEF WInv, WebTyped, files, told
<1>7. Sockets'
  BY <1>1, <1>2, <1>3 DEF Sockets
<1>8. Serving'
  BY <1>1, <1>2, <1>4 DEF WInv, Serving, told
<1>9. OneApply' /\ Exits' /\ Untried'
  BY <1>1, <1>2, <1>3, <1>4 DEF WInv, OneApply, Exits, Untried, told
<1>10. TellsRight'
  <2>1. \A c \in Clients : Tells(c, answer[c])'
    BY <1>1, <1>3 DEF WInv, TellsRight, Tells, told
  <2>2. QED
    BY <1>2, <2>1 DEF TellsRight
<1>11. QED
  BY <1>6, <1>7, <1>8, <1>9, <1>10 DEF WInv

LEMMA ClientSteps ==
  ASSUME WInv, NEW c \in Clients, Connects(c) \/ Leaves(c)
  PROVE  WInv'
<1>1. UNCHANGED <<server, service, files, child, rebooting, told>>
  BY DEF Connects, Leaves
<1>2. /\ QueueOK' /\ gone' \subseteq Clients
      /\ \A d \in Clients : conn'[d] = "ended" \/ conn[d] # "ended"
      /\ \A d \in Clients : conn'[d] \in {"new", "queued"} => conn[d] \in {"new", "queued"}
      /\ \A d \in Clients : conn[d] = "served" => conn'[d] = "served"
  <2>1. CASE Leaves(c)
    BY <2>1 DEF Leaves, WInv, WebTyped, QueueOK
  <2>2. CASE Connects(c) /\ port = {}
    <3>1. queue' = queue /\ conn' = [conn EXCEPT ![c] = "ended"] /\ conn[c] = "new" /\ gone' = gone
      BY <2>2 DEF Connects
    <3>2. \A i \in 1 .. Len(queue) : queue[i] \in Clients
      BY LenProperties DEF WInv, WebTyped, QueueOK
    <3>3. QED
      BY <3>1, <3>2 DEF WInv, WebTyped, QueueOK
  <2>3. CASE Connects(c) /\ port # {}
    <3>1. /\ queue' = Append(queue, c) /\ conn' = [conn EXCEPT ![c] = "queued"] /\ conn[c] = "new"
          /\ gone' = gone /\ Len(queue) < Backlog /\ queue \in Seq(Clients)
          /\ conn \in [Clients -> {"new", "queued", "served", "ended"}] /\ gone \subseteq Clients
      BY <2>3 DEF Connects, WInv, WebTyped, QueueOK
    <3>2. /\ queue' \in Seq(Clients) /\ Len(queue') = Len(queue) + 1 /\ queue'[Len(queue) + 1] = c
          /\ \A i \in 1 .. Len(queue) : queue'[i] = queue[i]
      BY <3>1, AppendProperties
    <3>3. Len(queue) \in Nat /\ \A i \in 1 .. Len(queue) : queue[i] \in Clients
      BY <3>1, LenProperties
    <3>4. /\ \A i \in 1 .. Len(queue) : conn[queue[i]] = "queued"
          /\ \A i, j \in 1 .. Len(queue) : queue[i] = queue[j] => i = j
      BY DEF WInv, WebTyped, QueueOK
    <3>5. \A i \in 1 .. Len(queue) : queue[i] # c
      BY <3>1, <3>4
    <3>6. Len(queue') <= Backlog
      BY <3>1, <3>2, <3>3, BacklogAssumption
    <3>7. \A i \in 1 .. Len(queue') : i = Len(queue) + 1 \/ i \in 1 .. Len(queue)
      BY <3>2, <3>3
    <3>8. \A i \in 1 .. Len(queue') : conn'[queue'[i]] = "queued"
      BY <3>1, <3>2, <3>3, <3>4, <3>5, <3>7
    <3>9. \A i, j \in 1 .. Len(queue') : queue'[i] = queue'[j] => i = j
      BY <3>2, <3>4, <3>5, <3>7
    <3>10. conn' \in [Clients -> {"new", "queued", "served", "ended"}]
      BY <3>1
    <3>11. QueueOK'
      BY <3>2, <3>6, <3>8, <3>9, <3>10 DEF QueueOK
    <3>12. QED
      BY <3>1, <3>11
  <2>4. QED
    BY <2>1, <2>2, <2>3
<1>3. WebTyped'
  BY <1>1, <1>2 DEF WInv, WebTyped, service, files, told
<1>4. Sockets'
  BY <1>1 DEF WInv, Sockets, service, Alive
<1>5. Serving' /\ Untried'
  BY <1>1, <1>2 DEF WInv, Serving, Untried, files, told
<1>6. OneApply' /\ Exits' /\ TellsRight'
  BY <1>1 DEF WInv, OneApply, Exits, TellsRight, Tells, service, files, told, Alive
<1>7. QED
  BY <1>3, <1>4, <1>5, <1>6 DEF WInv

LEMMA StepWInv == WInv /\ [WebNext]_webVars => WInv'
<1> SUFFICES ASSUME WInv, [WebNext]_webVars PROVE WInv'
  OBVIOUS
<1>1. CASE UNCHANGED webVars
  <2>1. UNCHANGED <<conn, gone, queue, server, service, files, child, rebooting, told>>
    BY <1>1 DEF webVars
  <2>2. WebTyped' /\ Sockets' /\ Serving'
    BY <2>1 DEF WInv, WebTyped, QueueOK, service, files, told, Sockets, Serving, Alive
  <2>3. OneApply' /\ Exits' /\ Untried' /\ TellsRight'
    BY <2>1 DEF WInv, OneApply, Exits, Untried, TellsRight, Tells, service, files, told, Alive
  <2>4. QED
    BY <2>2, <2>3 DEF WInv
<1>2. QED
  BY <1>1, AcceptStep, RequestSteps, ForkStep, WaitStep, SendStep, DiesStep, WritesStep, CallsRebootStep,
     ApplyEndsStep, TerminateStep, StartSteps, RebootStep, ClientSteps
     DEF WebNext, ServerStep, ApplyStep

LEMMA InitWInv == WebInit => WInv
<1> SUFFICES ASSUME WebInit PROVE WInv
  OBVIOUS
<1>1. server \in ServerType /\ server.pc = "accept" /\ server.client = None /\ server.status = "none"
  BY DoingTyped DEF WebInit
<1>2. child \in WebChild /\ child.pc = "none" /\ child.exit = "none" /\ ~Alive
  BY ApplyTyped DEF WebInit, Alive
<1>3. queue \in Seq(Clients) /\ Len(queue) = 0 /\ Len(queue) <= Backlog
  BY EmptySeq, BacklogAssumption DEF WebInit
<1>4. WebTyped
  <2>1. conn \in [Clients -> {"new", "queued", "served", "ended"}]
    BY DEF WebInit
  <2>2. QueueOK
    BY <1>3, <2>1 DEF QueueOK
  <2>3. answer \in [Clients -> Answers] /\ outcome \in [Clients -> Outcomes]
    BY DEF WebInit, Answers, Outcomes
  <2>4. QED
    BY <1>1, <1>2, <2>2, <2>3 DEF WebInit, WebTyped
<1>5. Sockets /\ Serving /\ OneApply /\ Exits /\ Untried /\ TellsRight
  BY <1>1, <1>2 DEF WebInit, Sockets, Serving, OneApply, Exits, Untried, TellsRight, Tells
<1>6. QED
  BY <1>4, <1>5 DEF WInv

\* WebServer!AppliesOwnUpload: no upload replaces the package an ota-apply is reading,
\* also one that has outlived its server. It is the listening socket, which ota-apply
\* inherits, that keeps a second server out.
THEOREM OwnUploadIsApplied == WebSpec => []AppliesOwnUpload
<1>1. WInv => AppliesOwnUpload
  BY DEF WInv, OneApply, AppliesOwnUpload, Alive
<1>2. QED
  BY <1>1, InitWInv, StepWInv, PTL DEF WebSpec

\* WebServer!AnswerTellsOutcome: "done" only after the reboot that boots the client's own
\* package, "failed" (without a signal in the wait) only when its ota-apply is over, even
\* one that failed between the variables, for any number of clients and restarts.
THEOREM AnswersAreTrue == WebSpec => []AnswerTellsOutcome
<1>1. WInv => AnswerTellsOutcome
  BY DEF WInv, TellsRight, Tells, AnswerTellsOutcome
<1>2. QED
  BY <1>1, InitWInv, StepWInv, PTL DEF WebSpec

LEMMA WebTypes == WInv => WebTypeOK
<1> SUFFICES ASSUME WInv PROVE WebTypeOK
  OBVIOUS
<1>1. server \in ServerType /\ child \in WebChild /\ queue \in Seq(Clients)
  BY DEF WInv, WebTyped, QueueOK
<1>2. DOMAIN queue = 1 .. Len(queue)
  BY <1>1, LenProperties
<1>3. {server.client, child.client, mime, swu} \subseteq Clients \cup {None}
  BY <1>1 DEF WInv, WebTyped, ServerType, WebChild
<1>4. {stop, rebooting} \subseteq BOOLEAN
  BY DEF WInv, WebTyped
<1>5. QED
  BY <1>1, <1>2, <1>3, <1>4 DEF WebTypeOK, WInv, WebTyped, QueueOK, Sockets, ServerType, WebChild

-----------------------------------------------------------------------------
(* The dashboard *)

Messages == {"none", "busy", "ok", "failed", "no start"}

PanelTyped ==
  /\ screen \in {"home", "ota", "failover"} /\ dialog \in Commands \cup {"none"}
  /\ proc \in [Commands -> {"idle", "running", "ended"}]
  /\ exit \in [Commands -> Messages] /\ enabled \in [Commands -> BOOLEAN]
  /\ msg \in [Commands -> Messages] /\ last \in [Commands -> Messages]
  /\ pipe \in Seq(0 .. FullBar) /\ mark \in 0 .. FullBar /\ bar \in {mark, FullBar}

\* A dialog is open on the page of its command, and what a command printed is read before
\* its end is noticed.
InTurn ==
  /\ dialog # "none" => screen = PageOf(dialog)
  /\ proc["pull"] = "idle" => pipe = <<>>

PInv == PanelTyped /\ InTurn /\ ShowsLastResult

LEMMA Pages == PageOf("pull") = "ota" /\ PageOf("tool") = "failover"
BY DEF PageOf

LEMMA PageSteps ==
  ASSUME PInv, BackHome \/ \E s \in {"ota", "failover"} : OpenPage(s)
  PROVE  PInv'
<1>1. /\ UNCHANGED <<dialog, proc, exit, enabled, msg, progress, runs, last>> /\ dialog = "none"
      /\ screen' \in {"home", "ota", "failover"}
      /\ screen' = "failover" /\ proc["tool"] = "idle" => detail' \in {msg["tool"], "unavailable"}
  BY DEF BackHome, OpenPage, Refresh
<1>2. PanelTyped' /\ InTurn'
  BY <1>1 DEF PInv, PanelTyped, InTurn, progress
<1>3. ShowsLastResult'
  BY <1>1 DEF PInv, ShowsLastResult, Commands
<1>4. QED
  BY <1>2, <1>3 DEF PInv

LEMMA PressStep ==
  ASSUME PInv, NEW c \in Commands, Press(c)
  PROVE  PInv'
<1>1. /\ UNCHANGED <<screen, proc, exit, enabled, detail, progress, runs, last>>
      /\ dialog = "none" /\ screen = PageOf(c)
  BY DEF Press
<1>2. CASE proc[c] # "idle" /\ msg' = [msg EXCEPT ![c] = "busy"] /\ UNCHANGED dialog
  <2>1. /\ msg' \in [Commands -> Messages] /\ \A d \in Commands : d # c => msg'[d] = msg[d]
    BY <1>2 DEF PInv, PanelTyped, Messages
  <2>2. PanelTyped' /\ InTurn'
    BY <1>1, <1>2, <2>1 DEF PInv, PanelTyped, InTurn, progress
  <2>3. ShowsLastResult'
    BY <1>1, <1>2, <2>1 DEF PInv, ShowsLastResult
  <2>4. QED
    BY <2>2, <2>3 DEF PInv
<1>3. CASE dialog' = c /\ UNCHANGED msg
  <2>1. PanelTyped' /\ InTurn'
    BY <1>1, <1>3 DEF PInv, PanelTyped, InTurn, progress
  <2>2. ShowsLastResult'
    BY <1>1, <1>3 DEF PInv, ShowsLastResult
  <2>3. QED
    BY <2>1, <2>2 DEF PInv
<1>4. QED
  BY <1>2, <1>3 DEF Press

LEMMA AnswerNoStep ==
  ASSUME PInv, AnswerNo
  PROVE  PInv'
<1>1. UNCHANGED <<screen, proc, exit, enabled, msg, detail, progress, runs, last>> /\ dialog' = "none"
  BY DEF AnswerNo
<1>2. PanelTyped' /\ InTurn' /\ ShowsLastResult'
  BY <1>1 DEF PInv, PanelTyped, InTurn, ShowsLastResult, progress
<1>3. QED
  BY <1>2 DEF PInv

LEMMA AnswerYesStep ==
  ASSUME PInv, AnswerYes
  PROVE  PInv'
<1> DEFINE c == dialog
<1>1. /\ UNCHANGED <<screen, exit>> /\ dialog' = "none" /\ c \in Commands
      /\ screen = PageOf(c)
  BY DEF AnswerYes, PInv, PanelTyped, InTurn
<1>2. /\ proc \in [Commands -> {"idle", "running", "ended"}] /\ enabled \in [Commands -> BOOLEAN]
      /\ msg \in [Commands -> Messages] /\ last \in [Commands -> Messages] /\ exit \in [Commands -> Messages]
      /\ pipe \in Seq(0 .. FullBar) /\ mark \in 0 .. FullBar /\ bar \in {mark, FullBar}
      /\ screen \in {"home", "ota", "failover"}
  BY DEF PInv, PanelTyped
<1>3. CASE /\ proc[c] # "idle"
           /\ msg' = [msg EXCEPT ![c] = "busy"] /\ UNCHANGED <<proc, enabled, last, detail, progress>>
  <2>1. /\ msg' \in [Commands -> Messages] /\ \A d \in Commands : d # c => msg'[d] = msg[d]
    BY <1>2, <1>3 DEF Messages
  <2>2. PanelTyped' /\ InTurn'
    BY <1>1, <1>3, <2>1 DEF PInv, PanelTyped, InTurn, progress
  <2>3. ShowsLastResult'
    BY <1>1, <1>3, <2>1 DEF PInv, ShowsLastResult
  <2>4. QED
    BY <2>2, <2>3 DEF PInv
<1>4. CASE proc[c] = "idle" /\ ResetBar(c)
  <2> HIDE DEF c
  <2>1. /\ pipe' = pipe /\ mark' \in 0 .. FullBar /\ bar' \in {mark', FullBar}
    BY <1>2, <1>4, PanelAssumption DEF ResetBar, progress
  <2>2. CASE /\ proc' = [proc EXCEPT ![c] = "running"] /\ msg' = [msg EXCEPT ![c] = "busy"]
             /\ enabled' = [enabled EXCEPT ![c] = FALSE] /\ UNCHANGED last
             /\ Refresh(screen, "busy", proc["tool"])
    <3>1. /\ proc' \in [Commands -> {"idle", "running", "ended"}] /\ proc'[c] = "running"
          /\ msg' \in [Commands -> Messages] /\ enabled' \in [Commands -> BOOLEAN]
          /\ \A d \in Commands : d # c => proc'[d] = proc[d] /\ msg'[d] = msg[d]
      BY <1>1, <1>2, <2>2 DEF Messages
    <3>2. PanelTyped'
      BY <1>1, <1>2, <2>1, <2>2, <3>1 DEF PanelTyped
    <3>3. InTurn'
      BY <1>1, <2>1, <3>1 DEF PInv, InTurn, Commands
    <3>4. c # "tool" => screen # "failover"
      BY <1>1, Pages DEF Commands
    <3>5. ShowsLastResult'
      BY <1>1, <2>2, <3>1, <3>4 DEF PInv, ShowsLastResult
    <3>6. QED
      BY <3>2, <3>3, <3>5 DEF PInv
  <2>3. ASSUME NEW state \in {"idle", "running"},
               proc' = [proc EXCEPT ![c] = state], msg' = [msg EXCEPT ![c] = "no start"],
               enabled' = [enabled EXCEPT ![c] = TRUE], last' = [last EXCEPT ![c] = "no start"],
               Refresh(screen, msg'["tool"], proc'["tool"])
        PROVE  PInv'
    <3>1. /\ proc' \in [Commands -> {"idle", "running", "ended"}]
          /\ msg' \in [Commands -> Messages] /\ enabled' \in [Commands -> BOOLEAN]
          /\ last' \in [Commands -> Messages]
          /\ msg'[c] = "no start" /\ last'[c] = "no start"
          /\ \A d \in Commands : d # c => proc'[d] = proc[d] /\ msg'[d] = msg[d] /\ last'[d] = last[d]
      BY <1>1, <1>2, <2>3 DEF Messages
    <3>2. PanelTyped'
      BY <1>1, <1>2, <2>1, <3>1 DEF PanelTyped
    <3>3. InTurn'
      BY <1>1, <1>4, <2>1, <3>1 DEF PInv, InTurn, Commands
    <3>4. screen = "failover" => c = "tool"
      BY <1>1, Pages DEF Commands
    <3>5. screen = "failover" /\ proc'["tool"] = "idle" => detail' \in {msg'["tool"], "unavailable"}
      BY <2>3 DEF Refresh
    <3>6. ShowsLastResult'
      BY <1>1, <3>1, <3>4, <3>5 DEF PInv, ShowsLastResult, Commands
    <3>7. QED
      BY <3>2, <3>3, <3>6 DEF PInv
  <2>4. QED
    BY <1>4, <2>2, <2>3 DEF AnswerYes, c
<1>5. QED
  BY <1>3, <1>4 DEF AnswerYes

LEMMA ProgramSteps ==
  ASSUME PInv, Prints \/ \E c \in Commands : Ends(c)
  PROVE  PInv'
<1>1. CASE Prints
  <2>1. PICK n \in 0 .. FullBar : pipe' = Append(pipe, n)
    BY <1>1 DEF Prints
  <2>2. pipe \in Seq(0 .. FullBar)
    BY DEF PInv, PanelTyped
  <2>3. pipe' \in Seq(0 .. FullBar)
    BY <2>1, <2>2, AppendProperties
  <2>4. PanelTyped' /\ InTurn' /\ ShowsLastResult'
    BY <1>1, <2>3 DEF Prints, PInv, PanelTyped, InTurn, ShowsLastResult
  <2>5. QED
    BY <2>4 DEF PInv
<1>2. ASSUME NEW c \in Commands, Ends(c)
      PROVE  PInv'
  <2>1. /\ proc' \in [Commands -> {"idle", "running", "ended"}] /\ proc'[c] = "ended"
        /\ \A d \in Commands : d # c => proc'[d] = proc[d]
        /\ exit' \in [Commands -> Messages]
    <3>1. /\ proc \in [Commands -> {"idle", "running", "ended"}] /\ exit \in [Commands -> Messages]
          /\ {"ok", "failed"} \subseteq Messages
      BY DEF PInv, PanelTyped, Messages
    <3>2. PICK how \in {"ok", "failed"} : exit' = [exit EXCEPT ![c] = how]
      BY <1>2 DEF Ends
    <3>3. proc' = [proc EXCEPT ![c] = "ended"]
      BY <1>2 DEF Ends
    <3>4. QED
      BY <3>1, <3>2, <3>3
  <2>2. UNCHANGED <<screen, dialog, enabled, msg, detail, pipe, mark, bar, last>>
    BY <1>2 DEF Ends, progress
  <2>3. PanelTyped'
    BY <2>1, <2>2 DEF PInv, PanelTyped
  <2>4. InTurn' /\ ShowsLastResult'
    BY <2>1, <2>2 DEF PInv, InTurn, ShowsLastResult, Commands
  <2>5. QED
    BY <2>3, <2>4 DEF PInv
<1>3. QED
  BY <1>1, <1>2

LEMMA OnStdoutStep ==
  ASSUME PInv, OnStdout
  PROVE  PInv'
<1>1. /\ UNCHANGED <<screen, dialog, proc, exit, enabled, detail, last>>
      /\ pipe # <<>> /\ pipe' = Tail(pipe) /\ mark' \in {mark, Head(pipe)} /\ bar' = mark'
      /\ msg' = [msg EXCEPT !["pull"] = "busy"]
  BY DEF OnStdout
<1>2. pipe \in Seq(0 .. FullBar) /\ mark \in 0 .. FullBar /\ msg \in [Commands -> Messages]
  BY DEF PInv, PanelTyped
<1>3. Head(pipe) \in 0 .. FullBar /\ Tail(pipe) \in Seq(0 .. FullBar)
  BY <1>1, <1>2, HeadTailProperties
<1>4. msg' \in [Commands -> Messages] /\ msg'["tool"] = msg["tool"]
  BY <1>1, <1>2 DEF Messages, Commands
<1>5. PanelTyped'
  BY <1>1, <1>2, <1>3, <1>4 DEF PInv, PanelTyped
<1>6. proc["pull"] # "idle"
  BY <1>1 DEF PInv, InTurn
<1>7. InTurn' /\ ShowsLastResult'
  BY <1>1, <1>4, <1>6 DEF PInv, InTurn, ShowsLastResult, Commands
<1>8. QED
  BY <1>5, <1>7 DEF PInv

LEMMA OnFinishedStep ==
  ASSUME PInv, NEW c \in Commands, OnFinished(c)
  PROVE  PInv'
<1>1. /\ UNCHANGED <<screen, dialog, exit, pipe, mark>>
      /\ proc' = [proc EXCEPT ![c] = "idle"] /\ enabled' = [enabled EXCEPT ![c] = TRUE]
      /\ msg' = [msg EXCEPT ![c] = exit[c]] /\ last' = [last EXCEPT ![c] = exit[c]]
      /\ bar' \in {bar, FullBar}
      /\ c = "pull" => pipe = <<>> /\ detail' = detail
      /\ c = "tool" /\ screen = "failover" => detail' \in {exit["tool"], "unavailable"}
  BY DEF OnFinished, OnOtaPullFinished, OnFailoverCmdFinished, Refresh, Commands
<1>2. /\ proc' \in [Commands -> {"idle", "running", "ended"}] /\ enabled' \in [Commands -> BOOLEAN]
      /\ msg' \in [Commands -> Messages] /\ last' \in [Commands -> Messages]
      /\ msg'[c] = exit[c] /\ last'[c] = exit[c]
      /\ \A d \in Commands : d # c => proc'[d] = proc[d] /\ msg'[d] = msg[d] /\ last'[d] = last[d]
  BY <1>1 DEF PInv, PanelTyped
<1>3. PanelTyped'
  BY <1>1, <1>2 DEF PInv, PanelTyped
<1>4. InTurn'
  BY <1>1, <1>2 DEF PInv, InTurn, Commands
<1>5. ShowsLastResult'
  BY <1>1, <1>2 DEF PInv, ShowsLastResult, Commands
<1>6. QED
  BY <1>3, <1>4, <1>5 DEF PInv

LEMMA StepPInv == PInv /\ [PanelNext]_panelVars => PInv'
<1> SUFFICES ASSUME PInv, [PanelNext]_panelVars PROVE PInv'
  OBVIOUS
<1>1. CASE UNCHANGED panelVars
  <2>1. PanelTyped' /\ InTurn' /\ ShowsLastResult'
    BY <1>1 DEF panelVars, progress, PInv, PanelTyped, InTurn, ShowsLastResult
  <2>2. QED
    BY <2>1 DEF PInv
<1>2. QED
  BY <1>1, PageSteps, PressStep, AnswerNoStep, AnswerYesStep, ProgramSteps, OnStdoutStep, OnFinishedStep
     DEF PanelNext

LEMMA InitPInv == PanelInit => PInv
<1> SUFFICES ASSUME PanelInit PROVE PInv
  OBVIOUS
<1>1. pipe \in Seq(0 .. FullBar) /\ mark \in 0 .. FullBar
  BY EmptySeq, PanelAssumption DEF PanelInit
<1>2. PanelTyped
  BY <1>1 DEF PanelInit, PanelTyped, Messages
<1>3. InTurn /\ ShowsLastResult
  BY DEF PanelInit, InTurn, ShowsLastResult
<1>4. QED
  BY <1>2, <1>3 DEF PInv

\* Dashboard!ShowsLastResult: the message of a command that does not run, and the detail of
\* the FAILOVER page, are of its last attempt, whatever pages were opened, dialogs answered
\* and lines read meanwhile.
THEOREM LastResultIsShown == PanelSpec => []ShowsLastResult
<1>1. PInv => ShowsLastResult
  BY DEF PInv
<1>2. QED
  BY <1>1, InitPInv, StepPInv, PTL DEF PanelSpec

LEMMA PanelTypes == PInv => PanelTypeOK
BY PanelAssumption DEF PInv, PanelTyped, PanelTypeOK

-----------------------------------------------------------------------------
(* The three of them *)

\* MCBoardUi!UiTypeOK, with the invariants that relate two variables which the parts state as
\* types: the lock of the database belongs to the query or the commit that is in progress, the
\* socket is open in whoever runs, a queued client waits, and no bar is past its end.
THEOREM UiTyped == UiSpec => []UiTypeOK
<1> DEFINE Inv == SInv /\ WInv /\ PInv
<1>1. UiInit => Inv
  BY InitSInv, InitWInv, InitPInv DEF UiInit
<1>2. Inv /\ [UiNext]_uiVars => Inv'
  <2> SUFFICES ASSUME Inv, [UiNext]_uiVars PROVE Inv'
    OBVIOUS
  <2>1. [SensorNext]_sensorVars /\ [WebNext]_webVars /\ [PanelNext]_panelVars
    BY DEF UiNext, DriversMove, SensorsMove, WebMoves, PanelMoves, uiVars
  <2>2. QED
    BY <2>1, StepSInv, StepWInv, StepPInv
<1>3. Inv => UiTypeOK
  BY SensorTyped, WebTypes, PanelTypes DEF UiTypeOK
<1>4. QED
  BY <1>1, <1>2, <1>3, PTL DEF UiSpec
=============================================================================
