-------------------------- MODULE MqttAgentProofs --------------------------
(***************************************************************************)
(* mqtt-agent: that a command goes through the unlocked buffer between the *)
(* callback of the MQTT library and the main loop whole and at most once,  *)
(* and that the statuses the operator hears are in the order of the        *)
(* commands.                                                               *)
(***************************************************************************)
EXTENDS MqttAgent, SequenceTheorems, TLAPS

CbType    == [pc : {"idle", "copy", "rest", "flag"}, msg : Commands \cup {NoText}]
MainType  == [pc : MainPcs, text : Texts, next : {"none", "create", "precheck"},
              done : SUBSET {"flag", "text"}, from : {"none", "ensure", "yield"}]
ChildType == [cmd : Commands \cup {NoText}, pc : {"none", "start", "runs", "killed", "ended"},
              out : Seq({"completed", "failed"})]
Statuses  == {"accepted", "completed", "failed"}

\* TypeOK with the fields of the child on their own: that a child has a command is in Holders.
Typed ==
  /\ auto \in BOOLEAN /\ open \subseteq Range(Hosts) /\ cache \in Range(Hosts) \cup {NoHost}
  /\ {sess, listens, lost, client, connected, topic, hasPending} \subseteq BOOLEAN
  /\ wire \in Seq(Commands) /\ uri \in Range(Hosts) \cup {NoHost} /\ pending \in Texts
  /\ found \in {"never", "recent", "old"}
  /\ cb \in [pc : {"idle", "copy", "rest", "flag"}, msg : Commands \cup {NoText}]
  /\ main \in [pc : MainPcs, text : Texts, next : {"none", "create", "precheck"},
               done : SUBSET {"flag", "text"}, from : {"none", "ensure", "yield"}]
  /\ child \in [cmd : Commands \cup {NoText}, pc : {"none", "start", "runs", "killed", "ended"},
                out : Seq({"completed", "failed"})]
  /\ lock \in {"none", "local", "orphan"}
  /\ sent \in 0..MaxCommands /\ kept \subseteq Commands
  /\ settled \subseteq Commands /\ excused \subseteq Commands
  /\ changes \in 0..MaxChanges /\ faults \in 0..MaxFaults

\* What each holder of a command holds: the callback once it has taken one, the main loop
\* between its check and the start of ota-agent, and a child.
Holders ==
  /\ heard \in Seq(Texts \X Statuses)
  /\ cb.pc # "idle" => cb.msg \in Commands
  /\ main.pc = "clear" => main.next \in {"create", "precheck"}
  /\ main.pc = "start" => main.text \in Commands
  /\ child.pc = "none" <=> child.cmd = NoText
  /\ child.pc # "ended" => child.out = <<>>

MInv == Typed /\ Holders

-----------------------------------------------------------------------------
(* Types *)

LEMMA Numbers ==
  /\ MaxCommands \in Nat /\ MaxChanges \in Nat /\ MaxFaults \in Nat
  /\ Torn \notin Commands /\ NoText \notin Commands /\ Torn # NoText /\ Commands \subseteq Nat
BY BoundsAssumption DEF Torn, Commands, NoText

\* Positions of the main loop.
LEMMA AtTyped ==
  ASSUME NEW pc \in MainPcs
  PROVE  /\ At(pc) \in MainType /\ At(pc).pc = pc /\ At(pc).text = NoText /\ At(pc).next = "none"
         /\ At(pc).done = {} /\ At(pc).from = "none"
BY DEF At, MainType, Texts

LEMMA RestTyped == CbIdle \in CbType /\ CbIdle.pc = "idle" /\ NoChild \in ChildType /\ NoChild.pc = "none"
                   /\ NoChild.cmd = NoText /\ NoChild.out = <<>>
<1>1. <<>> \in Seq({"completed", "failed"})
  BY EmptySeq
<1>2. QED
  BY <1>1 DEF CbIdle, CbType, NoChild, ChildType

\* What the broker or a host reports, typed.
LEMMA PublishTyped ==
  ASSUME MInv, NEW c \in Texts, NEW phase \in Statuses, Publish(c, phase)
  PROVE  heard' \in Seq(Texts \X Statuses)
<1>1. <<c, phase>> \in Texts \X Statuses
  OBVIOUS
<1>2. QED
  BY <1>1 DEF MInv, Holders, Publish

LEMMA ResolvesTyped ==
  ASSUME MInv
  PROVE  Resolves \subseteq Range(Hosts)
BY HostsAssumption DEF MInv, Typed, Resolves

-----------------------------------------------------------------------------
(* The steps that make a session *)

Dials == EnsureSession \/ CreateMqttClient \/ AttemptMqttConnect \/ SetConnected \/ Subscribe \/ OtaMqttYield

\* Where the main loop is after one of them, and what they leave alone.
LEMMA DialsGo ==
  ASSUME MInv, Dials
  PROVE  /\ main' \in MainType /\ main'.text \in {NoText, main.text} /\ main'.pc \notin {"start", "precheck"}
         /\ main'.pc = "clear" => main'.next = "create"
         /\ main.pc \notin {"start", "precheck", "clear"}
         /\ wire' = wire \/ wire' = <<>>
         /\ UNCHANGED <<cb, child, buffer, history, sent, lock, auto>>
<1>1. main \in MainType
  BY DEF MInv, Typed, MainType
<1>2. \A pc \in {"yield", "pop"} : At(pc) \in MainType /\ At(pc).pc = pc /\ At(pc).text = NoText
  BY AtTyped DEF MainPcs
<1>3. ASSUME NEW pc \in {"create", "connect", "connected", "subscribe"}, main' = [main EXCEPT !.pc = pc]
      PROVE  main' \in MainType /\ main'.text = main.text /\ main'.pc = pc
  BY <1>1, <1>3 DEF MainType, MainPcs
<1>4. main.pc \notin {"start", "precheck", "clear"}
  BY DEF Dials, EnsureSession, CreateMqttClient, AttemptMqttConnect, SetConnected, Subscribe, OtaMqttYield
<1>5. /\ wire' = wire \/ wire' = <<>>
      /\ UNCHANGED <<cb, child, buffer, history, sent, lock, auto>>
  BY DEF Dials, EnsureSession, CreateMqttClient, AttemptMqttConnect, SetConnected, Subscribe, OtaMqttYield,
         world, session
<1>6. CASE EnsureSession
  <2> DEFINE r == [At("clear") EXCEPT !.next = "create", !.from = "ensure"]
  <2>1. r \in MainType /\ r.pc = "clear" /\ r.text = NoText /\ r.next = "create"
    BY AtTyped DEF MainType, MainPcs
  <2>2. main' = At("yield") \/ main' = r
    BY <1>6 DEF EnsureSession
  <2> HIDE DEF r
  <2>3. QED
    BY <1>2, <1>4, <1>5, <2>1, <2>2
<1>7. CASE CreateMqttClient
  <2>1. main' = [main EXCEPT !.pc = "connect"] \/ main' = At("yield") \/ main' = At("pop")
    BY <1>7 DEF CreateMqttClient
  <2>2. QED
    BY <1>2, <1>3, <1>4, <1>5, <2>1
<1>8. CASE AttemptMqttConnect
  <2>1. main' = [main EXCEPT !.pc = "connected"] \/ main' = At("yield") \/ main' = At("pop")
    BY <1>8 DEF AttemptMqttConnect
  <2>2. QED
    BY <1>2, <1>3, <1>4, <1>5, <2>1
<1>9. CASE SetConnected
  <2>1. main' = [main EXCEPT !.pc = "subscribe"] \/ main' = At("pop")
    BY <1>9 DEF SetConnected
  <2>2. QED
    BY <1>2, <1>3, <1>4, <1>5, <2>1
<1>10. CASE Subscribe
  <2>1. main' = At("yield") \/ main' = At("pop")
    BY <1>10 DEF Subscribe
  <2>2. QED
    BY <1>2, <1>4, <1>5, <2>1
<1>11. CASE OtaMqttYield
  <2> DEFINE r(pc) == [At(pc) EXCEPT !.from = "yield"]
  <2>1. \A pc \in {"connect", "create"} : r(pc) \in MainType /\ r(pc).pc = pc /\ r(pc).text = NoText
    BY AtTyped DEF MainType, MainPcs
  <2>2. main' = At("pop") \/ main' = r("connect") \/ main' = r("create")
    BY <1>11 DEF OtaMqttYield
  <2> HIDE DEF r
  <2>3. QED
    BY <1>2, <1>4, <1>5, <2>1, <2>2
<1>12. QED
  BY <1>6, <1>7, <1>8, <1>9, <1>10, <1>11 DEF Dials

\* A fault, or none, is counted.
LEMMA CountsFaults ==
  ASSUME Typed, Fault \/ Works
  PROVE  faults' \in 0 .. MaxFaults
BY BoundsAssumption DEF Fault, Works, Typed

LEMMA DialsTyped ==
  ASSUME MInv, Dials
  PROVE  MInv'
<1>1. /\ main' \in MainType /\ main'.pc # "start" /\ (main'.pc = "clear" => main'.next = "create")
      /\ UNCHANGED <<cb, child, hasPending, pending, heard, kept, settled, excused, sent, lock, auto>>
      /\ wire' \in Seq(Commands)
  <2>1. <<>> \in Seq(Commands) /\ wire \in Seq(Commands)
    BY EmptySeq DEF MInv, Typed
  <2>2. wire' = wire \/ wire' = <<>>
    BY DialsGo
  <2>3. /\ main' \in MainType /\ main'.pc # "start" /\ (main'.pc = "clear" => main'.next = "create")
        /\ UNCHANGED <<cb, child, buffer, history, sent, lock, auto>>
    BY DialsGo
  <2>4. QED
    BY <2>1, <2>2, <2>3 DEF buffer, history
<1>2. UNCHANGED <<open, changes>>
  BY DEF Dials, EnsureSession, CreateMqttClient, AttemptMqttConnect, SetConnected, Subscribe, OtaMqttYield, world
<1>3. faults' \in 0 .. MaxFaults
  <2>1. Fault \/ Works
    BY DEF Dials, EnsureSession, CreateMqttClient, AttemptMqttConnect, SetConnected, Subscribe, OtaMqttYield, world,
           Works
  <2>2. QED
    BY <2>1, CountsFaults DEF MInv
<1>4. /\ uri' \in Range(Hosts) \cup {NoHost} /\ cache' \in Range(Hosts) \cup {NoHost}
      /\ found' \in {"never", "recent", "old"}
  <2>1. CASE EnsureSession
    BY <2>1, ResolvesTyped DEF EnsureSession, MInv, Typed
  <2>2. CASE ~EnsureSession
    BY <2>2 DEF Dials, CreateMqttClient, AttemptMqttConnect, SetConnected, Subscribe, OtaMqttYield, clientVars,
                MInv, Typed
  <2>3. QED
    BY <2>1, <2>2
<1>5. {sess, listens, lost, client, connected, topic}' \subseteq BOOLEAN
  BY DEF Dials, EnsureSession, CreateMqttClient, AttemptMqttConnect, SetConnected, Subscribe, OtaMqttYield,
         session, clientVars, MInv, Typed
<1>6. Typed'
  BY <1>1, <1>2, <1>3, <1>4, <1>5 DEF MInv, Typed, MainType
<1>7. Holders'
  BY <1>1 DEF MInv, Holders
<1>8. QED
  BY <1>6, <1>7 DEF MInv

-----------------------------------------------------------------------------
(* The types of the other steps *)

LEMMA TookTyped ==
  ASSUME MInv, wire # <<>>
  PROVE  /\ Head(wire) \in Commands /\ Tail(wire) \in Seq(Commands) /\ Len(Tail(wire)) = Len(wire) - 1
         /\ Len(wire) \in Nat /\ Len(wire) > 0 /\ Head(wire) = wire[1]
         /\ \A i \in 1 .. Len(Tail(wire)) : Tail(wire)[i] = wire[i + 1]
<1>1. wire \in Seq(Commands)
  BY DEF MInv, Typed
<1>2. QED
  BY <1>1, HeadTailProperties, EmptySeq, LenProperties

\* The callback: what it changes of itself.
LEMMA CallbackTyped ==
  ASSUME MInv, MessageArrived \/ CopyPayload \/ SetPending \/ ConnectionLost
  PROVE  MInv'
<1>1. cb \in CbType /\ wire \in Seq(Commands)
  BY DEF MInv, Typed, CbType
<1>2. CASE MessageArrived
  <2> DEFINE r == [pc |-> "copy", msg |-> Head(wire)]
  <2>1. r \in CbType /\ r.msg \in Commands /\ r.pc = "copy"
    BY <1>2, TookTyped DEF MessageArrived, CbType
  <2>2. (cb' = r \/ cb' = CbIdle) /\ wire' = Tail(wire) /\ wire # <<>>
    BY <1>2 DEF MessageArrived
  <2> HIDE DEF r
  <2>3. wire' \in Seq(Commands) /\ cb' \in CbType /\ (cb'.pc # "idle" => cb'.msg \in Commands)
    BY <2>1, <2>2, TookTyped, RestTyped
  <2>4. UNCHANGED <<auto, world, sess, listens, lost, cache, clientVars, buffer, found, main, child, lock, history>>
    BY <1>2 DEF MessageArrived
  <2>5. Typed'
    BY <2>3, <2>4 DEF MInv, Typed, CbType, world, clientVars, buffer, history
  <2>6. Holders'
    BY <2>3, <2>4 DEF MInv, Holders, history
  <2>7. QED
    BY <2>5, <2>6 DEF MInv
<1>3. CASE CopyPayload
  <2>1. cb' \in CbType /\ cb'.msg = cb.msg /\ cb.pc # "idle" /\ pending' \in Texts
    BY <1>1, <1>3 DEF CopyPayload, CbType, Texts, MInv, Typed
  <2>2. UNCHANGED <<auto, world, session, cache, clientVars, hasPending, found, main, child, lock, history>>
    BY <1>3 DEF CopyPayload
  <2>3. Typed'
    BY <2>1, <2>2 DEF MInv, Typed, CbType, world, session, clientVars, history
  <2>4. Holders'
    BY <2>1, <2>2 DEF MInv, Holders, history
  <2>5. QED
    BY <2>3, <2>4 DEF MInv
<1>4. CASE SetPending
  <2>1. cb' \in CbType /\ cb'.pc = "idle" /\ kept' \subseteq Commands /\ hasPending' \in BOOLEAN
    BY <1>1, <1>4, RestTyped DEF SetPending, MInv, Holders, Typed
  <2>2. UNCHANGED <<auto, world, session, cache, clientVars, pending, found, main, child, lock, heard, settled,
                    excused>>
    BY <1>4 DEF SetPending
  <2>3. Typed'
    BY <2>1, <2>2 DEF MInv, Typed, CbType, world, session, clientVars
  <2>4. Holders'
    BY <2>1, <2>2 DEF MInv, Holders
  <2>5. QED
    BY <2>3, <2>4 DEF MInv
<1>5. CASE ConnectionLost
  <2> USE DEF ConnectionLost, MInv
  <2>1. Typed'
    <3>1. {sess, listens, lost, client, connected, topic, hasPending}' \subseteq BOOLEAN
      BY <1>5 DEF Typed, buffer
    <3>2. UNCHANGED <<auto, open, changes, faults, sent, wire, cache, uri, pending, found, cb, main, child, lock,
                      heard, kept, settled, excused>>
      BY <1>5 DEF world, buffer, history
    <3>3. QED
      BY <3>1, <3>2 DEF Typed
  <2>2. Holders'
    BY <1>5 DEF ConnectionLost, MInv, Holders, history
  <2>3. QED
    BY <2>1, <2>2 DEF MInv
<1>6. QED
  BY <1>2, <1>3, <1>4, <1>5

\* A step of the main loop among the commands.
LEMMA LoopTyped ==
  ASSUME MInv, main' \in MainType, child' \in ChildType, pending' \in Texts, hasPending' \in BOOLEAN,
         heard' \in Seq(Texts \X Statuses), settled' \subseteq Commands, excused' \subseteq Commands,
         faults' \in 0 .. MaxFaults,
         main'.pc = "clear" => main'.next \in {"create", "precheck"},
         main'.pc = "start" => main'.text \in Commands,
         child'.pc = "none" <=> child'.cmd = NoText,
         child'.pc # "ended" => child'.out = <<>>,
         UNCHANGED <<auto, open, changes, sent, session, cache, clientVars, found, cb, lock, kept>>
  PROVE  MInv'
<1>1. Typed'
  BY DEF MInv, Typed, MainType, ChildType, session, clientVars
<1>2. Holders'
  BY DEF MInv, Holders
<1>3. QED
  BY <1>1, <1>2 DEF MInv

\* ClearMqttPending: it stores one part after the other.
ClearsFlag == hasPending' = FALSE /\ UNCHANGED pending
ClearsText == pending' = NoText /\ UNCHANGED hasPending

LEMMA ClearGoes ==
  ASSUME MInv, ClearMqttPending
  PROVE  /\ main.pc = "clear" /\ main' \in MainType /\ main'.text = main.text /\ main'.next = main.next
         /\ \/ ClearsFlag /\ "flag" \notin main.done /\ main'.done \in {{"flag"}, {}}
            \/ ClearsText /\ "text" \notin main.done /\ main'.done \in {{"text"}, {}}
         /\ \/ main'.pc = "clear" /\ main.done = {} /\ main'.done # {}
            \/ main'.pc = main.next /\ main.done # {}
         /\ main.next \in {"create", "precheck"}
         /\ UNCHANGED <<auto, world, session, cache, clientVars, found, cb, child, lock, heard, kept, settled>>
<1>1. /\ main.pc = "clear" /\ main \in MainType /\ main.next \in {"create", "precheck"}
      /\ UNCHANGED <<auto, world, session, cache, clientVars, found, cb, child, lock, heard, kept, settled>>
  BY DEF ClearMqttPending, MInv, Holders, Typed, MainType
<1>2. PICK part \in {"flag", "text"} \ main.done :
        /\ IF part = "flag" THEN hasPending' = FALSE /\ UNCHANGED pending
                            ELSE pending' = NoText   /\ UNCHANGED hasPending
        /\ main' = IF main.done = {} THEN [main EXCEPT !.done = {part}]
                   ELSE [main EXCEPT !.pc = main.next, !.done = {}]
  BY DEF ClearMqttPending
<1>3. CASE main.done = {}
  <2> DEFINE r == [main EXCEPT !.done = {part}]
  <2>1. r \in MainType /\ r.text = main.text /\ r.next = main.next /\ r.pc = main.pc /\ r.done = {part}
    BY <1>1 DEF MainType
  <2>2. main' = r
    BY <1>2, <1>3
  <2> HIDE DEF r
  <2>3. (part = "flag" /\ ClearsFlag) \/ (part = "text" /\ ClearsText)
    BY <1>2 DEF ClearsFlag, ClearsText
  <2>4. QED
    BY <1>1, <1>3, <2>1, <2>2, <2>3
<1>4. CASE main.done # {}
  <2> DEFINE r == [main EXCEPT !.pc = main.next, !.done = {}]
  <2>1. r \in MainType /\ r.text = main.text /\ r.next = main.next /\ r.pc = main.next /\ r.done = {}
    BY <1>1 DEF MainType, MainPcs
  <2>2. main' = r
    BY <1>2, <1>4
  <2> HIDE DEF r
  <2>3. (part = "flag" /\ ClearsFlag) \/ (part = "text" /\ ClearsText)
    BY <1>2 DEF ClearsFlag, ClearsText
  <2>4. QED
    BY <1>1, <1>2, <1>4, <2>1, <2>2, <2>3
<1>5. QED
  BY <1>3, <1>4

LEMMA ClearTyped ==
  ASSUME MInv, ClearMqttPending
  PROVE  MInv'
<1>1. Wiped \subseteq Commands
  BY DEF Wiped, MInv, Typed, Texts
<1>2. excused' \subseteq Commands
  BY <1>1 DEF ClearMqttPending, MInv, Typed
<1>3. /\ main' \in MainType /\ main'.next = main.next /\ main.next \in {"create", "precheck"} /\ main'.pc # "start"
      /\ UNCHANGED <<auto, world, session, cache, clientVars, found, cb, child, lock, heard, kept, settled>>
  BY ClearGoes
<1>4. pending' \in Texts /\ hasPending' \in BOOLEAN
  BY ClearGoes DEF ClearsFlag, ClearsText, MInv, Typed, Texts
<1>5. QED
  BY <1>2, <1>3, <1>4, LoopTyped DEF MInv, Typed, ChildType, Holders, world

\* Pop: nothing is taken, or the buffer, by a loop without a child.
Takes == /\ ~Busy /\ hasPending /\ main' \in MainType /\ main'.pc = "clear" /\ main'.text = pending
         /\ main'.next = "precheck" /\ main'.done = {}
Polls == main' = At("poll") /\ main' \in MainType /\ main'.pc = "poll" /\ main'.text = NoText

LEMMA PollsAt == main' = At("poll") => Polls
BY AtTyped DEF Polls, MainPcs

LEMMA PopGoes ==
  ASSUME MInv, OtaMqttPopCommand
  PROVE  /\ main.pc = "pop" /\ (Takes \/ Polls)
         /\ UNCHANGED <<auto, world, session, cache, clientVars, buffer, found, cb, child, lock, history>>
<1> DEFINE r == [At("clear") EXCEPT !.text = pending, !.next = "precheck"]
<1>1. r \in MainType /\ r.pc = "clear" /\ r.text = pending /\ r.next = "precheck" /\ r.done = {}
  <2>1. pending \in Texts
    BY DEF MInv, Typed
  <2>2. QED
    BY <2>1, AtTyped DEF MainType, MainPcs
<1>2. main' = At("poll") \/ (main' = r /\ ~Busy /\ hasPending)
  BY DEF OtaMqttPopCommand
<1> HIDE DEF r
<1>3. Takes \/ Polls
  BY <1>1, <1>2, PollsAt DEF Takes
<1>4. QED
  BY <1>3 DEF OtaMqttPopCommand

LEMMA PopTyped ==
  ASSUME MInv, OtaMqttPopCommand
  PROVE  MInv'
<1>1. main' \in MainType /\ main'.pc # "start" /\ (main'.pc = "clear" => main'.next \in {"create", "precheck"})
  BY PopGoes DEF Takes, Polls
<1>2. UNCHANGED <<auto, world, session, cache, clientVars, buffer, found, cb, child, lock, history>>
  BY PopGoes
<1>3. QED
  BY <1>1, <1>2, LoopTyped DEF MInv, Typed, Holders, ChildType, buffer, history, world

\* Precheck: it is passed, it is not, or it does not take place.
Passes  == /\ ~Busy /\ main.text \in Commands /\ Publish(main.text, "accepted")
           /\ main' \in MainType /\ main'.pc = "start" /\ main'.text = main.text /\ UNCHANGED <<settled, excused>>
Refuses == /\ ~Busy /\ Publish(main.text, "failed") /\ Polls
           /\ settled' = settled \cup ({main.text} \cap Commands) /\ UNCHANGED excused
Skips   == /\ Polls /\ UNCHANGED <<heard, settled>>
           /\ excused' = excused \/ (main.text \in Commands /\ excused' = excused \cup {main.text})

LEMMA PrecheckGoes ==
  ASSUME MInv, RunOtaPrecheck
  PROVE  /\ main.pc = "precheck" /\ (Passes \/ Refuses \/ Skips) /\ (Fault \/ Works)
         /\ UNCHANGED <<auto, open, changes, sent, session, cache, clientVars, buffer, found, cb, child, lock, kept>>
<1> DEFINE r == [main EXCEPT !.pc = "start"]
<1>1. r \in MainType /\ r.pc = "start" /\ r.text = main.text
  BY DEF MInv, Typed, MainType, MainPcs
<1>2. \/ Busy /\ main' = At("poll") /\ UNCHANGED <<heard, settled, excused>> /\ Works
      \/ /\ ~Busy /\ main.text \in Commands
         /\ Publish(main.text, "accepted") /\ main' = r
         /\ UNCHANGED <<settled, excused>> /\ Works
      \/ /\ ~Busy /\ main' = At("poll")
         /\ \/ /\ Publish(main.text, "failed") /\ Works
               /\ settled' = settled \cup ({main.text} \cap Commands) /\ UNCHANGED excused
            \/ /\ main.text \in Commands /\ Fault
               /\ excused' = excused \cup {main.text} /\ UNCHANGED <<heard, settled>>
  BY DEF RunOtaPrecheck
<1> HIDE DEF r
<1>3. (Passes \/ Refuses \/ Skips) /\ (Fault \/ Works)
  BY <1>1, <1>2, PollsAt DEF Passes, Refuses, Skips
<1>4. QED
  BY <1>3 DEF RunOtaPrecheck

LEMMA PrecheckTyped ==
  ASSUME MInv, RunOtaPrecheck
  PROVE  MInv'
<1>1. /\ main' \in MainType /\ main'.pc \in {"start", "poll"} /\ (main'.pc = "start" => main'.text \in Commands)
      /\ settled' \subseteq Commands /\ excused' \subseteq Commands
  BY PrecheckGoes DEF Passes, Refuses, Skips, Polls, MInv, Typed
<1>2. heard' \in Seq(Texts \X Statuses)
  <2>1. main.text \in Texts
    BY DEF MInv, Typed
  <2>2. \/ heard' = heard \/ Publish(main.text, "accepted") \/ Publish(main.text, "failed")
    BY PrecheckGoes DEF Passes, Refuses, Skips
  <2>3. "accepted" \in Statuses /\ "failed" \in Statuses
    BY DEF Statuses
  <2>4. QED
    BY <2>1, <2>2, <2>3, PublishTyped DEF MInv, Holders
<1>3. faults' \in 0 .. MaxFaults
  BY PrecheckGoes, CountsFaults DEF MInv
<1>4. UNCHANGED <<auto, open, changes, sent, session, cache, clientVars, buffer, found, cb, child, lock, kept>>
  BY PrecheckGoes
<1>5. QED
  BY <1>1, <1>2, <1>3, <1>4, LoopTyped DEF MInv, Typed, Holders, ChildType, buffer

\* A child that starts with the text of the main loop.
Starts == /\ child' \in ChildType /\ child'.cmd = main.text /\ child'.pc = "start" /\ child'.out = <<>>
          /\ UNCHANGED excused

LEMMA StartGoes ==
  ASSUME MInv, StartOtaChild
  PROVE  /\ main.pc = "start" /\ main.text \in Commands /\ Polls /\ (Fault \/ Works)
         /\ Starts \/ (child' = child /\ excused' = excused \cup {main.text})
         /\ UNCHANGED <<auto, open, changes, sent, session, cache, clientVars, buffer, found, cb, lock, heard, kept,
                        settled>>
<1> DEFINE r == [cmd |-> main.text, pc |-> "start", out |-> <<>>]
<1>1. main.pc = "start" /\ main.text \in Commands
  BY DEF StartOtaChild, MInv, Holders
<1>2. r \in ChildType /\ r.cmd = main.text /\ r.pc = "start" /\ r.out = <<>>
  <2>1. <<>> \in Seq({"completed", "failed"})
    BY EmptySeq
  <2>2. QED
    BY <1>1, <2>1 DEF ChildType
<1>3. \/ child' = r /\ UNCHANGED excused /\ Works
      \/ excused' = excused \cup {main.text} /\ UNCHANGED child /\ Fault
  BY DEF StartOtaChild
<1> HIDE DEF r
<1>4. /\ Starts \/ (child' = child /\ excused' = excused \cup {main.text})
      /\ Fault \/ Works
  BY <1>2, <1>3 DEF Starts
<1>5. Polls
  BY PollsAt DEF StartOtaChild
<1>6. QED
  BY <1>1, <1>4, <1>5 DEF StartOtaChild

LEMMA StartTyped ==
  ASSUME MInv, StartOtaChild
  PROVE  MInv'
<1>1. /\ main' \in MainType /\ main'.pc = "poll" /\ excused' \subseteq Commands
      /\ faults' \in 0 .. MaxFaults
  BY StartGoes, CountsFaults DEF Polls, Starts, MInv, Typed
<1>2. /\ child' \in ChildType /\ (child'.pc = "none" <=> child'.cmd = NoText)
      /\ child'.pc # "ended" => child'.out = <<>>
  BY StartGoes, Numbers DEF Starts, MInv, Typed, Holders, ChildType
<1>3. UNCHANGED <<auto, open, changes, sent, session, cache, clientVars, buffer, found, cb, lock, heard, kept,
                  settled>>
  BY StartGoes
<1>4. QED
  BY <1>1, <1>2, <1>3, LoopTyped DEF MInv, Typed, Holders, buffer

\* A line of the child, or the end of its output.
Forwards == /\ child.out # <<>> /\ child.pc = "ended" /\ Head(child.out) \in {"completed", "failed"}
            /\ Publish(child.cmd, Head(child.out)) /\ child' \in ChildType /\ child'.cmd = child.cmd
            /\ child'.pc = "ended" /\ child'.out = Tail(child.out) /\ UNCHANGED <<main, settled>>
Reaps    == /\ child.out = <<>> /\ UNCHANGED heard
            /\ main' \in MainType /\ main'.pc \in {"ensure", "yield"} /\ main'.text = NoText
            /\ \/ child.pc = "ended" /\ child' = NoChild /\ settled' = settled \cup {child.cmd}
               \/ UNCHANGED <<child, settled>>

LEMMA PollGoes ==
  ASSUME MInv, PollOtaOutput
  PROVE  /\ main.pc = "poll" /\ (Forwards \/ Reaps)
         /\ UNCHANGED <<auto, world, session, cache, clientVars, buffer, found, cb, lock, kept, excused>>
<1>1. child \in ChildType
  BY DEF MInv, Typed, ChildType
<1>2. CASE child.out # <<>>
  <2> DEFINE r == [child EXCEPT !.out = Tail(child.out)]
  <2>1. child.pc = "ended" /\ Publish(child.cmd, Head(child.out)) /\ child' = r /\ UNCHANGED <<main, settled>>
    BY <1>2 DEF PollOtaOutput, MInv, Holders
  <2>2. Head(child.out) \in {"completed", "failed"} /\ Tail(child.out) \in Seq({"completed", "failed"})
    BY <1>1, <1>2, HeadTailProperties DEF ChildType
  <2>3. r \in ChildType /\ r.cmd = child.cmd /\ r.pc = child.pc /\ r.out = Tail(child.out)
    BY <1>1, <2>2 DEF ChildType
  <2> HIDE DEF r
  <2>4. Forwards
    BY <1>2, <2>1, <2>2, <2>3 DEF Forwards
  <2>5. QED
    BY <2>4 DEF PollOtaOutput
<1>3. CASE child.out = <<>>
  <2>1. main' = At("ensure") \/ main' = At("yield")
    BY <1>3 DEF PollOtaOutput
  <2>2. main' \in MainType /\ main'.pc \in {"ensure", "yield"} /\ main'.text = NoText
    BY <2>1, AtTyped DEF MainPcs
  <2>3. Reaps
    BY <1>3, <2>2 DEF Reaps, PollOtaOutput
  <2>4. QED
    BY <2>3 DEF PollOtaOutput
<1>4. QED
  BY <1>2, <1>3

LEMMA PollTyped ==
  ASSUME MInv, PollOtaOutput
  PROVE  MInv'
<1>1. main \in MainType /\ child \in ChildType
  BY DEF MInv, Typed, MainType, ChildType
<1>2. main' \in MainType /\ main'.pc \in {"poll", "ensure", "yield"}
  BY <1>1, PollGoes DEF Forwards, Reaps
<1>3. /\ child' \in ChildType /\ (child'.pc = "none" <=> child'.cmd = NoText)
      /\ child'.pc # "ended" => child'.out = <<>>
  BY <1>1, PollGoes, RestTyped DEF Forwards, Reaps, MInv, Holders
<1>4. settled' \subseteq Commands
  <2>1. child.pc = "ended" => child.cmd \in Commands
    BY <1>1 DEF MInv, Holders, ChildType
  <2>2. QED
    BY <2>1, PollGoes DEF Forwards, Reaps, MInv, Typed
<1>5. heard' \in Seq(Texts \X Statuses)
  <2>1. child.cmd \in Texts /\ {"completed", "failed"} \subseteq Statuses
    BY <1>1 DEF ChildType, Texts, Statuses
  <2>2. heard' = heard \/ (Head(child.out) \in Statuses /\ Publish(child.cmd, Head(child.out)))
    BY <2>1, PollGoes DEF Forwards, Reaps
  <2>3. QED
    BY <2>1, <2>2, PublishTyped DEF MInv, Holders
<1>6. UNCHANGED <<auto, world, session, cache, clientVars, buffer, found, cb, lock, kept, excused>>
  BY PollGoes
<1>7. QED
  BY <1>2, <1>3, <1>4, <1>5, <1>6, LoopTyped DEF MInv, Typed, buffer, world

\* The child goes on; at its end it has said one line at most.
ChildSteps == ChildStart \/ ChildEnds \/ ChildKilled \/ ChildGone

LEMMA ChildGoes ==
  ASSUME MInv, ChildSteps
  PROVE  /\ child.pc \in {"start", "runs", "killed"} /\ child.out = <<>>
         /\ child' \in ChildType /\ child'.cmd = child.cmd /\ child'.pc \in {"runs", "killed", "ended"}
         /\ Len(child'.out) <= 1 /\ (child'.pc # "ended" => child'.out = <<>>)
         /\ Fault \/ Works
         /\ UNCHANGED <<auto, open, changes, sent, session, cache, clientVars, buffer, found, cb, main, lock,
                        history>>
<1>1. child \in ChildType /\ child.pc \in {"start", "runs", "killed"} /\ child.out = <<>>
  BY DEF ChildSteps, ChildStart, ChildEnds, ChildKilled, ChildGone, MInv, Typed, Holders, ChildType
<1>2. /\ Fault \/ Works
      /\ UNCHANGED <<auto, open, changes, sent, session, cache, clientVars, buffer, found, cb, main, lock, history>>
  BY DEF ChildSteps, ChildStart, ChildEnds, ChildKilled, ChildGone, world, Works
<1>3. ASSUME NEW line \in {"completed", "failed"}, Says("ended", line)
      PROVE  /\ child' \in ChildType /\ child'.cmd = child.cmd /\ child'.pc = "ended" /\ Len(child'.out) = 1
  <2> DEFINE out == Append(child.out, line)
             r   == [child EXCEPT !.pc = "ended", !.out = out]
  <2>1. out \in Seq({"completed", "failed"}) /\ Len(out) = 1
    BY <1>1
  <2>2. child' = r
    BY <1>3 DEF Says
  <2> HIDE DEF out
  <2>3. r \in ChildType /\ r.cmd = child.cmd /\ r.pc = "ended" /\ r.out = out
    BY <1>1, <2>1 DEF ChildType
  <2>4. QED
    BY <2>1, <2>2, <2>3
<1>4. ASSUME NEW pc \in {"runs", "killed", "ended"}, child' = [child EXCEPT !.pc = pc]
      PROVE  child' \in ChildType /\ child'.cmd = child.cmd /\ child'.pc = pc /\ child'.out = <<>>
  BY <1>1, <1>4 DEF ChildType
<1>5. \/ Says("ended", "failed") \/ Says("ended", "completed")
      \/ child' = [child EXCEPT !.pc = "runs"] \/ child' = [child EXCEPT !.pc = "killed"]
      \/ child' = [child EXCEPT !.pc = "ended"]
  BY DEF ChildSteps, ChildStart, ChildEnds, ChildKilled, ChildGone
<1>6. Len(<<>>) = 0
  BY EmptySeq
<1>7. /\ child' \in ChildType /\ child'.cmd = child.cmd /\ child'.pc \in {"runs", "killed", "ended"}
      /\ Len(child'.out) <= 1 /\ (child'.pc # "ended" => child'.out = <<>>)
  <2>1. CASE Says("ended", "failed") \/ Says("ended", "completed")
    <3>1. /\ child' \in ChildType /\ child'.cmd = child.cmd /\ child'.pc = "ended" /\ Len(child'.out) = 1
      BY <1>3, <2>1
    <3>2. QED
      BY <3>1
  <2>2. CASE \E pc \in {"runs", "killed", "ended"} : child' = [child EXCEPT !.pc = pc]
    <3>1. PICK pc \in {"runs", "killed", "ended"} : child' = [child EXCEPT !.pc = pc]
      BY <2>2
    <3>2. child' \in ChildType /\ child'.cmd = child.cmd /\ child'.pc = pc /\ child'.out = <<>>
      BY <1>4, <3>1
    <3>3. QED
      BY <1>6, <3>2
  <2>3. QED
    BY <1>5, <2>1, <2>2
<1>8. QED
  BY <1>1, <1>2, <1>7

LEMMA ChildTyped ==
  ASSUME MInv, ChildSteps
  PROVE  MInv'
<1>1. /\ child' \in ChildType /\ (child'.pc = "none" <=> child'.cmd = NoText)
      /\ child'.pc # "ended" => child'.out = <<>>
      /\ faults' \in 0 .. MaxFaults
  BY ChildGoes, CountsFaults DEF MInv, Holders
<1>2. UNCHANGED <<auto, open, changes, sent, session, cache, clientVars, buffer, found, cb, main, lock, history>>
  BY ChildGoes
<1>3. QED
  BY <1>1, <1>2, LoopTyped DEF MInv, Typed, Holders, MainType, buffer, history

\* What the world does: of what the threads hold, a restart alone takes everything.
Quiets == Tick \/ OtherAgentEnds \/ LoseSession \/ \E h \in Range(Hosts) : HostChange(h)
Fresh0 == /\ wire' = <<>> /\ pending' = NoText /\ hasPending' = FALSE /\ cb' = CbIdle /\ main' = At("ensure")
          /\ child' = NoChild

LEMMA WorldGoes ==
  ASSUME MInv, World
  PROVE  \/ Send
         \/ /\ Quiets /\ UNCHANGED <<cb, main, child, pending, hasPending, sent, history>>
            /\ wire' = wire \/ wire' = <<>>
         \/ Restart /\ Fresh0 /\ UNCHANGED <<sent, heard>>
BY DEF World, Quiets, LoseSession, OtherAgentEnds, Tick, HostChange, SessionEnds, Restart, Fresh0, session, world,
       buffer, history

LEMMA WorldTyped ==
  ASSUME MInv, World
  PROVE  MInv'
<1> USE DEF MInv
<1>1. <<>> \in Seq(Commands)
  BY EmptySeq
<1>2. CASE Send
  <2>1. sent' \in 1 .. MaxCommands
    BY <1>2, Numbers DEF Send, Typed
  <2>2. wire' \in Seq(Commands)
    <3>1. wire' = Append(wire, sent') \/ wire' = wire
      BY <1>2 DEF Send
    <3>2. wire \in Seq(Commands) /\ sent' \in Commands
      BY <2>1 DEF Typed, Commands
    <3>3. QED
      BY <3>1, <3>2
  <2>3. UNCHANGED <<auto, open, changes, faults, sess, listens, lost, cache, clientVars, buffer, found, cb, main,
                    child, lock, history>>
    BY <1>2 DEF Send
  <2>4. Typed'
    BY <2>1, <2>2, <2>3 DEF Typed, clientVars, buffer, history
  <2>5. Holders'
    BY <2>3 DEF Holders, history
  <2>6. QED
    BY <2>4, <2>5
<1>3. CASE Quiets
  <2>1. UNCHANGED <<auto, cache, uri, client, connected, topic, cb, main, child, pending, hasPending, sent,
                    heard, kept, settled, excused>>
    BY <1>3 DEF Quiets, LoseSession, OtherAgentEnds, Tick, HostChange, clientVars, world, history, buffer
  <2>2. wire' \in Seq(Commands)
    <3>1. wire' = wire \/ wire' = <<>>
      BY <1>3 DEF Quiets, LoseSession, OtherAgentEnds, Tick, HostChange, SessionEnds, session
    <3>2. QED
      BY <1>1, <3>1 DEF Typed
  <2>3. {sess, listens, lost}' \subseteq BOOLEAN
    BY <1>3 DEF Quiets, LoseSession, OtherAgentEnds, Tick, HostChange, SessionEnds, session, Typed
  <2>4. open' \subseteq Range(Hosts) /\ changes' \in 0 .. MaxChanges
    BY <1>3, Numbers DEF Quiets, LoseSession, OtherAgentEnds, Tick, HostChange, world, Typed
  <2>5. faults' \in 0 .. MaxFaults
    BY <1>3, CountsFaults DEF Quiets, LoseSession, OtherAgentEnds, Tick, HostChange, world, Works, Typed
  <2>6. lock' \in {"none", "local", "orphan"} /\ found' \in {"never", "recent", "old"}
    BY <1>3 DEF Quiets, LoseSession, OtherAgentEnds, Tick, HostChange, Typed
  <2>7. Typed'
    BY <2>1, <2>2, <2>3, <2>4, <2>5, <2>6 DEF Typed
  <2>8. Holders'
    BY <2>1 DEF Holders
  <2>9. QED
    BY <2>7, <2>8
<1>4. CASE Restart
  <2>1. Fresh0 /\ UNCHANGED <<sent, heard, auto, open, changes, cache, kept, settled>>
    BY <1>4 DEF Restart, Fresh0
  <2>2. /\ cb' \in CbType /\ cb'.pc = "idle" /\ main' \in MainType /\ main'.pc = "ensure"
        /\ child' \in ChildType /\ child'.pc = "none" /\ child'.cmd = NoText /\ child'.out = <<>>
    BY <2>1, RestTyped, AtTyped DEF Fresh0, MainPcs
  <2>3. excused' \subseteq Commands
    <3>1. {cb.msg} \ {NoText} \subseteq Commands
      BY DEF Typed
    <3>2. QED
      BY <1>4, <3>1 DEF Restart, Typed
  <2>4. faults' \in 0 .. MaxFaults
    BY <1>4, CountsFaults DEF Restart
  <2>5. {sess, listens, lost, client, connected, topic, hasPending}' \subseteq BOOLEAN
    BY <1>4 DEF Restart
  <2>6. wire' \in Seq(Commands) /\ uri' = NoHost /\ pending' \in Texts /\ found' = "never"
    BY <1>1, <1>4 DEF Restart, Texts
  <2>7. lock' \in {"none", "local", "orphan"}
    BY <1>4 DEF Restart, Typed
  <2>8. Typed'
    BY <2>1, <2>2, <2>3, <2>4, <2>5, <2>6, <2>7 DEF Typed, CbType, MainType, ChildType
  <2>9. Holders'
    BY <2>1, <2>2 DEF Holders
  <2>10. QED
    BY <2>8, <2>9
<1>5. QED
  BY <1>2, <1>3, <1>4 DEF World, Quiets

LEMMA StepMInv ==
  ASSUME MInv, [Next]_vars
  PROVE  MInv'
<1>1. CASE UNCHANGED vars
  BY <1>1 DEF vars, world, session, clientVars, buffer, history, MInv, Typed, Holders
<1>2. CASE MainLoop
  BY <1>2, DialsTyped, ClearTyped, PopTyped, PrecheckTyped, StartTyped, PollTyped DEF MainLoop, Dials
<1>3. CASE Child
  BY <1>3, ChildTyped DEF Child, ChildSteps
<1>4. QED
  BY <1>1, <1>2, <1>3, CallbackTyped, WorldTyped DEF Next, Threads

LEMMA InitMInv == Init => MInv
<1> SUFFICES ASSUME Init PROVE MInv
  OBVIOUS
<1>1. cb \in CbType /\ main \in MainType /\ child \in ChildType /\ main.pc = "ensure"
  BY RestTyped, AtTyped DEF Init, MainPcs
<1>2. wire \in Seq(Commands) /\ heard \in Seq(Texts \X Statuses)
  BY EmptySeq DEF Init
<1>3. {sess, listens, lost, client, connected, topic, hasPending} \subseteq BOOLEAN
  BY DEF Init
<1>4. sent \in 0 .. MaxCommands /\ changes \in 0 .. MaxChanges /\ faults \in 0 .. MaxFaults
  BY Numbers DEF Init
<1>5. Typed
  BY <1>1, <1>2, <1>3, <1>4 DEF Init, Typed, CbType, MainType, ChildType, Texts
<1>6. Holders
  BY <1>1, <1>2, RestTyped DEF Init, Holders
<1>7. QED
  BY <1>5, <1>6 DEF MInv

LEMMA MInvAlways == Spec => []MInv
BY InitMInv, StepMInv, PTL DEF Spec

\* MqttAgent!TypeOK: every variable keeps its type.
THEOREM MqttTyped == Spec => []TypeOK
<1>1. ASSUME MInv
      PROVE  TypeOK
  <2> DEFINE C == {NoChild} \cup [cmd : Commands, pc : {"start", "runs", "killed", "ended"},
                                 out : Seq({"completed", "failed"})]
  <2>1. child \in ChildType /\ (child.pc = "none" <=> child.cmd = NoText)
        /\ (child.pc # "ended" => child.out = <<>>)
    BY <1>1 DEF MInv, Typed, Holders, ChildType
  <2>2. CASE child.pc = "none"
    <3>1. child = NoChild
      BY <2>1, <2>2 DEF ChildType, NoChild
    <3>2. child \in C
      BY <3>1
    <3>3. QED
      BY <1>1, <3>2 DEF MInv, Typed, TypeOK, CbType, MainType
  <2>3. CASE child.pc # "none"
    <3>1. child \in C
      BY <2>1, <2>3 DEF ChildType
    <3>2. QED
      BY <1>1, <3>1 DEF MInv, Typed, TypeOK, CbType, MainType
  <2>4. QED
    BY <2>2, <2>3
<1>2. QED
  BY <1>1, MInvAlways, PTL

-----------------------------------------------------------------------------
(* The way of a command through the agent *)

\* Commands that came later have higher numbers. What is still to come is higher than all
\* the operator has heard of, and than what runs or is being started.
Spoken(c) == \A i \in 1 .. Len(heard) : heard[i][1] < c
Ahead(c)  == \A i \in 1 .. Len(wire) : c < wire[i]
Later(c)  == Spoken(c) /\ child.cmd < c /\ main.text < c

\* What is stored is whole, and not written over while the flag is set.
Buffered ==
  /\ hasPending => cb.pc = "idle"
  /\ pending = Torn => cb.pc = "rest"

\* Only what was sent is heard of.
AllSent ==
  /\ cb.msg \in 0 .. sent /\ pending \in (0 .. sent) \cup {Torn} /\ main.text \in 0 .. sent
  /\ child.cmd \in 0 .. sent
  /\ \A i \in 1 .. Len(wire) : wire[i] \in 1 .. sent
  /\ \A i \in 1 .. Len(heard) : heard[i][1] \in 0 .. sent

\* The wire, the callback and the buffer hold later and later commands; a text that was
\* popped stays in the buffer until it is cleared.
InOrder ==
  /\ \A i, j \in 1 .. Len(wire) : i < j => wire[i] < wire[j]
  /\ \A i \in 1 .. Len(wire) : Later(wire[i])
  /\ cb.pc # "idle" => Later(cb.msg) /\ Ahead(cb.msg)
  /\ pending \in Commands =>
       /\ Ahead(pending)
       /\ Later(pending) \/ (pending = main.text /\ main.pc = "clear" /\ "text" \notin main.done)

\* Of a command the last word is "accepted" until it fails its check or its child has spoken.
LastWord(c) == \A i \in 1 .. Len(heard) : /\ heard[i][1] <= c
                                          /\ heard[i][1] = c => heard[i][2] = "accepted"
Popped ==
  main.text # NoText =>
    /\ main.pc \in {"precheck", "start"} \/ (main.pc = "clear" /\ main.next = "precheck")
    /\ child.pc = "none"
    /\ IF main.pc = "start" THEN LastWord(main.text) ELSE Spoken(main.text)
Running ==
  child.pc # "none" =>
    /\ \A i \in 1 .. Len(heard) : heard[i][1] <= child.cmd
    /\ child.pc # "ended" \/ child.out # <<>> => LastWord(child.cmd)
    /\ Len(child.out) <= 1

\* The statuses, without the blank ones.
Ordered ==
  \A i, j \in 1 .. Len(heard) : i < j /\ heard[i][1] # NoText /\ heard[j][1] # NoText =>
    /\ heard[i][1] <= heard[j][1]
    /\ heard[i][1] = heard[j][1] => heard[i][2] = "accepted" /\ heard[j][2] # "accepted"

OInv == Buffered /\ AllSent /\ InOrder /\ Popped /\ Running /\ Ordered

LEMMA Lengths ==
  ASSUME MInv
  PROVE  /\ Len(wire) \in Nat /\ Len(heard) \in Nat /\ sent \in Nat /\ sent <= MaxCommands
         /\ \A i \in 1 .. Len(wire) : wire[i] \in Commands
         /\ \A i \in 1 .. Len(heard) : heard[i][1] \in Nat /\ heard[i][2] \in Statuses
         /\ child.cmd \in Nat /\ main.text \in Nat /\ pending \in Nat /\ cb.msg \in Nat
         /\ MaxCommands \in Nat
<1>1. wire \in Seq(Commands) /\ heard \in Seq(Texts \X Statuses) /\ sent \in 0 .. MaxCommands
  BY DEF MInv, Typed, Holders
<1>2. Texts \subseteq Nat /\ MaxCommands \in Nat
  BY Numbers DEF Texts, Commands, Torn, NoText
<1>3. \A i \in 1 .. Len(heard) : heard[i] \in Texts \X Statuses
  BY <1>1, ElementOfSeq
<1>4. \A i \in 1 .. Len(wire) : wire[i] \in Commands
  BY <1>1, ElementOfSeq
<1>5. Len(wire) \in Nat /\ Len(heard) \in Nat
  BY <1>1, LenProperties
<1>6. child.cmd \in Nat /\ main.text \in Nat /\ pending \in Nat /\ cb.msg \in Nat
  BY <1>2 DEF MInv, Typed, Texts
<1>7. \A i \in 1 .. Len(heard) : heard[i][1] \in Nat /\ heard[i][2] \in Statuses
  BY <1>2, <1>3
<1>8. QED
  BY <1>1, <1>2, <1>4, <1>5, <1>6, <1>7

\* A status that is published is the last one.
Adds(c, phase) == /\ Len(heard') = Len(heard) + 1
                  /\ \A i \in 1 .. Len(heard) : heard'[i] = heard[i]
                  /\ heard'[Len(heard) + 1][1] = c /\ heard'[Len(heard) + 1][2] = phase

LEMMA PublishesLast ==
  ASSUME MInv, NEW c \in Texts, NEW phase \in Statuses, Publish(c, phase)
  PROVE  heard' = heard \/ Adds(c, phase)
<1>1. heard \in Seq(Texts \X Statuses) /\ <<c, phase>> \in Texts \X Statuses
  BY DEF MInv, Holders
<1>2. CASE heard' = Append(heard, <<c, phase>>)
  <2>1. heard'[Len(heard) + 1] = <<c, phase>> /\ \A i \in 1 .. Len(heard) : heard'[i] = heard[i]
    BY <1>1, <1>2
  <2>2. Len(heard') = Len(heard) + 1
    BY <1>1, <1>2
  <2>3. QED
    BY <2>1, <2>2 DEF Adds
<1>3. QED
  BY <1>2 DEF Publish

\* A step between the commands: the wire may be cut.
LEMMA NothingTaken ==
  ASSUME MInv, OInv, UNCHANGED <<cb, child, pending, hasPending, sent, heard>>,
         wire' = wire \/ wire' = <<>>,
         main' = main \/ (main.text = NoText /\ main'.text = NoText)
  PROVE  OInv'
<1>1. Buffered' /\ Running' /\ Ordered'
  BY DEF OInv, Buffered, Running, Ordered, LastWord
<1>2. Len(<<>>) = 0
  BY EmptySeq
<1>3. Popped'
  BY DEF OInv, Popped, LastWord, Spoken
<1>4. main'.text = main.text
  OBVIOUS
<1>5. AllSent'
  BY <1>2, <1>4 DEF OInv, AllSent
<1>6. pending \in Commands => main.text # NoText \/ Later(pending)
  BY Numbers DEF OInv, InOrder
<1>7. InOrder'
  <2>1. CASE main' = main
    BY <1>2, <2>1 DEF OInv, InOrder, Later, Ahead, Spoken
  <2>2. CASE main.text = NoText /\ main'.text = NoText
    <3>1. /\ cb.pc # "idle" => Later(cb.msg)' /\ Ahead(cb.msg)'
          /\ pending \in Commands => Later(pending)' /\ Ahead(pending)'
      BY <1>2, <1>4, <1>6, <2>2 DEF OInv, InOrder, Later, Ahead, Spoken
    <3>2. /\ \A i, j \in 1 .. Len(wire') : i < j => wire'[i] < wire'[j]
          /\ \A i \in 1 .. Len(wire') : Later(wire[i])'
      BY <1>2, <1>4, <2>2 DEF OInv, InOrder, Later, Spoken
    <3>3. QED
      BY <3>1, <3>2 DEF InOrder
  <2>3. QED
    BY <2>1, <2>2
<1>8. QED
  BY <1>1, <1>3, <1>5, <1>7 DEF OInv

LEMMA DialsInOrder ==
  ASSUME MInv, OInv, Dials
  PROVE  OInv'
<1>1. main.text = NoText /\ main'.text = NoText
  BY DialsGo DEF OInv, Popped
<1>2. QED
  BY <1>1, DialsGo, NothingTaken DEF buffer, history

\* The callback: what it takes is the first of the wire.
LEMMA MessageArrivedInOrder ==
  ASSUME MInv, OInv, MessageArrived
  PROVE  OInv'
<1> DEFINE n == Len(wire)
<1>1. /\ cb.pc = "idle" /\ UNCHANGED <<pending, hasPending, main, child, heard, sent>>
      /\ n \in Nat /\ n > 0 /\ Len(wire') = n - 1 /\ \A i \in 1 .. n - 1 : wire'[i] = wire[i + 1]
  BY TookTyped DEF MessageArrived, buffer, history, world
<1>2. \/ hasPending /\ cb'.pc = "idle" /\ cb'.msg = NoText
      \/ ~hasPending /\ cb'.pc = "copy" /\ cb'.msg = wire[1]
  <2>1. wire # <<>> /\ CbIdle.pc = "idle" /\ CbIdle.msg = NoText
    BY DEF MessageArrived, CbIdle
  <2>2. QED
    BY <2>1, TookTyped DEF MessageArrived
<1> HIDE DEF n
<1>3. Buffered'
  BY <1>1, <1>2 DEF OInv, Buffered
<1>4. AllSent'
  <2>1. \A i \in 1 .. n : wire[i] \in 1 .. sent
    BY DEF n, OInv, AllSent
  <2>2. cb'.msg \in 0 .. sent
    <3>1. wire[1] \in 1 .. sent
      BY <1>1, <2>1
    <3>2. cb'.msg = wire[1] \/ cb'.msg = 0
      BY <1>2 DEF NoText
    <3>3. QED
      BY <3>1, <3>2, Lengths
  <2>3. \A i \in 1 .. Len(wire') : wire'[i] \in 1 .. sent
    BY <1>1, <2>1
  <2>4. QED
    BY <1>1, <2>2, <2>3 DEF OInv, AllSent
<1>5. InOrder'
  <2>1. /\ \A i, j \in 1 .. n : i < j => wire[i] < wire[j]
        /\ \A i \in 1 .. n : Later(wire[i])
        /\ \A c : Ahead(c) <=> \A i \in 1 .. n : c < wire[i]
    BY DEF n, OInv, InOrder, Ahead
  <2>2. \A c : (Later(c))' <=> Later(c)
    BY <1>1 DEF Later, Spoken
  <2>3. ASSUME NEW c \in Nat, Ahead(c)
        PROVE  Ahead(c)'
    <3>1. \A i \in 1 .. n - 1 : i + 1 \in 1 .. n
      BY <1>1
    <3>2. \A i \in 1 .. n - 1 : c < wire'[i]
      BY <1>1, <2>1, <2>3, <3>1
    <3>3. QED
      BY <1>1, <3>2 DEF Ahead
  <2>4. cb'.pc # "idle" => Later(cb.msg)' /\ Ahead(cb.msg)'
    <3>1. cb'.pc # "idle" => cb'.msg = wire[1] /\ Later(wire[1])
      BY <1>1, <1>2, <2>1
    <3>2. \A i \in 1 .. n - 1 : wire[1] < wire'[i]
      BY <1>1, <2>1
    <3>3. QED
      BY <1>1, <2>2, <3>1, <3>2 DEF Ahead
  <2>5. \A i \in 1 .. Len(wire') : Later(wire[i])'
    BY <1>1, <2>1, <2>2
  <2>6. \A i, j \in 1 .. Len(wire') : i < j => wire'[i] < wire'[j]
    BY <1>1, <2>1
  <2>7. pending \in Commands => Ahead(pending)' /\ (Later(pending)' \/ (pending = main.text /\ main.pc = "clear"
                                                                        /\ "text" \notin main.done))
    BY <1>1, <2>2, <2>3, Numbers DEF OInv, InOrder
  <2>8. QED
    BY <1>1, <2>4, <2>5, <2>6, <2>7 DEF InOrder
<1>6. Popped' /\ Running' /\ Ordered'
  BY <1>1 DEF OInv, Popped, Running, Ordered, LastWord, Spoken
<1>7. QED
  BY <1>3, <1>4, <1>5, <1>6 DEF OInv

\* ... and it copies it into the buffer.
LEMMA CopyInOrder ==
  ASSUME MInv, OInv, CopyPayload \/ SetPending
  PROVE  OInv'
<1>1. /\ cb.pc # "idle" /\ ~hasPending
      /\ UNCHANGED <<wire, main, child, heard, sent>>
      /\ cb \in CbType /\ hasPending \in BOOLEAN
  BY DEF CopyPayload, SetPending, MInv, Typed, CbType, OInv, Buffered, session, world, history
<1>2. /\ cb'.pc = "idle" \/ cb'.msg = cb.msg
      /\ cb'.msg = cb.msg \/ cb'.msg = NoText
      /\ \/ pending' = Torn /\ cb'.pc = "rest" /\ hasPending' = hasPending
         \/ pending' = cb.msg /\ cb.pc = "rest" /\ hasPending' = hasPending
         \/ pending' = pending /\ pending # Torn /\ (hasPending' = hasPending \/ cb'.pc = "idle")
  <2>1. CASE SetPending
    BY <2>1 DEF SetPending, CbIdle, OInv, Buffered
  <2>2. CASE CopyPayload
    BY <1>1, <2>2 DEF CopyPayload, CbType
  <2>3. QED
    BY <2>1, <2>2
<1>3. cb.msg \in Commands /\ cb.msg # Torn
  BY <1>1, Numbers DEF MInv, Holders
<1>4. Buffered'
  BY <1>1, <1>2, <1>3 DEF OInv, Buffered
<1>5. AllSent'
  BY <1>1, <1>2, Lengths DEF OInv, AllSent, NoText
<1>6. InOrder'
  <2>1. \A c : /\ (Later(c))' <=> Later(c)
               /\ (Ahead(c))' <=> Ahead(c)
    BY <1>1 DEF Later, Spoken, Ahead
  <2>2. Later(cb.msg) /\ Ahead(cb.msg)
    BY <1>1 DEF OInv, InOrder
  <2>3. cb'.pc # "idle" => Later(cb.msg)' /\ Ahead(cb.msg)'
    BY <1>2, <2>1, <2>2
  <2>4. pending' \in Commands => pending' = cb.msg \/ pending' = pending
    BY <1>2, Numbers
  <2>5. pending' \in Commands => /\ Ahead(pending)'
                                 /\ Later(pending)' \/ (pending' = main'.text /\ main'.pc = "clear"
                                                        /\ "text" \notin main'.done)
    BY <1>1, <2>1, <2>2, <2>4 DEF OInv, InOrder
  <2>6. /\ \A i, j \in 1 .. Len(wire') : i < j => wire'[i] < wire'[j]
        /\ \A i \in 1 .. Len(wire') : Later(wire[i])'
    BY <1>1, <2>1 DEF OInv, InOrder
  <2>7. QED
    BY <2>3, <2>5, <2>6 DEF InOrder
<1>7. Popped' /\ Running' /\ Ordered'
  BY <1>1 DEF OInv, Popped, Running, Ordered, LastWord, Spoken
<1>8. QED
  BY <1>4, <1>5, <1>6, <1>7 DEF OInv

LEMMA ClearInOrder ==
  ASSUME MInv, OInv, ClearMqttPending
  PROVE  OInv'
<1>1. UNCHANGED <<wire, cb, child, heard, sent>> /\ main.pc = "clear" /\ main'.text = main.text
  BY ClearGoes DEF session, world
<1>2. \/ hasPending' = FALSE /\ pending' = pending
      \/ pending' = NoText /\ hasPending' = hasPending
  BY ClearGoes DEF ClearsFlag, ClearsText
<1>3. Buffered'
  BY <1>1, <1>2, Numbers DEF OInv, Buffered
<1>4. AllSent'
  BY <1>1, <1>2, Lengths DEF OInv, AllSent, NoText
<1>5. pending' \in Commands /\ pending = main.text /\ "text" \notin main.done
        => main'.pc = "clear" /\ "text" \notin main'.done
  <2>1. main.done \in SUBSET {"flag", "text"}
    BY DEF MInv, Typed
  <2>2. pending' \in Commands => ~ClearsText
    BY Numbers DEF ClearsText
  <2>3. CASE "flag" \notin main.done /\ "text" \notin main.done
    <3>1. main.done = {}
      BY <2>1, <2>3
    <3>2. QED
      BY <2>2, <3>1, ClearGoes
  <2>4. QED
    BY <2>2, <2>3, ClearGoes
<1>6. InOrder'
  <2>1. \A c : (Later(c))' <=> Later(c)
    BY <1>1 DEF Later, Spoken
  <2>2. \A c : (Ahead(c))' <=> Ahead(c)
    BY <1>1 DEF Ahead
  <2>3. pending' \in Commands => pending' = pending
    BY <1>2, Numbers
  <2>4. pending' \in Commands => /\ Ahead(pending)'
                                 /\ Later(pending)' \/ (pending' = main'.text /\ main'.pc = "clear"
                                                        /\ "text" \notin main'.done)
    BY <1>1, <1>5, <2>1, <2>2, <2>3 DEF OInv, InOrder
  <2>5. /\ \A i, j \in 1 .. Len(wire') : i < j => wire'[i] < wire'[j]
        /\ \A i \in 1 .. Len(wire') : Later(wire[i])'
        /\ cb'.pc # "idle" => Later(cb.msg)' /\ Ahead(cb.msg)'
    BY <1>1, <2>1, <2>2 DEF OInv, InOrder
  <2>6. QED
    BY <2>4, <2>5 DEF InOrder
<1>7. Popped'
  <2>1. main.text # NoText => main.next = "precheck" /\ child.pc = "none" /\ Spoken(main.text)
    BY <1>1 DEF OInv, Popped
  <2>2. main'.next = main.next /\ (main'.pc = "clear" \/ main'.pc = main.next)
    BY ClearGoes
  <2>3. QED
    BY <1>1, <2>1, <2>2 DEF Popped, Spoken
<1>8. Running' /\ Ordered'
  BY <1>1 DEF OInv, Running, Ordered, LastWord
<1>9. QED
  BY <1>3, <1>4, <1>6, <1>7, <1>8 DEF OInv

LEMMA PopInOrder ==
  ASSUME MInv, OInv, OtaMqttPopCommand
  PROVE  OInv'
<1>1. /\ main.pc = "pop" /\ main.text = NoText
      /\ UNCHANGED <<wire, cb, child, heard, sent, pending, hasPending>>
  BY PopGoes DEF OInv, Popped, session, world, buffer, history
<1>2. CASE Polls
  BY <1>1, <1>2, NothingTaken DEF Polls
<1>3. CASE Takes
  <2>1. /\ main'.pc = "clear" /\ main'.text = pending /\ main'.next = "precheck" /\ main'.done = {}
        /\ cb.pc = "idle" /\ pending # Torn /\ child.pc = "none" /\ child.cmd = NoText
    BY <1>3 DEF Takes, OInv, Buffered, Busy, MInv, Holders
  <2>2. pending \in 0 .. sent /\ (pending = NoText \/ pending \in Commands)
    BY <2>1, Lengths DEF OInv, AllSent, NoText, Commands
  <2>3. pending \in Commands => Ahead(pending) /\ Spoken(pending)
    BY <1>1 DEF OInv, InOrder, Later
  <2>4. Buffered' /\ Running' /\ Ordered'
    BY <1>1 DEF OInv, Buffered, Running, Ordered, LastWord
  <2>5. AllSent'
    BY <1>1, <2>1, <2>2 DEF OInv, AllSent
  <2>6. Popped'
    BY <1>1, <2>1, <2>2, <2>3 DEF Popped, Spoken
  <2>7. InOrder'
    <3>1. \A i \in 1 .. Len(wire) : pending < wire[i]
      BY <2>2, <2>3, Lengths DEF Ahead, NoText, Commands
    <3>2. \A i \in 1 .. Len(wire') : Later(wire[i])'
      BY <1>1, <2>1, <3>1 DEF OInv, InOrder, Later, Spoken
    <3>3. QED
      BY <1>1, <2>1, <3>2, <3>1 DEF OInv, InOrder, Ahead
  <2>8. QED
    BY <2>4, <2>5, <2>6, <2>7 DEF OInv
<1>4. QED
  BY <1>2, <1>3, PopGoes

\* A command that goes from the main loop to its child, or a status of either.
LEMMA Upstream ==
  ASSUME MInv, OInv, NEW k, NEW phase, k = main.text \/ k = child.cmd, heard' = heard \/ Adds(k, phase),
         main'.text = main.text \/ main'.text = NoText,
         child'.cmd = child.cmd \/ child'.cmd = main.text \/ child'.cmd = NoText,
         main.pc # "clear" \/ main' = main,
         UNCHANGED <<wire, cb, pending, hasPending, sent>>
  PROVE  Buffered' /\ AllSent' /\ InOrder'
<1>1. Buffered'
  BY DEF OInv, Buffered
<1>2. \A i \in 1 .. Len(heard') : heard'[i][1] \in 0 .. sent
  <2>1. k \in 0 .. sent /\ \A i \in 1 .. Len(heard) : heard[i][1] \in 0 .. sent
    BY DEF OInv, AllSent
  <2>2. QED
    BY <2>1, Lengths DEF Adds
<1>3. AllSent'
  BY <1>2, Lengths DEF OInv, AllSent, NoText
<1>4. ASSUME NEW c \in Nat, Later(c)
      PROVE  Later(c)'
  <2>1. main'.text < c /\ child'.cmd < c
    BY <1>4, Lengths DEF Later, NoText
  <2>2. Spoken(c)'
    <3>1. k < c /\ \A i \in 1 .. Len(heard) : heard[i][1] < c
      BY <1>4 DEF Later, Spoken
    <3>2. QED
      BY <3>1, Lengths DEF Spoken, Adds
  <2>3. QED
    BY <2>1, <2>2 DEF Later
<1>5. \A c : (Ahead(c))' <=> Ahead(c)
  BY DEF Ahead
<1>6. InOrder'
  <2>1. pending \in Commands => /\ Ahead(pending)'
                                /\ Later(pending)' \/ (pending = main'.text /\ main'.pc = "clear"
                                                       /\ "text" \notin main'.done)
    BY <1>4, <1>5, Lengths DEF OInv, InOrder
  <2>2. cb'.pc # "idle" => Later(cb.msg)' /\ Ahead(cb.msg)'
    BY <1>4, <1>5, Lengths DEF OInv, InOrder
  <2>3. \A i \in 1 .. Len(wire') : Later(wire[i])'
    <3>1. \A i \in 1 .. Len(wire) : wire[i] \in Nat /\ Later(wire[i])
      BY Numbers, Lengths DEF OInv, InOrder
    <3>2. QED
      BY <1>4, <3>1
  <2>4. \A i, j \in 1 .. Len(wire') : i < j => wire'[i] < wire'[j]
    BY DEF OInv, InOrder
  <2>5. QED
    BY <2>1, <2>2, <2>3, <2>4 DEF InOrder
<1>7. QED
  BY <1>1, <1>3, <1>6

LEMMA StaysOrdered ==
  ASSUME MInv, OInv, NEW k \in Nat, NEW phase, heard' = heard \/ Adds(k, phase),
         k = NoText \/ Spoken(k) \/ (LastWord(k) /\ phase # "accepted")
  PROVE  Ordered'
<1>1. CASE heard' = heard
  BY <1>1 DEF OInv, Ordered
<1>2. CASE Adds(k, phase)
  <2> SUFFICES ASSUME NEW i \in 1 .. Len(heard) + 1, NEW j \in 1 .. Len(heard) + 1, i < j,
                      heard'[i][1] # NoText, heard'[j][1] # NoText
               PROVE  /\ heard'[i][1] <= heard'[j][1]
                      /\ heard'[i][1] = heard'[j][1] => heard'[i][2] = "accepted" /\ heard'[j][2] # "accepted"
    BY <1>2 DEF Ordered, Adds
  <2>1. i \in 1 .. Len(heard) /\ heard'[i] = heard[i] /\ heard[i][1] \in Nat
    BY <1>2, Lengths DEF Adds
  <2>2. CASE j \in 1 .. Len(heard)
    BY <1>2, <2>1, <2>2 DEF OInv, Ordered, Adds
  <2>3. CASE j = Len(heard) + 1
    <3>1. heard'[j][1] = k /\ heard'[j][2] = phase /\ k # NoText
      BY <1>2, <2>3 DEF Adds
    <3>2. CASE Spoken(k)
      BY <2>1, <3>1, <3>2 DEF Spoken
    <3>3. CASE LastWord(k) /\ phase # "accepted"
      BY <2>1, <3>1, <3>3 DEF LastWord
    <3>4. QED
      BY <3>1, <3>2, <3>3
  <2>4. j \in 1 .. Len(heard) \/ j = Len(heard) + 1
    BY Lengths
  <2>5. QED
    BY <2>2, <2>3, <2>4
<1>3. QED
  BY <1>1, <1>2

LEMMA PrecheckInOrder ==
  ASSUME MInv, OInv, RunOtaPrecheck
  PROVE  OInv'
<1>1. /\ main.pc = "precheck" /\ main.text \in Texts /\ main.text \in Nat
      /\ UNCHANGED <<wire, cb, pending, hasPending, sent, child>>
      /\ main.text # NoText => child.pc = "none" /\ Spoken(main.text)
  BY PrecheckGoes, Lengths DEF MInv, Typed, OInv, Popped, session, buffer
<1>2. "accepted" \in Statuses /\ "failed" \in Statuses
  BY DEF Statuses
<1>3. CASE Passes
  <2>1. /\ main'.pc = "start" /\ main'.text = main.text /\ main.text # NoText
        /\ Publish(main.text, "accepted")
    BY <1>3, Numbers DEF Passes
  <2>2. heard' = heard \/ Adds(main.text, "accepted")
    BY <1>1, <1>2, <2>1, PublishesLast
  <2>3. Buffered' /\ AllSent' /\ InOrder'
    BY <1>1, <2>1, <2>2, Upstream
  <2>4. Ordered'
    BY <1>1, <2>1, <2>2, StaysOrdered
  <2>5. Popped'
    <3>1. \A i \in 1 .. Len(heard') : \/ heard'[i][1] = main.text /\ heard'[i][2] = "accepted"
                                      \/ heard'[i][1] \in Nat /\ heard'[i][1] < main.text
      <4>1. \A i \in 1 .. Len(heard) : heard[i][1] \in Nat /\ heard[i][1] < main.text
        BY <1>1, <2>1, Lengths DEF Spoken
      <4>2. CASE heard' = heard
        BY <4>1, <4>2
      <4>3. CASE Adds(main.text, "accepted")
        <5>1. \A i \in 1 .. Len(heard') : i \in 1 .. Len(heard) \/ i = Len(heard) + 1
          BY <4>3, Lengths DEF Adds
        <5>2. QED
          BY <4>1, <4>3, <5>1 DEF Adds
      <4>4. QED
        BY <2>2, <4>2, <4>3
    <3>2. \A i \in 1 .. Len(heard') : heard'[i][1] <= main.text
      BY <1>1, <3>1
    <3>3. \A i \in 1 .. Len(heard') : heard'[i][1] = main.text => heard'[i][2] = "accepted"
      BY <1>1, <3>1
    <3>4. LastWord(main.text)'
      BY <2>1, <3>2, <3>3 DEF LastWord
    <3>5. QED
      BY <1>1, <2>1, <3>4 DEF Popped
  <2>6. Running'
    BY <1>1, <2>1 DEF Running
  <2>7. QED
    BY <2>3, <2>4, <2>5, <2>6 DEF OInv
<1>4. CASE Refuses
  <2>1. main'.text = NoText /\ Publish(main.text, "failed") /\ child.pc = "none"
    BY <1>4 DEF Refuses, Polls, Busy
  <2>2. heard' = heard \/ Adds(main.text, "failed")
    BY <1>1, <1>2, <2>1, PublishesLast
  <2>3. Buffered' /\ AllSent' /\ InOrder'
    BY <1>1, <2>1, <2>2, Upstream
  <2>4. Ordered'
    BY <1>1, <2>1, <2>2, StaysOrdered
  <2>5. Popped' /\ Running'
    BY <1>1, <2>1 DEF Popped, Running
  <2>6. QED
    BY <2>3, <2>4, <2>5 DEF OInv
<1>5. CASE Skips
  <2>1. main'.text = NoText /\ heard' = heard
    BY <1>5 DEF Skips, Polls
  <2>2. Buffered' /\ AllSent' /\ InOrder'
    BY <1>1, <2>1, Upstream
  <2>3. Popped' /\ Running' /\ Ordered'
    BY <1>1, <2>1 DEF OInv, Popped, Running, Ordered, LastWord
  <2>4. QED
    BY <2>2, <2>3 DEF OInv
<1>6. QED
  BY <1>3, <1>4, <1>5, PrecheckGoes

LEMMA StartInOrder ==
  ASSUME MInv, OInv, StartOtaChild
  PROVE  OInv'
<1>1. /\ main.pc = "start" /\ main.text # NoText /\ main'.text = NoText /\ heard' = heard
      /\ UNCHANGED <<wire, cb, pending, hasPending, sent>>
  BY StartGoes, Numbers DEF Polls, session, buffer
<1>2. LastWord(main.text) /\ child.pc = "none"
  BY <1>1 DEF OInv, Popped
<1>3. Starts \/ child' = child
  BY StartGoes
<1>4. Buffered' /\ AllSent' /\ InOrder'
  BY <1>1, <1>3, Upstream DEF Starts
<1>5. Popped' /\ Ordered'
  BY <1>1 DEF OInv, Popped, Ordered
<1>6. Running'
  <2>1. CASE child' = child
    BY <1>2, <2>1 DEF Running
  <2>2. CASE Starts
    <3>1. child'.cmd = main.text /\ Len(child'.out) = 0
      BY <2>2, EmptySeq DEF Starts
    <3>2. LastWord(child.cmd)' /\ \A i \in 1 .. Len(heard') : heard'[i][1] <= child'.cmd
      BY <1>1, <1>2, <3>1 DEF LastWord
    <3>3. Len(child'.out) <= 1
      BY <3>1
    <3>4. QED
      BY <3>2, <3>3 DEF Running
  <2>3. QED
    BY <1>3, <2>1, <2>2
<1>7. QED
  BY <1>4, <1>5, <1>6 DEF OInv

LEMMA PollInOrder ==
  ASSUME MInv, OInv, PollOtaOutput
  PROVE  OInv'
<1>1. /\ main.pc = "poll" /\ main.text = NoText
      /\ UNCHANGED <<wire, cb, pending, hasPending, sent>>
  BY PollGoes DEF OInv, Popped, session, buffer, world
<1>2. CASE Forwards
  <2> DEFINE ph == Head(child.out)
  <2>1. /\ child.pc = "ended" /\ child'.pc = "ended" /\ child'.cmd = child.cmd /\ main' = main
        /\ child'.out = Tail(child.out) /\ child.out # <<>> /\ ph # "accepted" /\ ph \in Statuses
        /\ Publish(child.cmd, ph)
    BY <1>2 DEF Forwards, Statuses
  <2>2. child.cmd \in Texts /\ child.cmd \in Nat /\ child.out \in Seq({"completed", "failed"})
    BY Lengths DEF MInv, Typed, Texts
  <2>3. LastWord(child.cmd) /\ Len(child.out) <= 1
    BY <2>1 DEF OInv, Running
  <2>4. Len(child'.out) = 0 /\ child'.out = <<>>
    <3> DEFINE T == {"completed", "failed"}
               out == child.out
    <3>1. out \in Seq(T) /\ out # <<>> /\ Len(out) <= 1
      BY <2>1, <2>2, <2>3
    <3> HIDE DEF T, out
    <3>2. Len(out) \in Nat \ {0}
      BY <3>1, EmptySeq
    <3>3. Tail(out) \in Seq(T) /\ Len(Tail(out)) = 0
      <4>1. Tail(out) \in Seq(T) /\ Len(Tail(out)) = Len(out) - 1
        BY <3>1, HeadTailProperties
      <4>2. \A n \in Nat \ {0} : n <= 1 => n = 1
        OBVIOUS
      <4>3. Len(out) = 1
        BY <3>1, <3>2, <4>2
      <4>4. QED
        BY <4>1, <4>3
    <3>4. Tail(out) = <<>>
      BY <3>3, EmptySeq
    <3>5. QED
      BY <2>1, <3>3, <3>4 DEF out
  <2> HIDE DEF ph
  <2>5. heard' = heard \/ Adds(child.cmd, ph)
    BY <2>1, <2>2, PublishesLast
  <2>6. Buffered' /\ AllSent' /\ InOrder'
    BY <1>1, <2>1, <2>5, Upstream
  <2>7. Ordered'
    BY <2>1, <2>2, <2>3, <2>5, StaysOrdered
  <2>8. Popped'
    BY <1>1, <2>1 DEF Popped
  <2>9. Running'
    <3>1. \A i \in 1 .. Len(heard') : heard'[i][1] <= child.cmd
      <4>1. CASE heard' = heard
        BY <2>3, <4>1 DEF LastWord
      <4>2. CASE Adds(child.cmd, ph)
        <5>1. \A i \in 1 .. Len(heard') : i \in 1 .. Len(heard) \/ i = Len(heard) + 1
          BY <4>2, Lengths DEF Adds
        <5>2. QED
          BY <2>2, <2>3, <4>2, <5>1 DEF Adds, LastWord
      <4>3. QED
        BY <2>5, <4>1, <4>2
    <3>2. Len(child'.out) <= 1
      BY <2>4
    <3>3. QED
      BY <2>1, <2>4, <3>1, <3>2 DEF Running
  <2>10. QED
    BY <2>6, <2>7, <2>8, <2>9 DEF OInv
<1>3. CASE Reaps
  <2>1. heard' = heard /\ main'.text = NoText /\ (child' = NoChild \/ child' = child)
    BY <1>3 DEF Reaps
  <2>2. Buffered' /\ AllSent' /\ InOrder'
    BY <1>1, <2>1, Upstream, RestTyped
  <2>3. Popped' /\ Running' /\ Ordered'
    BY <1>1, <2>1, RestTyped DEF OInv, Popped, Running, Ordered, LastWord
  <2>4. QED
    BY <2>2, <2>3 DEF OInv
<1>4. QED
  BY <1>2, <1>3, PollGoes

LEMMA ChildInOrder ==
  ASSUME MInv, OInv, ChildSteps
  PROVE  OInv'
<1>1. /\ child.pc # "none" /\ child.pc # "ended" /\ child'.cmd = child.cmd /\ child'.pc # "none" /\ Len(child'.out) <= 1
      /\ UNCHANGED <<wire, cb, pending, hasPending, sent, heard, main>>
  BY ChildGoes DEF session, buffer, history
<1>2. LastWord(child.cmd) /\ main.text = NoText
  BY <1>1 DEF OInv, Running, Popped
<1>3. Buffered' /\ AllSent' /\ InOrder'
  BY <1>1, Upstream
<1>4. Popped' /\ Running' /\ Ordered'
  BY <1>1, <1>2 DEF OInv, Popped, Running, Ordered, LastWord
<1>5. QED
  BY <1>3, <1>4 DEF OInv

\* A command that is sent is the latest.
LEMMA SendInOrder ==
  ASSUME MInv, OInv, Send
  PROVE  OInv'
<1>1. /\ sent' = sent + 1 /\ UNCHANGED <<cb, pending, hasPending, heard, main, child>>
      /\ wire \in Seq(Commands) /\ sent' \in Commands
  BY Lengths DEF Send, buffer, history, MInv, Typed, Commands
<1>2. Buffered' /\ Popped' /\ Running' /\ Ordered'
  BY <1>1 DEF OInv, Buffered, Popped, Running, Ordered, LastWord, Spoken
<1>3. /\ wire' = wire
      \/ /\ Len(wire') = Len(wire) + 1 /\ wire'[Len(wire) + 1] = sent'
         /\ \A i \in 1 .. Len(wire) : wire'[i] = wire[i]
  <2>1. wire' = wire \/ wire' = Append(wire, sent')
    BY DEF Send
  <2>2. QED
    BY <1>1, <2>1
<1>4. \A i \in 1 .. Len(wire') : i \in 1 .. Len(wire) \/ (wire' # wire /\ i = Len(wire) + 1)
  BY <1>3, Lengths
<1>5. \A i \in 1 .. Len(wire) : wire[i] \in 1 .. sent
  BY DEF OInv, AllSent
<1>6. /\ \A i \in 1 .. Len(heard) : heard[i][1] \in 0 .. sent
      /\ cb.msg \in 0 .. sent /\ pending \in (0 .. sent) \cup {Torn} /\ main.text \in 0 .. sent /\ child.cmd \in 0 .. sent
  BY DEF OInv, AllSent
<1>7. \A i \in 1 .. Len(wire') : wire'[i] = sent' \/ (i \in 1 .. Len(wire) /\ wire'[i] = wire[i])
  BY <1>3, <1>4
<1>8. AllSent'
  <2>1. \A i \in 1 .. Len(wire') : wire'[i] \in 1 .. sent'
    BY <1>1, <1>5, <1>7, Lengths
  <2>2. QED
    BY <1>1, <1>6, <2>1, Lengths DEF AllSent
<1>9. InOrder'
  <2>1. \A c : (Later(c))' <=> Later(c)
    BY <1>1 DEF Later, Spoken
  <2>2. Later(sent)'
    BY <1>1, <1>6, Lengths DEF Later, Spoken
  <2>3. \A i \in 1 .. Len(wire') : Later(wire[i])'
    <3> SUFFICES ASSUME NEW i \in 1 .. Len(wire') PROVE Later(wire[i])'
      OBVIOUS
    <3>1. CASE wire'[i] = sent'
      BY <2>2, <3>1 DEF Later, Spoken
    <3>2. CASE i \in 1 .. Len(wire) /\ wire'[i] = wire[i]
      <4>1. Later(wire[i])
        BY <3>2 DEF OInv, InOrder
      <4>2. QED
        BY <1>1, <3>2, <4>1 DEF Later, Spoken
    <3>3. QED
      BY <1>7, <3>1, <3>2
  <2>4. ASSUME NEW c \in 0 .. sent, Ahead(c)
        PROVE  Ahead(c)'
    <3>1. \A i \in 1 .. Len(wire) : c < wire[i]
      BY <2>4 DEF Ahead
    <3>2. c < sent'
      BY <1>1, Lengths
    <3>3. QED
      BY <1>7, <3>1, <3>2 DEF Ahead
  <2>5. cb'.pc # "idle" => Later(cb.msg)' /\ Ahead(cb.msg)'
    BY <1>1, <1>6, <2>1, <2>4 DEF OInv, InOrder
  <2>6. pending \in Commands => Ahead(pending)'
    <3>1. pending \in Commands => pending \in 0 .. sent /\ Ahead(pending)
      BY <1>6, Numbers DEF OInv, InOrder
    <3>2. pending \in 0 .. sent /\ Ahead(pending) => \A i \in 1 .. Len(wire') : pending < wire'[i]
      BY <2>4, <1>1 DEF Ahead
    <3>3. QED
      BY <1>1, <3>1, <3>2 DEF Ahead
  <2>7. pending' \in Commands => /\ Ahead(pending)'
                                 /\ Later(pending)' \/ (pending' = main'.text /\ main'.pc = "clear"
                                                        /\ "text" \notin main'.done)
    BY <1>1, <2>1, <2>6 DEF OInv, InOrder
  <2>8. ASSUME NEW i \in 1 .. Len(wire'), NEW j \in 1 .. Len(wire'), i < j
        PROVE  wire'[i] < wire'[j]
    <3>1. i \in 1 .. Len(wire) /\ wire'[i] = wire[i] /\ wire[i] \in 1 .. sent
      BY <1>3, <1>4, <1>5, <2>8, Lengths
    <3>2. CASE wire'[j] = sent'
      BY <1>1, <3>1, <3>2, Lengths
    <3>3. CASE j \in 1 .. Len(wire) /\ wire'[j] = wire[j]
      BY <2>8, <3>1, <3>3 DEF OInv, InOrder
    <3>4. QED
      BY <1>7, <3>2, <3>3
  <2>9. QED
    BY <2>3, <2>5, <2>7, <2>8 DEF InOrder
<1>10. QED
  BY <1>2, <1>8, <1>9 DEF OInv

\* A restart forgets everything but what the operator has heard of.
LEMMA RestartInOrder ==
  ASSUME MInv, OInv, Fresh0, UNCHANGED <<sent, heard>>
  PROVE  OInv'
<1>1. /\ wire' = <<>> /\ Len(<<>>) = 0 /\ pending' = NoText /\ hasPending' = FALSE /\ cb'.pc = "idle" /\ cb'.msg = NoText
      /\ main'.text = NoText /\ main'.pc = "ensure" /\ child'.cmd = NoText /\ child'.pc = "none"
  BY RestTyped, AtTyped, EmptySeq DEF Fresh0, MainPcs, CbIdle
<1>2. Buffered' /\ Popped' /\ Running' /\ Ordered'
  BY <1>1, Numbers DEF OInv, Buffered, Popped, Running, Ordered
<1>3. AllSent'
  BY <1>1, Lengths DEF OInv, AllSent, NoText
<1>4. InOrder'
  BY <1>1, Numbers DEF InOrder
<1>5. QED
  BY <1>2, <1>3, <1>4 DEF OInv

LEMMA StepInOrder ==
  ASSUME MInv, OInv, [Next]_vars
  PROVE  OInv'
<1>1. CASE UNCHANGED vars
  <2>1. UNCHANGED <<wire, cb, main, child, pending, hasPending, sent, heard>>
    BY <1>1 DEF vars, session, buffer, world, history
  <2>2. QED
    BY <2>1, NothingTaken
<1>2. CASE MainLoop
  BY <1>2, DialsInOrder, ClearInOrder, PopInOrder, PrecheckInOrder, StartInOrder, PollInOrder DEF MainLoop, Dials
<1>3. CASE MessageArrived \/ CopyPayload \/ SetPending
  BY <1>3, MessageArrivedInOrder, CopyInOrder
<1>4. CASE ConnectionLost
  <2>1. UNCHANGED <<wire, cb, main, child, pending, hasPending, sent, heard>>
    BY <1>4 DEF ConnectionLost, buffer, world, history
  <2>2. QED
    BY <2>1, NothingTaken
<1>5. CASE Child
  BY <1>5, ChildInOrder DEF Child, ChildSteps
<1>6. CASE World
  <2>1. CASE Send
    BY <2>1, SendInOrder
  <2>2. CASE /\ UNCHANGED <<cb, main, child, pending, hasPending, sent, history>>
             /\ wire' = wire \/ wire' = <<>>
    BY <2>2, NothingTaken DEF history
  <2>3. CASE Fresh0 /\ UNCHANGED <<sent, heard>>
    BY <2>3, RestartInOrder
  <2>4. QED
    BY <1>6, <2>1, <2>2, <2>3, WorldGoes
<1>7. QED
  BY <1>1, <1>2, <1>3, <1>4, <1>5, <1>6 DEF Next, Threads

LEMMA InitOInv == Init => OInv
<1> SUFFICES ASSUME Init PROVE OInv
  OBVIOUS
<1>1. /\ Len(wire) = 0 /\ Len(heard) = 0 /\ sent = 0 /\ pending = 0 /\ hasPending = FALSE /\ cb.pc = "idle" /\ cb.msg = 0
      /\ main.text = 0 /\ child.cmd = 0 /\ child.pc = "none"
  BY RestTyped, AtTyped, EmptySeq DEF Init, MainPcs, CbIdle, NoText
<1>2. Torn # 0 /\ 0 \notin Commands
  BY Numbers DEF NoText
<1>3. Buffered /\ AllSent
  BY <1>1, <1>2 DEF Buffered, AllSent
<1>4. InOrder /\ Popped /\ Running /\ Ordered
  BY <1>1, <1>2 DEF InOrder, Popped, Running, Ordered, NoText
<1>5. QED
  BY <1>3, <1>4 DEF OInv

LEMMA OInvAlways == Spec => [](MInv /\ OInv)
<1>1. Init => OInv
  BY InitOInv
<1>2. MInv /\ OInv /\ [Next]_vars => OInv'
  BY StepInOrder
<1>3. QED
  BY <1>1, <1>2, MInvAlways, PTL DEF Spec

\* MqttAgent!PopsWholeCommands: otaMqttPopCommand reads the buffer without a lock, and still
\* never a half of a payload or a command nobody has sent. The callback copies only while
\* the flag is off, and sets it last; what clearMqttPending wipes in between is NoText.
THEOREM PopsAreWhole == Spec => []PopsWholeCommands
<1>1. OInv => PopsWholeCommands
  BY DEF OInv, AllSent, PopsWholeCommands
<1>2. QED
  BY <1>1, OInvAlways, PTL

\* MqttAgent!StatusesInOrder: of a command the operator hears "accepted", then one result or
\* none, with no status of another command between the two. What is heard goes by the numbers
\* of the commands, and the wire, the buffer and the child hold one later than the other.
THEOREM StatusesAreOrdered == Spec => []StatusesInOrder
<1>1. MInv /\ OInv => StatusesInOrder
  <2> SUFFICES ASSUME MInv, OInv, NEW i \in 1 .. Len(heard), NEW j \in 1 .. Len(heard), i < j,
                      heard[i][1] # NoText, heard[i][1] = heard[j][1]
               PROVE  /\ heard[i][2] = "accepted" /\ heard[j][2] # "accepted"
                      /\ \A k \in i + 1 .. j - 1 : heard[k][1] = NoText
    BY DEF StatusesInOrder
  <2>1. heard[i][2] = "accepted" /\ heard[j][2] # "accepted"
    BY DEF OInv, Ordered
  <2>2. ASSUME NEW k \in i + 1 .. j - 1, heard[k][1] # NoText
        PROVE  FALSE
    <3>1. k \in 1 .. Len(heard) /\ i < k /\ k < j
      <4> DEFINE n == Len(heard)
      <4>1. n \in Nat
        BY Lengths
      <4> HIDE DEF n
      <4>2. i \in 1 .. n /\ j \in 1 .. n
        BY DEF n
      <4>3. k \in 1 .. n /\ i < k /\ k < j
        BY <4>1, <4>2
      <4>4. QED
        BY <4>3 DEF n
    <3>2. heard[i][1] <= heard[k][1] /\ heard[k][1] <= heard[j][1]
      BY <2>2, <3>1 DEF OInv, Ordered
    <3>3. heard[k][1] = heard[i][1]
      BY <3>1, <3>2, Lengths
    <3>4. heard[k][2] # "accepted"
      BY <2>2, <3>1, <3>3 DEF OInv, Ordered
    <3>5. heard[k][2] = "accepted"
      BY <2>2, <3>1, <3>3 DEF OInv, Ordered
    <3>6. QED
      BY <3>4, <3>5
  <2>3. QED
    BY <2>1, <2>2
<1>2. QED
  BY <1>1, OInvAlways, PTL
=============================================================================
