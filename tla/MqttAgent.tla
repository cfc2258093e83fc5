----------------------------- MODULE MqttAgent -----------------------------
(***************************************************************************)
(* mqtt-agent: the daemon that keeps the MQTT session, takes commands from *)
(* it and runs ota-agent for each, forwarding the lines it prints.         *)
(*                                                                         *)
(* Two kinds of threads share memory without a lock: the main loop, and    *)
(* the threads of the Paho library, which call onMqttMessageArrived and    *)
(* onMqttConnectionLost. Their accesses to the shared variables are steps  *)
(* of their own here.                                                      *)
(***************************************************************************)
EXTENDS Naturals, Sequences, SequencesExt

CONSTANTS
  Broker,     \* the host that speaks MQTT
  Hosts,      \* the hosts of the LAN, in the order of the scan
  MaxCommands,\* bound: commands the operator publishes, each once
  MaxChanges, \* bound: hosts that open or close the port
  MaxFaults   \* bound: sessions lost, calls that fail, children killed, restarts

ASSUME HostsAssumption  == Broker \in Range(Hosts) /\ Len(Hosts) > 0
ASSUME BoundsAssumption == {MaxCommands, MaxChanges, MaxFaults} \subseteq Nat

\* The texts of the message buffer: a command is its number.
Commands == 1..MaxCommands
NoText   == 0                \* a string of length 0
Torn     == MaxCommands + 1  \* a payload half of which is copied

NoHost == "none"

VARIABLES
  auto,     \* g_mqttAutoMode
  open,     \* the hosts that accept connections to the port
  sess,     \* is there a session with the broker?
  listens,  \* has this session subscribed to the command topic?
  wire,     \* what the broker has sent on the session
  lost,     \* is the callback of a lost session due?
  cache,    \* the broker cache file
  uri, client, connected, topic,   \* g_mqttServerUri, g_mqttClient # NULL, g_mqttConnected,
                                   \* g_mqttCommandTopic is set
  hasPending, pending,             \* g_mqttHasPending, g_mqttPending
  found,    \* g_lastDiscoverAt: "never", "recent" (less than 10 s ago), "old"
  cb,       \* the callback thread, in onMqttMessageArrived
  main,     \* the main loop
  child,    \* the ota-agent of g_otaPid and what its pipe holds
  lock,     \* who else holds the lock of ota-agent: "none", "local", "orphan"
  sent, changes, faults,           \* bounds
  heard,    \* history: the statuses the operator has received
  kept,     \* history: the commands a callback has stored
  settled,  \* history: those that were refused, or whose ota-agent has ended
  excused   \* history: those wiped, or taken away by a fault

world     == <<open, changes, faults, sent>>
session   == <<sess, listens, wire, lost>>
clientVars == <<uri, client, connected, topic>>
buffer    == <<hasPending, pending>>
history   == <<heard, kept, settled, excused>>
vars == <<auto, world, session, cache, clientVars, buffer, found, cb, main, child, lock, history>>

NoChild == [cmd |-> NoText, pc |-> "none", out |-> <<>>]
CbIdle  == [pc |-> "idle", msg |-> NoText]

\* A position of the main loop; text: what processCommand has popped; next: where
\* clearMqttPending returns to, and what it has stored; from: who tries to connect.
At(pc) == [pc |-> pc, text |-> NoText, next |-> "none", done |-> {}, from |-> "none"]

Init ==
  /\ auto \in BOOLEAN /\ open \in SUBSET Range(Hosts)
  /\ sess = FALSE /\ listens = FALSE /\ wire = <<>> /\ lost = FALSE
  /\ cache \in (Range(Hosts) \ {Broker}) \cup {NoHost}
  /\ uri = NoHost /\ client = FALSE /\ connected = FALSE /\ topic = FALSE
  /\ hasPending = FALSE /\ pending = NoText /\ found = "never"
  /\ cb = CbIdle /\ main = At("ensure") /\ child = NoChild
  /\ lock \in {"none", "local"}
  /\ sent = 0 /\ changes = 0 /\ faults = 0
  /\ heard = <<>> /\ kept = {} /\ settled = {} /\ excused = {}

Fault == faults < MaxFaults /\ faults' = faults + 1

\* A call that succeeds unless a fault makes it fail.
Works == UNCHANGED faults

\* Faulty variant: a child that runs is not looked at.
NeverBusy == FALSE

\* g_otaBusy
Busy == child.pc # "none"

\* otaMqttPublishStatus: what is not acknowledged is not sent again.
Publish(c, phase) ==
  heard' = IF connected /\ sess THEN Append(heard, <<c, phase>>) ELSE heard

-----------------------------------------------------------------------------
(* The callbacks *)

\* Faulty variant: a message that waits is written over.
MessageOverwrites ==
  /\ cb.pc = "idle" /\ wire # <<>>
  /\ wire' = Tail(wire)
  /\ cb' = [pc |-> "copy", msg |-> Head(wire)]
  /\ UNCHANGED <<auto, world, sess, listens, lost, cache, clientVars, buffer, found, main,
                 child, lock, history>>

\* storeMqttPendingPayload: one message is kept, the others are acknowledged and dropped.
MessageArrived ==
  /\ cb.pc = "idle" /\ wire # <<>>
  /\ wire' = Tail(wire)
  /\ cb' = IF hasPending THEN CbIdle ELSE [pc |-> "copy", msg |-> Head(wire)]
  /\ UNCHANGED <<auto, world, sess, listens, lost, cache, clientVars, buffer, found, main,
                 child, lock, history>>

\* memcpy, in two halves: what the main loop clears in between stays cleared.
CopyPayload ==
  /\ \/ cb.pc = "copy" /\ pending' = Torn /\ cb' = [cb EXCEPT !.pc = "rest"]
     \/ /\ cb.pc = "rest" /\ cb' = [cb EXCEPT !.pc = "flag"]
        /\ pending' = IF pending = Torn THEN cb.msg ELSE pending
  /\ UNCHANGED <<auto, world, session, cache, clientVars, hasPending, found, main, child,
                 lock, history>>

SetPending ==
  /\ cb.pc = "flag"
  /\ hasPending' = TRUE /\ kept' = kept \cup {cb.msg} /\ cb' = CbIdle
  /\ UNCHANGED <<auto, world, session, cache, clientVars, pending, found, main, child, lock,
                 heard, settled, excused>>

\* onMqttConnectionLost
ConnectionLost ==
  /\ lost
  /\ lost' = FALSE /\ connected' = FALSE
  /\ UNCHANGED <<auto, world, sess, listens, wire, cache, uri, client, topic, buffer, found,
                 cb, main, child, lock, history>>

-----------------------------------------------------------------------------
(* The session *)

\* resolveHost: the configured host (the broker, here), else the cached one if its port
\* is open, else the first one of the scan: that it speaks MQTT is not asked.
Resolves ==
  IF ~auto THEN {Broker}
  ELSE IF cache \in open THEN {cache}
  ELSE {h \in open : \A i, j \in 1..Len(Hosts) : Hosts[i] = h /\ Hosts[j] \in open => i <= j}

\* ensureSession, up to the call of otaMqttConnect.
EnsureSession ==
  /\ main.pc = "ensure"
  /\ IF connected \/ (auto /\ found = "recent") \/ Resolves = {}
     THEN /\ main' = At("yield")
          /\ found' = IF connected \/ found = "recent" THEN found ELSE "recent"
          /\ UNCHANGED <<cache, uri>>
     ELSE /\ found' = "recent"
          /\ \E h \in Resolves : uri' = h /\ cache' = IF auto THEN h ELSE cache
          /\ main' = [At("clear") EXCEPT !.next = "create", !.from = "ensure"]
  /\ UNCHANGED <<auto, world, session, client, connected, topic, buffer, cb, child, lock,
                 history>>

\* What a store of clearMqttPending to the payload wipes: not what was popped already.
Wiped == (IF pending = Torn \/ cb.pc = "flag" THEN {cb.msg} ELSE {pending}) \ {main.text, NoText}

\* clearMqttPending: two stores, which the compiler may swap.
ClearMqttPending ==
  /\ main.pc = "clear"
  /\ \E part \in {"flag", "text"} \ main.done :
       /\ IF part = "flag" THEN hasPending' = FALSE /\ UNCHANGED pending
                           ELSE pending' = NoText   /\ UNCHANGED hasPending
       /\ excused' = IF part = "text" \/ hasPending THEN excused \cup Wiped ELSE excused
       /\ main' = IF main.done = {} THEN [main EXCEPT !.done = {part}]
                  ELSE [main EXCEPT !.pc = main.next, !.done = {}]
  /\ UNCHANGED <<auto, world, session, cache, clientVars, found, cb, child, lock, heard,
                 kept, settled>>

\* createMqttClient: the old client goes, and its session with it.
CreateMqttClient ==
  /\ main.pc = "create"
  /\ sess' = FALSE /\ listens' = FALSE /\ wire' = <<>> /\ lost' = FALSE
  /\ connected' = FALSE
  /\ \/ client' = TRUE /\ main' = [main EXCEPT !.pc = "connect"] /\ Works
     \/ client' = FALSE /\ main' = At(IF main.from = "ensure" THEN "yield" ELSE "pop") /\ Fault
  /\ UNCHANGED <<auto, open, changes, sent, cache, uri, topic, buffer, found, cb, child, lock,
                 history>>

\* attemptMqttConnect: MQTTClient_connect, with a clean session ...
AttemptMqttConnect ==
  /\ main.pc = "connect"
  /\ \/ /\ uri = Broker /\ Broker \in open /\ Works
        /\ sess' = TRUE /\ listens' = FALSE /\ main' = [main EXCEPT !.pc = "connected"]
        /\ UNCHANGED connected
     \/ /\ IF uri = Broker /\ Broker \in open THEN Fault ELSE Works
        /\ connected' = FALSE
        /\ main' = At(IF main.from = "ensure" THEN "yield" ELSE "pop")
        /\ UNCHANGED <<sess, listens>>
  /\ UNCHANGED <<auto, open, changes, sent, wire, lost, cache, uri, client, topic, buffer,
                 found, cb, child, lock, history>>

\* ... and the flag, after it: the session may have been lost, and said so, by then.
SetConnected ==
  /\ main.pc = "connected"
  /\ connected' = TRUE
  /\ topic' = (topic \/ main.from = "ensure")
  /\ main' = IF topic \/ main.from = "ensure" THEN [main EXCEPT !.pc = "subscribe"] ELSE At("pop")
  /\ UNCHANGED <<auto, world, session, cache, uri, client, buffer, found, cb, child, lock,
                 history>>

\* otaMqttSubscribeCommand, resubscribeCommandTopic: a failure is reported, no more.
Subscribe ==
  /\ main.pc = "subscribe"
  /\ \/ sess /\ (main.from = "ensure" => connected) /\ listens' = TRUE /\ Works
     \/ UNCHANGED listens /\ IF sess /\ connected THEN Fault ELSE Works
  /\ main' = At(IF main.from = "ensure" THEN "yield" ELSE "pop")
  /\ UNCHANGED <<auto, open, changes, sent, sess, wire, lost, cache, clientVars, buffer,
                 found, cb, child, lock, history>>

\* Faulty variant: a client that was not created is not created later.
OtaMqttYieldNoClient ==
  /\ main.pc = "yield"
  /\ main' = IF connected \/ ~client THEN At("pop")
             ELSE [At("connect") EXCEPT !.from = "yield"]
  /\ UNCHANGED <<auto, world, session, cache, clientVars, buffer, found, cb, child, lock,
                 history>>

\* otaMqttYield, reconnectMqttIfNeeded
OtaMqttYield ==
  /\ main.pc = "yield"
  /\ main' = IF connected \/ (~client /\ uri = NoHost) THEN At("pop")
             ELSE [At(IF client THEN "connect" ELSE "create") EXCEPT !.from = "yield"]
  /\ UNCHANGED <<auto, world, session, cache, clientVars, buffer, found, cb, child, lock,
                 history>>

-----------------------------------------------------------------------------
(* The commands *)

\* Faulty variant: the message is taken, and dropped, while a child runs.
PopWhileBusy ==
  /\ main.pc = "pop"
  /\ main' = IF ~hasPending THEN At("poll")
             ELSE [At("clear") EXCEPT !.text = pending, !.next = "precheck"]
  /\ UNCHANGED <<auto, world, session, cache, clientVars, buffer, found, cb, child, lock,
                 history>>

\* processCommand, otaMqttPopCommand
OtaMqttPopCommand ==
  /\ main.pc = "pop"
  /\ main' = IF Busy \/ ~hasPending THEN At("poll")
             ELSE [At("clear") EXCEPT !.text = pending, !.next = "precheck"]
  /\ UNCHANGED <<auto, world, session, cache, clientVars, buffer, found, cb, child, lock,
                 history>>

\* Faulty variant: the exit status of the check is not looked at.
PrecheckNotAsked ==
  /\ main.pc = "precheck"
  /\ \/ Busy /\ main' = At("poll") /\ Works
     \/ ~Busy /\ main' = [main EXCEPT !.pc = "start"] /\ Works
  /\ UNCHANGED <<auto, open, changes, sent, session, cache, clientVars, buffer, found, cb,
                 child, lock, history>>

\* startOtaCommand, runOtaPrecheck: ota-agent --mqtt-precheck prints a status and exits
\* (with an error if it refuses the command); it may not start, or be killed.
RunOtaPrecheck ==
  /\ main.pc = "precheck"
  /\ \/ Busy /\ main' = At("poll") /\ UNCHANGED <<heard, settled, excused>> /\ Works
     \/ /\ ~Busy /\ main.text \in Commands
        /\ Publish(main.text, "accepted") /\ main' = [main EXCEPT !.pc = "start"]
        /\ UNCHANGED <<settled, excused>> /\ Works
     \/ /\ ~Busy /\ main' = At("poll")
        /\ \/ /\ Publish(main.text, "failed") /\ Works
              /\ settled' = settled \cup ({main.text} \cap Commands) /\ UNCHANGED excused
           \/ /\ main.text \in Commands /\ Fault
              /\ excused' = excused \cup {main.text} /\ UNCHANGED <<heard, settled>>
  /\ UNCHANGED <<auto, open, changes, sent, session, cache, clientVars, buffer, found, cb,
                 child, lock, kept>>

\* startOtaChild: the command has been reported as accepted, whether it starts or not.
StartOtaChild ==
  /\ main.pc = "start"
  /\ main' = At("poll")
  /\ \/ child' = [cmd |-> main.text, pc |-> "start", out |-> <<>>] /\ UNCHANGED excused /\ Works
     \/ excused' = excused \cup {main.text} /\ UNCHANGED child /\ Fault
  /\ UNCHANGED <<auto, open, changes, sent, session, cache, clientVars, buffer, found, cb,
                 lock, heard, kept, settled>>

\* pollOtaOutput: every line there is, then EOF once nobody holds the pipe any more.
PollOtaOutput ==
  /\ main.pc = "poll"
  /\ \/ /\ child.out # <<>>
        /\ Publish(child.cmd, Head(child.out)) /\ child' = [child EXCEPT !.out = Tail(@)]
        /\ UNCHANGED <<main, settled>>
     \/ /\ child.out = <<>> /\ main' = At(IF auto THEN "ensure" ELSE "yield")
        /\ IF child.pc = "ended" THEN child' = NoChild /\ settled' = settled \cup {child.cmd}
                                 ELSE UNCHANGED <<child, settled>>
        /\ UNCHANGED heard
  /\ UNCHANGED <<auto, world, session, cache, clientVars, buffer, found, cb, lock, kept, excused>>

MainLoop == \/ EnsureSession \/ ClearMqttPending \/ CreateMqttClient \/ AttemptMqttConnect
            \/ SetConnected \/ Subscribe \/ OtaMqttYield \/ OtaMqttPopCommand
            \/ RunOtaPrecheck \/ StartOtaChild \/ PollOtaOutput

-----------------------------------------------------------------------------
(* ota-agent --mqtt-command *)

Says(pc, line) == child' = [child EXCEPT !.pc = pc, !.out = Append(@, line)]

\* executeMqttCommandJson: refused, or the lock is taken, or it is not waited for.
ChildStart ==
  /\ child.pc = "start"
  /\ IF lock = "none" THEN Says("ended", "failed") \/ child' = [child EXCEPT !.pc = "runs"]
                      ELSE Says("ended", "failed")
  /\ UNCHANGED <<auto, world, session, cache, clientVars, buffer, found, cb, main, lock, history>>

\* executeApplyPipeline and its result. (After "completed" ota-apply reboots the board.)
ChildEnds ==
  /\ child.pc = "runs"
  /\ Says("ended", "completed") \/ Says("ended", "failed")
  /\ UNCHANGED <<auto, world, session, cache, clientVars, buffer, found, cb, main, lock, history>>

\* It is killed; its own children keep the pipe open until they end (ChildGone).
ChildKilled ==
  /\ child.pc \in {"start", "runs"} /\ Fault
  /\ child' = [child EXCEPT !.pc = IF @ = "runs" THEN "killed" ELSE "ended"]
  /\ UNCHANGED <<auto, open, changes, sent, session, cache, clientVars, buffer, found, cb,
                 main, lock, history>>

ChildGone ==
  /\ child.pc = "killed"
  /\ child' = [child EXCEPT !.pc = "ended"]
  /\ UNCHANGED <<auto, world, session, cache, clientVars, buffer, found, cb, main, lock, history>>

\* Another caller of ota-agent, or the ota-agent a restart has left behind, ends.
OtherAgentEnds ==
  /\ lock # "none" /\ lock' = "none"
  /\ UNCHANGED <<auto, world, session, cache, clientVars, buffer, found, cb, main, child,
                 history>>

-----------------------------------------------------------------------------
(* The world *)

\* The operator publishes a command; nobody but a subscriber gets it.
Send ==
  /\ sent < MaxCommands /\ sent' = sent + 1
  /\ wire' = IF sess /\ listens THEN Append(wire, sent') ELSE wire
  /\ UNCHANGED <<auto, open, changes, faults, sess, listens, lost, cache, clientVars, buffer,
                 found, cb, main, child, lock, history>>

SessionEnds == /\ sess' = FALSE /\ listens' = FALSE /\ wire' = <<>>
               /\ lost' = (lost \/ sess)

\* A host opens or closes the port; the sessions of a broker that closes are lost.
HostChange(h) ==
  /\ changes < MaxChanges /\ changes' = changes + 1
  /\ open' = IF h \in open THEN open \ {h} ELSE open \cup {h}
  /\ IF h = Broker /\ h \in open THEN SessionEnds ELSE UNCHANGED session
  /\ UNCHANGED <<auto, sent, faults, cache, clientVars, buffer, found, cb, main, child, lock,
                 history>>

LoseSession ==
  /\ sess /\ Fault /\ SessionEnds
  /\ UNCHANGED <<auto, open, changes, sent, cache, clientVars, buffer, found, cb, main, child,
                 lock, history>>

\* Ten seconds have passed.
Tick ==
  /\ found = "recent" /\ found' = "old"
  /\ UNCHANGED <<auto, world, session, cache, clientVars, buffer, cb, main, child, lock, history>>

\* mqtt-agent.init restart (or a crash and a start): the memory is new; the ota-agent of
\* the old process goes on without a reader, with the lock.
Restart ==
  /\ Fault
  /\ sess' = FALSE /\ listens' = FALSE /\ wire' = <<>> /\ lost' = FALSE
  /\ uri' = NoHost /\ client' = FALSE /\ connected' = FALSE /\ topic' = FALSE
  /\ hasPending' = FALSE /\ pending' = NoText /\ found' = "never"
  /\ cb' = CbIdle /\ main' = At("ensure") /\ child' = NoChild
  /\ lock' = IF child.pc \in {"runs", "killed"} THEN "orphan" ELSE lock
  /\ excused' = excused \cup kept \cup ({cb.msg} \ {NoText})
  /\ UNCHANGED <<auto, open, changes, sent, cache, heard, kept, settled>>

Threads == MainLoop \/ MessageArrived \/ CopyPayload \/ SetPending \/ ConnectionLost
Child   == ChildStart \/ ChildEnds \/ ChildKilled \/ ChildGone
World   == \/ Send
           \/ \E h \in Range(Hosts) : HostChange(h)
           \/ LoseSession \/ OtherAgentEnds \/ Tick \/ Restart

Next == Threads \/ Child \/ World
Spec == Init /\ [][Next]_vars

\* The threads are scheduled, an ota-agent ends, and so does what it has started; time
\* passes. That a session lasts or a call succeeds follows from the bound on faults.
Fairness == /\ WF_vars(MainLoop)
            /\ WF_vars(MessageArrived \/ CopyPayload \/ SetPending)
            /\ WF_vars(ConnectionLost)
            /\ WF_vars(ChildStart \/ ChildEnds) /\ WF_vars(ChildGone)
            /\ WF_vars(Tick)
FairSpec == Spec /\ Fairness

-----------------------------------------------------------------------------
(* Properties *)

Texts   == Commands \cup {NoText, Torn}
MainPcs == {"ensure", "clear", "create", "connect", "connected", "subscribe", "yield", "pop",
            "precheck", "start", "poll"}

TypeOK ==
  /\ auto \in BOOLEAN /\ open \subseteq Range(Hosts) /\ cache \in Range(Hosts) \cup {NoHost}
  /\ {sess, listens, lost, client, connected, topic, hasPending} \subseteq BOOLEAN
  /\ wire \in Seq(Commands) /\ uri \in Range(Hosts) \cup {NoHost} /\ pending \in Texts
  /\ found \in {"never", "recent", "old"}
  /\ cb \in [pc : {"idle", "copy", "rest", "flag"}, msg : Commands \cup {NoText}]
  /\ main \in [pc : MainPcs, text : Texts, next : {"none", "create", "precheck"},
               done : SUBSET {"flag", "text"}, from : {"none", "ensure", "yield"}]
  /\ child \in {NoChild} \cup [cmd : Commands, pc : {"start", "runs", "killed", "ended"},
                              out : Seq({"completed", "failed"})]
  /\ lock \in {"none", "local", "orphan"}
  /\ sent \in 0..MaxCommands /\ kept \subseteq Commands
  /\ settled \subseteq Commands /\ excused \subseteq Commands
  /\ changes \in 0..MaxChanges /\ faults \in 0..MaxFaults

\* Without a lock between storeMqttPendingPayload and otaMqttPopCommand, what is popped is
\* still a whole command, and one the operator has sent; at worst it is the empty string.
PopsWholeCommands == main.text \in 0..sent

\* What the operator hears of a command is "accepted", then one result or none; between
\* the two it hears of no other command, however children, faults and restarts fall.
StatusesInOrder ==
  \A i, j \in 1..Len(heard) :
    i < j /\ heard[i][1] # NoText /\ heard[i][1] = heard[j][1] =>
      /\ heard[i][2] = "accepted" /\ heard[j][2] # "accepted"
      /\ \A k \in i + 1 .. j - 1 : heard[k][1] = NoText

\* A command the callback has stored is refused or run to its end, unless a reconnection
\* or a callback in the middle of clearMqttPending wipes it, or a fault takes it away.
KeptIsAnswered ==
  \A c \in Commands : c \in kept ~> c \in settled \cup excused

\* The session has been lost and the flag says otherwise: the callback came before the
\* store of attemptMqttConnect. Nothing connects again.
StuckConnected == connected /\ ~sess /\ ~lost

\* Once the broker is there to stay, and no other host has its port open, the agent gets
\* its session, from whatever host and client it had before; but for StuckConnected.
ComesBack == <>[](open = {Broker}) => <>[](sess \/ StuckConnected)

\* tests/ota-agent/MQTT-VERIFICATION.md:30: it reconnects in the background and subscribes
\* again. Not so: a first attempt that fails (otaMqttConnect) leaves no topic to subscribe to.
ReconnectsAndResubscribes == <>[](open = {Broker}) => []<>(sess /\ listens)
=============================================================================
