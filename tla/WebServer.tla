----------------------------- MODULE WebServer -----------------------------
(***************************************************************************)
(* The web server of the board: one process that serves one client at a    *)
(* time, and applies an uploaded package by running ota-apply.             *)
(*                                                                         *)
(* The listening socket is not closed on exec: an ota-apply that outlives  *)
(* its server still holds the port, and the queue of clients with it. A    *)
(* signal in waitpid makes the server give its ota-apply up; a client that *)
(* is gone when it is answered ends the server (SIGPIPE). Nothing starts   *)
(* it again but an operator or the next boot.                              *)
(***************************************************************************)
EXTENDS Naturals, Sequences, FiniteSets

CONSTANTS
  Clients,     \* requests: each client makes one
  Backlog,     \* the clients listen() lets wait
  MaxRestarts, \* bound: restarts of the service by an operator
  None         \* no client

ASSUME BacklogAssumption == Backlog \in Nat \ {0}
ASSUME NoneAssumption    == None \notin Clients

VARIABLES
  conn,      \* a client: "new", "queued", "served" or "ended"
  gone,      \* the clients that have closed their end
  queue,     \* the clients the listening socket holds
  server,    \* where the process is, its client and the status it will answer
  stop,      \* gStopRequested
  port,      \* who holds the listening socket: "server", "child"
  mime, swu, \* the upload and the package in /var/tmp: whose they are, or None
  child,     \* ota-apply: where it is, whose package it was started with, how many of its
             \* variables are written, and its exit status
  rebooting, \* has ota-apply called reboot?
  init,      \* the init script: "idle", "term" (it has sent SIGTERM) or "start"
  restarts,  \* bound
  answer,    \* history: what a client has been told
  outcome,   \* history: how far a client's package came: "none", "started" or "applied"
  interrupted \* history: the clients whose ota-apply was given up

files   == <<mime, swu>>
service == <<stop, port, init, restarts>>
told    == <<answer, outcome, interrupted>>
webVars == <<conn, gone, queue, server, service, files, child, rebooting, told>>

Doing(pc, c) == [pc |-> pc, client |-> c, status |-> "none"]
Dead         == Doing("dead", None)
NoApply      == [pc |-> "none", client |-> None, written |-> 0, exit |-> "none"]
Applying(c)  == [NoApply EXCEPT !.pc = "running", !.client = c]
Alive        == child.pc \in {"running", "writing", "rebooted"}
Variables    == <<"active_slot", "ota_pending", "upgrade_available", "bootcount">>

WebInit ==
  /\ conn = [c \in Clients |-> "new"] /\ gone = {} /\ queue = <<>>
  /\ server = Doing("accept", None) /\ stop = FALSE /\ port = {"server"}
  /\ mime = None /\ swu = None /\ child = NoApply /\ rebooting = FALSE
  /\ init = "idle" /\ restarts = 0
  /\ answer = [c \in Clients |-> "none"] /\ outcome = [c \in Clients |-> "none"]
  /\ interrupted = {}

\* Once nobody holds a socket the clients it stands for are disconnected.
Disconnected(closed, holders) ==
  /\ port' = holders
  /\ queue' = IF holders = {} THEN <<>> ELSE queue
  /\ conn' = [c \in Clients |->
       IF c = closed \/ (holders = {} /\ conn[c] = "queued") THEN "ended" ELSE conn[c]]

-----------------------------------------------------------------------------
(* The clients *)

\* The kernel queues a client, whoever holds the socket; refuses it when nobody does.
Connects(c) ==
  /\ conn[c] = "new"
  /\ IF port = {} THEN conn' = [conn EXCEPT ![c] = "ended"] /\ UNCHANGED queue
     ELSE /\ Len(queue) < Backlog
          /\ conn' = [conn EXCEPT ![c] = "queued"] /\ queue' = Append(queue, c)
  /\ UNCHANGED <<gone, server, service, files, child, rebooting, told>>

Leaves(c) ==
  /\ conn[c] \in {"queued", "served"} /\ c \notin gone
  /\ gone' = gone \cup {c}
  /\ UNCHANGED <<conn, queue, server, service, files, child, rebooting, told>>

-----------------------------------------------------------------------------
(* The server *)

Respond(c, status) == server' = [pc |-> "respond", client |-> c, status |-> status]

\* main: accept
Accept ==
  /\ server.pc = "accept" /\ queue # <<>>
  /\ queue' = Tail(queue) /\ conn' = [conn EXCEPT ![Head(queue)] = "served"]
  /\ server' = Doing("headers", Head(queue))
  /\ UNCHANGED <<gone, service, files, child, rebooting, told>>

\* What a client sent before it left is still read. recvHttpHeaders, parseRequestLine and
\* the query of a page may be refused ...
RefuseRequest ==
  /\ server.pc = "headers" /\ Respond(server.client, "refused")
  /\ UNCHANGED <<conn, gone, queue, service, files, child, rebooting, told>>

\* ... else handleClient makes a page ...
ServePage ==
  /\ server.pc = "headers" /\ Respond(server.client, "page")
  /\ UNCHANGED <<conn, gone, queue, service, files, child, rebooting, told>>

\* ... or handleUpgrade opens the file of the upload, after checkUpgradeAuth and
\* parseUpgradeHeaders (which may refuse it, too).
BeginUpload ==
  /\ server.pc = "headers"
  /\ server' = Doing("body", server.client) /\ mime' = server.client
  /\ UNCHANGED <<conn, gone, queue, service, swu, child, rebooting, told>>

\* recvBodyToFile, with what handleUpgrade does when it fails. The package of the last
\* upload is deleted once this one is received.
Body ==
  /\ server.pc = "body"
  /\ LET c == server.client IN
     \/ Respond(c, "refused") /\ mime' = None /\ UNCHANGED swu
     \/ server' = Doing("extract", c) /\ swu' = None /\ UNCHANGED mime
  /\ UNCHANGED <<conn, gone, queue, service, child, rebooting, told>>

\* extractSwuFromMime, and the stat of what it wrote
Extract ==
  /\ server.pc = "extract" /\ mime' = None
  /\ LET c == server.client IN
     \/ Respond(c, "refused") /\ UNCHANGED swu
     \/ server' = Doing("apply", c) /\ swu' = c
  /\ UNCHANGED <<conn, gone, queue, service, child, rebooting, told>>

\* runBoardApplyUpdate: the child inherits the listening socket.
Fork ==
  /\ server.pc = "apply"
  /\ LET c == server.client IN
     \/ Respond(c, "failed") /\ UNCHANGED <<child, port, outcome>>
     \/ /\ server' = Doing("wait", c) /\ child' = Applying(c)
        /\ port' = port \cup {"child"} /\ outcome' = [outcome EXCEPT ![c] = "started"]
  /\ UNCHANGED <<conn, gone, queue, stop, init, restarts, files, rebooting, answer, interrupted>>

\* Faulty variant: the exit status of ota-apply is not looked at.
WaitsOnly ==
  /\ server.pc = "wait" /\ child.pc = "ended"
  /\ Respond(server.client, "done")
  /\ UNCHANGED <<conn, gone, queue, service, files, child, rebooting, told>>

\* waitpid: the answer is the exit status of ota-apply.
Wait ==
  /\ server.pc = "wait" /\ child.pc = "ended"
  /\ Respond(server.client, IF child.exit = "ok" THEN "done" ELSE "failed")
  /\ UNCHANGED <<conn, gone, queue, service, files, child, rebooting, told>>

\* The next turn of the loop of main
NextTurn(c, holders) ==
  IF stop THEN server' = Dead /\ Disconnected(c, holders \ {"server"})
  ELSE server' = Doing("accept", None) /\ Disconnected(c, holders)

\* Faulty variant: a client that was refused is not closed.
ForgetsClose ==
  /\ server.pc = "respond"
  /\ answer' = [answer EXCEPT ![server.client] = server.status]
  /\ IF server.status = "refused"
     THEN server' = Doing("accept", None) /\ UNCHANGED <<conn, queue, port>>
     ELSE NextTurn(server.client, port)
  /\ UNCHANGED <<gone, stop, init, restarts, files, child, rebooting, outcome, interrupted>>

\* sendResponse, and the close of main. Header and body are sent apart: a client that has
\* left resets the connection at the first, and the second kills the server. After
\* "done" handleUpgrade runs reboot, as ota-apply has before it.
Send ==
  /\ server.pc = "respond"
  /\ LET c == server.client IN
     \/ answer' = [answer EXCEPT ![c] = server.status] /\ NextTurn(c, port)
     \/ /\ c \in gone /\ UNCHANGED answer
        /\ server' = Dead /\ Disconnected(c, port \ {"server"})
  /\ UNCHANGED <<gone, stop, init, restarts, files, child, rebooting, outcome, interrupted>>

\* The flag was set: accept is interrupted, and the loop ends.
Exit ==
  /\ server.pc = "accept" /\ stop
  /\ server' = Dead /\ Disconnected(None, port \ {"server"})
  /\ UNCHANGED <<gone, stop, init, restarts, files, child, rebooting, told>>

-----------------------------------------------------------------------------
(* ota-apply *)

\* swupdate reads the package and writes the other slot ...
Installs ==
  /\ child.pc = "running" /\ child' = [child EXCEPT !.pc = "writing"]
  /\ UNCHANGED <<conn, gone, queue, server, service, files, rebooting, told>>

\* ... the variables are written one after another ...
SetsEnv ==
  /\ child.pc = "writing" /\ child.written < Len(Variables)
  /\ child' = [child EXCEPT !.written = @ + 1]
  /\ UNCHANGED <<conn, gone, queue, server, service, files, rebooting, told>>

\* ... and autoReboot calls reboot.
CallsReboot ==
  /\ child.pc = "writing" /\ child.written = Len(Variables)
  /\ child' = [child EXCEPT !.pc = "rebooted"] /\ rebooting' = TRUE
  /\ outcome' = [outcome EXCEPT ![child.client] = "applied"]
  /\ UNCHANGED <<conn, gone, queue, server, service, files, answer, interrupted>>

\* It ends well after the reboot it has called. Anywhere it may end with an error: the check
\* of the state, swupdate, and under set -e any fw_setenv or reboot itself may fail, or a
\* signal may kill it.
ApplyEnds ==
  /\ Alive
  /\ \/ child.pc = "rebooted" /\ child' = [child EXCEPT !.pc = "ended", !.exit = "ok"]
     \/ child' = [child EXCEPT !.pc = "ended", !.exit = "error"]
  /\ Disconnected(None, port \ {"child"})
  /\ UNCHANGED <<gone, server, stop, init, restarts, files, rebooting, told>>

-----------------------------------------------------------------------------
(* The init script *)

\* stop, by an operator or by a reboot: SIGTERM. One that finds the server in waitpid ends
\* the wait (EINTR), and the server answers that the upgrade failed; any other call of the
\* server is resumed by its own loop.
Terminate ==
  /\ init = "idle" /\ server.pc # "dead"
  /\ (restarts < MaxRestarts /\ restarts' = restarts + 1) \/ (rebooting /\ UNCHANGED restarts)
  /\ init' = "term" /\ stop' = TRUE
  /\ \/ /\ server.pc = "wait" /\ Respond(server.client, "failed")
        /\ interrupted' = interrupted \cup {server.client}
     \/ UNCHANGED <<server, interrupted>>
  /\ UNCHANGED <<conn, gone, queue, port, files, child, rebooting, answer, outcome>>

\* start-stop-daemon --retry 5: SIGKILL when it has not ended. restart goes on with start.
Kill ==
  /\ init = "term"
  /\ init' \in {"idle", "start"} /\ server' = Dead
  /\ IF server.pc = "dead" THEN UNCHANGED <<conn, queue, port>>
     ELSE Disconnected(server.client, port \ {"server"})
  /\ UNCHANGED <<gone, stop, restarts, files, child, rebooting, told>>

\* Faulty variant: the port can be shared (SO_REUSEPORT).
SharesPort ==
  /\ init = "start" /\ init' = "idle" /\ stop' = FALSE
  /\ server' = Doing("accept", None) /\ port' = port \cup {"server"}
  /\ UNCHANGED <<conn, gone, queue, restarts, files, child, rebooting, told>>

\* createListenSocket: the server ends at once while an ota-apply holds the port.
Start ==
  /\ init = "start" /\ init' = "idle" /\ stop' = FALSE
  /\ IF port = {} THEN server' = Doing("accept", None) /\ port' = {"server"}
     ELSE UNCHANGED <<server, port>>
  /\ UNCHANGED <<conn, gone, queue, restarts, files, child, rebooting, told>>

\* An operator starts a server that has died.
StartAgain ==
  /\ init = "idle" /\ server.pc = "dead" /\ restarts < MaxRestarts
  /\ init' = "start" /\ restarts' = restarts + 1
  /\ UNCHANGED <<conn, gone, queue, server, stop, port, files, child, rebooting, told>>

\* The board restarts, and the server with it.
Reboot ==
  /\ rebooting /\ rebooting' = FALSE
  /\ conn' = [c \in Clients |-> IF conn[c] \in {"queued", "served"} THEN "ended" ELSE conn[c]]
  /\ queue' = <<>> /\ server' = Doing("accept", None) /\ stop' = FALSE /\ port' = {"server"}
  /\ child' = NoApply /\ init' = "idle"
  /\ UNCHANGED <<gone, restarts, files, told>>

ServerStep == \/ Accept \/ RefuseRequest \/ ServePage \/ BeginUpload \/ Body \/ Extract
              \/ Fork \/ Wait \/ Send \/ Exit
ApplyStep  == Installs \/ SetsEnv \/ CallsReboot \/ ApplyEnds

WebNext ==
  \/ \E c \in Clients : Connects(c) \/ Leaves(c)
  \/ ServerStep \/ ApplyStep
  \/ Terminate \/ Kill \/ Start \/ StartAgain \/ Reboot

\* The server runs, a client that is served sends or leaves, ota-apply goes on to its end, a
\* restart that has begun goes on, and so does a reboot.
WebFairness ==
  /\ WF_webVars(ServerStep) /\ WF_webVars(ApplyStep)
  /\ WF_webVars(Kill \/ Start) /\ WF_webVars(Reboot)

WebSpec == WebInit /\ [][WebNext]_webVars /\ WebFairness

-----------------------------------------------------------------------------
(* Properties *)

WebTypeOK ==
  /\ conn \in [Clients -> {"new", "queued", "served", "ended"}] /\ gone \subseteq Clients
  /\ Len(queue) <= Backlog /\ \A i \in DOMAIN queue : conn[queue[i]] = "queued"
  /\ server.pc \in {"accept", "headers", "body", "extract", "apply", "wait", "respond", "dead"}
  /\ {server.client, child.client, mime, swu} \subseteq Clients \cup {None}
  /\ server.status \in {"none", "page", "refused", "failed", "done"}
  /\ port \subseteq {"server", "child"} /\ ("server" \in port <=> server.pc # "dead")
  /\ child.pc \in {"none", "running", "writing", "rebooted", "ended"}
  /\ child.written \in 0..Len(Variables) /\ child.exit \in {"none", "error", "ok"}
  /\ "child" \in port <=> Alive
  /\ init \in {"idle", "term", "start"} /\ {stop, rebooting} \subseteq BOOLEAN
  /\ interrupted \subseteq Clients

\* The file ota-apply reads stays the package of the client it was started for, until
\* it ends: whatever restarts of the server fall into it, no other upload replaces the
\* file under it. (No lock says so: an ota-apply that outlives its server keeps the next
\* one from listening.)
AppliesOwnUpload == child.pc = "running" => swu = child.client

\* A client is told "done" only when its own ota-apply has written all four variables and
\* called reboot. One that is told "failed" knows that nothing more is written, unless a
\* signal took the server out of its wait: its ota-apply is over (it may have failed after
\* active_slot, and the next boot still take its slot). For any other answer none was started.
AnswerTellsOutcome ==
  \A c \in Clients :
    /\ answer[c] = "done" => outcome[c] = "applied"
    /\ answer[c] = "failed" /\ c \notin interrupted => ~(Alive /\ child.client = c)
    /\ answer[c] \in {"refused", "page"} => outcome[c] = "none"

\* Every client that is queued is answered or disconnected in the end, whatever clients
\* leave and whenever the server dies or is restarted: also the clients left in the
\* queue of a socket that only ota-apply still holds.
EveryClientEnds == \A c \in Clients : conn[c] = "queued" ~> conn[c] = "ended"
=============================================================================
