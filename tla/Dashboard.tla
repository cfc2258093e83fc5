----------------------------- MODULE Dashboard -----------------------------
(***************************************************************************)
(* The dashboard's two commands: the upgrade of the OTA page (ota-agent    *)
(* --pull-latest) and the three of the FAILOVER page (ota-failover-test).  *)
(*                                                                         *)
(* One thread runs the handlers, each to its end; the dialog that confirms *)
(* a command runs the event loop inside its handler, so that timers and    *)
(* the signals of the processes are handled while it is open. The programs *)
(* run beside it. What a page says is a message: "none", "busy", "ok",     *)
(* "failed", "no start".                                                   *)
(***************************************************************************)
EXTENDS Naturals, Sequences

CONSTANTS
  FullBar,   \* 100 percent
  MaxLines,  \* bound: progress lines of one upgrade
  MaxRuns    \* bound: commands confirmed

ASSUME PanelAssumption == FullBar \in Nat /\ MaxRuns \in Nat /\ MaxLines \in Nat

VARIABLES
  screen,  \* stack_->currentIndex(): "home", "ota", "failover"
  dialog,  \* the command an open dialog asks about, or "none"
  proc,    \* of each command: "idle", "running", or "ended" (Qt has not noticed yet)
  exit,    \* of each command: how the process ended
  enabled, \* of each command: its buttons
  msg,     \* otaPullMsg_, failoverMsg_
  detail,  \* failoverDetail_: the message it shows, or "unavailable"
  pipe,    \* progress lines nobody has read
  mark,    \* otaProgressHighWater_
  bar,     \* otaProgressBar_
  lines, runs, \* bounds
  last     \* history: of each command, how the last attempt ended

Commands == {"pull", "tool"}
progress == <<pipe, mark, bar, lines>>
panelVars == <<screen, dialog, proc, exit, enabled, msg, detail, progress, runs, last>>

PanelInit ==
  /\ screen = "home" /\ dialog = "none"
  /\ proc = [c \in Commands |-> "idle"] /\ exit = [c \in Commands |-> "none"]
  /\ enabled = [c \in Commands |-> TRUE] /\ msg = [c \in Commands |-> "none"]
  /\ detail = "unavailable" /\ pipe = <<>> /\ mark = 0 /\ bar = 0
  /\ lines = 0 /\ runs = 0 /\ last = [c \in Commands |-> "none"]

\* refreshFailoverLabels, with the screen, the message and the process it finds: only on
\* its page, and not while a command runs. "status" may not answer in time.
Refresh(on, text, state) ==
  IF on # "failover" \/ state # "idle" THEN UNCHANGED detail
  ELSE detail' \in {text, "unavailable"}

-----------------------------------------------------------------------------
(* Pages *)

\* Faulty variant: the labels are refreshed before the page is shown.
RefreshesFirst(s) ==
  /\ dialog = "none" /\ screen = "home"
  /\ screen' = s /\ Refresh(screen, msg["tool"], proc["tool"])
  /\ UNCHANGED <<dialog, proc, exit, enabled, msg, progress, runs, last>>

\* openOta, openFailover
OpenPage(s) ==
  /\ dialog = "none" /\ screen = "home"
  /\ screen' = s /\ Refresh(s, msg["tool"], proc["tool"])
  /\ UNCHANGED <<dialog, proc, exit, enabled, msg, progress, runs, last>>

\* backHome
BackHome ==
  /\ dialog = "none" /\ screen' = "home"
  /\ UNCHANGED <<dialog, proc, exit, enabled, msg, detail, progress, runs, last>>

-----------------------------------------------------------------------------
(* Commands *)

PageOf(c) == IF c = "pull" THEN "ota" ELSE "failover"

\* onOtaPullLatest asks only when nothing runs; onFailoverArm, onFailoverSoft and
\* onFailoverSoftUndo ask first.
Press(c) ==
  /\ dialog = "none" /\ screen = PageOf(c) /\ enabled[c]
  /\ IF c = "pull" /\ proc[c] # "idle" THEN msg' = [msg EXCEPT ![c] = "busy"] /\ UNCHANGED dialog
     ELSE dialog' = c /\ UNCHANGED msg
  /\ UNCHANGED <<screen, proc, exit, enabled, detail, progress, runs, last>>

AnswerNo ==
  /\ dialog # "none" /\ dialog' = "none"
  /\ UNCHANGED <<screen, proc, exit, enabled, msg, detail, progress, runs, last>>

\* The labels of a new upgrade
ResetBar(c) ==
  IF c = "pull" THEN mark' = 0 /\ bar' = 0 /\ lines' = 0 /\ UNCHANGED pipe
  ELSE UNCHANGED progress

\* The end of onOtaPullLatest, and runFailoverCmd: a command that runs is waited for; else
\* the process is started. waitForStarted gives up when exec fails, and also when it
\* takes more than 3 s: the process runs then, though its start was reported as failed.
AnswerYes ==
  /\ dialog # "none" /\ dialog' = "none" /\ runs < MaxRuns /\ runs' = runs + 1
  /\ LET c == dialog IN
     \/ /\ proc[c] # "idle"
        /\ msg' = [msg EXCEPT ![c] = "busy"] /\ UNCHANGED <<proc, enabled, last, detail, progress>>
     \/ /\ proc[c] = "idle" /\ ResetBar(c)
        /\ \/ /\ proc' = [proc EXCEPT ![c] = "running"] /\ msg' = [msg EXCEPT ![c] = "busy"]
              /\ enabled' = [enabled EXCEPT ![c] = FALSE] /\ UNCHANGED last
              /\ Refresh(screen, "busy", proc["tool"])
           \/ \E began \in {"idle", "running"} :
              /\ proc' = [proc EXCEPT ![c] = began] /\ msg' = [msg EXCEPT ![c] = "no start"]
              /\ enabled' = [enabled EXCEPT ![c] = TRUE]
              /\ last' = [last EXCEPT ![c] = "no start"]
              /\ Refresh(screen, msg'["tool"], proc'["tool"])
  /\ UNCHANGED <<screen, exit>>

-----------------------------------------------------------------------------
(* The programs *)

\* ota-agent prints its progress; that the numbers grow is not for the dashboard to trust.
Prints ==
  /\ proc["pull"] = "running" /\ lines < MaxLines /\ lines' = lines + 1
  /\ \E n \in 0..FullBar : pipe' = Append(pipe, n)
  /\ UNCHANGED <<screen, dialog, proc, exit, enabled, msg, detail, mark, bar, runs, last>>

Ends(c) ==
  /\ proc[c] = "running" /\ proc' = [proc EXCEPT ![c] = "ended"]
  /\ \E how \in {"ok", "failed"} : exit' = [exit EXCEPT ![c] = how]
  /\ UNCHANGED <<screen, dialog, enabled, msg, detail, progress, runs, last>>

\* onOtaPullStdout and applyOtaProgressLine, a line at a time: the bar never goes back.
OnStdout ==
  /\ pipe # <<>> /\ pipe' = Tail(pipe)
  /\ mark' = IF Head(pipe) < mark THEN mark ELSE Head(pipe)
  /\ bar' = mark' /\ msg' = [msg EXCEPT !["pull"] = "busy"]
  /\ UNCHANGED <<screen, dialog, proc, exit, enabled, detail, lines, runs, last>>

\* onOtaPullFinished: an upgrade that has ended well fills the bar.
OnOtaPullFinished ==
  /\ pipe = <<>> /\ bar' = IF exit["pull"] = "ok" THEN FullBar ELSE bar
  /\ UNCHANGED detail

\* onFailoverCmdFinished
OnFailoverCmdFinished == Refresh(screen, exit["tool"], "idle") /\ UNCHANGED bar

\* Faulty variant: the buttons stay off after a failure.
EnablesOnSuccess(c) ==
  /\ proc[c] = "ended"
  /\ proc' = [proc EXCEPT ![c] = "idle"] /\ enabled' = [enabled EXCEPT ![c] = exit[c] = "ok"]
  /\ msg' = [msg EXCEPT ![c] = exit[c]] /\ last' = [last EXCEPT ![c] = exit[c]]
  /\ IF c = "pull" THEN OnOtaPullFinished ELSE OnFailoverCmdFinished
  /\ UNCHANGED <<screen, dialog, exit, pipe, mark, lines, runs>>

\* Until Qt calls the handler the state of the process is running; what the process has
\* printed was delivered before.
OnFinished(c) ==
  /\ proc[c] = "ended"
  /\ proc' = [proc EXCEPT ![c] = "idle"] /\ enabled' = [enabled EXCEPT ![c] = TRUE]
  /\ msg' = [msg EXCEPT ![c] = exit[c]] /\ last' = [last EXCEPT ![c] = exit[c]]
  /\ IF c = "pull" THEN OnOtaPullFinished ELSE OnFailoverCmdFinished
  /\ UNCHANGED <<screen, dialog, exit, pipe, mark, lines, runs>>

PanelNext ==
  \/ \E s \in {"ota", "failover"} : OpenPage(s)
  \/ BackHome \/ AnswerNo \/ AnswerYes \/ Prints \/ OnStdout
  \/ \E c \in Commands : Press(c) \/ Ends(c) \/ OnFinished(c)

Finishes(c) == Ends(c) \/ OnFinished(c)

\* The programs end (ota-agent's own waits are bounded), and the event loop runs.
PanelFairness ==
  /\ WF_panelVars(Finishes("pull")) /\ WF_panelVars(Finishes("tool")) /\ WF_panelVars(OnStdout)

PanelSpec == PanelInit /\ [][PanelNext]_panelVars /\ PanelFairness

-----------------------------------------------------------------------------
(* Properties *)

PanelTypeOK ==
  /\ screen \in {"home", "ota", "failover"} /\ dialog \in Commands \cup {"none"}
  /\ proc \in [Commands -> {"idle", "running", "ended"}] /\ enabled \in [Commands -> BOOLEAN]
  /\ mark <= FullBar /\ bar \in {mark, FullBar}

\* Whoever looks at the FAILOVER page when no command runs sees how the last one ended
\* (or that the state of the board could not be read), whatever pages were opened and
\* whatever ended while they were; and with nothing running no message still says that a
\* command is busy.
ShowsLastResult ==
  \A c \in Commands : proc[c] = "idle" =>
    /\ msg[c] = last[c]
    /\ c = "tool" /\ screen = "failover" => detail \in {last[c], "unavailable"}

\* Buttons that a command has switched off come back, however it ends.
ButtonsComeBack == \A c \in Commands : ~enabled[c] ~> enabled[c]
=============================================================================
