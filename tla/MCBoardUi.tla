----------------------------- MODULE MCBoardUi -----------------------------
(***************************************************************************)
(* The parts of the board that users see, for TLC. They do not share       *)
(* state: a behaviour moves one of them, its focus, so that one run checks *)
(* them all without multiplying their states. Of the sensors, one focus is *)
(* on the drivers, with every frame the chip may make, and one on what is  *)
(* stored as time goes by, where one frame is enough.                      *)
(***************************************************************************)
EXTENDS SensorLog, WebServer, Dashboard

VARIABLE focus
uiVars == <<focus, sensorVars, webVars, panelVars>>

UiInit ==
  /\ focus \in {"drivers", "sensors", "web", "panel"}
  /\ SensorInit /\ WebInit /\ PanelInit
  /\ focus \notin {"drivers", "sensors"} => kind = "ap3216c"

InDrivers == focus = "drivers"
InSensors == focus = "sensors"
InWeb     == focus = "web"
InPanel   == focus = "panel"
OneFrame  == Len(frames') <= 1  \* bound, of the sensors
OneTime   == clock' = clock /\ page' = page  \* bound, of the drivers: no clock, no query

DriversMove == InDrivers /\ SensorNext /\ OneTime /\ UNCHANGED <<focus, webVars, panelVars>>
SensorsMove == InSensors /\ SensorNext /\ OneFrame /\ UNCHANGED <<focus, webVars, panelVars>>
WebMoves    == InWeb /\ WebNext /\ UNCHANGED <<focus, sensorVars, panelVars>>
PanelMoves  == InPanel /\ PanelNext /\ UNCHANGED <<focus, sensorVars, webVars>>

UiNext == DriversMove \/ SensorsMove \/ WebMoves \/ PanelMoves

\* SensorFairness, WebFairness and PanelFairness, each of the part that moves. (What is said of
\* the drivers needs no fairness.)
UiSpec ==
  /\ UiInit /\ [][UiNext]_uiVars
  /\ WF_sensorVars(InSensors /\ Convert /\ OneFrame) /\ WF_sensorVars(InSensors /\ ConversionOver)
  /\ WF_sensorVars(InSensors /\ Probe) /\ WF_sensorVars(InSensors /\ \E r \in Readers : ReadRegister(r))
  /\ SF_sensorVars(InSensors /\ ReadsDevice) /\ WF_sensorVars(InSensors /\ LoggerStarts)
  /\ WF_sensorVars(InSensors /\ LoggerStep) /\ WF_sensorVars(InSensors /\ QueryStep)
  /\ WF_sensorVars(InSensors /\ Tick)
  /\ WF_webVars(InWeb /\ ServerStep) /\ WF_webVars(InWeb /\ ApplyStep)
  /\ WF_webVars(InWeb /\ (Kill \/ Start)) /\ WF_webVars(InWeb /\ Reboot)
  /\ WF_panelVars(InPanel /\ Finishes("pull")) /\ WF_panelVars(InPanel /\ Finishes("tool"))
  /\ WF_panelVars(InPanel /\ OnStdout)

UiTypeOK == SensorTypeOK /\ WebTypeOK /\ PanelTypeOK
=============================================================================
