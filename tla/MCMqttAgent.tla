---------------------------- MODULE MCMqttAgent ----------------------------
(***************************************************************************)
(* Instances of MqttAgent for TLC: the LAN.                                *)
(***************************************************************************)
EXTENDS MqttAgent

\* A host that is scanned before the broker may have the port open.
Lan == <<"decoy", "broker">>
OnlyBroker == <<"broker">>
=============================================================================
