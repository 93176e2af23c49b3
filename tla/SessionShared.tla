--------------------------- MODULE SessionShared ----------------------------
(***************************************************************************)
(* What the parts of one RobotSession (session.go) share: the channels     *)
(* Stop closes, the freshness of the robot's data, and the robot itself.   *)
(* MqttBridge, RobotWS and WebhookRegistration are the parts, and Session  *)
(* puts them together.                                                     *)
(*                                                                         *)
(* Stop closes stopCh of the session, then stopCh of the bridge, publishes *)
(* OFFLINE, disconnects the MQTT client and stops the WebSocket client, so *)
(* how far it is says which channels are closed.                           *)
(***************************************************************************)
EXTENDS Naturals

CONSTANTS
  Worlds,     \* the environments considered
  MaxBreaks   \* how often the connection to the broker breaks at most

(* atom, fastapi, broker: the robot's HTTP API, its WebSocket and the      *)
(* broker can be reached.  disabled: fastapiWSURL turns the WebSocket      *)
(* client off.  ordered: the callbacks of the MQTT client, goroutines of   *)
(* their own, are done before the connection changes again.  restarts and  *)
(* breaks: how often the robot goes down, the broker's connection breaks.  *)
(* known: the robot still reports to this webhook from an earlier session. *)
(* parts: those whose goroutines get to run.                               *)
Parts == {"connection", "state", "socket", "registration"}
ASSUME SessionAssumption ==
  /\ MaxBreaks \in Nat
  /\ \A w \in Worlds :
       w \in [atom : BOOLEAN, fastapi : BOOLEAN, broker : BOOLEAN, disabled : BOOLEAN,
              ordered : BOOLEAN, restarts : Nat, breaks : 0 .. MaxBreaks, known : BOOLEAN,
              parts : SUBSET Parts]

VARIABLES
  world,     \* the environment
  stop,      \* how far Stop is
  robotUp,   \* the robot is running
  restarts,  \* how often it went down
  fresh      \* IsDataFresh: LastUpdate of RobotState is at most 10 s old

shared == <<world, stop, robotUp, restarts, fresh>>

Running == 0
SessionStopped == 1
BridgeStopped == 2
OfflinePublished == 3
Disconnected == 4
Stopped == 5

InitShared ==
  /\ world \in Worlds
  /\ stop = Running
  /\ robotUp = TRUE
  /\ restarts = 0
  /\ fresh = FALSE
=============================================================================
