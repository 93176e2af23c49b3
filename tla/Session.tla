------------------------------ MODULE Session -------------------------------
(***************************************************************************)
(* One RobotSession (session.go): the MQTT bridge, the WebSocket client    *)
(* and the registration of the webhook, started together and stopped one   *)
(* after the other, over a robot that may go down and come back.  The      *)
(* robot's data comes over the WebSocket or the webhook, and whether it is *)
(* fresh decides what the bridge tells the platform.                       *)
(***************************************************************************)
EXTENDS MqttBridge, RobotWS, WebhookRegistration

vars == <<shared, mqttVars, wsVars, regVars>>

Init == InitShared /\ InitMqtt /\ InitWS /\ InitRegistration
-----------------------------------------------------------------------------
(* Start launches everything; Stop may come before any of it has run. *)
Start ==
  /\ stop = Running /\ connector = "off"
  /\ StartMqtt /\ StartWS /\ StartRegistration
  /\ UNCHANGED shared

Advance(from) ==
  /\ stop = from
  /\ stop' = from + 1
  /\ UNCHANGED <<world, robotUp, restarts, fresh, regVars>>

StopSession ==
  /\ connector # "off"
  /\ Advance(Running)
  /\ UNCHANGED <<mqttVars, wsVars>>

StopBridge       == Advance(SessionStopped) /\ UNCHANGED <<mqttVars, wsVars>>
StopOffline      == Advance(BridgeStopped) /\ PublishOffline /\ UNCHANGED wsVars
StopClient       == Advance(OfflinePublished) /\ Disconnect /\ UNCHANGED wsVars
StopSocket       == Advance(Disconnected) /\ StopWS /\ UNCHANGED mqttVars
StopGoesOn       == StopBridge \/ StopOffline \/ StopClient \/ StopSocket
-----------------------------------------------------------------------------
(* The robot (external). *)
RobotDown ==
  /\ robotUp /\ restarts < world.restarts
  /\ robotUp' = FALSE /\ restarts' = restarts + 1
  /\ DropWS /\ ForgetWebhook
  /\ UNCHANGED <<world, stop, fresh, mqttVars, wsLoop, dialing, register, interval, keepAlive,
                 activate, attempt, late>>

RobotBack ==
  /\ ~robotUp
  /\ robotUp' = TRUE
  /\ UNCHANGED <<world, stop, restarts, fresh, mqttVars, wsVars, regVars>>

(* What brings data, once a second. *)
Reporting == registered /\ Answers

WebhookReport ==
  /\ Reporting /\ ~fresh
  /\ fresh' = TRUE
  /\ UNCHANGED <<world, stop, robotUp, restarts, mqttVars, wsVars, regVars>>

DataAges ==
  /\ fresh /\ ~Reporting /\ ~Streaming
  /\ fresh' = FALSE
  /\ UNCHANGED <<world, stop, robotUp, restarts, mqttVars, wsVars, regVars>>
-----------------------------------------------------------------------------
ConnectionStep(step) ==
  "connection" \in world.parts /\ step /\ UNCHANGED <<shared, wsVars, regVars>>
StateStep(step) ==
  "state" \in world.parts /\ step /\ UNCHANGED <<shared, wsVars, regVars>>
SocketStep(step) ==
  /\ "socket" \in world.parts /\ step
  /\ UNCHANGED <<world, stop, robotUp, restarts, mqttVars, regVars>>
RegistrationStep(step) ==
  "registration" \in world.parts /\ step /\ UNCHANGED <<shared, mqttVars, wsVars>>

Next ==
  \/ Start \/ StopSession \/ StopGoesOn
  \/ RobotDown \/ RobotBack \/ WebhookReport \/ DataAges
  \/ ConnectionStep(ConnectorStep \/ BrokerStep \/ Break \/ CallbackStep \/ ConnectionLoopStep)
  \/ StateStep(StateLoopStep \/ Change)
  \/ SocketStep(LoopStep \/ ReadMessage)
  \/ RegistrationStep(RegisterStep \/ KeepAliveStep \/ ActivateStep)

Spec == Init /\ [][Next]_vars

(* Goroutines that can go on do, Stop too once it began; the broker and    *)
(* the robot's reports get through; it need not stream poses to a client   *)
(* that is stopped.  Nothing is said of starting, stopping, going down or  *)
(* coming back.                                                            *)
Fairness ==
  /\ WF_vars(StopGoesOn)
  /\ WF_vars(WebhookReport \/ DataAges)
  /\ WF_vars(ConnectionStep(ConnectorStep))
  /\ WF_vars(ConnectionStep(BrokerStep))
  /\ WF_vars(ConnectionStep(CallbackStep))
  /\ WF_vars(ConnectionStep(ConnectionLoopStep))
  /\ WF_vars(StateStep(StateLoopStep))
  /\ WF_vars(SocketStep(LoopStep))
  /\ WF_vars(stop # Stopped /\ SocketStep(ReadMessage))
  /\ WF_vars(RegistrationStep(RegisterStep))
  /\ WF_vars(RegistrationStep(KeepAliveStep))

FairSpec == Spec /\ Fairness
-----------------------------------------------------------------------------
TypeOK ==
  /\ world \in Worlds /\ stop \in Running .. Stopped
  /\ robotUp \in BOOLEAN /\ fresh \in BOOLEAN /\ restarts \in 0 .. world.restarts
  /\ TypeOKMqtt /\ TypeOKWS /\ TypeOKRegistration

(* The platform is told ONLINE, and its orders get through, once the       *)
(* broker is connected and data comes, by the WebSocket or the webhook:    *)
(* also after the connection broke and with the will, the callbacks and    *)
(* the loop all writing the topic.                                         *)
OnlineShown ==
  (Linked /\ connector = "done" /\ world.ordered /\ (Reporting \/ Streaming))
    ~> ((retained = "ONLINE" /\ subscribed) \/ ~Linked \/ ~(Reporting \/ Streaming))

(* The platform is told CONNECTIONBROKEN of a robot that is silent, though *)
(* the bridge itself is well connected.                                    *)
SilenceShown ==
  (Linked /\ connector = "done" /\ ~Reporting /\ ~Streaming)
    ~> (retained = "CONNECTIONBROKEN" \/ ~Linked \/ Reporting \/ Streaming)
=============================================================================
