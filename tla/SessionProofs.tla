--------------------------- MODULE SessionProofs ----------------------------
(***************************************************************************)
(* Theorems about Session for every set of environments, any number of     *)
(* restarts of the robot and any number of breaks of the connection.       *)
(***************************************************************************)
EXTENDS Session, TLAPS

USE SessionAssumption
-----------------------------------------------------------------------------
(* The steps, by the part of the session they move. *)
MqttStep == ConnectorStep \/ BrokerStep \/ Break \/ CallbackStep \/ ConnectionLoopStep
WSStep == LoopStep \/ ReadMessage
RegStep == RegisterStep \/ KeepAliveStep \/ ActivateStep

(* Each step belongs to one part, and leaves the rest alone. *)
LEMMA NextParts ==
  ASSUME Next
  PROVE  \/ Start \/ StopSession \/ StopBridge \/ StopOffline \/ StopClient \/ StopSocket
         \/ RobotDown
         \/ /\ RobotBack \/ WebhookReport \/ DataAges
            /\ UNCHANGED <<world, stop, restarts, mqttVars, wsVars, regVars>>
         \/ MqttStep /\ UNCHANGED <<shared, wsVars, regVars>>
         \/ (StateLoopStep \/ Change) /\ UNCHANGED <<shared, wsVars, regVars>>
         \/ WSStep /\ UNCHANGED <<world, stop, robotUp, restarts, mqttVars, regVars>>
         \/ RegStep /\ UNCHANGED <<shared, mqttVars, wsVars>>
  BY DEF Next, StopGoesOn, ConnectionStep, StateStep, SocketStep, RegistrationStep,
         RobotBack, WebhookReport, DataAges, MqttStep, ConnectorStep, WSStep, RegStep
-----------------------------------------------------------------------------
(* The types of the connection need that a ConnectionLost callback runs    *)
(* only for a connection that broke.                                       *)
LostBroke == lost <= breaks
MqttTypes == TypeOKMqtt /\ LostBroke
SharedTypes ==
  /\ world \in Worlds /\ stop \in Running .. Stopped
  /\ robotUp \in BOOLEAN /\ fresh \in BOOLEAN /\ restarts \in 0 .. world.restarts
Types == SharedTypes /\ MqttTypes /\ TypeOKWS /\ TypeOKRegistration

LEMMA WorldTypes ==
  ASSUME world \in Worlds
  PROVE  world.breaks \in 0 .. MaxBreaks /\ world.restarts \in Nat /\ world.known \in BOOLEAN
<1>1. world \in [atom : BOOLEAN, fastapi : BOOLEAN, broker : BOOLEAN, disabled : BOOLEAN,
               ordered : BOOLEAN, restarts : Nat, breaks : 0 .. MaxBreaks, known : BOOLEAN,
               parts : SUBSET Parts]
  BY Zenon
<1> QED BY <1>1

(* A publish leaves the topic and what the client kept within their types. *)
LEMMA PublishTypes ==
  ASSUME TypeOKMqtt, NEW state \in ConnStates, PublishConnection(state)
  PROVE  stored' \subseteq ConnStates /\ retained' \in ConnStates \cup {"none"}
  BY DEF TypeOKMqtt, PublishConnection

LEMMA MqttStepTypes ==
  ASSUME Types, MqttStep
  PROVE  MqttTypes'
<1> USE DEF MqttTypes, TypeOKMqtt, LostBroke, Connections, ConnStates, Loops, connection,
            stateVars, histories
<1> USE DEF Types, SharedTypes
<1>1. CASE MakeClient
  BY <1>1 DEF MakeClient
<1>0. CASE ConnectClient
  BY <1>0 DEF ConnectClient
<1>2. CASE StartPublishLoops
  BY <1>2 DEF StartPublishLoops
<1>3. CASE Accepted
  BY <1>3 DEF Accepted
<1>4. CASE PublishWill
  BY <1>4 DEF PublishWill
<1>5. ASSUME NEW state \in ConnStates, DeliverStored(state) PROVE MqttTypes'
  BY <1>5 DEF DeliverStored
<1>6. CASE Break
  <2>1. world.breaks \in 0 .. MaxBreaks
    BY WorldTypes
  <2>2. /\ breaks' \in 0 .. MaxBreaks /\ lost' \in 0 .. MaxBreaks /\ lost' <= breaks'
        /\ client' = "reconnecting" /\ willDue' = TRUE /\ subscribed' = FALSE
    BY <1>6, <2>1 DEF Break
  <2>3. UNCHANGED <<connector, stored, retained, connState, onConnect, connLoop, connOut,
                    stateLoop, token, held, seen, raced, tooLate>>
    BY <1>6 DEF Break
  <2> QED BY <2>2, <2>3
<1>7. CASE ConnectionLost
  BY <1>7 DEF ConnectionLost
<1>8. ASSUME NEW c \in Connections, SetOnline(c) PROVE MqttTypes'
  BY <1>8 DEF SetOnline
<1>9. ASSUME NEW c \in Connections, PublishOnline(c) PROVE MqttTypes'
  <2>1. stored' \subseteq ConnStates /\ retained' \in ConnStates \cup {"none"}
    BY <1>9, PublishTypes DEF PublishOnline
  <2> QED BY <1>9, <2>1 DEF PublishOnline
<1>10. ASSUME NEW c \in Connections, Subscribe(c) PROVE MqttTypes'
  BY <1>10 DEF Subscribe
<1>11. CASE ConnectionTick
  BY <1>11 DEF ConnectionTick, Shown
<1>12. CASE ConnectionPublish
  <2>1. stored' \subseteq ConnStates /\ retained' \in ConnStates \cup {"none"}
    BY <1>12, PublishTypes DEF ConnectionPublish
  <2> QED BY <1>12, <2>1 DEF ConnectionPublish
<1>13. CASE ConnectionLoopStops
  BY <1>13 DEF ConnectionLoopStops
<1> QED
  BY <1>0, <1>1, <1>2, <1>3, <1>4, <1>5, <1>6, <1>7, <1>8, <1>9, <1>10, <1>11, <1>12, <1>13
     DEF MqttStep, ConnectorStep, BrokerStep, CallbackStep, ConnectionLoopStep

LEMMA StateStepTypes ==
  ASSUME MqttTypes, StateLoopStep \/ Change
  PROVE  MqttTypes'
<1> USE DEF MqttTypes, TypeOKMqtt, LostBroke, Loops, connection, histories
<1>1. CASE StateSnapshot
  BY <1>1 DEF StateSnapshot
<1>2. CASE StatePublish
  BY <1>2 DEF StatePublish
<1>3. CASE StateLoopStops
  BY <1>3 DEF StateLoopStops
<1>4. CASE Change
  BY <1>4 DEF Change
<1> QED BY <1>1, <1>2, <1>3, <1>4 DEF StateLoopStep

LEMMA WSStepTypes ==
  ASSUME TypeOKWS, fresh \in BOOLEAN, WSStep
  PROVE  TypeOKWS' /\ fresh' \in BOOLEAN
  BY DEF TypeOKWS, WSStep, LoopStep, LoopTop, Connect, EnableTrackedPose, ReadTop,
         ReadError, RetryDelay, ReadMessage

(* A command is counted once, and only after the stop. *)
LEMMA SentCounts ==
  ASSUME late \in [Goroutines -> Nat], NEW g \in Goroutines, Sent(g)
  PROVE  /\ late' \in [Goroutines -> Nat]
         /\ late'[g] = IF stop = Running THEN late[g] ELSE late[g] + 1
         /\ \A h \in Goroutines \ {g} : late'[h] = late[h]
  BY DEF Sent

LEMMA RegStepTypes ==
  ASSUME TypeOKRegistration, RegStep
  PROVE  TypeOKRegistration'
<1> USE DEF TypeOKRegistration, Sleeps
<1> {"register", "keepAlive", "activate"} = Goroutines
  BY DEF Goroutines
<1>1. CASE RegisterSleeps
  <2>1. interval' \in {interval, NextInterval(interval)}
    BY <1>1 DEF RegisterSleeps
  <2>2. NextInterval(interval) \in {10, 20, MaxRetry}
    <3>1. interval \in {5, 10, 20, 30}
      BY DEF MaxRetry
    <3> HIDE DEF TypeOKRegistration
    <3> QED BY <3>1 DEF NextInterval, MaxRetry
  <2> QED BY <1>1, <2>1, <2>2 DEF RegisterSleeps
<1>2. CASE Register
  BY <1>2, SentCounts DEF Register
<1>3. CASE KeepAliveTicks
  BY <1>3 DEF KeepAliveTicks
<1>4. CASE Reregister
  <2>1. registered' \in BOOLEAN
    BY <1>4 DEF Reregister
  <2> QED BY <1>4, <2>1, SentCounts DEF Reregister
<1>5. CASE ActivateSleeps
  <2>1. UNCHANGED <<register, interval, keepAlive, registered, late>>
    BY <1>5 DEF ActivateSleeps
  <2>2. CASE activate' = "ended" /\ UNCHANGED attempt
    BY <2>1, <2>2
  <2>3. CASE /\ activate' = After(activate)
             /\ attempt' = IF activate \in {"set pause", "mode pause"} /\ attempt < 3
                           THEN attempt + 1 ELSE 1
    <3>1. activate' \in Sleeps \cup {"off", "read map", "set", "mode", "ended"}
      BY <1>5, <2>3 DEF ActivateSleeps, After
    <3>2. attempt' \in 1 .. 3
      <4>1. attempt \in 1 .. 3
        OBVIOUS
      <4>2. attempt' = 1 \/ (attempt < 3 /\ attempt' = attempt + 1)
        BY ONLY <2>3
      <4> QED BY ONLY <4>1, <4>2
    <3> QED BY <2>1, <3>1, <3>2
  <2> QED BY <1>5, <2>2, <2>3 DEF ActivateSleeps
<1>6. CASE ReadLastmap
  BY <1>6 DEF ReadLastmap
<1>7. CASE Command
  BY <1>7, SentCounts DEF Command
<1> QED
  BY <1>1, <1>2, <1>3, <1>4, <1>5, <1>6, <1>7
     DEF RegStep, RegisterStep, KeepAliveStep, ActivateStep

(* Every step keeps every variable in its type. *)
LEMMA NextTypes == Types /\ [Next]_vars => Types'
<1> SUFFICES ASSUME Types, [Next]_vars PROVE Types'
  OBVIOUS
<1> USE DEF Types, SharedTypes, Advance
<1>1. ASSUME UNCHANGED mqttVars PROVE MqttTypes'
  BY <1>1 DEF mqttVars, MqttTypes, TypeOKMqtt, LostBroke
<1>2. ASSUME UNCHANGED wsVars PROVE TypeOKWS'
  BY <1>2 DEF wsVars, TypeOKWS
<1>3. ASSUME UNCHANGED regVars PROVE TypeOKRegistration'
  BY <1>3 DEF regVars, TypeOKRegistration
<1>4. ASSUME UNCHANGED shared PROVE SharedTypes'
  BY <1>4 DEF shared
<1>5. ASSUME NEW from \in Running .. Disconnected, Advance(from)
      PROVE  SharedTypes' /\ TypeOKRegistration'
  <2>1. SharedTypes'
    BY <1>5 DEF Running, Disconnected, Stopped
  <2> QED BY <1>5, <1>3, <2>1
<1>6. CASE UNCHANGED vars
  BY <1>6, <1>1, <1>2, <1>3, <1>4 DEF vars
<1>7. CASE Start
  <2>1. MqttTypes'
    BY <1>7 DEF Start, StartMqtt, MqttTypes, TypeOKMqtt, LostBroke
  <2>2. TypeOKWS'
    BY <1>7 DEF Start, StartWS, TypeOKWS
  <2>3. TypeOKRegistration'
    BY <1>7 DEF Start, StartRegistration, TypeOKRegistration
  <2> QED BY <1>7, <1>4, <2>1, <2>2, <2>3 DEF Start
<1>8. CASE StopSession
  BY <1>8, <1>1, <1>2, <1>5 DEF StopSession, Running, Disconnected
<1>9. CASE StopBridge
  BY <1>9, <1>1, <1>2, <1>5 DEF StopBridge, Running, SessionStopped, Disconnected
<1>10. CASE StopOffline
  <2>1. "OFFLINE" \in ConnStates
    BY DEF ConnStates
  <2>2. stored' \subseteq ConnStates /\ retained' \in ConnStates \cup {"none"}
    BY <1>10, <2>1, PublishTypes DEF StopOffline, PublishOffline, MqttTypes
  <2>3. MqttTypes'
    BY <1>10, <2>2 DEF StopOffline, PublishOffline, MqttTypes, TypeOKMqtt, LostBroke,
                       connection, stateVars
  <2> QED BY <1>10, <1>2, <1>5, <2>3 DEF StopOffline, Running, BridgeStopped, Disconnected
<1>11. CASE StopClient
  <2>1. MqttTypes'
    BY <1>11 DEF StopClient, Disconnect, CloseClient, CallsItselfConnected, MqttTypes,
                 TypeOKMqtt, LostBroke, stateVars, histories
  <2> QED BY <1>11, <1>2, <1>5, <2>1 DEF StopClient, Running, OfflinePublished, Disconnected
<1>12. CASE StopSocket
  <2>1. TypeOKWS'
    BY <1>12 DEF StopSocket, StopWS, TypeOKWS
  <2> QED BY <1>12, <1>1, <1>5, <2>1 DEF StopSocket, Running, Disconnected
<1>13. CASE RobotDown
  <2>1. SharedTypes'
    <3>1. world.restarts \in Nat
      BY WorldTypes
    <3>2. restarts' \in 0 .. world.restarts
      BY <1>13, <3>1 DEF RobotDown
    <3> QED BY <1>13, <3>2 DEF RobotDown
  <2>2. TypeOKWS'
    BY <1>13 DEF RobotDown, DropWS, TypeOKWS
  <2>3. TypeOKRegistration'
    BY <1>13 DEF RobotDown, ForgetWebhook, TypeOKRegistration
  <2> QED BY <1>13, <1>1, <2>1, <2>2, <2>3 DEF RobotDown
<1>14. CASE /\ RobotBack \/ WebhookReport \/ DataAges
            /\ UNCHANGED <<world, stop, restarts, mqttVars, wsVars, regVars>>
  <2>1. SharedTypes'
    BY <1>14 DEF RobotBack, WebhookReport, DataAges
  <2> QED BY <1>14, <1>1, <1>2, <1>3, <2>1
<1>15. CASE MqttStep /\ UNCHANGED <<shared, wsVars, regVars>>
  BY <1>15, <1>2, <1>3, <1>4, MqttStepTypes
<1>16. CASE (StateLoopStep \/ Change) /\ UNCHANGED <<shared, wsVars, regVars>>
  BY <1>16, <1>2, <1>3, <1>4, StateStepTypes
<1>17. CASE WSStep /\ UNCHANGED <<world, stop, robotUp, restarts, mqttVars, regVars>>
  BY <1>17, <1>1, <1>3, WSStepTypes
<1>18. CASE RegStep /\ UNCHANGED <<shared, mqttVars, wsVars>>
  BY <1>18, <1>1, <1>2, <1>4, RegStepTypes
<1> QED
  BY <1>6, <1>7, <1>8, <1>9, <1>10, <1>11, <1>12, <1>13, <1>14, <1>15, <1>16, <1>17, <1>18,
     NextParts

LEMMA InitTypes == Init => Types
<1> SUFFICES ASSUME Init PROVE Types
  OBVIOUS
<1>1. SharedTypes
  <2>1. world \in Worlds /\ restarts = 0 /\ stop = 0 /\ robotUp = TRUE /\ fresh = FALSE
    BY DEF Init, InitShared, Running
  <2>2. world.restarts \in Nat
    BY <2>1, WorldTypes
  <2>3. restarts \in 0 .. world.restarts
    BY ONLY <2>1, <2>2
  <2>4. stop \in Running .. Stopped
    BY ONLY <2>1 DEF Running, Stopped
  <2> QED BY ONLY <2>1, <2>3, <2>4 DEF SharedTypes
<1>2. MqttTypes
  <2>1. onConnect \in [Connections -> {"idle", "online", "publish", "subscribe", "done"}]
    BY DEF Init, InitMqtt
  <2>2. breaks \in 0 .. MaxBreaks /\ lost \in 0 .. MaxBreaks /\ lost <= breaks
    BY DEF Init, InitMqtt
  <2> QED BY <2>1, <2>2 DEF Init, InitMqtt, MqttTypes, TypeOKMqtt, LostBroke, ConnStates, Loops
<1>3. TypeOKWS
  BY DEF Init, InitWS, TypeOKWS
<1>4. TypeOKRegistration
  BY WorldTypes DEF Init, InitShared, InitRegistration, TypeOKRegistration
<1> QED BY <1>1, <1>2, <1>3, <1>4 DEF Types

LEMMA SpecTypes == Spec => []Types
  BY InitTypes, NextTypes, PTL DEF Spec

(* The state of a session is well formed, in particular no more callbacks  *)
(* run than the connection broke (session.go:56-127).                      *)
THEOREM SessionTypes == Spec => []TypeOK
<1>1. Types => TypeOK
  BY DEF Types, SharedTypes, MqttTypes, TypeOK
<1> QED BY <1>1, SpecTypes, PTL
-----------------------------------------------------------------------------
(* A goroutine of the registration that sent a command after the stop has  *)
(* left the place it sent it from, and only a wait that sees the stop is   *)
(* left to it.                                                             *)
Late(g, place, places) ==
  late[g] = 0 \/ (late[g] = 1 /\ stop # Running /\ place \in places)
LateInv ==
  /\ Late("register", register, {"backoff", "ended"})
  /\ Late("keepAlive", keepAlive, {"wait", "ended"})
  /\ Late("activate", activate, {"wait", "settle", "set pause", "mode pause", "ended"})

LEMMA RegStepLate ==
  ASSUME Types, LateInv, RegStep, UNCHANGED shared
  PROVE  LateInv'
<1> USE DEF LateInv, Late, shared
<1>0. late \in [Goroutines -> Nat]
  BY DEF Types, TypeOKRegistration
<1>1. CASE RegisterSleeps
  BY <1>1 DEF RegisterSleeps, Slept
<1>2. CASE Register
  <2>1. "register" \in Goroutines /\ Goroutines \ {"register"} = {"keepAlive", "activate"}
    BY DEF Goroutines
  <2>2. /\ late'["register"] = IF stop = Running THEN late["register"] ELSE late["register"] + 1
        /\ late'["keepAlive"] = late["keepAlive"] /\ late'["activate"] = late["activate"]
    BY <1>0, <1>2, <2>1, SentCounts DEF Register
  <2>3. late["register"] = 0
    BY <1>2 DEF Register
  <2>4. late'["register"] = IF stop = Running THEN 0 ELSE 1
    BY ONLY <2>2, <2>3
  <2> QED BY <1>2, <2>2, <2>4 DEF Register
<1>3. CASE KeepAliveTicks
  BY <1>3 DEF KeepAliveTicks, Slept
<1>4. CASE Reregister
  <2>1. "keepAlive" \in Goroutines /\ Goroutines \ {"keepAlive"} = {"register", "activate"}
    BY DEF Goroutines
  <2>2. /\ late'["keepAlive"] = IF stop = Running THEN late["keepAlive"] ELSE late["keepAlive"] + 1
        /\ late'["register"] = late["register"] /\ late'["activate"] = late["activate"]
    BY <1>0, <1>4, <2>1, SentCounts DEF Reregister
  <2>3. late["keepAlive"] = 0
    BY <1>4 DEF Reregister
  <2>4. late'["keepAlive"] = IF stop = Running THEN 0 ELSE 1
    BY ONLY <2>2, <2>3
  <2> QED BY <1>4, <2>2, <2>4 DEF Reregister
<1>5. CASE ActivateSleeps
  BY <1>5 DEF ActivateSleeps, Slept
<1>6. CASE ReadLastmap
  BY <1>6 DEF ReadLastmap
<1>7. CASE Command
  <2>1. "activate" \in Goroutines /\ Goroutines \ {"activate"} = {"register", "keepAlive"}
    BY DEF Goroutines
  <2>2. /\ late'["activate"] = IF stop = Running THEN late["activate"] ELSE late["activate"] + 1
        /\ late'["register"] = late["register"] /\ late'["keepAlive"] = late["keepAlive"]
    BY <1>0, <1>7, <2>1, SentCounts DEF Command
  <2>3. late["activate"] = 0
    BY <1>7 DEF Command
  <2>4. late'["activate"] = IF stop = Running THEN 0 ELSE 1
    BY ONLY <2>2, <2>3
  <2> QED BY <1>7, <2>2, <2>4 DEF Command
<1> QED
  BY <1>1, <1>2, <1>3, <1>4, <1>5, <1>6, <1>7
     DEF RegStep, RegisterStep, KeepAliveStep, ActivateStep

LEMMA NextLate == Types /\ LateInv /\ [Next]_vars => LateInv'
<1> SUFFICES ASSUME Types, LateInv, [Next]_vars PROVE LateInv'
  OBVIOUS
<1>1. ASSUME UNCHANGED <<stop, register, keepAlive, activate, late>> PROVE LateInv'
  BY <1>1 DEF LateInv, Late
<1>2. ASSUME NEW from \in Nat, Advance(from) PROVE LateInv'
  <2>1. stop' # Running
    BY <1>2 DEF Advance, Running
  <2> QED BY <1>2, <2>1 DEF LateInv, Late, Advance, regVars
<1>3. CASE UNCHANGED vars
  BY <1>1, <1>3 DEF vars, shared, regVars
<1>4. CASE Start
  BY <1>4 DEF Start, StartRegistration, shared, LateInv, Late
<1>5. CASE StopSession
  BY <1>2, <1>5 DEF StopSession, Running
<1>6. CASE StopBridge
  BY <1>2, <1>6 DEF StopBridge, SessionStopped
<1>7. CASE StopOffline
  BY <1>2, <1>7 DEF StopOffline, BridgeStopped
<1>8. CASE StopClient
  BY <1>2, <1>8 DEF StopClient, OfflinePublished
<1>9. CASE StopSocket
  BY <1>2, <1>9 DEF StopSocket, Disconnected
<1>10. CASE RobotDown
  BY <1>1, <1>10 DEF RobotDown
<1>11. CASE UNCHANGED <<world, stop, restarts, mqttVars, wsVars, regVars>>
  BY <1>1, <1>11 DEF regVars
<1>12. CASE UNCHANGED <<shared, wsVars, regVars>>
  BY <1>1, <1>12 DEF regVars, shared
<1>13. CASE UNCHANGED <<world, stop, robotUp, restarts, mqttVars, regVars>>
  BY <1>1, <1>13 DEF regVars
<1>14. CASE RegStep /\ UNCHANGED <<shared, mqttVars, wsVars>>
  BY <1>14, RegStepLate
<1> QED
  BY <1>3, <1>4, <1>5, <1>6, <1>7, <1>8, <1>9, <1>10, <1>11, <1>12, <1>13, <1>14, NextParts

(* After Stop each goroutine of the registration sends the robot one       *)
(* command at most, the one it was about to send (register.go:21-259).     *)
THEOREM LateCommandsAlways == Spec => []LateCommands
<1>1. Init => LateInv
  BY DEF Init, InitShared, InitRegistration, LateInv, Late, Goroutines
<1>2. LateInv => LateCommands
  <2> SUFFICES ASSUME LateInv, NEW g \in Goroutines PROVE late[g] <= 1
    BY DEF LateCommands
  <2>1. late[g] = 0 \/ late[g] = 1
    BY DEF LateInv, Late, Goroutines
  <2> QED BY <2>1
<1> QED BY <1>1, <1>2, SpecTypes, NextLate, PTL DEF Spec
-----------------------------------------------------------------------------
(* The loop of the WebSocket ends only for the stop, and dials after the   *)
(* stop, or still has a connection, only if it dialled during it.          *)
SocketInv ==
  /\ wsLoop = "ended" => stop = Stopped
  /\ stop = Stopped /\ (wsLoop = "dial" \/ conn = "open") => dialing

LEMMA NextSocket == Types /\ SocketInv /\ [Next]_vars => SocketInv'
<1> SUFFICES ASSUME Types, SocketInv, [Next]_vars PROVE SocketInv'
  OBVIOUS
<1>1. ASSUME UNCHANGED <<stop, wsVars>> PROVE SocketInv'
  BY <1>1 DEF SocketInv, wsVars
<1>2. ASSUME NEW from \in 0 .. 3, Advance(from), UNCHANGED wsVars PROVE SocketInv'
  BY <1>2 DEF SocketInv, Advance, wsVars, Stopped
<1>3. CASE UNCHANGED vars
  BY <1>1, <1>3 DEF vars, shared
<1>4. CASE Start
  BY <1>4 DEF Start, StartWS, shared, SocketInv, Running, Stopped
<1>5. CASE StopSession
  BY <1>2, <1>5 DEF StopSession, Running
<1>6. CASE StopBridge
  BY <1>2, <1>6 DEF StopBridge, SessionStopped
<1>7. CASE StopOffline
  BY <1>2, <1>7 DEF StopOffline, BridgeStopped
<1>8. CASE StopClient
  BY <1>2, <1>8 DEF StopClient, OfflinePublished
<1>9. CASE StopSocket
  <2>1. stop' = Stopped /\ conn' # "open" /\ wsLoop' = wsLoop /\ dialing' = (wsLoop = "dial")
    BY <1>9 DEF StopSocket, StopWS, Advance, Disconnected, Stopped
  <2> QED BY <2>1 DEF SocketInv
<1>10. CASE RobotDown
  BY <1>10 DEF RobotDown, DropWS, SocketInv
<1>11. CASE UNCHANGED <<world, stop, restarts, mqttVars, wsVars, regVars>>
  BY <1>1, <1>11
<1>12. CASE UNCHANGED <<shared, wsVars, regVars>>
  BY <1>1, <1>12 DEF shared
<1>13. CASE WSStep /\ UNCHANGED <<world, stop, robotUp, restarts, mqttVars, regVars>>
  BY <1>13 DEF SocketInv, WSStep, LoopStep, LoopTop, Connect, EnableTrackedPose, ReadTop,
               ReadError, RetryDelay, ReadMessage
<1>14. CASE UNCHANGED <<shared, mqttVars, wsVars>>
  BY <1>1, <1>14 DEF shared
<1> QED
  BY <1>3, <1>4, <1>5, <1>6, <1>7, <1>8, <1>9, <1>10, <1>11, <1>12, <1>13, <1>14, NextParts

(* Once the loop has ended after Stop the robot streams poses to nobody,   *)
(* unless a dial was under way during Stop (robot_ws.go:59-244).           *)
THEOREM SocketClosedAlways == Spec => []SocketClosed
<1>1. Init => SocketInv
  BY DEF Init, InitShared, InitWS, SocketInv, Running, Stopped
<1>2. SocketInv => SocketClosed
  BY DEF SocketInv, SocketClosed
<1> QED BY <1>1, <1>2, SpecTypes, NextSocket, PTL DEF Spec
-----------------------------------------------------------------------------
(* The client: nothing reaches the topic before it first connects, the     *)
(* will wipes an ONLINE when a connection breaks, and after Stop looked    *)
(* at the client only one that had not begun to connect may still do so.   *)
ClientInv ==
  /\ connector \in {"off", "new"} => client = "nil"
  /\ connector = "made" => client = "made"
  /\ client \in {"nil", "made", "connecting"} => retained = "none" /\ stored = {} /\ ~willDue
  /\ client = "reconnecting" => willDue \/ retained # "ONLINE"
  /\ client = "closed" => stop >= Disconnected
  /\ tooLate => stop >= Disconnected /\ CallsItselfConnected
  /\ StaysDisconnected

(* From the OFFLINE of Stop on, unless an ONLINE was under way just then,  *)
(* nothing that says ONLINE is on its way to the topic, or the will will   *)
(* replace what is there.                                                  *)
NothingOnline ==
  /\ connLoop # "publish" /\ stored \subseteq {"OFFLINE"}
  /\ \A c \in Connections : onConnect[c] \notin {"online", "publish"}
  /\ willDue \/ retained # "ONLINE"
OfflineInv == stop >= OfflinePublished /\ ~raced /\ ~tooLate => NothingOnline

BridgeInv == ClientInv /\ OfflineInv

LEMMA MqttStepBridge ==
  ASSUME Types, BridgeInv, MqttStep, UNCHANGED shared
  PROVE  BridgeInv'
<1> stop \in 0 .. 5
  BY DEF Types, SharedTypes, Running, Stopped
<1> tooLate \in BOOLEAN /\ raced \in BOOLEAN /\ willDue \in BOOLEAN
  BY DEF Types, MqttTypes, TypeOKMqtt
<1> onConnect \in [Connections -> {"idle", "online", "publish", "subscribe", "done"}]
  BY DEF Types, MqttTypes, TypeOKMqtt
<1> USE DEF BridgeInv, ClientInv, OfflineInv, NothingOnline, StaysDisconnected,
            CallsItselfConnected, shared, connection, stateVars, histories, Disconnected,
            OfflinePublished
<1>1. CASE MakeClient
  BY <1>1 DEF MakeClient
<1>0. CASE ConnectClient
  BY <1>0 DEF ConnectClient
<1>2. CASE StartPublishLoops
  BY <1>2 DEF StartPublishLoops
<1>3. CASE Accepted
  <2>1. ClientInv'
    BY <1>3 DEF Accepted
  <2>2. CASE stop >= Disconnected
    <3>1. tooLate
      BY <1>3, <2>2 DEF Accepted
    <3> QED BY <1>3, <2>1, <3>1 DEF Accepted
  <2>3. CASE stop = OfflinePublished
    BY <1>3, <2>1, <2>3 DEF Accepted
  <2>4. CASE stop < OfflinePublished
    BY <1>3, <2>1, <2>4 DEF Accepted
  <2> QED BY <2>2, <2>3, <2>4
<1>4. CASE PublishWill
  BY <1>4 DEF PublishWill
<1>5. ASSUME NEW state \in ConnStates, DeliverStored(state) PROVE BridgeInv'
  BY <1>5 DEF DeliverStored
<1>6. CASE Break
  BY <1>6 DEF Break
<1>7. CASE ConnectionLost
  BY <1>7 DEF ConnectionLost
<1>8. ASSUME NEW c \in Connections, SetOnline(c) PROVE BridgeInv'
  BY <1>8 DEF SetOnline
<1>9. ASSUME NEW c \in Connections, PublishOnline(c) PROVE BridgeInv'
  BY <1>9 DEF PublishOnline, PublishConnection
<1>10. ASSUME NEW c \in Connections, Subscribe(c) PROVE BridgeInv'
  BY <1>10 DEF Subscribe
<1>11. CASE ConnectionTick
  BY <1>11 DEF ConnectionTick, TicksStill, BridgeStopped
<1>12. CASE ConnectionPublish
  BY <1>12 DEF ConnectionPublish, PublishConnection
<1>13. CASE ConnectionLoopStops
  BY <1>13 DEF ConnectionLoopStops
<1> QED
  BY <1>0, <1>1, <1>2, <1>3, <1>4, <1>5, <1>6, <1>7, <1>8, <1>9, <1>10, <1>11, <1>12, <1>13
     DEF MqttStep, ConnectorStep, BrokerStep, CallbackStep, ConnectionLoopStep

LEMMA NextBridge == Types /\ BridgeInv /\ [Next]_vars => BridgeInv'
<1> SUFFICES ASSUME Types, BridgeInv, [Next]_vars PROVE BridgeInv'
  OBVIOUS
<1> USE DEF BridgeInv, ClientInv, OfflineInv, NothingOnline, StaysDisconnected,
            CallsItselfConnected
<1>1. ASSUME UNCHANGED <<stop, mqttVars>> PROVE BridgeInv'
  BY <1>1 DEF mqttVars
<1>2. ASSUME NEW from \in {0, 1, 4}, Advance(from), UNCHANGED mqttVars PROVE BridgeInv'
  BY <1>2 DEF Advance, mqttVars, Disconnected, OfflinePublished
<1>3. CASE UNCHANGED vars
  BY <1>1, <1>3 DEF vars, shared
<1>4. CASE Start
  BY <1>4 DEF Start, StartMqtt, shared
<1>5. CASE StopSession
  BY <1>2, <1>5 DEF StopSession, Running
<1>6. CASE StopBridge
  BY <1>2, <1>6 DEF StopBridge, SessionStopped
<1>7. CASE StopOffline
  <2>1. stop = BridgeStopped /\ stop' = OfflinePublished
    BY <1>7 DEF StopOffline, Advance, BridgeStopped, OfflinePublished
  <2>2. /\ raced' = (raced \/ OnlineUnderWay) /\ PublishConnection("OFFLINE")
        /\ UNCHANGED <<connector, client, willDue, onConnect, connLoop, tooLate>>
    BY <1>7 DEF StopOffline, PublishOffline, connection
  <2>3. client # "closed" /\ stop < Disconnected /\ stop' < Disconnected
    BY <2>1 DEF BridgeStopped, OfflinePublished, Disconnected
  <2>4. client \in {"nil", "made", "connecting", "connected", "reconnecting"}
    BY <2>3 DEF Types, MqttTypes, TypeOKMqtt
  <2>5. /\ client \in {"nil", "made", "connecting"} => UNCHANGED <<stored, retained>>
        /\ client = "connected" => retained' = "OFFLINE" /\ UNCHANGED stored
        /\ client = "reconnecting" =>
             stored' \subseteq stored \cup {"OFFLINE"} /\ UNCHANGED retained
    BY <2>2 DEF PublishConnection
  <2>6. willDue' \/ retained' # "ONLINE"
    BY <2>2, <2>4, <2>5
  <2>7. ClientInv'
    <3>1. ~tooLate' /\ ~(stop' >= Disconnected)
      BY <2>1, <2>2 DEF BridgeStopped, OfflinePublished, Disconnected
    <3>2. client' \in {"nil", "made", "connecting"} =>
            retained' = "none" /\ stored' = {} /\ ~willDue'
      BY <2>2, <2>5
    <3>3. client' = "reconnecting" => willDue' \/ retained' # "ONLINE"
      BY <2>2, <2>6
    <3> QED BY <2>2, <2>3, <3>1, <3>2, <3>3
  <2>8. ASSUME ~raced' PROVE NothingOnline'
    BY <2>2, <2>4, <2>5, <2>6, <2>8 DEF OnlineUnderWay
  <2> QED BY <2>7, <2>8
<1>8. CASE StopClient
  <2>1. stop = OfflinePublished /\ stop' = Disconnected
    BY <1>8 DEF StopClient, Advance, OfflinePublished, Disconnected
  <2>2. /\ client' = IF CallsItselfConnected THEN "closed" ELSE client
        /\ UNCHANGED <<connector, willDue, stored, retained, onConnect, connLoop, raced, tooLate>>
    BY <1>8 DEF StopClient, Disconnect, CloseClient, histories
  <2>3. ~tooLate
    BY <2>1 DEF OfflinePublished, Disconnected
  <2>4. stop >= OfflinePublished /\ stop' >= Disconnected
    BY <2>1 DEF OfflinePublished, Disconnected
  <2> QED BY <2>2, <2>3, <2>4
<1>9. CASE StopSocket
  BY <1>2, <1>9 DEF StopSocket, Disconnected
<1>10. CASE RobotDown
  BY <1>1, <1>10 DEF RobotDown
<1>11. CASE UNCHANGED <<world, stop, restarts, mqttVars, wsVars, regVars>>
  BY <1>1, <1>11
<1>12. CASE MqttStep /\ UNCHANGED <<shared, wsVars, regVars>>
  BY <1>12, MqttStepBridge
<1>13. CASE (StateLoopStep \/ Change) /\ UNCHANGED <<shared, wsVars, regVars>>
  <2>1. UNCHANGED <<stop, connector, client, willDue, stored, retained, onConnect, connLoop,
                    raced, tooLate>>
    BY <1>13 DEF StateLoopStep, StateSnapshot, StatePublish, StateLoopStops, Change, shared,
                 connection, histories
  <2> QED BY <2>1
<1>14. CASE UNCHANGED <<world, stop, robotUp, restarts, mqttVars, regVars>>
  BY <1>1, <1>14
<1>15. CASE UNCHANGED <<shared, mqttVars, wsVars>>
  BY <1>1, <1>15 DEF shared
<1> QED
  BY <1>3, <1>4, <1>5, <1>6, <1>7, <1>8, <1>9, <1>10, <1>11, <1>12, <1>13, <1>14, <1>15,
     NextParts

LEMMA SpecBridge == Spec => []BridgeInv
<1>1. Init => BridgeInv
  BY DEF Init, InitShared, InitMqtt, BridgeInv, ClientInv, OfflineInv, StaysDisconnected,
         CallsItselfConnected, Running, Disconnected, OfflinePublished
<1> QED BY <1>1, SpecTypes, NextBridge, PTL DEF Spec

(* A stopped bridge never connects again, though the client reconnects by  *)
(* itself, but for a client that had not begun to connect when Stop looked *)
(* (mqtt_bridge.go:47-98, 312-327).                                        *)
THEOREM BridgeStaysDisconnected == Spec => []StaysDisconnected
<1>1. BridgeInv => StaysDisconnected
  BY DEF BridgeInv, ClientInv
<1> QED BY <1>1, SpecBridge, PTL

(* After Stop the platform is not left with ONLINE, whatever order the     *)
(* callbacks, the loop, the will and the kept messages come in, unless an  *)
(* ONLINE was under way while Stop published OFFLINE.                      *)
THEOREM OfflineStaysLast == Spec => []OfflineIsLast
<1>1. Types /\ BridgeInv => OfflineIsLast
  BY DEF Types, SharedTypes, BridgeInv, ClientInv, OfflineInv, NothingOnline, OfflineIsLast,
         CallsItselfConnected, Running, OfflinePublished, Disconnected, Stopped
<1> QED BY <1>1, SpecTypes, SpecBridge, PTL
=============================================================================
