----------------------------- MODULE MqttBridge -----------------------------
(***************************************************************************)
(* MQTTBridge (mqtt_bridge.go): the connection to the broker, what is      *)
(* published over it, and what becomes of it when the connection breaks or *)
(* the session stops.  The paho client and the broker are external: the    *)
(* client connects and reconnects by itself once Connect is called, runs   *)
(* each callback in a goroutine of its own, calls itself connected while   *)
(* it tries, and may keep what is published meanwhile with QoS 1 for later.  The broker      *)
(* keeps the last message of the connection topic, and publishes the will  *)
(* there when a connection breaks.                                         *)
(***************************************************************************)
EXTENDS SessionShared

VARIABLES
  connector,   \* the goroutine of Start: Connect, then StartPublishLoops
  client,      \* the MQTT client
  breaks,      \* how often its connection broke
  willDue,     \* the broker has yet to publish the will
  stored,      \* messages for the connection topic the client has kept
  retained,    \* the connection topic as the broker has it
  connState,   \* ConnectionState of RobotState
  onConnect,   \* goroutines of the OnConnect callback, one per connection
  lost,        \* goroutines of the ConnectionLost callback
  subscribed,  \* the broker forwards orders and instant actions
  connLoop,    \* where connectionLoop is
  connOut,     \* what it is about to publish, "OFFLINE" when nothing
  stateLoop,   \* where stateLoop is
  token,       \* stateRequestCh holds a token
  held,        \* stateLoop is about to publish the newest state
  seen,        \* the platform has seen the newest state
  raced,       \* history: ONLINE was under way while Stop published OFFLINE
  tooLate      \* history: the client began to connect after Stop looked for it

mqttVars == <<connector, client, breaks, willDue, stored, retained, connState, onConnect, lost,
              subscribed, connLoop, connOut, stateLoop, token, held, seen, raced, tooLate>>
connection == <<client, breaks, willDue, onConnect, lost, subscribed>>
stateVars == <<stateLoop, token, held, seen>>
histories == <<raced, tooLate>>
-----------------------------------------------------------------------------
ConnStates == {"ONLINE", "OFFLINE", "CONNECTIONBROKEN"}
Connections == 0 .. MaxBreaks
Loops == {"off", "wait", "publish", "ended"}

InitMqtt ==
  /\ connector = "off" /\ client = "nil" /\ breaks = 0
  /\ willDue = FALSE /\ stored = {} /\ retained = "none"
  /\ connState = "OFFLINE"
  /\ onConnect = [c \in Connections |-> "idle"] /\ lost = 0 /\ subscribed = FALSE
  /\ connLoop = "off" /\ connOut = "OFFLINE"
  /\ stateLoop = "off" /\ token = FALSE /\ held = FALSE /\ seen = TRUE
  /\ raced = FALSE /\ tooLate = FALSE

(* publish on the connection topic, retained: lost before there is a       *)
(* connection, and perhaps kept while the client reconnects.               *)
PublishConnection(state) ==
  CASE client = "connected" -> retained' = state /\ UNCHANGED stored
    [] client = "reconnecting" ->
         stored' \in {stored, stored \cup {state}} /\ UNCHANGED retained
    [] client \in {"nil", "made", "connecting", "closed"} -> UNCHANGED <<stored, retained>>
-----------------------------------------------------------------------------
(* The goroutine of Start: the client is made and stored under its lock,   *)
(* then told to connect; Connect waits for at most ten seconds, and the    *)
(* loops start whatever came of it.                                        *)
StartMqtt ==
  /\ connector' = "new"
  /\ UNCHANGED <<client, breaks, willDue, stored, retained, connState, onConnect, lost,
                 subscribed, connLoop, connOut, stateLoop, token, held, seen, raced, tooLate>>

MakeClient ==
  /\ connector = "new"
  /\ client' = "made"
  /\ connector' = "made"
  /\ UNCHANGED <<breaks, willDue, stored, retained, connState, onConnect, lost, subscribed,
                 connLoop, connOut, stateVars, histories>>

ConnectClient ==
  /\ connector = "made"
  /\ client' = "connecting"
  /\ connector' = "connect"
  /\ tooLate' = (stop >= Disconnected)
  /\ UNCHANGED <<breaks, willDue, stored, retained, connState, onConnect, lost, subscribed,
                 connLoop, connOut, stateVars, raced>>

StartPublishLoops ==
  /\ connector = "connect"
  /\ connector' = "done"
  /\ connLoop' = "wait" /\ stateLoop' = "wait"
  /\ UNCHANGED <<connection, stored, retained, connState, connOut, token, held, seen, histories>>
ConnectorStep == MakeClient \/ ConnectClient \/ StartPublishLoops
-----------------------------------------------------------------------------
(* The client and the broker (external). *)
CallbacksDone == lost = 0 /\ \A c \in Connections : onConnect[c] \in {"idle", "done"}

Accepted ==
  /\ client \in {"connecting", "reconnecting"}
  /\ world.broker /\ ~willDue
  /\ world.ordered => CallbacksDone
  /\ client' = "connected"
  /\ onConnect' = [onConnect EXCEPT ![breaks] = "online"]
  /\ raced' = (raced \/ stop = OfflinePublished)
  /\ UNCHANGED <<connector, breaks, willDue, stored, retained, connState, lost, subscribed,
                 connLoop, connOut, stateVars, tooLate>>

Break ==
  /\ client = "connected" /\ breaks < world.breaks
  /\ world.ordered => CallbacksDone
  /\ client' = "reconnecting" /\ breaks' = breaks + 1 /\ lost' = lost + 1
  /\ willDue' = TRUE /\ subscribed' = FALSE
  /\ UNCHANGED <<connector, stored, retained, connState, onConnect, connLoop, connOut,
                 stateVars, histories>>

PublishWill ==
  /\ willDue
  /\ willDue' = FALSE
  /\ retained' = "CONNECTIONBROKEN"
  /\ UNCHANGED <<connector, client, breaks, stored, connState, onConnect, lost, subscribed,
                 connLoop, connOut, stateVars, histories>>

DeliverStored(state) ==
  /\ client = "connected" /\ state \in stored
  /\ stored' = stored \ {state} /\ retained' = state
  /\ UNCHANGED <<connector, connection, connState, connLoop, connOut, stateVars, histories>>

BrokerStep == Accepted \/ PublishWill \/ \E state \in ConnStates : DeliverStored(state)
-----------------------------------------------------------------------------
(* Seeded bug: ONLINE is published and not kept. *)
SetOnlineForgotten(c) ==
  /\ onConnect[c] = "online"
  /\ onConnect' = [onConnect EXCEPT ![c] = "publish"]
  /\ UNCHANGED <<connector, client, breaks, willDue, stored, retained, connState, lost,
                 subscribed, connLoop, connOut, stateVars, histories>>

(* The callbacks.  onConnect sets the state, publishes it and subscribes;  *)
(* nobody looks at what came of the subscriptions.                         *)
SetOnline(c) ==
  /\ onConnect[c] = "online"
  /\ connState' = "ONLINE"
  /\ onConnect' = [onConnect EXCEPT ![c] = "publish"]
  /\ UNCHANGED <<connector, client, breaks, willDue, stored, retained, lost, subscribed,
                 connLoop, connOut, stateVars, histories>>

PublishOnline(c) ==
  /\ onConnect[c] = "publish"
  /\ PublishConnection("ONLINE")
  /\ onConnect' = [onConnect EXCEPT ![c] = "subscribe"]
  /\ UNCHANGED <<connector, client, breaks, willDue, connState, lost, subscribed, connLoop,
                 connOut, stateVars, histories>>

Subscribe(c) ==
  /\ onConnect[c] = "subscribe"
  /\ subscribed' = (subscribed \/ client = "connected")
  /\ onConnect' = [onConnect EXCEPT ![c] = "done"]
  /\ UNCHANGED <<connector, client, breaks, willDue, stored, retained, connState, lost,
                 connLoop, connOut, stateVars, histories>>

ConnectionLost ==
  /\ lost > 0
  /\ lost' = lost - 1
  /\ connState' = "CONNECTIONBROKEN"
  /\ UNCHANGED <<connector, client, breaks, willDue, stored, retained, onConnect, subscribed,
                 connLoop, connOut, stateVars, histories>>

CallbackStep ==
  \/ ConnectionLost
  \/ \E c \in Connections : SetOnline(c) \/ PublishOnline(c) \/ Subscribe(c)
-----------------------------------------------------------------------------
(* The loops.  A tick and a stop that are both there are taken in any      *)
(* order, but no tick comes after the bridge is stopped.                   *)
TicksStill == stop < BridgeStopped

(* Seeded bug: how old the data is plays no part. *)
ShownAlways == connState

Shown == IF fresh THEN connState ELSE "CONNECTIONBROKEN"

ConnectionTick ==
  /\ connLoop = "wait" /\ TicksStill
  /\ connOut' = Shown
  /\ connLoop' = "publish"
  /\ UNCHANGED <<connector, connection, stored, retained, connState, stateVars, histories>>

ConnectionPublish ==
  /\ connLoop = "publish"
  /\ PublishConnection(connOut)
  /\ connLoop' = "wait"
  /\ connOut' = "OFFLINE"
  /\ UNCHANGED <<connector, connection, connState, stateVars, histories>>

(* Seeded bug: without the ticker. *)
StateRequestOnly ==
  /\ stateLoop = "wait" /\ token
  /\ token' = FALSE
  /\ held' = TRUE
  /\ stateLoop' = "publish"
  /\ UNCHANGED <<connector, connection, stored, retained, connState, connLoop, connOut, seen,
                 histories>>

(* stateLoop, for the ticker or a request, which takes the token. *)
StateSnapshot ==
  /\ stateLoop = "wait" /\ (token \/ TicksStill)
  /\ token' \in {FALSE, token}
  /\ held' = TRUE
  /\ stateLoop' = "publish"
  /\ UNCHANGED <<connector, connection, stored, retained, connState, connLoop, connOut, seen,
                 histories>>

(* QoS 0: whatever is published without a connection is lost. *)
StatePublish ==
  /\ stateLoop = "publish"
  /\ seen' = (seen \/ (held /\ client = "connected"))
  /\ held' = FALSE
  /\ stateLoop' = "wait"
  /\ UNCHANGED <<connector, connection, stored, retained, connState, connLoop, connOut, token,
                 histories>>

ConnectionLoopStops ==
  /\ connLoop = "wait" /\ stop >= BridgeStopped
  /\ connLoop' = "ended"
  /\ UNCHANGED <<connector, connection, stored, retained, connState, connOut, stateVars,
                 histories>>

StateLoopStops ==
  /\ stateLoop = "wait" /\ stop >= BridgeStopped
  /\ stateLoop' = "ended"
  /\ UNCHANGED <<connector, connection, stored, retained, connState, connLoop, connOut, token,
                 held, seen, histories>>

ConnectionLoopStep == ConnectionTick \/ ConnectionPublish \/ ConnectionLoopStops
StateLoopStep == StateSnapshot \/ StatePublish \/ StateLoopStops

(* Somewhere an action ends or an order goes on: the state changes and     *)
(* TriggerStatePublish leaves a token unless there is one.  One change is  *)
(* followed at a time.                                                     *)
Change ==
  /\ stop = Running /\ seen
  /\ seen' = FALSE /\ held' = FALSE /\ token' = TRUE
  /\ UNCHANGED <<connector, connection, stored, retained, connState, connLoop, connOut,
                 stateLoop, histories>>
-----------------------------------------------------------------------------
(* Stop: OFFLINE is published, then the client is disconnected if it calls *)
(* itself connected, which it does from Connect on, while it still tries.  *)
OnlineUnderWay ==
  \/ connLoop = "publish" \/ stored # {}
  \/ \E c \in Connections : onConnect[c] \in {"online", "publish"}

(* Seeded bug: OFFLINE is only noted. *)
NoteOffline ==
  /\ raced' = (raced \/ OnlineUnderWay)
  /\ connState' = "OFFLINE"
  /\ UNCHANGED <<connector, connection, stored, retained, connLoop, connOut, stateVars, tooLate>>

PublishOffline ==
  /\ raced' = (raced \/ OnlineUnderWay)
  /\ PublishConnection("OFFLINE")
  /\ UNCHANGED <<connector, connection, connState, connLoop, connOut, stateVars, tooLate>>

(* Seeded bug: only a client that has a connection is disconnected. *)
CloseConnected == IF client = "connected" THEN "closed" ELSE client

CallsItselfConnected == client \in {"connecting", "connected", "reconnecting"}

CloseClient == IF CallsItselfConnected THEN "closed" ELSE client

Disconnect ==
  /\ client' = CloseClient
  /\ subscribed' = FALSE
  /\ UNCHANGED <<connector, breaks, willDue, stored, retained, connState, onConnect, lost,
                 connLoop, connOut, stateVars, histories>>
-----------------------------------------------------------------------------
TypeOKMqtt ==
  /\ connector \in {"off", "new", "made", "connect", "done"}
  /\ client \in {"nil", "made", "connecting", "connected", "reconnecting", "closed"}
  /\ breaks \in 0 .. MaxBreaks /\ lost \in 0 .. MaxBreaks
  /\ stored \subseteq ConnStates /\ retained \in ConnStates \cup {"none"}
  /\ {connState, connOut} \subseteq ConnStates
  /\ onConnect \in [Connections -> {"idle", "online", "publish", "subscribe", "done"}]
  /\ connLoop \in Loops /\ stateLoop \in Loops
  /\ {willDue, subscribed, token, held, seen, raced, tooLate} \subseteq BOOLEAN

(* After Stop the platform is not left with ONLINE, unless something that  *)
(* says ONLINE was under way just then, in which case either may be last.  *)
OfflineIsLast ==
  stop >= Disconnected /\ client = "closed" /\ ~willDue /\ ~raced => retained # "ONLINE"

(* A stopped bridge never connects again, though the client reconnects by  *)
(* itself, unless the client had not begun to connect when Stop looked: it *)
(* was not there yet, or it was made and Connect came after.               *)
StaysDisconnected == stop >= Disconnected /\ CallsItselfConnected => tooLate

(* A change is seen by the platform in the end, though requests to publish *)
(* are merged and what is published without a connection is lost.          *)
Linked == client = "connected" /\ stop = Running
StateShown ==
  (Linked /\ connector = "done" /\ "state" \in world.parts) ~> (seen \/ ~Linked)
=============================================================================
