------------------------------ MODULE RobotWS -------------------------------
(***************************************************************************)
(* RobotWSClient (robot_ws.go): the goroutine that keeps a WebSocket       *)
(* connection to the robot and reads poses from it.  A connection is nil,  *)
(* open, or closed by Stop; a connection the robot dropped is broken until *)
(* a read finds out.                                                       *)
(***************************************************************************)
EXTENDS SessionShared

VARIABLES
  wsLoop,   \* where connectLoop is
  conn,     \* the connection of the client
  dialing   \* history: Stop ran while a dial was under way

wsVars == <<wsLoop, conn, dialing>>

InitWS == wsLoop = "off" /\ conn = "nil" /\ dialing = FALSE

StartWS ==
  /\ wsLoop' = IF world.disabled THEN "off" ELSE "top"
  /\ UNCHANGED <<conn, dialing>>

(* The head of the loop looks for a stop, then dials. *)
LoopTop ==
  /\ wsLoop = "top"
  /\ wsLoop' = IF stop = Stopped THEN "ended" ELSE "dial"
  /\ UNCHANGED <<conn, dialing, fresh>>

Connect ==
  /\ wsLoop = "dial"
  /\ IF world.fastapi /\ robotUp
     THEN conn' = "open" /\ wsLoop' = "enable"
     ELSE wsLoop' = "retry" /\ UNCHANGED conn
  /\ UNCHANGED <<dialing, fresh>>

(* enableTrackedPose: nobody looks whether it was sent. *)
EnableTrackedPose ==
  /\ wsLoop = "enable"
  /\ wsLoop' = "read"
  /\ UNCHANGED <<conn, dialing, fresh>>

(* readLoop: one turn looks for a stop, the next reads. *)
ReadTop ==
  /\ wsLoop = "read"
  /\ wsLoop' = IF stop = Stopped \/ conn = "nil" THEN "retry" ELSE "reading"
  /\ UNCHANGED <<conn, dialing, fresh>>

ReadMessage ==
  /\ wsLoop = "reading" /\ conn = "open" /\ robotUp
  /\ fresh' = TRUE
  /\ wsLoop' = "read"
  /\ UNCHANGED <<conn, dialing>>

(* Seeded bug: the loop ends with the connection. *)
ReadErrorEnds ==
  /\ wsLoop = "reading" /\ conn \in {"broken", "closed"}
  /\ conn' = "nil"
  /\ wsLoop' = "ended"
  /\ UNCHANGED <<dialing, fresh>>

ReadError ==
  /\ wsLoop = "reading" /\ conn \in {"broken", "closed"}
  /\ conn' = "nil"
  /\ wsLoop' = "retry"
  /\ UNCHANGED <<dialing, fresh>>

(* Three seconds, or a stop; when both are there, either. *)
RetryDelay ==
  /\ wsLoop = "retry"
  /\ \/ wsLoop' = "top"
     \/ stop = Stopped /\ wsLoop' = "ended"
  /\ UNCHANGED <<conn, dialing, fresh>>

LoopStep ==
  LoopTop \/ Connect \/ EnableTrackedPose \/ ReadTop \/ ReadError \/ RetryDelay

(* The robot goes down: a connection to it breaks. *)
DropWS == conn' = IF conn = "open" THEN "broken" ELSE conn

(* Seeded bug: the connection is left to the loop. *)
StopWSChannelOnly ==
  /\ dialing' = (wsLoop = "dial")
  /\ UNCHANGED <<wsLoop, conn>>

(* Stop closes the channel and what connection there is. *)
StopWS ==
  /\ dialing' = (wsLoop = "dial")
  /\ conn' = IF conn = "nil" THEN conn ELSE "closed"
  /\ UNCHANGED wsLoop
-----------------------------------------------------------------------------
TypeOKWS ==
  /\ wsLoop \in {"off", "top", "dial", "enable", "read", "reading", "retry", "ended"}
  /\ conn \in {"nil", "open", "broken", "closed"}
  /\ dialing \in BOOLEAN

(* When Stop is done and the loop has ended the robot has no connection    *)
(* left that it goes on streaming poses to, but for one case: a dial that  *)
(* was under way during Stop stores its connection after Stop looked.      *)
SocketClosed == wsLoop = "ended" /\ conn = "open" => dialing

(* Poses come in again after the robot was down, and at the start, as long *)
(* as nobody stops the client.                                             *)
Streaming == wsLoop \in {"read", "reading"} /\ conn = "open" /\ robotUp
Streamable == stop # Stopped /\ wsLoop # "off" /\ world.fastapi /\ robotUp
StreamResumes ==
  (Streamable /\ "socket" \in world.parts) ~> (Streaming \/ ~Streamable)

(* After Stop the loop ends, blocked in a read or not. *)
LoopEnds ==
  (stop = Stopped /\ wsLoop # "off" /\ "socket" \in world.parts) ~> wsLoop = "ended"
=============================================================================
