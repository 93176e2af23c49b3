----------------------------- MODULE LegLedger ------------------------------
(***************************************************************************)
(* What an operator relies on when orders drive the robot, however many of *)
(* them overlap: only an order that will stop the robot again sends it     *)
(* off, and none is done with its leg before it has stopped the robot, or  *)
(* the robot was left to itself.  Navigation implements this               *)
(* specification.                                                          *)
(***************************************************************************)
CONSTANT Runs

VARIABLES
  owed,    \* the runs that still have to stop the robot
  moving,  \* the robot is on a delivery, or will return from one by itself
  astray   \* a leg was given up, or a request lost, without a stop

vars == <<owed, moving, astray>>

Init == owed = {} /\ moving = FALSE /\ astray = FALSE

Begin(r) ==
  /\ r \notin owed
  /\ owed' = owed \cup {r}
  /\ UNCHANGED <<moving, astray>>

SetOff ==
  /\ owed # {}
  /\ moving' = TRUE
  /\ UNCHANGED <<owed, astray>>

(* The robot comes to rest, by itself or because somebody else stops it. *)
Rest ==
  /\ moving' = FALSE
  /\ UNCHANGED <<owed, astray>>

(* The run is done with its leg and the robot stands, whoever sent it off. *)
Settle(r) ==
  /\ r \in owed
  /\ owed' = owed \ {r}
  /\ moving' = FALSE
  /\ UNCHANGED astray

(* The run is done without a stop: its last command may or may not have    *)
(* reached the robot.                                                      *)
GiveUp(r) ==
  /\ r \in owed
  /\ owed' = owed \ {r}
  /\ moving' \in BOOLEAN
  /\ astray' = TRUE

(* A request that belongs to no leg is lost. *)
Neglect ==
  /\ astray' = TRUE
  /\ moving' => moving
  /\ moving' \in BOOLEAN
  /\ UNCHANGED owed

Next ==
  \/ SetOff \/ Rest \/ Neglect
  \/ \E r \in Runs : Begin(r) \/ Settle(r) \/ GiveUp(r)

Safe == Init /\ [][Next]_vars
=============================================================================
