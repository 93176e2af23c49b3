----------------------------- MODULE RobotState -----------------------------
(***************************************************************************)
(* The order-related part of the RobotState struct (robot_state.go) as a   *)
(* record and its mutators as operators from record to record.  Every      *)
(* mutator of the code runs under rs.mu, so a step of a goroutine that     *)
(* calls one of them is one action rs' = Mutator(rs, ...).                 *)
(*                                                                         *)
(* Node, edge and action states are lists of records in the code.  Nothing *)
(* reads their order, and removeNodeState/removeEdgeState filter by id, so *)
(* node and edge states are sets of ids.  An action id occurs once (VDA    *)
(* 5050 makes it unique), so action states are a function to a status,     *)
(* with "absent" for an id that has no entry.                              *)
(*                                                                         *)
(* Driving, Status and BatteryCharging are not here: the robot's webhooks  *)
(* write them at any time, so they belong to the navigation model.         *)
(***************************************************************************)
CONSTANTS
  OrderIds,   \* VDA 5050 order ids
  NodeIds,    \* node ids used by the orders
  EdgeIds,    \* edge ids used by the orders
  ActionIds,  \* ids of the orders' actions and of the instant actions
  None        \* the empty string of an id, a nil pointer or channel

ASSUME NoneAssumption == None \notin OrderIds \cup NodeIds

ActionStatus == {"absent", "WAITING", "RUNNING", "FINISHED", "FAILED"}
Reported == {"FINISHED", "FAILED"}

RobotStates ==
  [orderId  : OrderIds \cup {None},
   lastNode : NodeIds \cup {None},
   nodes    : SUBSET NodeIds,
   edges    : SUBSET EdgeIds,
   actions  : [ActionIds -> ActionStatus]]

(* NewRobotState: no order, nothing pending. *)
EmptyRobotState ==
  [orderId |-> None, lastNode |-> None, nodes |-> {}, edges |-> {},
   actions |-> [a \in ActionIds |-> "absent"]]

SetOrder(s, id)       == [s EXCEPT !.orderId = id]
SetNodeStates(s, ns)  == [s EXCEPT !.nodes = ns]
SetEdgeStates(s, es)  == [s EXCEPT !.edges = es]
SetLastNode(s, n)     == [s EXCEPT !.lastNode = n]
RemoveNodeState(s, n) == [s EXCEPT !.nodes = @ \ {n}]
RemoveEdgeState(s, e) == [s EXCEPT !.edges = @ \ {e}]

(* initActionStates: the list is replaced, whatever it held. *)
InitActionStates(s, ids) ==
  [s EXCEPT !.actions =
     [a \in ActionIds |-> IF a \in ids THEN "WAITING" ELSE "absent"]]

AddActionState(s, a, status) ==
  [s EXCEPT !.actions = [@ EXCEPT ![a] = status]]

(* An id without an entry is left without one. *)
UpdateActionState(s, a, status) ==
  [s EXCEPT !.actions =
     [b \in ActionIds |-> IF b = a /\ @[b] # "absent" THEN status ELSE @[b]]]

(* Every reported action goes, the order's own as well as instant ones. *)
RemoveFinishedActions(s) ==
  [s EXCEPT !.actions =
     [a \in ActionIds |-> IF @[a] \in Reported THEN "absent" ELSE @[a]]]

(* ClearOrder resets every field of the record, whoever wrote it. *)
ClearOrder(s) == EmptyRobotState
=============================================================================
