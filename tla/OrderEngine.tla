---------------------------- MODULE OrderEngine -----------------------------
(***************************************************************************)
(* The order engine of one robot (order_handler.go): the MQTT callback     *)
(* HandleOrder, the executeOrder goroutine it starts for every order, the  *)
(* cancelOrder and stateRequest instant actions that share RobotState with *)
(* them (instant_actions.go), the orders and action_states tables          *)
(* (store.go), and a crash and restart of the bridge process (main.go).    *)
(*                                                                         *)
(* A run is one executeOrder goroutine.  HandleOrder never waits for the   *)
(* run it supersedes: it closes that run's cancel channel and starts the   *)
(* next, so several runs step concurrently on one RobotState.  A step of a *)
(* run is one region under rs.mu or oh.mu, together with the checks before *)
(* it and with writes to table rows that only runs of its own order write. *)
(* Timers, HTTP answers and robot reports choose nondeterministically      *)
(* among the outcomes the code distinguishes.                              *)
(***************************************************************************)
EXTENDS RobotState, Naturals, Sequences, FiniteSets

CONSTANTS
  Runs,        \* executeOrder goroutines, each used once
  Plans,       \* the order messages the platform may send
  MapIds,      \* map ids a snapshot of the robot state may hold
  Cancels,     \* ids of cancelOrder instant actions
  Requests,    \* ids of stateRequest instant actions
  MaxCrashes   \* bound: number of crashes of the bridge

Instants == Cancels \cup Requests
MaxAttempts == 3

Range1(f) == {f[x] : x \in DOMAIN f}

(* Every action of a plan, in nodes and edges. *)
PlanActions(p) ==
  UNION {Range1(p.nodes[n].actions) : n \in DOMAIN p.nodes} \cup
  UNION {Range1(p.edges[e].actions) : e \in DOMAIN p.edges}
PlanActionIds(p) == {a.id : a \in PlanActions(p)}
PlanNodes(p) == {p.nodes[n].name : n \in DOMAIN p.nodes}
PlanEdges(p) == {p.edges[e].name : e \in DOMAIN p.edges}

(* Plans are parsed VDA 5050 orders: a task type, nodes, edges, actions.   *)
(* HandleOrder rejects an order without an id or without nodes.  VDA 5050  *)
(* makes action ids unique: no order has one of an instant action.         *)
ASSUME PlansAssumption ==
  \A p \in Plans :
    /\ p.id \in OrderIds
    /\ PlanNodes(p) \subseteq NodeIds
    /\ PlanEdges(p) \subseteq EdgeIds
    /\ p.nodes \in Seq(Range1(p.nodes))
    /\ Len(p.nodes) > 0
    /\ PlanActionIds(p) \subseteq ActionIds \ Instants
    /\ \A n \in DOMAIN p.nodes :
         /\ p.nodes[n].map \in MapIds \cup {None}
         /\ p.nodes[n].actions \in Seq(Range1(p.nodes[n].actions))

ASSUME EngineAssumption ==
  /\ None \notin Runs
  /\ MaxCrashes \in Nat
  /\ Cancels \cap Requests = {}

VARIABLES
  up,         \* the bridge process is running
  crashes,    \* crashes so far
  current,    \* oh.currentOrder, named by its run
  raw,        \* oh.rawOrder, named by the run of its payload
  cancelCh,   \* oh.cancelCh, named by the run that listens on it
  chan,       \* state of each run's cancel channel
  panic,      \* a closed channel was closed again
  pc,         \* where each run is in executeOrder
  plan,       \* the order of each run
  node,       \* loop index over nodes; 1 is the origin
  act,        \* loop index over the actions of a node or edge
  att,        \* attempt of sendDeliveryWithRetry
  result,     \* outcome finishOrder, failOrder or cancelOrder records
  curMap,     \* currentMapID of each run
  rs,         \* the shared RobotState
  rows,       \* table orders
  actionRows, \* table action_states
  instant,    \* progress of each instant action's goroutine
  lateLegs,   \* history: legs begun after the run's channel was closed
  overlap     \* history: runs that were live together with another run

handlerVars == <<current, raw, cancelCh, chan, panic>>
loopVars    == <<plan, node, act, att, result, curMap>>
tables      == <<rows, actionRows>>
process     == <<up, crashes>>
history     == <<lateLegs, overlap>>
vars == <<process, handlerVars, pc, loopVars, rs, tables, instant, history>>

Outcomes == {"finished", "failed", "cancelled"}
RowStatus == {"absent", "running"} \cup Outcomes
Rows == [status : RowStatus, raw : Runs \cup {None},
         lastNode : NodeIds \cup {None}]

(* Stages of executeOrder, in program order. *)
Starting == {"setOrder", "insert"}
Preparing == {"nodeStates", "edgeStates", "actionStates", "charger"}
AtNode == {"lastNode", "removeNode", "nodeAction", "nodeActionRun"}
OnEdge == {"edgeAction", "edgeActionRun", "navigate"}
OnLeg == {"deliver", "confirm", "arriving"}
Deciding == {"nextNode", "removeEdge", "counterEntry", "counterWait"}
Owing == Preparing \cup AtNode \cup OnEdge \cup OnLeg \cup Deciding \cup {"settle"}
Live == Starting \cup Owing \cup {"clear", "forget"}
Stages == Live \cup {"idle", "done", "dead"}

(* A run is live from its acceptance until executeOrder returns. *)
LiveRuns == {r \in Runs : pc[r] \in Live}

-----------------------------------------------------------------------------
Init ==
  /\ up = TRUE /\ crashes = 0
  /\ current = None /\ raw = None /\ cancelCh = None
  /\ chan = [r \in Runs |-> "none"]
  /\ panic = FALSE
  /\ pc = [r \in Runs |-> "idle"]
  /\ plan = [r \in Runs |-> None]
  /\ node = [r \in Runs |-> 1]
  /\ act = [r \in Runs |-> 1]
  /\ att = [r \in Runs |-> 1]
  /\ result = [r \in Runs |-> None]
  /\ curMap = [r \in Runs |-> None]
  /\ rs = EmptyRobotState
  /\ rows = [o \in OrderIds |->
               [status |-> "absent", raw |-> None, lastNode |-> None]]
  /\ actionRows = [o \in OrderIds |-> [a \in ActionIds |-> "absent"]]
  /\ instant = [i \in Instants |-> "idle"]
  /\ lateLegs = [r \in Runs |-> 0]
  /\ overlap = {}

-----------------------------------------------------------------------------
(* The handler: HandleOrder and CancelCurrentOrder.                        *)

(* close(oh.cancelCh) when it is not nil; q, if any, gets a new channel. *)
CloseChannel(q) ==
  /\ chan' = [s \in Runs |-> CASE s = q -> "open"
                               [] s = cancelCh /\ s # q -> "closed"
                               [] OTHER -> chan[s]]
  /\ panic' = (panic \/ (cancelCh # None /\ chan[cancelCh] = "closed"))

(* A valid order arrives: whatever runs is told to stop and the new run is *)
(* started at once.                                                        *)
HandleOrder(r, p) ==
  /\ up /\ ~panic /\ pc[r] = "idle"
  /\ CloseChannel(r)
  /\ cancelCh' = r /\ current' = r /\ raw' = r
  /\ plan' = [plan EXCEPT ![r] = p]
  /\ pc' = [pc EXCEPT ![r] = "setOrder"]
  /\ overlap' = overlap \cup (IF LiveRuns = {} THEN {} ELSE LiveRuns \cup {r})
  /\ UNCHANGED <<process, node, act, att, result, curMap, rs, tables,
                 instant, lateLegs>>

(* Seeded bug: the closed channel is not forgotten. *)
CancelKeepingChannel ==
  /\ CloseChannel(None)
  /\ current' = None
  /\ UNCHANGED <<cancelCh, raw>>

(* Seeded bug: nothing is cancelled when no order seems to be current. *)
CancelOnlyCurrent ==
  /\ IF current # None THEN CloseChannel(None) ELSE UNCHANGED <<chan, panic>>
  /\ cancelCh' = None /\ current' = None
  /\ UNCHANGED raw

CancelCurrentOrder ==
  /\ CloseChannel(None)
  /\ cancelCh' = None /\ current' = None
  /\ UNCHANGED raw

-----------------------------------------------------------------------------
(* The run: executeOrder and the functions it calls.                       *)

Id(r) == plan[r].id
Node(r) == plan[r].nodes[node[r]]

(* Seeded bug: the run reads the handler's channel, not the one it was given. *)
CancelledByHandler(r) == cancelCh # None /\ chan[cancelCh] = "closed"

Cancelled(r) == chan[r] = "closed"

Goto(r, from, to) == pc[r] = from /\ pc' = [pc EXCEPT ![r] = to]

(* finishOrder, failOrder or cancelOrder is called with this outcome. *)
Settle(r, from, how) ==
  /\ Goto(r, from, "settle")
  /\ result' = [result EXCEPT ![r] = how]

(* UpdateActionState and storeActionState.  Only runs of the same order    *)
(* write these rows, so both writes are one step.                          *)
SetAction(r, a, status) ==
  /\ rs' = UpdateActionState(rs, a.id, status)
  /\ actionRows' = [actionRows EXCEPT ![Id(r)][a.id] = status]
  /\ UNCHANGED rows

RunSetOrder(r) ==
  /\ Goto(r, "setOrder", "insert")
  /\ rs' = SetOrder(rs, Id(r))
  /\ UNCHANGED <<process, handlerVars, loopVars, tables, instant, history>>

(* storeInsertOrder reads oh.rawOrder as it is now.  A row that exists     *)
(* keeps its last node and gets status running.                            *)
StoreInsertOrder(r) ==
  /\ Goto(r, "insert", "nodeStates")
  /\ rows' = [rows EXCEPT ![Id(r)].status = "running", ![Id(r)].raw = raw]
  /\ UNCHANGED <<process, handlerVars, loopVars, rs, actionRows, instant,
                 history>>

InitNodeStates(r) ==
  /\ Goto(r, "nodeStates", "edgeStates")
  /\ rs' = SetNodeStates(rs, PlanNodes(plan[r]))
  /\ UNCHANGED <<process, handlerVars, loopVars, tables, instant, history>>

InitEdgeStates(r) ==
  /\ Goto(r, "edgeStates", "actionStates")
  /\ rs' = SetEdgeStates(rs, PlanEdges(plan[r]))
  /\ UNCHANGED <<process, handlerVars, loopVars, tables, instant, history>>

RunInitActionStates(r) ==
  /\ Goto(r, "actionStates", "charger")
  /\ rs' = InitActionStates(rs, PlanActionIds(plan[r]))
  /\ actionRows' = [actionRows EXCEPT ![Id(r)] =
       [a \in ActionIds |-> IF a \in PlanActionIds(plan[r])
                            THEN "WAITING" ELSE @[a]]]
  /\ UNCHANGED <<process, handlerVars, loopVars, rows, instant, history>>

(* Leaving the charger succeeds, or fails by HTTP error, timeout or        *)
(* cancellation; a charging task does not try.                             *)
EnsureNotCharging(r) ==
  /\ \/ Goto(r, "charger", "lastNode") /\ UNCHANGED result
     \/ Settle(r, "charger", "failed") /\ plan[r].task # "charging"
  /\ UNCHANGED <<process, handlerVars, plan, node, act, att, curMap, rs,
                 tables, instant, history>>

(* SetLastNode and storeOrderNode. *)
ReachNode(r) ==
  /\ Goto(r, "lastNode", "removeNode")
  /\ rs' = SetLastNode(rs, Node(r).name)
  /\ rows' = [rows EXCEPT ![Id(r)].lastNode = Node(r).name]
  /\ UNCHANGED <<process, handlerVars, loopVars, actionRows, instant, history>>

RunRemoveNodeState(r) ==
  /\ Goto(r, "removeNode", "nodeAction")
  /\ rs' = RemoveNodeState(rs, Node(r).name)
  /\ act' = [act EXCEPT ![r] = 1]
  /\ UNCHANGED <<process, handlerVars, plan, node, att, result, curMap,
                 tables, instant, history>>

(* The first edge that ends at the run's node, as the code's search finds. *)
EdgesToNode(r) ==
  {e \in DOMAIN plan[r].edges : plan[r].edges[e].end = Node(r).name}
Edge(r) ==
  plan[r].edges[CHOOSE e \in EdgesToNode(r) : \A f \in EdgesToNode(r) : e <= f]

(* executeNodeActions and executeEdgeActions are the same loop: the cancel *)
(* check precedes every action.  On a node the GoToLocation action was the *)
(* navigation and is skipped.                                              *)
ActionLoops == {"nodeAction", "edgeAction"}
RunningIn(loop) == IF loop = "nodeAction" THEN "nodeActionRun" ELSE "edgeActionRun"
Actions(r, loop) == IF loop = "nodeAction" THEN Node(r).actions ELSE Edge(r).actions
Action(r, loop) == Actions(r, loop)[act[r]]

MoreActions(r, loop) == act[r] <= Len(Actions(r, loop))
Skipped(r, loop) ==
  loop = "nodeAction" /\ Action(r, loop).type = "GoToLocation"

ActionCancelled(r, loop) ==
  /\ Settle(r, loop, "failed")
  /\ MoreActions(r, loop) /\ Cancelled(r)
  /\ UNCHANGED <<process, handlerVars, plan, node, act, att, curMap, rs,
                 tables, instant, history>>

SkipAction(r, loop) ==
  /\ Goto(r, loop, loop)
  /\ MoreActions(r, loop) /\ ~Cancelled(r) /\ Skipped(r, loop)
  /\ act' = [act EXCEPT ![r] = @ + 1]
  /\ UNCHANGED <<process, handlerVars, plan, node, att, result, curMap, rs,
                 tables, instant, history>>

StartAction(r, loop) ==
  /\ Goto(r, loop, RunningIn(loop))
  /\ MoreActions(r, loop) /\ ~Cancelled(r) /\ ~Skipped(r, loop)
  /\ SetAction(r, Action(r, loop), "RUNNING")
  /\ UNCHANGED <<process, handlerVars, loopVars, instant, history>>

(* Every action type can succeed: playVoice is best effort, drop and       *)
(* unknown types do nothing.                                               *)
FinishAction(r, loop) ==
  /\ Goto(r, RunningIn(loop), loop)
  /\ SetAction(r, Action(r, loop), "FINISHED")
  /\ act' = [act EXCEPT ![r] = @ + 1]
  /\ UNCHANGED <<process, handlerVars, plan, node, att, result, curMap,
                 instant, history>>

(* startCharging fails on an HTTP error, its timeout or cancellation, a    *)
(* wait only when it is cancelled.                                         *)
MayFail(r, a) ==
  \/ a.type = "startCharging"
  \/ a.type = "wait" /\ Cancelled(r)

FailAction(r, loop) ==
  /\ Settle(r, RunningIn(loop), "failed")
  /\ MayFail(r, Action(r, loop))
  /\ SetAction(r, Action(r, loop), "FAILED")
  /\ UNCHANGED <<process, handlerVars, plan, node, act, att, curMap, instant,
                 history>>

(* After the origin's actions currentMapID is the origin's map or, if it   *)
(* has none, the map id of the robot state at that moment.                 *)
NodeActionsDone(r) ==
  /\ Goto(r, "nodeAction", "nextNode")
  /\ ~MoreActions(r, "nodeAction")
  /\ IF node[r] > 1 THEN UNCHANGED curMap
     ELSE \E m \in IF Node(r).map = None THEN MapIds \cup {None}
                                         ELSE {Node(r).map} :
            curMap' = [curMap EXCEPT ![r] = m]
  /\ node' = [node EXCEPT ![r] = @ + 1]
  /\ UNCHANGED <<process, handlerVars, plan, act, att, result, rs, tables,
                 instant, history>>

(* The loop over the nodes: cancel check, cross-map guard, edge search. *)
MoreNodesButLast(r) == node[r] < Len(plan[r].nodes)  \* seeded bug
MoreNodes(r) == node[r] <= Len(plan[r].nodes)
CrossMap(r) == Node(r).map # None /\ Node(r).map # curMap[r]

OrderCancelled(r) ==
  /\ Settle(r, "nextNode", "cancelled")
  /\ MoreNodes(r) /\ Cancelled(r)
  /\ UNCHANGED <<process, handlerVars, plan, node, act, att, curMap, rs,
                 tables, instant, history>>

RefuseCrossMap(r) ==
  /\ Settle(r, "nextNode", "failed")
  /\ MoreNodes(r) /\ ~Cancelled(r) /\ CrossMap(r)
  /\ UNCHANGED <<process, handlerVars, plan, node, act, att, curMap, rs,
                 tables, instant, history>>

(* A node without an edge counts as reached. *)
NextNode(r) ==
  /\ pc[r] = "nextNode"
  /\ MoreNodes(r) /\ ~Cancelled(r) /\ ~CrossMap(r)
  /\ pc' = [pc EXCEPT ![r] =
             IF EdgesToNode(r) = {} THEN "lastNode" ELSE "edgeAction"]
  /\ act' = [act EXCEPT ![r] = 1]
  /\ UNCHANGED <<process, handlerVars, plan, node, att, result, curMap, rs,
                 tables, instant, history>>

EdgeActionsDone(r) ==
  /\ Goto(r, "edgeAction", "navigate")
  /\ ~MoreActions(r, "edgeAction")
  /\ UNCHANGED <<process, handlerVars, loopVars, rs, tables, instant, history>>

-----------------------------------------------------------------------------
(* A leg: deliver_to_location until it is active, then wait for arrival.   *)

GotoActions(r) ==
  {i \in DOMAIN Node(r).actions : Node(r).actions[i].type = "GoToLocation"}
GotoAction(r) ==
  Node(r).actions[CHOOSE i \in GotoActions(r) : \A j \in GotoActions(r) : i <= j]

BeginLeg(r, from) ==
  /\ Goto(r, from, "deliver")
  /\ att' = [att EXCEPT ![r] = 1]
  /\ lateLegs' = [lateLegs EXCEPT ![r] = @ + (IF chan[r] = "closed" THEN 1 ELSE 0)]

(* navigateToNode without GoToLocation: XY navigation is not implemented   *)
(* and the node counts as reached.                                         *)
NavigateXY(r) ==
  /\ Goto(r, "navigate", "removeEdge")
  /\ GotoActions(r) = {}
  /\ UNCHANGED <<process, handlerVars, loopVars, rs, tables, instant, history>>

NavigateNoTarget(r) ==
  /\ Settle(r, "navigate", "failed")
  /\ GotoActions(r) # {} /\ GotoAction(r).station = None
  /\ UNCHANGED <<process, handlerVars, plan, node, act, att, curMap, rs,
                 tables, instant, history>>

NavigateByStation(r) ==
  /\ BeginLeg(r, "navigate")
  /\ GotoActions(r) # {} /\ GotoAction(r).station # None
  /\ SetAction(r, GotoAction(r), "RUNNING")
  /\ UNCHANGED <<process, handlerVars, plan, node, act, result, curMap,
                 instant, overlap>>

(* The deliver POST succeeds; sendDeliveryWithRetry never looks at the     *)
(* cancel channel.                                                         *)
SendDelivery(r) ==
  /\ Goto(r, "deliver", "confirm")
  /\ UNCHANGED <<process, handlerVars, loopVars, rs, tables, instant, history>>

(* The status poll 3 s later: active, or not active after the last attempt *)
(* ("proceeding anyway"), or delivery mode is selected again and the       *)
(* command repeated.                                                       *)
DeliveryActive(r) ==
  /\ Goto(r, "confirm", "arriving")
  /\ att' = [att EXCEPT ![r] = 1]
  /\ UNCHANGED <<process, handlerVars, plan, node, act, result, curMap, rs,
                 tables, instant, history>>

(* Seeded bug: the attempts are counted but not bounded. *)
RetryDeliveryUnbounded(r) ==
  /\ Goto(r, "confirm", "deliver")
  /\ att' = [att EXCEPT ![r] = @ + 1]
  /\ UNCHANGED <<process, handlerVars, plan, node, act, result, curMap, rs,
                 tables, instant, history>>

(* Seeded bug: the attempts are not counted. *)
RetryDeliveryUncounted(r) ==
  /\ Goto(r, "confirm", "deliver")
  /\ att[r] < MaxAttempts
  /\ UNCHANGED <<process, handlerVars, loopVars, rs, tables, instant, history>>

RetryDelivery(r) ==
  /\ Goto(r, "confirm", "deliver")
  /\ att[r] < MaxAttempts
  /\ att' = [att EXCEPT ![r] = @ + 1]
  /\ UNCHANGED <<process, handlerVars, plan, node, act, result, curMap, rs,
                 tables, instant, history>>

ToCounter(r) == ~MoreNodes(r)

(* waitForNavigation returns nil: the robot reported arrival, or never     *)
(* departed within 30 s.  The stop command that follows changes no state   *)
(* of the bridge.                                                          *)
LegArrived(r) ==
  /\ pc[r] = "arriving"
  /\ IF ToCounter(r)
     THEN Settle(r, "arriving", "finished") /\ UNCHANGED <<rs, tables>>
     ELSE /\ Goto(r, "arriving", "removeEdge") /\ UNCHANGED result
          /\ SetAction(r, GotoAction(r), "FINISHED")
  /\ UNCHANGED <<process, handlerVars, plan, node, act, att, curMap, instant,
                 history>>

(* Seeded bug: the action of the failed leg stays RUNNING. *)
LegFailedUnreported(r) ==
  /\ \E from \in {"deliver", "arriving"} : Settle(r, from, "failed")
  /\ att' = [att EXCEPT ![r] = 1]
  /\ UNCHANGED <<process, handlerVars, plan, node, act, curMap, rs, tables,
                 instant, history>>

(* The POST fails, or waitForNavigation times out or sees the cancel. *)
LegFailed(r) ==
  /\ \E from \in {"deliver", "arriving"} : Settle(r, from, "failed")
  /\ IF ToCounter(r)
     THEN UNCHANGED <<rs, tables>>
     ELSE SetAction(r, GotoAction(r), "FAILED")
  /\ att' = [att EXCEPT ![r] = 1]
  /\ UNCHANGED <<process, handlerVars, plan, node, act, curMap, instant,
                 history>>

RunRemoveEdgeState(r) ==
  /\ Goto(r, "removeEdge", "lastNode")
  /\ rs' = RemoveEdgeState(rs, Edge(r).name)
  /\ UNCHANGED <<process, handlerVars, loopVars, tables, instant, history>>

(* After the last node a charging task is finished; any other waits 30 s   *)
(* and returns to the counter.                                             *)
NodesDone(r) ==
  /\ pc[r] = "nextNode" /\ ~MoreNodes(r)
  /\ IF plan[r].task = "charging"
     THEN Settle(r, "nextNode", "finished")
     ELSE Goto(r, "nextNode", "counterEntry") /\ UNCHANGED result
  /\ UNCHANGED <<process, handlerVars, plan, node, act, att, curMap, rs,
                 tables, instant, history>>

(* The select is entered with a fresh timer, so a closed channel wins ... *)
EnterCounterWait(r) ==
  /\ Goto(r, "counterEntry", "counterWait")
  /\ ~Cancelled(r)
  /\ UNCHANGED <<process, handlerVars, loopVars, rs, tables, instant, history>>

CounterWaitCancelled(r) ==
  /\ \E from \in {"counterEntry", "counterWait"} : Settle(r, from, "cancelled")
  /\ Cancelled(r)
  /\ UNCHANGED <<process, handlerVars, plan, node, act, att, curMap, rs,
                 tables, instant, history>>

(* ... but when both become ready while it waits, select picks either. *)
ReturnToCounter(r) ==
  /\ BeginLeg(r, "counterWait")
  /\ UNCHANGED <<process, handlerVars, plan, node, act, result, curMap, rs,
                 tables, instant, overlap>>

-----------------------------------------------------------------------------
(* finishOrder, failOrder and cancelOrder: the row, then (3 s later, or    *)
(* after a stop command) the shared state, then oh.currentOrder.           *)

StoreFinishOrder(r) ==
  /\ Goto(r, "settle", "clear")
  /\ rows' = [rows EXCEPT ![Id(r)].status = result[r]]
  /\ UNCHANGED <<process, handlerVars, loopVars, rs, actionRows, instant,
                 history>>

(* Seeded bug, and a tempting repair: a run clears only its own order. *)
ClearOwnOrder(r) ==
  /\ Goto(r, "clear", "forget")
  /\ rs' = IF rs.orderId = Id(r) THEN ClearOrder(rs) ELSE rs
  /\ UNCHANGED <<process, handlerVars, loopVars, tables, instant, history>>

RunClearOrder(r) ==
  /\ Goto(r, "clear", "forget")
  /\ rs' = ClearOrder(rs)
  /\ UNCHANGED <<process, handlerVars, loopVars, tables, instant, history>>

(* The goroutine returns and its locals are gone. *)
ForgetOrder(r) ==
  /\ Goto(r, "forget", "done")
  /\ current' = None
  /\ node' = [node EXCEPT ![r] = 1]
  /\ act' = [act EXCEPT ![r] = 1]
  /\ result' = [result EXCEPT ![r] = None]
  /\ curMap' = [curMap EXCEPT ![r] = None]
  /\ UNCHANGED <<process, raw, cancelCh, chan, panic, plan, att, rs, tables,
                 instant, history>>

RunStep(r) ==
  \/ RunSetOrder(r) \/ StoreInsertOrder(r)
  \/ InitNodeStates(r) \/ InitEdgeStates(r) \/ RunInitActionStates(r)
  \/ EnsureNotCharging(r)
  \/ ReachNode(r) \/ RunRemoveNodeState(r) \/ NodeActionsDone(r)
  \/ \E loop \in ActionLoops :
       \/ ActionCancelled(r, loop) \/ SkipAction(r, loop)
       \/ StartAction(r, loop) \/ FinishAction(r, loop) \/ FailAction(r, loop)
  \/ OrderCancelled(r) \/ RefuseCrossMap(r) \/ NextNode(r) \/ NodesDone(r)
  \/ EdgeActionsDone(r) \/ NavigateXY(r) \/ NavigateNoTarget(r)
  \/ NavigateByStation(r) \/ SendDelivery(r) \/ DeliveryActive(r)
  \/ RetryDelivery(r) \/ LegArrived(r) \/ LegFailed(r) \/ RunRemoveEdgeState(r)
  \/ EnterCounterWait(r) \/ CounterWaitCancelled(r) \/ ReturnToCounter(r)
  \/ StoreFinishOrder(r) \/ RunClearOrder(r) \/ ForgetOrder(r)

-----------------------------------------------------------------------------
(* Instant actions: InstantActionHandler.Handle and its goroutine.         *)

(* The MQTT callback appends the action state and starts the goroutine. *)
InstantHandle(i) ==
  /\ up /\ ~panic /\ instant[i] = "idle"
  /\ instant' = [instant EXCEPT ![i] = "accepted"]
  /\ rs' = AddActionState(rs, i, "RUNNING")
  /\ UNCHANGED <<process, handlerVars, pc, loopVars, tables, history>>

(* cancelOrder cancels whatever order is current by now. *)
InstantCancel(i) ==
  /\ i \in Cancels /\ instant[i] = "accepted"
  /\ instant' = [instant EXCEPT ![i] = "cancelled"]
  /\ CancelCurrentOrder
  /\ UNCHANGED <<process, pc, loopVars, rs, tables, history>>

(* The stop POST of cancelOrder succeeds or fails; stateRequest has        *)
(* nothing to wait for.                                                    *)
InstantReport(i) ==
  /\ \/ i \in Requests /\ instant[i] = "accepted"
        /\ rs' = UpdateActionState(rs, i, "FINISHED")
     \/ i \in Cancels /\ instant[i] = "cancelled"
        /\ \E st \in Reported : rs' = UpdateActionState(rs, i, st)
  /\ instant' = [instant EXCEPT ![i] = "reported"]
  /\ UNCHANGED <<process, handlerVars, pc, loopVars, tables, history>>

(* Seeded bug: nothing is removed. *)
InstantLeft(i) ==
  /\ instant[i] = "reported"
  /\ instant' = [instant EXCEPT ![i] = "done"]
  /\ UNCHANGED <<process, handlerVars, pc, loopVars, rs, tables, history>>

(* Five seconds later every reported action state is removed. *)
InstantCleanUp(i) ==
  /\ instant[i] = "reported"
  /\ instant' = [instant EXCEPT ![i] = "done"]
  /\ rs' = RemoveFinishedActions(rs)
  /\ UNCHANGED <<process, handlerVars, pc, loopVars, tables, history>>

InstantStep(i) == InstantCancel(i) \/ InstantReport(i) \/ InstantCleanUp(i)

-----------------------------------------------------------------------------
(* The process stops: goroutines and memory are lost, the tables stay. *)
Crash ==
  /\ up /\ crashes < MaxCrashes
  /\ up' = FALSE /\ crashes' = crashes + 1
  /\ current' = None /\ raw' = None /\ cancelCh' = None
  /\ chan' = [r \in Runs |-> "none"]
  /\ pc' = [r \in Runs |-> IF pc[r] \in Live THEN "dead" ELSE pc[r]]
  /\ node' = [r \in Runs |-> 1] /\ act' = [r \in Runs |-> 1]
  /\ att' = [r \in Runs |-> 1]
  /\ result' = [r \in Runs |-> None] /\ curMap' = [r \in Runs |-> None]
  /\ rs' = EmptyRobotState
  /\ instant' = [i \in Instants |->
                   IF instant[i] = "idle" THEN "idle" ELSE "done"]
  /\ UNCHANGED <<panic, plan, tables, history>>

(* Seeded bug: main does not look at the orders of the last process. *)
RestartWithoutRecovery ==
  /\ ~up
  /\ up' = TRUE
  /\ UNCHANGED <<crashes, handlerVars, pc, loopVars, rs, tables, instant,
                 history>>

(* main marks running orders failed before any session is loaded. *)
Restart ==
  /\ ~up
  /\ up' = TRUE
  /\ rows' = [o \in OrderIds |->
                IF rows[o].status = "running"
                THEN [rows[o] EXCEPT !.status = "failed"] ELSE rows[o]]
  /\ UNCHANGED <<crashes, handlerVars, pc, loopVars, rs, actionRows, instant,
                 history>>

Next ==
  \/ \E r \in Runs, p \in Plans : HandleOrder(r, p)
  \/ \E r \in Runs : RunStep(r)
  \/ \E i \in Instants : InstantHandle(i) \/ InstantStep(i)
  \/ Crash \/ Restart

Spec == Init /\ [][Next]_vars

(* Every wait of a run and of an instant action ends by a timer, and the   *)
(* supervisor restarts the process; orders and crashes need not happen.    *)
Fairness ==
  /\ \A r \in Runs : WF_vars(RunStep(r))
  /\ \A i \in Instants : WF_vars(InstantStep(i))
  /\ WF_vars(Restart)

FairSpec == Spec /\ Fairness

-----------------------------------------------------------------------------
(* Properties.                                                             *)

ReadsNode ==
  Starting \cup Preparing \cup AtNode \cup OnEdge \cup {"removeEdge"}

(* Every variable keeps its type; the loop index of a run that reads its   *)
(* node is an index of its order.                                          *)
HandlerTypes ==
  /\ up \in BOOLEAN /\ crashes \in 0..MaxCrashes
  /\ current \in Runs \cup {None} /\ raw \in Runs \cup {None}
  /\ cancelCh \in Runs \cup {None}
  /\ chan \in [Runs -> {"none", "open", "closed"}]
  /\ panic \in BOOLEAN

RunTypes ==
  /\ pc \in [Runs -> Stages]
  /\ plan \in [Runs -> Plans \cup {None}]
  /\ node \in [Runs -> Nat \ {0}] /\ act \in [Runs -> Nat]
  /\ att \in [Runs -> 1..MaxAttempts]
  /\ result \in [Runs -> Outcomes \cup {None}]
  /\ curMap \in [Runs -> MapIds \cup {None}]
  /\ \A r \in Runs :
       /\ pc[r] = "idle" => node[r] = 1
       /\ pc[r] # "idle" => plan[r] \in Plans
       /\ pc[r] \in ReadsNode => node[r] \in 1..Len(plan[r].nodes)
       /\ pc[r] = "settle" => result[r] \in Outcomes

SharedTypes ==
  /\ rs \in RobotStates
  /\ rows \in [OrderIds -> Rows]
  /\ actionRows \in [OrderIds -> [ActionIds -> ActionStatus]]
  /\ instant \in [Instants ->
                    {"idle", "accepted", "cancelled", "reported", "done"}]
  /\ lateLegs \in [Runs -> Nat]
  /\ overlap \subseteq Runs

TypeOK == HandlerTypes /\ RunTypes /\ SharedTypes

(* No sequence of orders and cancelOrder actions closes a cancel channel   *)
(* twice, which would panic in the MQTT callback and end the process.      *)
NoDoubleClose == ~panic

(* The only channel still open is the one the handler can close: every     *)
(* superseded or cancelled run has been told to stop, however many orders  *)
(* and cancels were interleaved (order_handler.go:158-160, 184-187).       *)
SupersededSignalled ==
  \A r \in Runs : chan[r] = "open" => cancelCh = r

(* A run starts at most one more leg after it was told to stop:            *)
(* sendDeliveryWithRetry does not look at the channel, but every path to a *)
(* second leg does.                                                        *)
OneLegAfterCancel == \A r \in Runs : lateLegs[r] <= 1

(* While the process is up a row that says running belongs to a run that   *)
(* will still record an outcome for it; after a restart none is left.      *)
RunningRowOwned ==
  up => \A o \in OrderIds : rows[o].status = "running" =>
          \E r \in Runs : pc[r] \in Owing /\ Id(r) = o

(* When no run is left the platform sees no order: whichever interleaving  *)
(* of superseded and current runs wrote last, nothing of an order stays in *)
(* the shared state.                                                       *)
OrderCleared ==
  /\ rs.orderId = None /\ rs.lastNode = None
  /\ rs.nodes = {} /\ rs.edges = {}
  /\ \A a \in ActionIds \ Instants : rs.actions[a] = "absent"

QuiescentCleared == LiveRuns = {} => OrderCleared

(* An order whose runs have all recorded their outcome has no action left  *)
(* as RUNNING in action_states, unless the process crashed.                *)
SettledActionRows ==
  crashes = 0 => \A o \in OrderIds :
    (~\E r \in Runs : pc[r] \in Owing /\ Id(r) = o) =>
      \A a \in ActionIds : actionRows[o][a] # "RUNNING"

(* A run that never shared the state with another one finishes only after  *)
(* it went through the whole order: the last node is recorded in state and *)
(* table, no node is pending, and no action of a node is left unreported   *)
(* but a GoToLocation that was not the one navigated by.                   *)
FinishedWentThroughOrder ==
  \A r \in Runs \ overlap :
    pc[r] \in {"settle", "clear"} /\ result[r] = "finished" =>
      LET last == plan[r].nodes[Len(plan[r].nodes)].name IN
      /\ rs.orderId = Id(r) /\ rs.nodes = {}
      /\ rs.lastNode = last /\ rows[Id(r)].lastNode = last
      /\ \A n \in DOMAIN plan[r].nodes, a \in PlanActions(plan[r]) :
           a \in Range1(plan[r].nodes[n].actions) /\ a.type # "GoToLocation"
             => rs.actions[a.id] \in {"FINISHED", "absent"}

(* Every accepted run comes to its end. *)
RunsSettle ==
  \A r \in Runs : pc[r] \in Live ~> pc[r] \in {"done", "dead"}

(* The state of every instant action leaves the state message in the end,  *)
(* also when an order is set up or cleared in between.                     *)
InstantStatesDrain ==
  \A i \in Instants : rs.actions[i] # "absent" ~> rs.actions[i] = "absent"

(* The engine implements the ledger: an outcome is owed by the runs between *)
(* InsertOrder and FinishOrder of that order.                              *)
Told == [o \in OrderIds |-> rows[o].status]
Owed == [o \in OrderIds |-> {r \in Runs : pc[r] \in Owing /\ Id(r) = o}]

Ledger == INSTANCE OrderLedger WITH status <- Told, owed <- Owed, lost <- ~up

LedgerSpec == Ledger!Spec

-----------------------------------------------------------------------------
(* Statements of comments and of the design document that the code breaks. *)

(* order_handler.go:80 and the design document: the row of an order holds  *)
(* the raw message of that order.                                          *)
RowHasOwnPayload ==
  \A o \in OrderIds : rows[o].raw # None => plan[rows[o].raw].id = o

(* order_handler.go:883: an order that finished, and that nothing          *)
(* superseded or cancelled, stays in the state until its own run clears    *)
(* it.  Only an empty state counts: a late SetOrder of a superseded run    *)
(* may put another id there, which is a different matter.                  *)
FinishedOrderKept ==
  \A r \in Runs :
    pc[r] = "clear" /\ result[r] = "finished" /\ ~Cancelled(r)
      => rs.orderId # None
=============================================================================
