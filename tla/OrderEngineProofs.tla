------------------------- MODULE OrderEngineProofs --------------------------
(***************************************************************************)
(* Theorems about OrderEngine for every set of runs, orders and instant    *)
(* actions and every number of crashes.                                    *)
(***************************************************************************)
EXTENDS OrderEngine, TLAPS

USE DEF Starting, Preparing, AtNode, OnEdge, OnLeg, Deciding, Owing, Live,
        Stages

-----------------------------------------------------------------------------
(* The stages of a run are disjoint groups of strings; every proof about a *)
(* step of a run splits on the actions of RunStep.                         *)

(* The mutators of RobotState keep its type. *)
LEMMA RobotStateTypes ==
  ASSUME NEW s \in RobotStates
  PROVE  /\ EmptyRobotState \in RobotStates
         /\ ClearOrder(s) \in RobotStates
         /\ RemoveFinishedActions(s) \in RobotStates
         /\ \A id \in OrderIds : SetOrder(s, id) \in RobotStates
         /\ \A ns \in SUBSET NodeIds : SetNodeStates(s, ns) \in RobotStates
         /\ \A es \in SUBSET EdgeIds : SetEdgeStates(s, es) \in RobotStates
         /\ \A n \in NodeIds : SetLastNode(s, n) \in RobotStates
         /\ \A n : RemoveNodeState(s, n) \in RobotStates
         /\ \A e : RemoveEdgeState(s, e) \in RobotStates
         /\ \A ids : InitActionStates(s, ids) \in RobotStates
         /\ \A a : \A st \in ActionStatus : AddActionState(s, a, st) \in RobotStates
         /\ \A a : \A st \in ActionStatus :
              UpdateActionState(s, a, st) \in RobotStates
<1> USE DEF RobotStates, ActionStatus, EmptyRobotState
<1>1. EmptyRobotState \in RobotStates /\ ClearOrder(s) \in RobotStates
  BY DEF ClearOrder
<1>2. RemoveFinishedActions(s) \in RobotStates
  BY DEF RemoveFinishedActions
<1>3. \A id \in OrderIds : SetOrder(s, id) \in RobotStates
  BY DEF SetOrder
<1>4. \A ns \in SUBSET NodeIds : SetNodeStates(s, ns) \in RobotStates
  BY DEF SetNodeStates
<1>5. \A es \in SUBSET EdgeIds : SetEdgeStates(s, es) \in RobotStates
  BY DEF SetEdgeStates
<1>6. \A n \in NodeIds : SetLastNode(s, n) \in RobotStates
  BY DEF SetLastNode
<1>7. \A n : RemoveNodeState(s, n) \in RobotStates
  BY DEF RemoveNodeState
<1>8. \A e : RemoveEdgeState(s, e) \in RobotStates
  BY DEF RemoveEdgeState
<1>9. \A ids : InitActionStates(s, ids) \in RobotStates
  BY DEF InitActionStates
<1>10. \A a : \A st \in ActionStatus : AddActionState(s, a, st) \in RobotStates
  BY DEF AddActionState
<1>11. \A a : \A st \in ActionStatus : UpdateActionState(s, a, st) \in RobotStates
  BY DEF UpdateActionState
<1> QED BY <1>1, <1>2, <1>3, <1>4, <1>5, <1>6, <1>7, <1>8, <1>9, <1>10, <1>11

(* An order's nodes are indexed from 1; the node a run reads has an id and *)
(* a map the types know.                                                   *)
LEMMA PlanTypes ==
  ASSUME NEW p \in Plans
  PROVE  /\ p.id \in OrderIds
         /\ Len(p.nodes) \in Nat \ {0} /\ DOMAIN p.nodes = 1..Len(p.nodes)
         /\ PlanNodes(p) \in SUBSET NodeIds
         /\ PlanEdges(p) \in SUBSET EdgeIds
         /\ \A n \in 1..Len(p.nodes) : /\ p.nodes[n].name \in NodeIds
                                       /\ p.nodes[n].map \in MapIds \cup {None}
<1>1. /\ p.nodes \in Seq(Range1(p.nodes)) /\ Len(p.nodes) > 0
      /\ p.id \in OrderIds
      /\ PlanNodes(p) \subseteq NodeIds /\ PlanEdges(p) \subseteq EdgeIds
  BY PlansAssumption
<1>2. Len(p.nodes) \in Nat \ {0} /\ DOMAIN p.nodes = 1..Len(p.nodes)
  BY <1>1
<1>3. \A n \in 1..Len(p.nodes) : p.nodes[n].name \in NodeIds
  BY <1>1, <1>2 DEF PlanNodes
<1>4. \A n \in 1..Len(p.nodes) : p.nodes[n].map \in MapIds \cup {None}
  BY <1>2, PlansAssumption
<1> QED BY <1>1, <1>2, <1>3, <1>4

(* The actions of a node are indexed from 1 too, and have ids of their own. *)
LEMMA NodeActionTypes ==
  ASSUME NEW p \in Plans, NEW n \in DOMAIN p.nodes
  PROVE  /\ Len(p.nodes[n].actions) \in Nat
         /\ DOMAIN p.nodes[n].actions = 1..Len(p.nodes[n].actions)
         /\ \A i \in DOMAIN p.nodes[n].actions :
              p.nodes[n].actions[i].id \in ActionIds \ Instants
<1>1. p.nodes[n].actions \in Seq(Range1(p.nodes[n].actions))
  BY PlansAssumption
<1>2. /\ Len(p.nodes[n].actions) \in Nat
      /\ DOMAIN p.nodes[n].actions = 1..Len(p.nodes[n].actions)
  BY <1>1
<1>3. \A i \in DOMAIN p.nodes[n].actions :
        p.nodes[n].actions[i].id \in PlanActionIds(p)
  <2> SUFFICES ASSUME NEW i \in DOMAIN p.nodes[n].actions
               PROVE  p.nodes[n].actions[i].id \in PlanActionIds(p)
    OBVIOUS
  <2>1. p.nodes[n].actions[i] \in Range1(p.nodes[n].actions)
    BY DEF Range1
  <2>2. p.nodes[n].actions[i] \in PlanActions(p)
    BY <2>1 DEF PlanActions
  <2> QED BY <2>2 DEF PlanActionIds
<1>4. PlanActionIds(p) \subseteq ActionIds \ Instants
  BY PlansAssumption
<1> QED BY <1>2, <1>3, <1>4

-----------------------------------------------------------------------------
(* Type correctness.                                                       *)

LEMMA InitTypeOK == Init => TypeOK
<1> SUFFICES ASSUME Init PROVE TypeOK
  OBVIOUS
<1>1. HandlerTypes
  <2>1. up \in BOOLEAN /\ panic \in BOOLEAN
    BY Zenon DEF Init
  <2>2. crashes \in 0..MaxCrashes
    BY EngineAssumption DEF Init
  <2>3. chan \in [Runs -> {"none", "open", "closed"}]
    BY DEF Init
  <2> QED BY <2>1, <2>2, <2>3 DEF Init, HandlerTypes
<1>2. RunTypes
  BY DEF Init, RunTypes, ReadsNode, MaxAttempts
<1>3. rs \in RobotStates
  BY DEF Init, EmptyRobotState, RobotStates, ActionStatus
<1>4. rows \in [OrderIds -> Rows]
  BY DEF Init, Rows, RowStatus
<1>5. SharedTypes
  BY <1>3, <1>4 DEF Init, SharedTypes, ActionStatus
<1> QED BY <1>1, <1>2, <1>5 DEF TypeOK

(* A run that is somewhere in executeOrder has an order. *)
LEMMA RunHasPlan ==
  ASSUME TypeOK, NEW r \in Runs, pc[r] # "idle"
  PROVE  plan[r] \in Plans /\ Id(r) \in OrderIds
BY PlanTypes DEF TypeOK, RunTypes, Id

LEMMA HandleOrderTypeOK ==
  ASSUME TypeOK, NEW r \in Runs, NEW p \in Plans, HandleOrder(r, p)
  PROVE  TypeOK'
<1> USE DEF HandleOrder, TypeOK, process, tables
<1>1. HandlerTypes'
  BY DEF HandlerTypes, CloseChannel
<1>2. Len(p.nodes) \in Nat \ {0}
  BY PlanTypes
<1>3. RunTypes'
  BY <1>2 DEF RunTypes, ReadsNode
<1>4. SharedTypes'
  BY DEF SharedTypes, LiveRuns
<1> QED BY <1>1, <1>3, <1>4

(* One step of a run keeps the types of its own variables ... *)
LEMMA RunStepRunTypes ==
  ASSUME TypeOK, NEW r \in Runs, RunStep(r)
  PROVE  RunTypes'
<1> USE DEF TypeOK, RunTypes, Goto, Settle, ReadsNode, loopVars, MaxAttempts,
        Outcomes
<1>0. /\ plan[r] \in Plans \cup {None}
      /\ pc[r] # "idle" => Len(plan[r].nodes) \in Nat \ {0}
      /\ pc[r] \in ReadsNode => Node(r).map \in MapIds \cup {None}
  BY PlanTypes DEF Node
<1>1. CASE RunSetOrder(r)
  BY <1>0, <1>1 DEF RunSetOrder
<1>2. CASE StoreInsertOrder(r)
  BY <1>0, <1>2 DEF StoreInsertOrder
<1>3. CASE InitNodeStates(r)
  BY <1>0, <1>3 DEF InitNodeStates
<1>4. CASE InitEdgeStates(r)
  BY <1>0, <1>4 DEF InitEdgeStates
<1>5. CASE RunInitActionStates(r)
  BY <1>0, <1>5 DEF RunInitActionStates
<1>6. CASE EnsureNotCharging(r)
  BY <1>0, <1>6 DEF EnsureNotCharging
<1>7. CASE ReachNode(r)
  BY <1>0, <1>7 DEF ReachNode
<1>8. CASE RunRemoveNodeState(r)
  BY <1>0, <1>8 DEF RunRemoveNodeState
<1>9. CASE NodeActionsDone(r)
  <2>1. /\ pc[r] = "nodeAction" /\ pc' = [pc EXCEPT ![r] = "nextNode"]
        /\ node' = [node EXCEPT ![r] = @ + 1]
        /\ UNCHANGED <<plan, act, att, result>>
    BY <1>9 DEF NodeActionsDone
  <2>2. curMap' \in [Runs -> MapIds \cup {None}]
    BY <1>0, <1>9, <2>1 DEF NodeActionsDone
  <2>3. node[r] + 1 \in Nat \ {0}
    OBVIOUS
  <2> QED BY <2>1, <2>2, <2>3
<1>10. CASE OrderCancelled(r)
  BY <1>0, <1>10 DEF OrderCancelled
<1>11. CASE RefuseCrossMap(r)
  BY <1>0, <1>11 DEF RefuseCrossMap
<1>12. CASE NextNode(r)
  BY <1>0, <1>12 DEF NextNode, MoreNodes
<1>13. CASE NodesDone(r)
  <2>1. pc[r] = "nextNode" /\ UNCHANGED <<plan, node, act, att, curMap>>
    BY <1>13 DEF NodesDone
  <2>2. \/ /\ pc' = [pc EXCEPT ![r] = "settle"]
           /\ result' = [result EXCEPT ![r] = "finished"]
        \/ pc' = [pc EXCEPT ![r] = "counterEntry"] /\ UNCHANGED result
    BY <1>13 DEF NodesDone
  <2>3. CASE /\ pc' = [pc EXCEPT ![r] = "settle"]
             /\ result' = [result EXCEPT ![r] = "finished"]
    BY <1>0, <2>1, <2>3
  <2>4. CASE pc' = [pc EXCEPT ![r] = "counterEntry"] /\ UNCHANGED result
    BY <1>0, <2>1, <2>4
  <2> QED BY <2>2, <2>3, <2>4
<1>14. CASE EdgeActionsDone(r)
  BY <1>0, <1>14 DEF EdgeActionsDone
<1>15. CASE NavigateXY(r)
  BY <1>0, <1>15 DEF NavigateXY
<1>16. CASE NavigateNoTarget(r)
  BY <1>0, <1>16 DEF NavigateNoTarget
<1>17. CASE NavigateByStation(r)
  BY <1>0, <1>17 DEF NavigateByStation, BeginLeg
<1>18. CASE SendDelivery(r)
  BY <1>0, <1>18 DEF SendDelivery
<1>19. CASE DeliveryActive(r)
  BY <1>0, <1>19 DEF DeliveryActive
<1>20. CASE RetryDelivery(r)
  <2>1. att[r] \in 1..3 /\ att[r] < 3
    BY <1>20 DEF RetryDelivery
  <2>2. att' \in [Runs -> 1..3]
    BY <1>20, <2>1 DEF RetryDelivery
  <2> QED BY <1>0, <1>20, <2>2 DEF RetryDelivery
<1>21. CASE LegArrived(r)
  <2>1. /\ pc[r] = "arriving" /\ UNCHANGED <<plan, node, act, att, curMap>>
    BY <1>21 DEF LegArrived
  <2>2. \/ /\ pc' = [pc EXCEPT ![r] = "settle"]
           /\ result' = [result EXCEPT ![r] = "finished"]
        \/ /\ node[r] \in 1..Len(plan[r].nodes)
           /\ pc' = [pc EXCEPT ![r] = "removeEdge"] /\ UNCHANGED result
    BY <1>0, <1>21 DEF LegArrived, ToCounter, MoreNodes
  <2>3. CASE /\ pc' = [pc EXCEPT ![r] = "settle"]
             /\ result' = [result EXCEPT ![r] = "finished"]
    BY <1>0, <2>1, <2>3
  <2>4. CASE /\ node[r] \in 1..Len(plan[r].nodes)
             /\ pc' = [pc EXCEPT ![r] = "removeEdge"] /\ UNCHANGED result
    BY <1>0, <2>1, <2>4
  <2> QED BY <2>2, <2>3, <2>4
<1>22. CASE LegFailed(r)
  BY <1>0, <1>22 DEF LegFailed
<1>23. CASE RunRemoveEdgeState(r)
  BY <1>0, <1>23 DEF RunRemoveEdgeState
<1>24. CASE EnterCounterWait(r)
  BY <1>0, <1>24 DEF EnterCounterWait
<1>25. CASE CounterWaitCancelled(r)
  BY <1>0, <1>25 DEF CounterWaitCancelled
<1>26. CASE ReturnToCounter(r)
  BY <1>0, <1>26 DEF ReturnToCounter, BeginLeg
<1>27. CASE StoreFinishOrder(r)
  BY <1>0, <1>27 DEF StoreFinishOrder
<1>28. CASE RunClearOrder(r)
  BY <1>0, <1>28 DEF RunClearOrder
<1>29. CASE ForgetOrder(r)
  BY <1>0, <1>29 DEF ForgetOrder
<1>30. ASSUME NEW loop \in ActionLoops, ActionCancelled(r, loop) PROVE RunTypes'
  BY <1>0, <1>30 DEF ActionCancelled, ActionLoops, RunningIn
<1>31. ASSUME NEW loop \in ActionLoops, SkipAction(r, loop) PROVE RunTypes'
  BY <1>0, <1>31 DEF SkipAction, ActionLoops, RunningIn
<1>32. ASSUME NEW loop \in ActionLoops, StartAction(r, loop) PROVE RunTypes'
  BY <1>0, <1>32 DEF StartAction, ActionLoops, RunningIn
<1>33. ASSUME NEW loop \in ActionLoops, FinishAction(r, loop) PROVE RunTypes'
  BY <1>0, <1>33 DEF FinishAction, ActionLoops, RunningIn
<1>34. ASSUME NEW loop \in ActionLoops, FailAction(r, loop) PROVE RunTypes'
  BY <1>0, <1>34 DEF FailAction, ActionLoops, RunningIn
<1> QED
  BY <1>1, <1>2, <1>3, <1>4, <1>5, <1>6, <1>7, <1>8, <1>9, <1>10, <1>11, <1>12,
     <1>13, <1>14, <1>15, <1>16, <1>17, <1>18, <1>19, <1>20, <1>21, <1>22, <1>23, <1>24,
     <1>25, <1>26, <1>27, <1>28, <1>29, <1>30, <1>31, <1>32, <1>33, <1>34
  DEF RunStep

(* ... leaves the handler's variables and the other runs alone, except for  *)
(* forgetting the current order when executeOrder returns ...              *)
LEMMA RunStepFrame ==
  ASSUME TypeOK, NEW r \in Runs, RunStep(r)
  PROVE  /\ UNCHANGED <<up, crashes, raw, cancelCh, chan, panic, plan, instant,
                        overlap>>
         /\ current' = current \/ current' = None
         /\ pc[r] \in Live /\ pc' \in [Runs -> Stages]
         /\ \A q \in Runs \ {r} : pc'[q] = pc[q]
<1> DEFINE Frame ==
      /\ UNCHANGED <<up, crashes, raw, cancelCh, chan, panic, plan, instant,
                     overlap>>
      /\ current' = current \/ current' = None
      /\ pc[r] \in Live /\ \A q \in Runs \ {r} : pc'[q] = pc[q]
<1> SUFFICES Frame
  BY RunStepRunTypes DEF RunTypes
<1>0. pc \in [Runs -> Stages]
  BY DEF TypeOK, RunTypes
<1> USE DEF Goto, Settle, process, handlerVars, loopVars, history, tables, SetAction
<1>1. CASE RunSetOrder(r)
  BY <1>0, <1>1 DEF RunSetOrder
<1>2. CASE StoreInsertOrder(r)
  BY <1>0, <1>2 DEF StoreInsertOrder
<1>3. CASE InitNodeStates(r)
  BY <1>0, <1>3 DEF InitNodeStates
<1>4. CASE InitEdgeStates(r)
  BY <1>0, <1>4 DEF InitEdgeStates
<1>5. CASE RunInitActionStates(r)
  BY <1>0, <1>5 DEF RunInitActionStates
<1>6. CASE EnsureNotCharging(r)
  BY <1>0, <1>6 DEF EnsureNotCharging
<1>7. CASE ReachNode(r)
  BY <1>0, <1>7 DEF ReachNode
<1>8. CASE RunRemoveNodeState(r)
  BY <1>0, <1>8 DEF RunRemoveNodeState
<1>9. CASE NodeActionsDone(r)
  BY <1>0, <1>9 DEF NodeActionsDone
<1>10. CASE OrderCancelled(r)
  BY <1>0, <1>10 DEF OrderCancelled
<1>11. CASE RefuseCrossMap(r)
  BY <1>0, <1>11 DEF RefuseCrossMap
<1>12. CASE NextNode(r)
  BY <1>0, <1>12 DEF NextNode
<1>13. CASE NodesDone(r)
  BY <1>0, <1>13 DEF NodesDone
<1>14. CASE EdgeActionsDone(r)
  BY <1>0, <1>14 DEF EdgeActionsDone
<1>15. CASE NavigateXY(r)
  BY <1>0, <1>15 DEF NavigateXY
<1>16. CASE NavigateNoTarget(r)
  BY <1>0, <1>16 DEF NavigateNoTarget
<1>17. CASE NavigateByStation(r)
  BY <1>0, <1>17 DEF NavigateByStation, BeginLeg
<1>18. CASE SendDelivery(r)
  BY <1>0, <1>18 DEF SendDelivery
<1>19. CASE DeliveryActive(r)
  BY <1>0, <1>19 DEF DeliveryActive
<1>20. CASE RetryDelivery(r)
  BY <1>0, <1>20 DEF RetryDelivery
<1>21. CASE LegArrived(r)
  BY <1>0, <1>21 DEF LegArrived
<1>22. CASE LegFailed(r)
  BY <1>0, <1>22 DEF LegFailed
<1>23. CASE RunRemoveEdgeState(r)
  BY <1>0, <1>23 DEF RunRemoveEdgeState
<1>24. CASE EnterCounterWait(r)
  BY <1>0, <1>24 DEF EnterCounterWait
<1>25. CASE CounterWaitCancelled(r)
  BY <1>0, <1>25 DEF CounterWaitCancelled
<1>26. CASE ReturnToCounter(r)
  BY <1>0, <1>26 DEF ReturnToCounter, BeginLeg
<1>27. CASE StoreFinishOrder(r)
  BY <1>0, <1>27 DEF StoreFinishOrder
<1>28. CASE RunClearOrder(r)
  BY <1>0, <1>28 DEF RunClearOrder
<1>29. CASE ForgetOrder(r)
  BY <1>0, <1>29 DEF ForgetOrder
<1>30. ASSUME NEW loop \in ActionLoops, ActionCancelled(r, loop) PROVE Frame
  BY <1>0, <1>30 DEF ActionCancelled, ActionLoops, RunningIn
<1>31. ASSUME NEW loop \in ActionLoops, SkipAction(r, loop) PROVE Frame
  BY <1>0, <1>31 DEF SkipAction, ActionLoops, RunningIn
<1>32. ASSUME NEW loop \in ActionLoops, StartAction(r, loop) PROVE Frame
  BY <1>0, <1>32 DEF StartAction, ActionLoops, RunningIn
<1>33. ASSUME NEW loop \in ActionLoops, FinishAction(r, loop) PROVE Frame
  BY <1>0, <1>33 DEF FinishAction, ActionLoops, RunningIn
<1>34. ASSUME NEW loop \in ActionLoops, FailAction(r, loop) PROVE Frame
  BY <1>0, <1>34 DEF FailAction, ActionLoops, RunningIn
<1> QED
      BY <1>1, <1>2, <1>3, <1>4, <1>5, <1>6, <1>7, <1>8, <1>9, <1>10,
         <1>11, <1>12, <1>13, <1>14, <1>15, <1>16, <1>17, <1>18, <1>19,
         <1>20, <1>21, <1>22, <1>23, <1>24, <1>25, <1>26, <1>27, <1>28,
         <1>29, <1>30, <1>31, <1>32, <1>33, <1>34
         DEF RunStep

(* ... and keeps the types of the state message and the tables. *)
LEMMA SetActionTypes ==
  ASSUME SharedTypes, NEW r \in Runs, NEW a, NEW st \in ActionStatus,
         SetAction(r, a, st)
  PROVE  /\ rs' \in RobotStates /\ rows' \in [OrderIds -> Rows]
         /\ actionRows' \in [OrderIds -> [ActionIds -> ActionStatus]]
<1>1. rs' \in RobotStates
  BY RobotStateTypes DEF SetAction, SharedTypes
<1>2. actionRows' \in [OrderIds -> [ActionIds -> ActionStatus]]
  BY DEF SetAction, SharedTypes
<1> QED BY <1>1, <1>2 DEF SetAction, SharedTypes

LEMMA RunStepSharedTypes ==
  ASSUME TypeOK, NEW r \in Runs, RunStep(r)
  PROVE  SharedTypes'
<1> DEFINE Written ==
      /\ rs' \in RobotStates /\ rows' \in [OrderIds -> Rows]
      /\ actionRows' \in [OrderIds -> [ActionIds -> ActionStatus]]
      /\ lateLegs' \in [Runs -> Nat]
<1> SUFFICES Written
  BY RunStepFrame DEF SharedTypes, TypeOK
<1>0. SharedTypes
  BY DEF TypeOK
<1>a. /\ rs \in RobotStates /\ rows \in [OrderIds -> Rows]
      /\ actionRows \in [OrderIds -> [ActionIds -> ActionStatus]]
      /\ lateLegs \in [Runs -> Nat]
  BY <1>0 DEF SharedTypes
<1>b. /\ pc[r] # "idle" => plan[r] \in Plans
      /\ pc[r] = "settle" => result[r] \in Outcomes
      /\ raw \in Runs \cup {None}
  BY DEF TypeOK, RunTypes, HandlerTypes
<1>d. pc[r] \in ReadsNode => Node(r).name \in NodeIds
  BY PlanTypes DEF TypeOK, RunTypes, Node, ReadsNode
<1>c. {"RUNNING", "FINISHED", "FAILED", "WAITING", "absent"} = ActionStatus
  BY DEF ActionStatus
<1> USE DEF Goto, Settle, tables, history
<1>1. CASE RunSetOrder(r)
  BY <1>0, <1>a, <1>b, <1>c, <1>d, <1>1, RobotStateTypes, PlanTypes DEF RunSetOrder, Id
<1>2. CASE StoreInsertOrder(r)
  BY <1>0, <1>a, <1>b, <1>c, <1>d, <1>2 DEF StoreInsertOrder, Rows, RowStatus
<1>3. CASE InitNodeStates(r)
  BY <1>0, <1>a, <1>b, <1>c, <1>d, <1>3, RobotStateTypes, PlanTypes DEF InitNodeStates
<1>4. CASE InitEdgeStates(r)
  BY <1>0, <1>a, <1>b, <1>c, <1>d, <1>4, RobotStateTypes, PlanTypes DEF InitEdgeStates
<1>5. CASE RunInitActionStates(r)
  BY <1>0, <1>a, <1>b, <1>c, <1>d, <1>5, RobotStateTypes DEF RunInitActionStates
<1>6. CASE EnsureNotCharging(r)
  BY <1>0, <1>a, <1>b, <1>c, <1>d, <1>6 DEF EnsureNotCharging
<1>7. CASE ReachNode(r)
  BY <1>0, <1>a, <1>b, <1>c, <1>d, <1>7, RobotStateTypes DEF ReachNode, ReadsNode, Rows
<1>8. CASE RunRemoveNodeState(r)
  BY <1>0, <1>a, <1>b, <1>c, <1>d, <1>8, RobotStateTypes DEF RunRemoveNodeState
<1>9. CASE NodeActionsDone(r)
  BY <1>0, <1>a, <1>b, <1>c, <1>d, <1>9 DEF NodeActionsDone
<1>10. CASE OrderCancelled(r)
  BY <1>0, <1>a, <1>b, <1>c, <1>d, <1>10 DEF OrderCancelled
<1>11. CASE RefuseCrossMap(r)
  BY <1>0, <1>a, <1>b, <1>c, <1>d, <1>11 DEF RefuseCrossMap
<1>12. CASE NextNode(r)
  BY <1>0, <1>a, <1>b, <1>c, <1>d, <1>12 DEF NextNode
<1>13. CASE NodesDone(r)
  BY <1>0, <1>a, <1>b, <1>c, <1>d, <1>13 DEF NodesDone
<1>14. CASE EdgeActionsDone(r)
  BY <1>0, <1>a, <1>b, <1>c, <1>d, <1>14 DEF EdgeActionsDone
<1>15. CASE NavigateXY(r)
  BY <1>0, <1>a, <1>b, <1>c, <1>d, <1>15 DEF NavigateXY
<1>16. CASE NavigateNoTarget(r)
  BY <1>0, <1>a, <1>b, <1>c, <1>d, <1>16 DEF NavigateNoTarget
<1>17. CASE NavigateByStation(r)
  BY <1>0, <1>a, <1>b, <1>c, <1>d, <1>17, SetActionTypes DEF NavigateByStation, BeginLeg
<1>18. CASE SendDelivery(r)
  BY <1>0, <1>a, <1>b, <1>c, <1>d, <1>18 DEF SendDelivery
<1>19. CASE DeliveryActive(r)
  BY <1>0, <1>a, <1>b, <1>c, <1>d, <1>19 DEF DeliveryActive
<1>20. CASE RetryDelivery(r)
  BY <1>0, <1>a, <1>b, <1>c, <1>d, <1>20 DEF RetryDelivery
<1>21. CASE LegArrived(r)
  BY <1>0, <1>a, <1>b, <1>c, <1>d, <1>21, SetActionTypes DEF LegArrived
<1>22. CASE LegFailed(r)
  BY <1>0, <1>a, <1>b, <1>c, <1>d, <1>22, SetActionTypes DEF LegFailed
<1>23. CASE RunRemoveEdgeState(r)
  BY <1>0, <1>a, <1>b, <1>c, <1>d, <1>23, RobotStateTypes DEF RunRemoveEdgeState
<1>24. CASE EnterCounterWait(r)
  BY <1>0, <1>a, <1>b, <1>c, <1>d, <1>24 DEF EnterCounterWait
<1>25. CASE CounterWaitCancelled(r)
  BY <1>0, <1>a, <1>b, <1>c, <1>d, <1>25 DEF CounterWaitCancelled
<1>26. CASE ReturnToCounter(r)
  BY <1>0, <1>a, <1>b, <1>c, <1>d, <1>26 DEF ReturnToCounter, BeginLeg
<1>27. CASE StoreFinishOrder(r)
  BY <1>0, <1>a, <1>b, <1>c, <1>d, <1>27 DEF StoreFinishOrder, Rows, RowStatus, Outcomes
<1>28. CASE RunClearOrder(r)
  BY <1>0, <1>a, <1>b, <1>c, <1>d, <1>28, RobotStateTypes DEF RunClearOrder
<1>29. CASE ForgetOrder(r)
  BY <1>0, <1>a, <1>b, <1>c, <1>d, <1>29 DEF ForgetOrder
<1>30. ASSUME NEW loop \in ActionLoops, ActionCancelled(r, loop) PROVE Written
  BY <1>0, <1>a, <1>c, <1>30 DEF ActionCancelled
<1>31. ASSUME NEW loop \in ActionLoops, SkipAction(r, loop) PROVE Written
  BY <1>0, <1>a, <1>c, <1>31 DEF SkipAction
<1>32. ASSUME NEW loop \in ActionLoops, StartAction(r, loop) PROVE Written
  BY <1>0, <1>a, <1>c, <1>32, SetActionTypes DEF StartAction
<1>33. ASSUME NEW loop \in ActionLoops, FinishAction(r, loop) PROVE Written
  BY <1>0, <1>a, <1>c, <1>33, SetActionTypes DEF FinishAction
<1>34. ASSUME NEW loop \in ActionLoops, FailAction(r, loop) PROVE Written
  BY <1>0, <1>a, <1>c, <1>34, SetActionTypes DEF FailAction
<1> QED
      BY <1>1, <1>2, <1>3, <1>4, <1>5, <1>6, <1>7, <1>8, <1>9, <1>10,
         <1>11, <1>12, <1>13, <1>14, <1>15, <1>16, <1>17, <1>18, <1>19,
         <1>20, <1>21, <1>22, <1>23, <1>24, <1>25, <1>26, <1>27, <1>28,
         <1>29, <1>30, <1>31, <1>32, <1>33, <1>34
         DEF RunStep

LEMMA RunStepTypeOK ==
  ASSUME TypeOK, NEW r \in Runs, RunStep(r)
  PROVE  TypeOK'
<1>1. HandlerTypes'
  BY RunStepFrame DEF TypeOK, HandlerTypes
<1> QED BY <1>1, RunStepRunTypes, RunStepSharedTypes DEF TypeOK

LEMMA InstantHandleTypeOK ==
  ASSUME TypeOK, NEW i \in Instants, InstantHandle(i)
  PROVE  TypeOK'
<1> USE DEF InstantHandle, TypeOK, process, handlerVars, loopVars, tables,
        history
<1>1. HandlerTypes'
  BY DEF HandlerTypes
<1>2. RunTypes'
  BY DEF RunTypes
<1>3. rs' \in RobotStates
  BY RobotStateTypes DEF SharedTypes, ActionStatus
<1>4. SharedTypes'
  BY <1>3 DEF SharedTypes
<1> QED BY <1>1, <1>2, <1>4

LEMMA InstantStepTypeOK ==
  ASSUME TypeOK, NEW i \in Instants, InstantStep(i)
  PROVE  TypeOK'
<1> USE DEF process, handlerVars, loopVars, tables, history
<1>0. HandlerTypes /\ RunTypes /\ SharedTypes
  BY DEF TypeOK
<1>1. CASE InstantCancel(i)
  <2>1. HandlerTypes'
    BY <1>0, <1>1 DEF InstantCancel, CancelCurrentOrder, CloseChannel,
       HandlerTypes
  <2>2. RunTypes'
    BY <1>0, <1>1 DEF InstantCancel, RunTypes
  <2>3. SharedTypes'
    BY <1>0, <1>1 DEF InstantCancel, SharedTypes
  <2> QED BY <2>1, <2>2, <2>3 DEF TypeOK
<1>2. CASE InstantReport(i) \/ InstantCleanUp(i)
  <2>1. HandlerTypes'
    BY <1>0, <1>2 DEF InstantReport, InstantCleanUp, HandlerTypes
  <2>2. RunTypes'
    BY <1>0, <1>2 DEF InstantReport, InstantCleanUp, RunTypes
  <2>3. rs' \in RobotStates
    <3>1. rs \in RobotStates
      BY <1>0 DEF SharedTypes
    <3>2. \A st \in {"FINISHED", "FAILED"} : st \in ActionStatus
      BY DEF ActionStatus
    <3>3. CASE InstantReport(i)
      BY <3>1, <3>2, <3>3, RobotStateTypes DEF InstantReport, Reported
    <3>4. CASE InstantCleanUp(i)
      BY <3>1, <3>4, RobotStateTypes DEF InstantCleanUp
    <3> QED BY <1>2, <3>3, <3>4
  <2>4. SharedTypes'
    BY <1>0, <1>2, <2>3 DEF InstantReport, InstantCleanUp, SharedTypes
  <2> QED BY <2>1, <2>2, <2>4 DEF TypeOK
<1> QED BY <1>1, <1>2 DEF InstantStep

LEMMA CrashTypeOK == TypeOK /\ Crash => TypeOK'
<1> SUFFICES ASSUME TypeOK, Crash PROVE TypeOK'
  OBVIOUS
<1> USE DEF Crash, tables, history
<1>0. HandlerTypes /\ RunTypes /\ SharedTypes
  BY DEF TypeOK
<1>1. crashes' \in 0..MaxCrashes
  BY <1>0, EngineAssumption DEF HandlerTypes
<1>2. up' \in BOOLEAN /\ panic' \in BOOLEAN
  BY <1>0 DEF HandlerTypes
<1>3. HandlerTypes'
  BY <1>0, <1>1, <1>2 DEF HandlerTypes
<1>4. RunTypes'
  BY <1>0, PlanTypes DEF RunTypes, ReadsNode, MaxAttempts
<1>5. SharedTypes'
  BY <1>0, RobotStateTypes DEF SharedTypes
<1> QED BY <1>3, <1>4, <1>5 DEF TypeOK

LEMMA RestartTypeOK == TypeOK /\ Restart => TypeOK'
<1> SUFFICES ASSUME TypeOK, Restart PROVE TypeOK'
  OBVIOUS
<1> USE DEF Restart, handlerVars, loopVars, history
<1>0. HandlerTypes /\ RunTypes /\ SharedTypes
  BY DEF TypeOK
<1>1. HandlerTypes'
  BY <1>0 DEF HandlerTypes
<1>2. RunTypes'
  BY <1>0 DEF RunTypes
<1>3. rows' \in [OrderIds -> Rows]
  BY <1>0 DEF SharedTypes, Rows, RowStatus, Outcomes
<1>4. SharedTypes'
  BY <1>0, <1>3 DEF SharedTypes
<1> QED BY <1>1, <1>2, <1>4 DEF TypeOK

(* The types hold for any number of runs, orders, instant actions and       *)
(* crashes: in particular a run never indexes past the nodes of its order.  *)
THEOREM TypeCorrect == Spec => []TypeOK
<1>1. TypeOK /\ [Next]_vars => TypeOK'
  <2> SUFFICES ASSUME TypeOK, [Next]_vars PROVE TypeOK'
    OBVIOUS
  <2>1. CASE UNCHANGED vars
    <3> USE <2>1 DEF vars, process, handlerVars, loopVars, tables, history
    <3>1. HandlerTypes'
      BY DEF TypeOK, HandlerTypes
    <3>2. RunTypes'
      BY DEF TypeOK, RunTypes
    <3>3. SharedTypes'
      BY DEF TypeOK, SharedTypes
    <3> QED BY <3>1, <3>2, <3>3 DEF TypeOK
  <2>2. ASSUME NEW r \in Runs, NEW p \in Plans, HandleOrder(r, p) PROVE TypeOK'
    BY <2>2, HandleOrderTypeOK
  <2>3. ASSUME NEW r \in Runs, RunStep(r) PROVE TypeOK'
    BY <2>3, RunStepTypeOK
  <2>4. ASSUME NEW i \in Instants, InstantHandle(i) \/ InstantStep(i)
        PROVE TypeOK'
    BY <2>4, InstantHandleTypeOK, InstantStepTypeOK
  <2>5. CASE Crash \/ Restart
    BY <2>5, CrashTypeOK, RestartTypeOK
  <2> QED BY <2>1, <2>2, <2>3, <2>4, <2>5 DEF Next
<1> QED BY InitTypeOK, <1>1, PTL DEF Spec

-----------------------------------------------------------------------------
(* The cancel channels.                                                    *)

(* NoDoubleClose is not inductive: closing oh.cancelCh is safe because the *)
(* channel it names is open, and that is so because whoever closes it also *)
(* replaces or forgets it.  A superseded run is always signalled for the   *)
(* converse reason: no other channel is open.  A run that has not started  *)
(* has no channel, so a new run never reuses one.                          *)
ChannelInv ==
  /\ ~panic
  /\ cancelCh # None => chan[cancelCh] = "open"
  /\ SupersededSignalled

LEMMA InitChannelInv == Init => ChannelInv
BY Zenon DEF Init, ChannelInv, SupersededSignalled

LEMMA CloseChannelInv ==
  ASSUME TypeOK, ChannelInv, NEW q \in Runs \cup {None}, CloseChannel(q),
         cancelCh' = q
  PROVE  ChannelInv'
<1>1. /\ chan \in [Runs -> {"none", "open", "closed"}]
      /\ cancelCh \in Runs \cup {None} /\ None \notin Runs
  BY EngineAssumption DEF TypeOK, HandlerTypes
<1>2. ~panic'
  <2>1. ~(cancelCh # None /\ chan[cancelCh] = "closed")
    BY DEF ChannelInv
  <2> QED BY <2>1, Zenon DEF CloseChannel, ChannelInv
<1>3. cancelCh' # None => chan'[cancelCh'] = "open"
  BY <1>1 DEF CloseChannel
<1>4. SupersededSignalled'
  BY <1>1 DEF CloseChannel, ChannelInv, SupersededSignalled
<1> QED BY <1>2, <1>3, <1>4 DEF ChannelInv

LEMMA ChannelUnchanged ==
  ASSUME ChannelInv, UNCHANGED <<cancelCh, chan, panic>>
  PROVE  ChannelInv'
BY Zenon DEF ChannelInv, SupersededSignalled

LEMMA NextChannelInv == TypeOK /\ ChannelInv /\ [Next]_vars => ChannelInv'
<1> SUFFICES ASSUME TypeOK, ChannelInv, [Next]_vars PROVE ChannelInv'
  OBVIOUS
<1>1. CASE UNCHANGED vars
  BY <1>1, ChannelUnchanged DEF vars, handlerVars
<1>2. ASSUME NEW r \in Runs, NEW p \in Plans, HandleOrder(r, p)
      PROVE  ChannelInv'
  BY <1>2, CloseChannelInv DEF HandleOrder
<1>3. ASSUME NEW r \in Runs, RunStep(r) PROVE ChannelInv'
  BY <1>3, RunStepFrame, ChannelUnchanged
<1>4. ASSUME NEW i \in Instants, InstantHandle(i) \/ InstantStep(i)
      PROVE  ChannelInv'
  <2>1. CASE InstantCancel(i)
    BY <2>1, CloseChannelInv DEF InstantCancel, CancelCurrentOrder
  <2>2. CASE InstantHandle(i) \/ InstantReport(i) \/ InstantCleanUp(i)
    BY <2>2, ChannelUnchanged
       DEF InstantHandle, InstantReport, InstantCleanUp, handlerVars
  <2> QED BY <1>4, <2>1, <2>2 DEF InstantStep
<1>5. CASE Crash
  <2>1. \A r \in Runs : chan'[r] # "open"
    BY <1>5 DEF Crash
  <2>2. cancelCh' = None /\ panic' = panic
    BY <1>5 DEF Crash
  <2> QED BY <2>1, <2>2, Zenon DEF ChannelInv, SupersededSignalled
<1>6. CASE Restart
  BY <1>6, ChannelUnchanged DEF Restart, handlerVars
<1> QED BY <1>1, <1>2, <1>3, <1>4, <1>5, <1>6 DEF Next

LEMMA ChannelsCorrect == Spec => []ChannelInv
BY TypeCorrect, InitChannelInv, NextChannelInv, PTL DEF Spec

(* However many orders and cancelOrder actions race, no cancel channel is  *)
(* closed twice: the MQTT callback does not panic.                         *)
THEOREM NeverClosesTwice == Spec => []NoDoubleClose
<1>1. ChannelInv => NoDoubleClose
  BY DEF ChannelInv, NoDoubleClose
<1> QED BY <1>1, ChannelsCorrect, PTL

(* Every run that is no longer current has been told to stop.              *)
THEOREM SupersededRunsStop == Spec => []SupersededSignalled
<1>1. ChannelInv => SupersededSignalled
  BY DEF ChannelInv
<1> QED BY <1>1, ChannelsCorrect, PTL

-----------------------------------------------------------------------------
(* The orders table.                                                       *)

(* A run owes an outcome from InsertOrder to FinishOrder, and these are    *)
(* the only steps that write the status of a row.                          *)
LEMMA RunStepOwing ==
  ASSUME TypeOK, NEW r \in Runs, RunStep(r)
  PROVE  \/ /\ pc[r] \in Owing <=> pc'[r] \in Owing
            /\ \A o \in OrderIds : rows'[o].status = rows[o].status
         \/ /\ pc[r] \notin Owing /\ pc'[r] \in Owing
            /\ rows' = [rows EXCEPT ![Id(r)].status = "running",
                                    ![Id(r)].raw = raw]
         \/ /\ pc[r] \in Owing /\ pc'[r] \notin Owing
            /\ result[r] \in Outcomes
            /\ rows' = [rows EXCEPT ![Id(r)].status = result[r]]
<1> DEFINE Accounted ==
      \/ /\ pc[r] \in Owing <=> pc'[r] \in Owing
         /\ \A o \in OrderIds : rows'[o].status = rows[o].status
      \/ /\ pc[r] \notin Owing /\ pc'[r] \in Owing
         /\ rows' = [rows EXCEPT ![Id(r)].status = "running",
                                 ![Id(r)].raw = raw]
      \/ /\ pc[r] \in Owing /\ pc'[r] \notin Owing
         /\ result[r] \in Outcomes
         /\ rows' = [rows EXCEPT ![Id(r)].status = result[r]]
<1> SUFFICES Accounted
  OBVIOUS
<1>0. /\ pc \in [Runs -> Stages] /\ rows \in [OrderIds -> Rows]
      /\ pc[r] = "settle" => result[r] \in Outcomes
  BY DEF TypeOK, RunTypes, SharedTypes
<1> USE DEF Goto, Settle, SetAction, tables
<1>1. CASE RunSetOrder(r)
  BY <1>0, <1>1 DEF RunSetOrder
<1>2. CASE StoreInsertOrder(r)
  BY <1>0, <1>2 DEF StoreInsertOrder
<1>3. CASE InitNodeStates(r)
  BY <1>0, <1>3 DEF InitNodeStates
<1>4. CASE InitEdgeStates(r)
  BY <1>0, <1>4 DEF InitEdgeStates
<1>5. CASE RunInitActionStates(r)
  BY <1>0, <1>5 DEF RunInitActionStates
<1>6. CASE EnsureNotCharging(r)
  BY <1>0, <1>6 DEF EnsureNotCharging
<1>7. CASE ReachNode(r)
  BY <1>0, <1>7 DEF ReachNode, Rows
<1>8. CASE RunRemoveNodeState(r)
  BY <1>0, <1>8 DEF RunRemoveNodeState
<1>9. CASE NodeActionsDone(r)
  BY <1>0, <1>9 DEF NodeActionsDone
<1>10. CASE OrderCancelled(r)
  BY <1>0, <1>10 DEF OrderCancelled
<1>11. CASE RefuseCrossMap(r)
  BY <1>0, <1>11 DEF RefuseCrossMap
<1>12. CASE NextNode(r)
  BY <1>0, <1>12 DEF NextNode
<1>13. CASE NodesDone(r)
  BY <1>0, <1>13 DEF NodesDone
<1>14. CASE EdgeActionsDone(r)
  BY <1>0, <1>14 DEF EdgeActionsDone
<1>15. CASE NavigateXY(r)
  BY <1>0, <1>15 DEF NavigateXY
<1>16. CASE NavigateNoTarget(r)
  BY <1>0, <1>16 DEF NavigateNoTarget
<1>17. CASE NavigateByStation(r)
  BY <1>0, <1>17 DEF NavigateByStation, BeginLeg
<1>18. CASE SendDelivery(r)
  BY <1>0, <1>18 DEF SendDelivery
<1>19. CASE DeliveryActive(r)
  BY <1>0, <1>19 DEF DeliveryActive
<1>20. CASE RetryDelivery(r)
  BY <1>0, <1>20 DEF RetryDelivery
<1>21. CASE LegArrived(r)
  BY <1>0, <1>21 DEF LegArrived
<1>22. CASE LegFailed(r)
  BY <1>0, <1>22 DEF LegFailed
<1>23. CASE RunRemoveEdgeState(r)
  BY <1>0, <1>23 DEF RunRemoveEdgeState
<1>24. CASE EnterCounterWait(r)
  BY <1>0, <1>24 DEF EnterCounterWait
<1>25. CASE CounterWaitCancelled(r)
  BY <1>0, <1>25 DEF CounterWaitCancelled
<1>26. CASE ReturnToCounter(r)
  BY <1>0, <1>26 DEF ReturnToCounter, BeginLeg
<1>27. CASE StoreFinishOrder(r)
  BY <1>0, <1>27 DEF StoreFinishOrder
<1>28. CASE RunClearOrder(r)
  BY <1>0, <1>28 DEF RunClearOrder
<1>29. CASE ForgetOrder(r)
  BY <1>0, <1>29 DEF ForgetOrder
<1>30. ASSUME NEW loop \in ActionLoops, ActionCancelled(r, loop) PROVE Accounted
  BY <1>0, <1>30 DEF ActionCancelled, ActionLoops, RunningIn
<1>31. ASSUME NEW loop \in ActionLoops, SkipAction(r, loop) PROVE Accounted
  BY <1>0, <1>31 DEF SkipAction, ActionLoops, RunningIn
<1>32. ASSUME NEW loop \in ActionLoops, StartAction(r, loop) PROVE Accounted
  BY <1>0, <1>32 DEF StartAction, ActionLoops, RunningIn
<1>33. ASSUME NEW loop \in ActionLoops, FinishAction(r, loop) PROVE Accounted
  BY <1>0, <1>33 DEF FinishAction, ActionLoops, RunningIn
<1>34. ASSUME NEW loop \in ActionLoops, FailAction(r, loop) PROVE Accounted
  BY <1>0, <1>34 DEF FailAction, ActionLoops, RunningIn
<1> QED
      BY <1>1, <1>2, <1>3, <1>4, <1>5, <1>6, <1>7, <1>8, <1>9, <1>10,
         <1>11, <1>12, <1>13, <1>14, <1>15, <1>16, <1>17, <1>18, <1>19,
         <1>20, <1>21, <1>22, <1>23, <1>24, <1>25, <1>26, <1>27, <1>28,
         <1>29, <1>30, <1>31, <1>32, <1>33, <1>34
         DEF RunStep

LEMMA InstantFrame ==
  ASSUME NEW i \in Instants, InstantHandle(i) \/ InstantStep(i)
  PROVE  UNCHANGED <<process, pc, loopVars, tables, history>>
BY DEF InstantHandle, InstantStep, InstantCancel, InstantReport,
       InstantCleanUp

LEMMA NextRunningRowOwned ==
  TypeOK /\ RunningRowOwned /\ [Next]_vars => RunningRowOwned'
<1> SUFFICES ASSUME TypeOK, RunningRowOwned, [Next]_vars PROVE RunningRowOwned'
  OBVIOUS
<1> USE DEF RunningRowOwned, Id
<1>0. /\ pc \in [Runs -> Stages] /\ plan \in [Runs -> Plans \cup {None}]
      /\ rows \in [OrderIds -> Rows]
  BY DEF TypeOK, RunTypes, SharedTypes
<1>1. CASE UNCHANGED vars
  BY <1>1 DEF vars, process, loopVars, tables
<1>2. ASSUME NEW r \in Runs, NEW p \in Plans, HandleOrder(r, p)
      PROVE  RunningRowOwned'
  <2>1. /\ up' = up /\ rows' = rows /\ pc[r] = "idle"
        /\ \A q \in Runs \ {r} : pc'[q] = pc[q] /\ plan'[q] = plan[q]
    BY <1>0, <1>2 DEF HandleOrder, process, tables
  <2>2. \A q \in Runs : pc[q] \in Owing => q # r
    BY <2>1
  <2> QED BY <2>1, <2>2
<1>3. ASSUME NEW r \in Runs, RunStep(r) PROVE RunningRowOwned'
  <2>1. /\ UNCHANGED <<up, plan>> /\ \A q \in Runs \ {r} : pc'[q] = pc[q]
        /\ pc[r] # "idle"
    BY <1>3, RunStepFrame
  <2>2. CASE /\ pc[r] \in Owing <=> pc'[r] \in Owing
             /\ \A o \in OrderIds : rows'[o].status = rows[o].status
    BY <2>1, <2>2
  <2>3. CASE /\ pc[r] \notin Owing /\ pc'[r] \in Owing
             /\ rows' = [rows EXCEPT ![Id(r)].status = "running",
                                     ![Id(r)].raw = raw]
    BY <1>0, <2>1, <2>3
  <2>4. CASE /\ pc[r] \in Owing /\ pc'[r] \notin Owing
             /\ result[r] \in Outcomes
             /\ rows' = [rows EXCEPT ![Id(r)].status = result[r]]
    <3>1. \A o \in OrderIds : rows'[o].status = "running" =>
            o # Id(r) /\ rows[o].status = "running"
      BY <1>0, <2>4 DEF Rows, Outcomes
    <3> QED BY <2>1, <3>1
  <2> QED BY <1>3, <2>2, <2>3, <2>4, RunStepOwing
<1>4. ASSUME NEW i \in Instants, InstantHandle(i) \/ InstantStep(i)
      PROVE  RunningRowOwned'
  <2>1. UNCHANGED <<up, pc, plan, rows>>
    BY <1>4, InstantFrame DEF process, loopVars, tables
  <2> QED BY <2>1
<1>5. CASE Crash
  BY <1>5 DEF Crash
<1>6. CASE Restart
  BY <1>0, <1>6 DEF Restart, Rows
<1> QED BY <1>1, <1>2, <1>3, <1>4, <1>5, <1>6 DEF Next

(* A row that says running always has a run that still owes its outcome,   *)
(* also when the same order was sent again while it was executing and when *)
(* the bridge crashed at any point and was restarted.                      *)
THEOREM RunningRowsAreOwned == Spec => []RunningRowOwned
<1>1. Init => RunningRowOwned
  BY DEF Init, RunningRowOwned
<1> QED BY <1>1, TypeCorrect, NextRunningRowOwned, PTL DEF Spec

-----------------------------------------------------------------------------
(* The state message.                                                      *)

(* QuiescentCleared is not inductive: a run that has called ClearOrder is   *)
(* still live until it forgets the current order.  What holds all along is *)
(* that the state is clear when no live run still has to clear it.         *)
Clearing == {r \in Runs : pc[r] \in Live \ {"forget"}}
ClearedInv == Clearing = {} => OrderCleared

(* A step of a run other than the last two ends with the run still bound   *)
(* to clear the state.                                                     *)
LEMMA RunStepClearing ==
  ASSUME TypeOK, NEW r \in Runs, RunStep(r)
  PROVE  \/ pc'[r] \in Live \ {"forget"}
         \/ rs' = EmptyRobotState
         \/ pc[r] = "forget" /\ pc'[r] = "done" /\ rs' = rs
<1> DEFINE Bound == \/ pc'[r] \in Live \ {"forget"}
                    \/ rs' = EmptyRobotState
                    \/ pc[r] = "forget" /\ pc'[r] = "done" /\ rs' = rs
<1> SUFFICES Bound
  OBVIOUS
<1>0. pc \in [Runs -> Stages]
  BY DEF TypeOK, RunTypes
<1> USE DEF Goto, Settle
<1>1. CASE RunSetOrder(r)
  BY <1>0, <1>1 DEF RunSetOrder
<1>2. CASE StoreInsertOrder(r)
  BY <1>0, <1>2 DEF StoreInsertOrder
<1>3. CASE InitNodeStates(r)
  BY <1>0, <1>3 DEF InitNodeStates
<1>4. CASE InitEdgeStates(r)
  BY <1>0, <1>4 DEF InitEdgeStates
<1>5. CASE RunInitActionStates(r)
  BY <1>0, <1>5 DEF RunInitActionStates
<1>6. CASE EnsureNotCharging(r)
  BY <1>0, <1>6 DEF EnsureNotCharging
<1>7. CASE ReachNode(r)
  BY <1>0, <1>7 DEF ReachNode
<1>8. CASE RunRemoveNodeState(r)
  BY <1>0, <1>8 DEF RunRemoveNodeState
<1>9. CASE NodeActionsDone(r)
  BY <1>0, <1>9 DEF NodeActionsDone
<1>10. CASE OrderCancelled(r)
  BY <1>0, <1>10 DEF OrderCancelled
<1>11. CASE RefuseCrossMap(r)
  BY <1>0, <1>11 DEF RefuseCrossMap
<1>12. CASE NextNode(r)
  BY <1>0, <1>12 DEF NextNode
<1>13. CASE NodesDone(r)
  BY <1>0, <1>13 DEF NodesDone
<1>14. CASE EdgeActionsDone(r)
  BY <1>0, <1>14 DEF EdgeActionsDone
<1>15. CASE NavigateXY(r)
  BY <1>0, <1>15 DEF NavigateXY
<1>16. CASE NavigateNoTarget(r)
  BY <1>0, <1>16 DEF NavigateNoTarget
<1>17. CASE NavigateByStation(r)
  BY <1>0, <1>17 DEF NavigateByStation, BeginLeg
<1>18. CASE SendDelivery(r)
  BY <1>0, <1>18 DEF SendDelivery
<1>19. CASE DeliveryActive(r)
  BY <1>0, <1>19 DEF DeliveryActive
<1>20. CASE RetryDelivery(r)
  BY <1>0, <1>20 DEF RetryDelivery
<1>21. CASE LegArrived(r)
  BY <1>0, <1>21 DEF LegArrived
<1>22. CASE LegFailed(r)
  BY <1>0, <1>22 DEF LegFailed
<1>23. CASE RunRemoveEdgeState(r)
  BY <1>0, <1>23 DEF RunRemoveEdgeState
<1>24. CASE EnterCounterWait(r)
  BY <1>0, <1>24 DEF EnterCounterWait
<1>25. CASE CounterWaitCancelled(r)
  BY <1>0, <1>25 DEF CounterWaitCancelled
<1>26. CASE ReturnToCounter(r)
  BY <1>0, <1>26 DEF ReturnToCounter, BeginLeg
<1>27. CASE StoreFinishOrder(r)
  BY <1>0, <1>27 DEF StoreFinishOrder
<1>28. CASE RunClearOrder(r)
  BY <1>0, <1>28 DEF RunClearOrder, ClearOrder
<1>29. CASE ForgetOrder(r)
  BY <1>0, <1>29 DEF ForgetOrder
<1>30. ASSUME NEW loop \in ActionLoops, ActionCancelled(r, loop) PROVE Bound
  BY <1>0, <1>30 DEF ActionCancelled, ActionLoops, RunningIn
<1>31. ASSUME NEW loop \in ActionLoops, SkipAction(r, loop) PROVE Bound
  BY <1>0, <1>31 DEF SkipAction, ActionLoops, RunningIn
<1>32. ASSUME NEW loop \in ActionLoops, StartAction(r, loop) PROVE Bound
  BY <1>0, <1>32 DEF StartAction, ActionLoops, RunningIn
<1>33. ASSUME NEW loop \in ActionLoops, FinishAction(r, loop) PROVE Bound
  BY <1>0, <1>33 DEF FinishAction, ActionLoops, RunningIn
<1>34. ASSUME NEW loop \in ActionLoops, FailAction(r, loop) PROVE Bound
  BY <1>0, <1>34 DEF FailAction, ActionLoops, RunningIn
<1> QED
      BY <1>1, <1>2, <1>3, <1>4, <1>5, <1>6, <1>7, <1>8, <1>9, <1>10,
         <1>11, <1>12, <1>13, <1>14, <1>15, <1>16, <1>17, <1>18, <1>19,
         <1>20, <1>21, <1>22, <1>23, <1>24, <1>25, <1>26, <1>27, <1>28,
         <1>29, <1>30, <1>31, <1>32, <1>33, <1>34
         DEF RunStep

LEMMA EmptyIsCleared == rs' = EmptyRobotState => OrderCleared'
BY DEF EmptyRobotState, OrderCleared

(* Instant actions only touch the action states of instant actions.        *)
LEMMA InstantKeepsCleared ==
  ASSUME TypeOK, OrderCleared, NEW i \in Instants,
         InstantHandle(i) \/ InstantStep(i)
  PROVE  OrderCleared'
<1>0. rs \in RobotStates
  BY DEF TypeOK, SharedTypes
<1> USE DEF OrderCleared, RobotStates, Reported
<1>1. CASE InstantHandle(i)
  BY <1>0, <1>1 DEF InstantHandle, AddActionState, Instants
<1>2. CASE InstantCancel(i)
  BY <1>2 DEF InstantCancel, Instants
<1>3. CASE InstantReport(i)
  <2>1. PICK st \in Reported : rs' = UpdateActionState(rs, i, st)
    BY <1>3 DEF InstantReport
  <2> QED BY <1>0, <2>1 DEF UpdateActionState, Instants
<1>4. CASE InstantCleanUp(i)
  BY <1>0, <1>4 DEF InstantCleanUp, RemoveFinishedActions, Instants
<1> QED BY <1>1, <1>2, <1>3, <1>4 DEF InstantStep

LEMMA NextClearedInv == TypeOK /\ ClearedInv /\ [Next]_vars => ClearedInv'
<1> SUFFICES ASSUME TypeOK, ClearedInv, [Next]_vars PROVE ClearedInv'
  OBVIOUS
<1>0. pc \in [Runs -> Stages]
  BY DEF TypeOK, RunTypes
<1> USE DEF ClearedInv, Clearing
<1>1. CASE UNCHANGED vars
  BY <1>1 DEF vars, OrderCleared
<1>2. ASSUME NEW r \in Runs, NEW p \in Plans, HandleOrder(r, p)
      PROVE  ClearedInv'
  <2>1. pc'[r] = "setOrder"
    BY <1>0, <1>2 DEF HandleOrder
  <2> QED BY <2>1
<1>3. ASSUME NEW r \in Runs, RunStep(r) PROVE ClearedInv'
  <2>1. \A q \in Runs \ {r} : pc'[q] = pc[q]
    BY <1>3, RunStepFrame
  <2>2. CASE pc'[r] \in Live \ {"forget"}
    BY <2>2
  <2>3. CASE rs' = EmptyRobotState
    BY <2>3, EmptyIsCleared
  <2>4. CASE pc[r] = "forget" /\ pc'[r] = "done" /\ rs' = rs
    <3>1. Clearing' = Clearing
      BY <2>1, <2>4
    <3> QED BY <2>4, <3>1 DEF OrderCleared
  <2> QED BY <1>3, <2>2, <2>3, <2>4, RunStepClearing
<1>4. ASSUME NEW i \in Instants, InstantHandle(i) \/ InstantStep(i)
      PROVE  ClearedInv'
  BY <1>4, InstantFrame, InstantKeepsCleared
<1>5. CASE Crash
  BY <1>5, EmptyIsCleared DEF Crash
<1>6. CASE Restart
  BY <1>6 DEF Restart, OrderCleared
<1> QED BY <1>1, <1>2, <1>3, <1>4, <1>5, <1>6 DEF Next

(* Once every run has returned, nothing of any order is left in the state, *)
(* whichever of the overlapping runs wrote last.                           *)
THEOREM QuiescentStateIsCleared == Spec => []QuiescentCleared
<1>1. Init => ClearedInv
  BY DEF Init, ClearedInv, OrderCleared, EmptyRobotState
<1>2. ClearedInv => QuiescentCleared
  BY DEF ClearedInv, Clearing, QuiescentCleared, LiveRuns
<1> QED BY <1>1, <1>2, TypeCorrect, NextClearedInv, PTL DEF Spec

-----------------------------------------------------------------------------
(* Legs begun after a cancellation.                                        *)

(* OneLegAfterCancel holds because a run that has begun a leg after it was *)
(* told to stop can never again be where a leg begins: its channel stays   *)
(* closed, and the loop over the nodes and the wait for the counter both   *)
(* check it first.                                                         *)
AfterLeg ==
  OnLeg \cup AtNode \cup {"removeEdge", "nextNode", "counterEntry", "settle",
                         "clear", "forget"}
LateRun(r) ==
  \/ pc[r] \in {"done", "dead"}
  \/ pc[r] \in AfterLeg /\ Cancelled(r)
LateInv == \A r \in Runs : lateLegs[r] = 0 \/ (lateLegs[r] = 1 /\ LateRun(r))

LEMMA RunStepLate ==
  ASSUME TypeOK, LateInv, NEW r \in Runs, RunStep(r)
  PROVE  /\ \A q \in Runs \ {r} : lateLegs'[q] = lateLegs[q]
         /\ lateLegs'[r] = 0 \/ (lateLegs'[r] = 1 /\ LateRun(r)')
<1> DEFINE Late ==
      /\ \A q \in Runs \ {r} : lateLegs'[q] = lateLegs[q]
      /\ lateLegs'[r] = 0 \/ (lateLegs'[r] = 1 /\ LateRun(r)')
<1> SUFFICES Late
  OBVIOUS
<1>0. /\ pc \in [Runs -> Stages] /\ lateLegs \in [Runs -> Nat] /\ chan' = chan
      /\ lateLegs[r] = 0 \/ (lateLegs[r] = 1 /\ LateRun(r))
  BY RunStepFrame DEF TypeOK, RunTypes, SharedTypes, LateInv
<1> USE DEF Goto, Settle, LateRun, AfterLeg, Cancelled, history
<1>1. CASE RunSetOrder(r)
  BY <1>0, <1>1 DEF RunSetOrder
<1>2. CASE StoreInsertOrder(r)
  BY <1>0, <1>2 DEF StoreInsertOrder
<1>3. CASE InitNodeStates(r)
  BY <1>0, <1>3 DEF InitNodeStates
<1>4. CASE InitEdgeStates(r)
  BY <1>0, <1>4 DEF InitEdgeStates
<1>5. CASE RunInitActionStates(r)
  BY <1>0, <1>5 DEF RunInitActionStates
<1>6. CASE EnsureNotCharging(r)
  BY <1>0, <1>6 DEF EnsureNotCharging
<1>7. CASE ReachNode(r)
  BY <1>0, <1>7 DEF ReachNode
<1>8. CASE RunRemoveNodeState(r)
  BY <1>0, <1>8 DEF RunRemoveNodeState
<1>9. CASE NodeActionsDone(r)
  BY <1>0, <1>9 DEF NodeActionsDone
<1>10. CASE OrderCancelled(r)
  BY <1>0, <1>10 DEF OrderCancelled
<1>11. CASE RefuseCrossMap(r)
  BY <1>0, <1>11 DEF RefuseCrossMap
<1>12. CASE NextNode(r)
  BY <1>0, <1>12 DEF NextNode
<1>13. CASE NodesDone(r)
  BY <1>0, <1>13 DEF NodesDone
<1>14. CASE EdgeActionsDone(r)
  BY <1>0, <1>14 DEF EdgeActionsDone
<1>15. CASE NavigateXY(r)
  BY <1>0, <1>15 DEF NavigateXY
<1>16. CASE NavigateNoTarget(r)
  BY <1>0, <1>16 DEF NavigateNoTarget
<1>17. CASE NavigateByStation(r)
  BY <1>0, <1>17 DEF NavigateByStation, BeginLeg
<1>18. CASE SendDelivery(r)
  BY <1>0, <1>18 DEF SendDelivery
<1>19. CASE DeliveryActive(r)
  BY <1>0, <1>19 DEF DeliveryActive
<1>20. CASE RetryDelivery(r)
  BY <1>0, <1>20 DEF RetryDelivery
<1>21. CASE LegArrived(r)
  BY <1>0, <1>21 DEF LegArrived
<1>22. CASE LegFailed(r)
  BY <1>0, <1>22 DEF LegFailed
<1>23. CASE RunRemoveEdgeState(r)
  BY <1>0, <1>23 DEF RunRemoveEdgeState
<1>24. CASE EnterCounterWait(r)
  BY <1>0, <1>24 DEF EnterCounterWait
<1>25. CASE CounterWaitCancelled(r)
  BY <1>0, <1>25 DEF CounterWaitCancelled
<1>26. CASE ReturnToCounter(r)
  BY <1>0, <1>26 DEF ReturnToCounter, BeginLeg
<1>27. CASE StoreFinishOrder(r)
  BY <1>0, <1>27 DEF StoreFinishOrder
<1>28. CASE RunClearOrder(r)
  BY <1>0, <1>28 DEF RunClearOrder
<1>29. CASE ForgetOrder(r)
  BY <1>0, <1>29 DEF ForgetOrder
<1>30. ASSUME NEW loop \in ActionLoops, ActionCancelled(r, loop) PROVE Late
  BY <1>0, <1>30 DEF ActionCancelled, ActionLoops, RunningIn
<1>31. ASSUME NEW loop \in ActionLoops, SkipAction(r, loop) PROVE Late
  BY <1>0, <1>31 DEF SkipAction, ActionLoops, RunningIn
<1>32. ASSUME NEW loop \in ActionLoops, StartAction(r, loop) PROVE Late
  BY <1>0, <1>32 DEF StartAction, ActionLoops, RunningIn
<1>33. ASSUME NEW loop \in ActionLoops, FinishAction(r, loop) PROVE Late
  BY <1>0, <1>33 DEF FinishAction, ActionLoops, RunningIn
<1>34. ASSUME NEW loop \in ActionLoops, FailAction(r, loop) PROVE Late
  BY <1>0, <1>34 DEF FailAction, ActionLoops, RunningIn
<1> QED
      BY <1>1, <1>2, <1>3, <1>4, <1>5, <1>6, <1>7, <1>8, <1>9, <1>10,
         <1>11, <1>12, <1>13, <1>14, <1>15, <1>16, <1>17, <1>18, <1>19,
         <1>20, <1>21, <1>22, <1>23, <1>24, <1>25, <1>26, <1>27, <1>28,
         <1>29, <1>30, <1>31, <1>32, <1>33, <1>34
         DEF RunStep

LEMMA NextLateInv == TypeOK /\ LateInv /\ [Next]_vars => LateInv'
<1> SUFFICES ASSUME TypeOK, LateInv, [Next]_vars PROVE LateInv'
  OBVIOUS
<1>0. /\ pc \in [Runs -> Stages] /\ None \notin Runs
      /\ chan \in [Runs -> {"none", "open", "closed"}]
  BY EngineAssumption DEF TypeOK, RunTypes, HandlerTypes
<1> USE DEF LateInv, LateRun, Cancelled
<1>1. CASE UNCHANGED vars
  BY <1>1 DEF vars, handlerVars, history
<1>2. ASSUME NEW r \in Runs, NEW p \in Plans, HandleOrder(r, p)
      PROVE  LateInv'
  <2>1. /\ lateLegs' = lateLegs /\ pc[r] = "idle"
        /\ \A q \in Runs \ {r} : pc'[q] = pc[q]
    BY <1>0, <1>2 DEF HandleOrder
  <2>2. \A q \in Runs \ {r} : chan[q] = "closed" => chan'[q] = "closed"
    BY <1>0, <1>2 DEF HandleOrder, CloseChannel
  <2>3. lateLegs[r] = 0
    BY <2>1 DEF AfterLeg
  <2> QED BY <2>1, <2>2, <2>3
<1>3. ASSUME NEW r \in Runs, RunStep(r) PROVE LateInv'
  <2>1. chan' = chan /\ \A q \in Runs \ {r} : pc'[q] = pc[q]
    BY <1>3, RunStepFrame
  <2>2. /\ \A q \in Runs \ {r} : lateLegs'[q] = lateLegs[q]
        /\ lateLegs'[r] = 0 \/ (lateLegs'[r] = 1 /\ LateRun(r)')
    BY <1>3, RunStepLate
  <2> QED BY <2>1, <2>2
<1>4. ASSUME NEW i \in Instants, InstantHandle(i) \/ InstantStep(i)
      PROVE  LateInv'
  <2>1. pc' = pc /\ lateLegs' = lateLegs
    BY <1>4, InstantFrame DEF history
  <2>2. \A q \in Runs : chan[q] = "closed" => chan'[q] = "closed"
    BY <1>0, <1>4 DEF InstantHandle, InstantStep, InstantCancel, InstantReport,
       InstantCleanUp, CancelCurrentOrder, CloseChannel, handlerVars
  <2> QED BY <2>1, <2>2
<1>5. CASE Crash
  BY <1>0, <1>5 DEF Crash, history, AfterLeg
<1>6. CASE Restart
  BY <1>6 DEF Restart, handlerVars, history
<1> QED BY <1>1, <1>2, <1>3, <1>4, <1>5, <1>6 DEF Next

(* A run that was told to stop sends the robot on at most one more leg.    *)
THEOREM OneMoreLegAtMost == Spec => []OneLegAfterCancel
<1>1. Init => LateInv
  BY DEF Init, LateInv
<1>2. LateInv => OneLegAfterCancel
  BY DEF LateInv, OneLegAfterCancel
<1> QED BY <1>1, <1>2, TypeCorrect, NextLateInv, PTL DEF Spec

-----------------------------------------------------------------------------
(* Refinement of the ledger.                                               *)

(* A process that is down has no run: only HandleOrder starts one.         *)
DownInv == ~up => LiveRuns = {}

LEMMA NextDownInv == TypeOK /\ DownInv /\ [Next]_vars => DownInv'
<1> SUFFICES ASSUME TypeOK, DownInv, [Next]_vars PROVE DownInv'
  OBVIOUS
<1>0. pc \in [Runs -> Stages]
  BY DEF TypeOK, RunTypes
<1> USE DEF DownInv, LiveRuns
<1>1. CASE UNCHANGED vars
  BY <1>1 DEF vars, process
<1>2. ASSUME NEW r \in Runs, NEW p \in Plans, HandleOrder(r, p)
      PROVE  DownInv'
  BY <1>2 DEF HandleOrder, process
<1>3. ASSUME NEW r \in Runs, RunStep(r) PROVE DownInv'
  BY <1>3, RunStepFrame
<1>4. ASSUME NEW i \in Instants, InstantHandle(i) \/ InstantStep(i)
      PROVE  DownInv'
  BY <1>4, InstantFrame DEF process
<1>5. CASE Crash
  BY <1>0, <1>5 DEF Crash
<1>6. CASE Restart
  BY <1>6 DEF Restart
<1> QED BY <1>1, <1>2, <1>3, <1>4, <1>5, <1>6 DEF Next

LEMMA NothingOwed ==
  ASSUME UNCHANGED <<up, pc, plan>>, \A o \in OrderIds : rows'[o].status = rows[o].status
  PROVE  UNCHANGED Ledger!vars
<1>1. Told' = Told /\ Owed' = Owed
  BY DEF Told, Owed, Id
<1> QED BY <1>1 DEF Ledger!vars

LEMMA RunStepLedger ==
  ASSUME TypeOK, DownInv, NEW r \in Runs, RunStep(r)
  PROVE  [Ledger!Next]_(Ledger!vars)
<1>0. /\ pc \in [Runs -> Stages] /\ rows \in [OrderIds -> Rows]
      /\ UNCHANGED <<up, plan>> /\ \A q \in Runs \ {r} : pc'[q] = pc[q]
      /\ pc[r] \in Live /\ pc' \in [Runs -> Stages]
  BY RunStepFrame DEF TypeOK, RunTypes, SharedTypes
<1>1. up /\ Id(r) \in OrderIds
  BY <1>0, RunHasPlan DEF DownInv, LiveRuns
<1>2. CASE /\ pc[r] \in Owing <=> pc'[r] \in Owing
           /\ \A o \in OrderIds : rows'[o].status = rows[o].status
  <2>1. Told' = Told /\ Owed' = Owed
    BY <1>0, <1>2 DEF Told, Owed, Id
  <2> QED BY <1>0, <2>1 DEF Ledger!vars
<1>3. CASE /\ pc[r] \notin Owing /\ pc'[r] \in Owing
           /\ rows' = [rows EXCEPT ![Id(r)].status = "running",
                                   ![Id(r)].raw = raw]
  <2>1. Told' = [Told EXCEPT ![Id(r)] = "running"]
    <3>1. \A o \in OrderIds :
            rows'[o].status = IF o = Id(r) THEN "running" ELSE rows[o].status
      BY <1>0, <1>1, <1>3 DEF Rows
    <3> QED BY <1>1, <3>1 DEF Told
  <2>2. Owed' = [Owed EXCEPT ![Id(r)] = @ \cup {r}]
    <3>1. \A o \in OrderIds :
            {q \in Runs : pc'[q] \in Owing /\ plan'[q].id = o} =
            IF o = Id(r)
            THEN {q \in Runs : pc[q] \in Owing /\ plan[q].id = o} \cup {r}
            ELSE {q \in Runs : pc[q] \in Owing /\ plan[q].id = o}
      BY <1>0, <1>3 DEF Id
    <3>2. \A o \in OrderIds :
            Owed'[o] = IF o = Id(r) THEN Owed[o] \cup {r} ELSE Owed[o]
      BY <3>1 DEF Owed, Id
    <3>3. /\ Owed' = [o \in OrderIds |-> Owed'[o]]
          /\ Owed = [o \in OrderIds |-> Owed[o]]
      BY DEF Owed
    <3> QED BY <1>1, <3>2, <3>3
  <2>3. \A o \in OrderIds : r \notin Owed[o]
    BY <1>3 DEF Owed
  <2>4. Ledger!Open(r, Id(r))
    BY <1>0, <1>1, <2>1, <2>2, <2>3 DEF Ledger!Open
  <2> QED BY <1>1, <2>4 DEF Ledger!Next
<1>4. CASE /\ pc[r] \in Owing /\ pc'[r] \notin Owing
           /\ result[r] \in Outcomes
           /\ rows' = [rows EXCEPT ![Id(r)].status = result[r]]
  <2>1. Told' = [Told EXCEPT ![Id(r)] = result[r]]
    <3>1. \A o \in OrderIds :
            rows'[o].status = IF o = Id(r) THEN result[r] ELSE rows[o].status
      BY <1>0, <1>1, <1>4 DEF Rows
    <3> QED BY <1>1, <3>1 DEF Told
  <2>2. Owed' = [Owed EXCEPT ![Id(r)] = @ \ {r}]
    <3>1. \A o \in OrderIds :
            {q \in Runs : pc'[q] \in Owing /\ plan'[q].id = o} =
            IF o = Id(r)
            THEN {q \in Runs : pc[q] \in Owing /\ plan[q].id = o} \ {r}
            ELSE {q \in Runs : pc[q] \in Owing /\ plan[q].id = o}
      BY <1>0, <1>4 DEF Id
    <3>2. \A o \in OrderIds :
            Owed'[o] = IF o = Id(r) THEN Owed[o] \ {r} ELSE Owed[o]
      BY <3>1 DEF Owed, Id
    <3>3. /\ Owed' = [o \in OrderIds |-> Owed'[o]]
          /\ Owed = [o \in OrderIds |-> Owed[o]]
      BY DEF Owed
    <3> QED BY <1>1, <3>2, <3>3
  <2>3. r \in Owed[Id(r)]
    BY <1>1, <1>4 DEF Owed
  <2>4. Ledger!Close(r, Id(r))
    BY <1>0, <1>1, <1>4, <2>1, <2>2, <2>3
       DEF Ledger!Close, Ledger!Outcomes, Outcomes
  <2> QED BY <1>1, <2>4 DEF Ledger!Next
<1> QED BY <1>2, <1>3, <1>4, RunStepOwing

LEMMA NextLedger ==
  TypeOK /\ DownInv /\ [Next]_vars => [Ledger!Next]_(Ledger!vars)
<1> SUFFICES ASSUME TypeOK, DownInv, [Next]_vars
             PROVE  [Ledger!Next]_(Ledger!vars)
  OBVIOUS
<1>0. pc \in [Runs -> Stages] /\ rows \in [OrderIds -> Rows]
  BY DEF TypeOK, RunTypes, SharedTypes
<1>1. CASE UNCHANGED vars
  BY <1>1, NothingOwed DEF vars, process, loopVars, tables
<1>2. ASSUME NEW r \in Runs, NEW p \in Plans, HandleOrder(r, p)
      PROVE  UNCHANGED Ledger!vars
  <2>1. /\ up' = up /\ rows' = rows /\ pc[r] = "idle" /\ pc'[r] = "setOrder"
        /\ \A q \in Runs \ {r} : pc'[q] = pc[q] /\ plan'[q] = plan[q]
    BY <1>0, <1>2 DEF HandleOrder, process, tables
  <2>2. Told' = Told /\ Owed' = Owed
    BY <2>1 DEF Told, Owed, Id
  <2> QED BY <2>1, <2>2 DEF Ledger!vars
<1>3. ASSUME NEW r \in Runs, RunStep(r) PROVE [Ledger!Next]_(Ledger!vars)
  BY <1>3, RunStepLedger
<1>4. ASSUME NEW i \in Instants, InstantHandle(i) \/ InstantStep(i)
      PROVE  UNCHANGED Ledger!vars
  BY <1>4, InstantFrame, NothingOwed DEF process, loopVars, tables
<1>5. CASE Crash
  <2>1. Told' = Told /\ Owed' = [o \in OrderIds |-> {}]
    BY <1>0, <1>5 DEF Crash, tables, Told, Owed
  <2>2. Ledger!Lose
    BY <1>5, <2>1 DEF Crash, Ledger!Lose
  <2> QED BY <2>2 DEF Ledger!Next
<1>6. CASE Restart
  <2>1. Owed' = Owed
    BY <1>6 DEF Restart, loopVars, Owed, Id
  <2>2. Told' = [o \in OrderIds |->
                   IF Told[o] = "running" THEN "failed" ELSE Told[o]]
    BY <1>0, <1>6 DEF Restart, Told, Rows
  <2>3. Ledger!Recover
    BY <1>6, <2>1, <2>2 DEF Restart, Ledger!Recover
  <2> QED BY <2>3 DEF Ledger!Next
<1> QED BY <1>1, <1>2, <1>3, <1>4, <1>5, <1>6 DEF Next

(* The safety part of the ledger: statuses change only by taking an order  *)
(* on, by a run that owes the outcome, or by the recovery after a crash.   *)
THEOREM EngineImplementsLedger == Spec => Ledger!Safe
<1>1. Init => Ledger!Init /\ DownInv
  BY DEF Init, DownInv, LiveRuns, Ledger!Init, Told, Owed
<1> QED BY <1>1, TypeCorrect, NextDownInv, NextLedger, PTL
        DEF Spec, Ledger!Safe

-----------------------------------------------------------------------------
(* The actions in action_states.                                           *)

(* SettledActionRows is not inductive: it says nothing of a row while a run *)
(* of its order is still under way, and two runs of one order may write the *)
(* same row.  No row is left RUNNING because each RUNNING row is the action *)
(* that some run of that order executes at this moment.                    *)
Executing(r, a) ==
  \/ \E loop \in ActionLoops : pc[r] = RunningIn(loop) /\ Action(r, loop).id = a
  \/ pc[r] \in OnLeg /\ MoreNodes(r) /\ GotoAction(r).id = a

RunningActionOwned ==
  crashes = 0 => \A o \in OrderIds, a \in ActionIds :
    actionRows[o][a] = "RUNNING" =>
      \E r \in Runs : Id(r) = o /\ pc[r] # "idle" /\ Executing(r, a)

(* The actions a run reads stay the same while its indexes do. *)
LEMMA SameAction ==
  ASSUME NEW r, plan'[r] = plan[r], node'[r] = node[r]
  PROVE  /\ MoreNodes(r)' = MoreNodes(r) /\ GotoAction(r)' = GotoAction(r)
         /\ act'[r] = act[r] => \A loop : Action(r, loop)' = Action(r, loop)
<1>1. Node(r)' = Node(r) /\ MoreNodes(r)' = MoreNodes(r)
  BY DEF Node, MoreNodes
<1>2. GotoAction(r)' = GotoAction(r)
  BY <1>1 DEF GotoAction, GotoActions
<1>3. Edge(r)' = Edge(r)
  BY <1>1 DEF Edge, EdgesToNode
<1>4. act'[r] = act[r] => \A loop : Action(r, loop)' = Action(r, loop)
  BY <1>1, <1>3 DEF Action, Actions
<1> QED BY <1>1, <1>2, <1>4

LEMMA SameExecuting ==
  ASSUME NEW r, pc'[r] = pc[r], plan'[r] = plan[r], node'[r] = node[r],
         act'[r] = act[r], NEW a
  PROVE  Executing(r, a)' <=> Executing(r, a)
BY SameAction DEF Executing

(* A row is RUNNING after a step of a run only if the run executes its      *)
(* action now, or if it was so before and the run had no part in it.       *)
LEMMA RunStepActionRows ==
  ASSUME TypeOK, NEW r \in Runs, RunStep(r)
  PROVE  /\ \A q \in Runs \ {r} : node'[q] = node[q] /\ act'[q] = act[q]
         /\ \A o \in OrderIds, a \in ActionIds : actionRows'[o][a] = "RUNNING" =>
              \/ o = Id(r) /\ Executing(r, a)'
              \/ /\ actionRows[o][a] = "RUNNING"
                 /\ ~(o = Id(r) /\ Executing(r, a))
<1> DEFINE Tracked ==
      \A o \in OrderIds, a \in ActionIds : actionRows'[o][a] = "RUNNING" =>
        \/ o = Id(r) /\ Executing(r, a)'
        \/ actionRows[o][a] = "RUNNING" /\ ~(o = Id(r) /\ Executing(r, a))
      Others == \A q \in Runs \ {r} : node'[q] = node[q] /\ act'[q] = act[q]
      Busy == {"nodeActionRun", "edgeActionRun"} \cup OnLeg
      Both == Tracked /\ Others
<1> SUFFICES Both
  OBVIOUS
<1>0. /\ pc \in [Runs -> Stages] /\ plan' = plan
      /\ node \in [Runs -> Nat \ {0}] /\ act \in [Runs -> Nat]
      /\ actionRows \in [OrderIds -> [ActionIds -> ActionStatus]]
  BY RunStepFrame DEF TypeOK, RunTypes, SharedTypes
<1>a. ASSUME actionRows' = actionRows, pc[r] \notin Busy PROVE Tracked
  <2>1. \A a : ~Executing(r, a)
    BY <1>a DEF Executing, ActionLoops, RunningIn
  <2> QED BY <1>a, <2>1
<1>b. ASSUME node'[r] = node[r], pc[r] \in OnLeg, pc'[r] \in OnLeg,
             actionRows' = actionRows
      PROVE  Tracked
  <2>1. MoreNodes(r)' = MoreNodes(r) /\ GotoAction(r)' = GotoAction(r)
    BY <1>0, <1>b, SameAction
  <2>2. \A a : Executing(r, a) => Executing(r, a)'
    BY <1>b, <2>1 DEF Executing, ActionLoops, RunningIn
  <2> QED BY <1>b, <2>2
<1>c. ASSUME NEW a, NEW st \in {"FINISHED", "FAILED"}, SetAction(r, a, st),
             \A b : Executing(r, b) => b = a.id
      PROVE  Tracked
  BY <1>0, <1>c DEF SetAction
<1>d. ASSUME NEW a, SetAction(r, a, "RUNNING"), Executing(r, a.id)',
             pc[r] \notin Busy
      PROVE  Tracked
  <2>1. \A b : ~Executing(r, b)
    BY <1>d DEF Executing, ActionLoops, RunningIn
  <2> QED BY <1>0, <1>d, <2>1 DEF SetAction
<1> HIDE DEF Tracked
<1> USE DEF Goto, Settle, tables, loopVars
<1>1. CASE RunSetOrder(r)
  BY <1>0, <1>a, <1>1 DEF RunSetOrder
<1>2. CASE StoreInsertOrder(r)
  BY <1>0, <1>a, <1>2 DEF StoreInsertOrder
<1>3. CASE InitNodeStates(r)
  BY <1>0, <1>a, <1>3 DEF InitNodeStates
<1>4. CASE InitEdgeStates(r)
  BY <1>0, <1>a, <1>4 DEF InitEdgeStates
<1>5. CASE RunInitActionStates(r)
  <2>1. \A a : ~Executing(r, a)
    BY <1>5 DEF RunInitActionStates, Executing, ActionLoops, RunningIn
  <2>2. \A o \in OrderIds, a \in ActionIds :
          actionRows'[o][a] = "RUNNING" => actionRows[o][a] = "RUNNING"
    BY <1>0, <1>5 DEF RunInitActionStates
  <2>3. Tracked
    BY <2>1, <2>2 DEF Tracked
  <2> QED BY <1>5, <2>3 DEF RunInitActionStates
<1>6. CASE EnsureNotCharging(r)
  BY <1>0, <1>a, <1>6 DEF EnsureNotCharging
<1>7. CASE ReachNode(r)
  BY <1>0, <1>a, <1>7 DEF ReachNode
<1>8. CASE RunRemoveNodeState(r)
  BY <1>0, <1>a, <1>8 DEF RunRemoveNodeState
<1>9. CASE NodeActionsDone(r)
  BY <1>0, <1>a, <1>9 DEF NodeActionsDone
<1>10. CASE OrderCancelled(r)
  BY <1>0, <1>a, <1>10 DEF OrderCancelled
<1>11. CASE RefuseCrossMap(r)
  BY <1>0, <1>a, <1>11 DEF RefuseCrossMap
<1>12. CASE NextNode(r)
  BY <1>0, <1>a, <1>12 DEF NextNode
<1>13. CASE NodesDone(r)
  BY <1>0, <1>a, <1>13 DEF NodesDone
<1>14. CASE EdgeActionsDone(r)
  BY <1>0, <1>a, <1>14 DEF EdgeActionsDone
<1>15. CASE NavigateXY(r)
  BY <1>0, <1>a, <1>15 DEF NavigateXY
<1>16. CASE NavigateNoTarget(r)
  BY <1>0, <1>a, <1>16 DEF NavigateNoTarget
<1>17. CASE NavigateByStation(r)
  <2>1. node' = node /\ act' = act /\ pc[r] = "navigate" /\ pc'[r] = "deliver"
    BY <1>0, <1>17 DEF NavigateByStation, BeginLeg
  <2>2. SetAction(r, GotoAction(r), "RUNNING")
    BY <1>17 DEF NavigateByStation
  <2>3. MoreNodes(r)' /\ GotoAction(r)' = GotoAction(r)
    BY <1>0, <2>1, SameAction DEF TypeOK, RunTypes, ReadsNode, MoreNodes
  <2>4. PICK a : a = GotoAction(r)
    OBVIOUS
  <2>5. Executing(r, a.id)'
    BY <2>1, <2>3, <2>4 DEF Executing
  <2>6. Tracked
    BY <1>d, <2>1, <2>2, <2>4, <2>5
  <2> QED BY <2>1, <2>6
<1>18. CASE SendDelivery(r)
  BY <1>0, <1>b, <1>18 DEF SendDelivery
<1>19. CASE DeliveryActive(r)
  BY <1>0, <1>b, <1>19 DEF DeliveryActive
<1>20. CASE RetryDelivery(r)
  BY <1>0, <1>b, <1>20 DEF RetryDelivery
<1>21. CASE LegArrived(r)
  <2>1. node' = node /\ act' = act /\ pc[r] = "arriving"
    BY <1>21 DEF LegArrived
  <2>2. \A b : Executing(r, b) => MoreNodes(r) /\ b = GotoAction(r).id
    BY <2>1 DEF Executing, ActionLoops, RunningIn
  <2>3. CASE ToCounter(r)
    <3>1. actionRows' = actionRows
      BY <1>21, <2>3 DEF LegArrived
    <3>2. Tracked
      BY <2>2, <2>3, <3>1 DEF Tracked, ToCounter
    <3> QED BY <2>1, <3>2
  <2>4. CASE ~ToCounter(r)
    <3>1. SetAction(r, GotoAction(r), "FINISHED")
      BY <1>21, <2>4 DEF LegArrived
    <3>2. Tracked
      BY <1>c, <2>2, <3>1
    <3> QED BY <2>1, <3>2
  <2> QED BY <2>3, <2>4
<1>22. CASE LegFailed(r)
  <2>1. node' = node /\ act' = act /\ pc[r] \in OnLeg
    BY <1>22 DEF LegFailed
  <2>2. \A b : Executing(r, b) => MoreNodes(r) /\ b = GotoAction(r).id
    BY <2>1 DEF Executing, ActionLoops, RunningIn
  <2>3. CASE ToCounter(r)
    <3>1. actionRows' = actionRows
      BY <1>22, <2>3 DEF LegFailed
    <3>2. Tracked
      BY <2>2, <2>3, <3>1 DEF Tracked, ToCounter
    <3> QED BY <2>1, <3>2
  <2>4. CASE ~ToCounter(r)
    <3>1. SetAction(r, GotoAction(r), "FAILED")
      BY <1>22, <2>4 DEF LegFailed
    <3>2. Tracked
      BY <1>c, <2>2, <3>1
    <3> QED BY <2>1, <3>2
  <2> QED BY <2>3, <2>4
<1>23. CASE RunRemoveEdgeState(r)
  BY <1>0, <1>a, <1>23 DEF RunRemoveEdgeState
<1>24. CASE EnterCounterWait(r)
  BY <1>0, <1>a, <1>24 DEF EnterCounterWait
<1>25. CASE CounterWaitCancelled(r)
  BY <1>0, <1>a, <1>25 DEF CounterWaitCancelled
<1>26. CASE ReturnToCounter(r)
  BY <1>0, <1>a, <1>26 DEF ReturnToCounter, BeginLeg
<1>27. CASE StoreFinishOrder(r)
  BY <1>0, <1>a, <1>27 DEF StoreFinishOrder
<1>28. CASE RunClearOrder(r)
  BY <1>0, <1>a, <1>28 DEF RunClearOrder
<1>29. CASE ForgetOrder(r)
  BY <1>0, <1>a, <1>29 DEF ForgetOrder
<1>30. ASSUME NEW loop \in ActionLoops, ActionCancelled(r, loop) PROVE Both
  BY <1>0, <1>a, <1>30 DEF ActionCancelled, ActionLoops, RunningIn
<1>31. ASSUME NEW loop \in ActionLoops, SkipAction(r, loop) PROVE Both
  BY <1>0, <1>a, <1>31 DEF SkipAction, ActionLoops, RunningIn
<1>32. ASSUME NEW loop \in ActionLoops, StartAction(r, loop) PROVE Both
  <2>1. /\ node' = node /\ act' = act /\ pc[r] = loop /\ pc'[r] = RunningIn(loop)
        /\ SetAction(r, Action(r, loop), "RUNNING")
    BY <1>0, <1>32 DEF StartAction
  <2>2. Action(r, loop)' = Action(r, loop)
    BY <1>0, <2>1, SameAction
  <2>3. PICK a : a = Action(r, loop)
    OBVIOUS
  <2>4. Executing(r, a.id)'
    BY <2>1, <2>2, <2>3 DEF Executing
  <2>5. pc[r] \notin Busy
    BY <2>1 DEF ActionLoops
  <2>6. Tracked
    BY <1>d, <2>1, <2>3, <2>4, <2>5
  <2> QED BY <2>1, <2>6
<1>33. ASSUME NEW loop \in ActionLoops, FinishAction(r, loop) PROVE Both
  <2>1. /\ node' = node /\ pc[r] = RunningIn(loop)
        /\ SetAction(r, Action(r, loop), "FINISHED")
        /\ act' = [act EXCEPT ![r] = @ + 1]
    BY <1>33 DEF FinishAction
  <2>2. \A b : Executing(r, b) => b = Action(r, loop).id
    BY <2>1 DEF Executing, ActionLoops, RunningIn
  <2>3. Tracked
    BY <1>c, <2>1, <2>2
  <2> QED BY <1>0, <2>1, <2>3
<1>34. ASSUME NEW loop \in ActionLoops, FailAction(r, loop) PROVE Both
  <2>1. /\ node' = node /\ pc[r] = RunningIn(loop) /\ act' = act
        /\ SetAction(r, Action(r, loop), "FAILED")
    BY <1>34 DEF FailAction
  <2>2. \A b : Executing(r, b) => b = Action(r, loop).id
    BY <2>1 DEF Executing, ActionLoops, RunningIn
  <2>3. Tracked
    BY <1>c, <2>1, <2>2
  <2> QED BY <2>1, <2>3
<1> QED
      BY <1>1, <1>2, <1>3, <1>4, <1>5, <1>6, <1>7, <1>8, <1>9, <1>10,
         <1>11, <1>12, <1>13, <1>14, <1>15, <1>16, <1>17, <1>18, <1>19, <1>20,
         <1>21, <1>22, <1>23, <1>24, <1>25, <1>26, <1>27, <1>28, <1>29, <1>30,
         <1>31, <1>32, <1>33, <1>34
         DEF RunStep

LEMMA NextRunningActionOwned ==
  TypeOK /\ RunningActionOwned /\ [Next]_vars => RunningActionOwned'
<1> SUFFICES ASSUME TypeOK, RunningActionOwned, [Next]_vars
             PROVE  RunningActionOwned'
  OBVIOUS
<1>0. pc \in [Runs -> Stages] /\ plan \in [Runs -> Plans \cup {None}]
  BY DEF TypeOK, RunTypes
<1>a. ASSUME UNCHANGED <<crashes, pc, plan, node, act, actionRows>>
      PROVE  RunningActionOwned'
  <2>1. \A r \in Runs : \A a : Executing(r, a)' <=> Executing(r, a)
    BY <1>a, SameExecuting
  <2> QED BY <1>a, <2>1 DEF RunningActionOwned, Id
<1>1. CASE UNCHANGED vars
  BY <1>1, <1>a DEF vars, process, loopVars, tables
<1>2. ASSUME NEW r \in Runs, NEW p \in Plans, HandleOrder(r, p)
      PROVE  RunningActionOwned'
  <2>1. /\ UNCHANGED <<crashes, node, act, actionRows>> /\ pc[r] = "idle"
        /\ \A q \in Runs \ {r} : pc'[q] = pc[q] /\ plan'[q] = plan[q]
    BY <1>0, <1>2 DEF HandleOrder, process, tables
  <2>2. \A q \in Runs \ {r} : \A a : Executing(q, a)' <=> Executing(q, a)
    BY <2>1, SameExecuting
  <2> QED BY <2>1, <2>2 DEF RunningActionOwned, Id
<1>3. ASSUME NEW r \in Runs, RunStep(r) PROVE RunningActionOwned'
  <2>1. /\ UNCHANGED <<crashes, plan>> /\ pc[r] # "idle"
        /\ \A q \in Runs \ {r} : pc'[q] = pc[q]
    BY <1>3, RunStepFrame
  <2>2. /\ \A q \in Runs \ {r} : node'[q] = node[q] /\ act'[q] = act[q]
        /\ \A o \in OrderIds, a \in ActionIds : actionRows'[o][a] = "RUNNING" =>
             \/ o = Id(r) /\ Executing(r, a)'
             \/ /\ actionRows[o][a] = "RUNNING"
                /\ ~(o = Id(r) /\ Executing(r, a))
    BY <1>3, RunStepActionRows
  <2>3. \A q \in Runs \ {r} : \A a : Executing(q, a)' <=> Executing(q, a)
    BY <2>1, <2>2, SameExecuting
  <2>4. \A a : Executing(r, a)' => pc'[r] # "idle"
    BY DEF Executing, ActionLoops, RunningIn
  <2>5. \A q \in Runs : Id(q)' = Id(q)
    BY <2>1 DEF Id
  <2>6. SUFFICES ASSUME crashes = 0, NEW o \in OrderIds, NEW a \in ActionIds,
                        actionRows'[o][a] = "RUNNING"
                 PROVE  \E q \in Runs : Id(q)' = o /\ pc'[q] # "idle" /\ Executing(q, a)'
    BY <2>1 DEF RunningActionOwned
  <2>7. CASE o = Id(r) /\ Executing(r, a)'
    BY <2>4, <2>5, <2>7
  <2>8. CASE actionRows[o][a] = "RUNNING" /\ ~(o = Id(r) /\ Executing(r, a))
    <3>1. PICK q \in Runs : Id(q) = o /\ pc[q] # "idle" /\ Executing(q, a)
      BY <2>6, <2>8 DEF RunningActionOwned
    <3> QED BY <2>1, <2>3, <2>5, <2>8, <3>1
  <2> QED BY <2>2, <2>6, <2>7, <2>8
<1>4. ASSUME NEW i \in Instants, InstantHandle(i) \/ InstantStep(i)
      PROVE  RunningActionOwned'
  BY <1>4, <1>a, InstantFrame DEF process, loopVars, tables
<1>5. CASE Crash
  <2>1. crashes' # 0
    BY <1>5, EngineAssumption DEF Crash, TypeOK, HandlerTypes
  <2> QED BY <2>1 DEF RunningActionOwned
<1>6. CASE Restart
  BY <1>6, <1>a DEF Restart, loopVars
<1> QED BY <1>1, <1>2, <1>3, <1>4, <1>5, <1>6 DEF Next

(* While the process does not crash, an order whose runs have recorded      *)
(* their outcome leaves no action as RUNNING in action_states, however many *)
(* runs of that order overlapped.                                          *)
THEOREM SettledActionsAreReported == Spec => []SettledActionRows
<1>1. Init => RunningActionOwned
  BY DEF Init, RunningActionOwned
<1>2. RunningActionOwned => SettledActionRows
  <2>1. \A r, a : Executing(r, a) => pc[r] \in Owing
    BY DEF Executing, ActionLoops, RunningIn
  <2> QED BY <2>1 DEF RunningActionOwned, SettledActionRows
<1> QED BY <1>1, <1>2, TypeCorrect, NextRunningActionOwned, PTL DEF Spec

-----------------------------------------------------------------------------
(* A run that is alone goes through its order.                             *)

(* FinishedWentThroughOrder says nothing before the end.  What holds on the *)
(* way: the pending nodes are among those the run has not removed yet, the  *)
(* last node is the one it recorded last, and of the actions behind it each *)
(* is reported, or is the one it executes (an edge may carry the same id),  *)
(* or a GoToLocation.  It is alone with the state, so nothing else writes.  *)
Travelling == {"charger"} \cup AtNode \cup OnEdge \cup OnLeg \cup Deciding
InNode == {"nodeAction", "nodeActionRun"}
Complete(r) == pc[r] \in {"settle", "clear"} /\ result[r] = "finished"
OnTheWay(r) == pc[r] \in Travelling \/ Complete(r)

Removed(r) == IF pc[r] \in InNode THEN node[r] ELSE node[r] - 1
Recorded(r) ==
  IF pc[r] \in InNode \cup {"removeNode"} THEN node[r] ELSE node[r] - 1
Unvisited(r) ==
  {plan[r].nodes[k].name : k \in {k \in DOMAIN plan[r].nodes : k > Removed(r)}}
Handled(r, n, i) ==
  n < node[r] \/ (n = node[r] /\ pc[r] \in InNode /\ i < act[r])
Accounted(r, a) == rs.actions[a] \in {"FINISHED", "absent"} \/ Executing(r, a)

(* The loop over the nodes starts at the first and ends past the last. *)
LoopInv(r) ==
  /\ pc[r] \in Starting \cup Preparing => node[r] = 1
  /\ pc[r] \in Live => node[r] <= Len(plan[r].nodes) + 1
  /\ Complete(r) => node[r] > Len(plan[r].nodes)

Alone(r) == pc[r] \in Live /\ r \notin overlap

OwnState(r) ==
  /\ LiveRuns = {r}
  /\ pc[r] \notin {"setOrder", "forget"} => rs.orderId = Id(r)
OwnNodes(r) ==
  /\ pc[r] \in {"edgeStates", "actionStates"} \/ OnTheWay(r) =>
       rs.nodes \subseteq Unvisited(r)
  /\ OnTheWay(r) /\ Recorded(r) >= 1 =>
       /\ rs.lastNode = plan[r].nodes[Recorded(r)].name
       /\ rows[Id(r)].lastNode = plan[r].nodes[Recorded(r)].name
OwnActions(r) ==
  OnTheWay(r) =>
    \A n \in DOMAIN plan[r].nodes : \A i \in DOMAIN plan[r].nodes[n].actions :
      Handled(r, n, i) /\ plan[r].nodes[n].actions[i].type # "GoToLocation"
        => Accounted(r, plan[r].nodes[n].actions[i].id)

JourneyInv ==
  \A r \in Runs :
    /\ LoopInv(r)
    /\ Alone(r) => OwnState(r) /\ OwnNodes(r) /\ OwnActions(r)

LEMMA RunStepLoopInv ==
  ASSUME TypeOK, NEW r \in Runs, RunStep(r), LoopInv(r)
  PROVE  LoopInv(r)'
<1>0. /\ pc \in [Runs -> Stages] /\ plan' = plan
      /\ node \in [Runs -> Nat \ {0}]
      /\ result \in [Runs -> Outcomes \cup {None}]
      /\ Len(plan[r].nodes) \in Nat
      /\ pc[r] \in ReadsNode => node[r] \in 1..Len(plan[r].nodes)
  BY RunStepFrame, RunHasPlan, PlanTypes DEF TypeOK, RunTypes
<1> USE DEF Goto, Settle, loopVars, LoopInv, Complete
<1>1. CASE RunSetOrder(r)
  BY <1>0, <1>1 DEF RunSetOrder
<1>2. CASE StoreInsertOrder(r)
  BY <1>0, <1>2 DEF StoreInsertOrder
<1>3. CASE InitNodeStates(r)
  BY <1>0, <1>3 DEF InitNodeStates
<1>4. CASE InitEdgeStates(r)
  BY <1>0, <1>4 DEF InitEdgeStates
<1>5. CASE RunInitActionStates(r)
  BY <1>0, <1>5 DEF RunInitActionStates
<1>6. CASE EnsureNotCharging(r)
  BY <1>0, <1>6 DEF EnsureNotCharging
<1>7. CASE ReachNode(r)
  BY <1>0, <1>7 DEF ReachNode
<1>8. CASE RunRemoveNodeState(r)
  BY <1>0, <1>8 DEF RunRemoveNodeState
<1>9. CASE NodeActionsDone(r)
  <2>1. pc[r] = "nodeAction" /\ pc'[r] = "nextNode" /\ node'[r] = node[r] + 1
    BY <1>0, <1>9 DEF NodeActionsDone
  <2>2. node[r] \in 1..Len(plan[r].nodes)
    BY <1>0, <2>1 DEF ReadsNode
  <2> QED BY <1>0, <2>1, <2>2
<1>10. CASE OrderCancelled(r)
  BY <1>0, <1>10 DEF OrderCancelled
<1>11. CASE RefuseCrossMap(r)
  BY <1>0, <1>11 DEF RefuseCrossMap
<1>12. CASE NextNode(r)
  BY <1>0, <1>12 DEF NextNode, MoreNodes
<1>13. CASE NodesDone(r)
  BY <1>0, <1>13 DEF NodesDone, MoreNodes
<1>14. CASE EdgeActionsDone(r)
  BY <1>0, <1>14 DEF EdgeActionsDone
<1>15. CASE NavigateXY(r)
  BY <1>0, <1>15 DEF NavigateXY
<1>16. CASE NavigateNoTarget(r)
  BY <1>0, <1>16 DEF NavigateNoTarget
<1>17. CASE NavigateByStation(r)
  BY <1>0, <1>17 DEF NavigateByStation, BeginLeg
<1>18. CASE SendDelivery(r)
  BY <1>0, <1>18 DEF SendDelivery
<1>19. CASE DeliveryActive(r)
  BY <1>0, <1>19 DEF DeliveryActive
<1>20. CASE RetryDelivery(r)
  BY <1>0, <1>20 DEF RetryDelivery
<1>21. CASE LegArrived(r)
  BY <1>0, <1>21 DEF LegArrived, MoreNodes, ToCounter
<1>22. CASE LegFailed(r)
  BY <1>0, <1>22 DEF LegFailed
<1>23. CASE RunRemoveEdgeState(r)
  BY <1>0, <1>23 DEF RunRemoveEdgeState
<1>24. CASE EnterCounterWait(r)
  BY <1>0, <1>24 DEF EnterCounterWait
<1>25. CASE CounterWaitCancelled(r)
  BY <1>0, <1>25 DEF CounterWaitCancelled
<1>26. CASE ReturnToCounter(r)
  BY <1>0, <1>26 DEF ReturnToCounter, BeginLeg
<1>27. CASE StoreFinishOrder(r)
  BY <1>0, <1>27 DEF StoreFinishOrder
<1>28. CASE RunClearOrder(r)
  BY <1>0, <1>28 DEF RunClearOrder
<1>29. CASE ForgetOrder(r)
  BY <1>0, <1>29 DEF ForgetOrder
<1>30. ASSUME NEW loop \in ActionLoops, ActionCancelled(r, loop) PROVE LoopInv(r)'
  BY <1>0, <1>30 DEF ActionCancelled, ActionLoops, RunningIn
<1>31. ASSUME NEW loop \in ActionLoops, SkipAction(r, loop) PROVE LoopInv(r)'
  BY <1>0, <1>31 DEF SkipAction, ActionLoops, RunningIn
<1>32. ASSUME NEW loop \in ActionLoops, StartAction(r, loop) PROVE LoopInv(r)'
  BY <1>0, <1>32 DEF StartAction, ActionLoops, RunningIn
<1>33. ASSUME NEW loop \in ActionLoops, FinishAction(r, loop) PROVE LoopInv(r)'
  BY <1>0, <1>33 DEF FinishAction, ActionLoops, RunningIn
<1>34. ASSUME NEW loop \in ActionLoops, FailAction(r, loop) PROVE LoopInv(r)'
  BY <1>0, <1>34 DEF FailAction, ActionLoops, RunningIn
<1> QED
      BY <1>1, <1>2, <1>3, <1>4, <1>5, <1>6, <1>7, <1>8, <1>9, <1>10,
         <1>11, <1>12, <1>13, <1>14, <1>15, <1>16, <1>17, <1>18, <1>19, <1>20,
         <1>21, <1>22, <1>23, <1>24, <1>25, <1>26, <1>27, <1>28, <1>29, <1>30,
         <1>31, <1>32, <1>33, <1>34
         DEF RunStep

(* The order id and the pending nodes change only where the loop says so,   *)
(* the last node only by ReachNode.                                        *)
LEMMA SetActionKeeps ==
  ASSUME rs \in RobotStates, NEW r \in Runs, NEW a, NEW st, SetAction(r, a, st)
  PROVE  /\ rs'.orderId = rs.orderId /\ rs'.nodes = rs.nodes
         /\ rs'.lastNode = rs.lastNode /\ rows' = rows
         /\ rs'.actions = [b \in ActionIds |->
              IF b = a.id /\ rs.actions[b] # "absent" THEN st ELSE rs.actions[b]]
BY DEF SetAction, UpdateActionState, RobotStates

LEMMA RunStepOrderId ==
  ASSUME TypeOK, NEW r \in Runs, RunStep(r)
  PROVE  \/ pc'[r] = "insert" /\ rs'.orderId = Id(r)
         \/ pc'[r] = "forget"
         \/ pc[r] = "forget" /\ pc'[r] = "done"
         \/ pc[r] \notin {"setOrder", "forget"} /\ rs'.orderId = rs.orderId
<1> DEFINE Kept ==
      \/ pc'[r] = "insert" /\ rs'.orderId = Id(r)
      \/ pc'[r] = "forget"
      \/ pc[r] = "forget" /\ pc'[r] = "done"
      \/ pc[r] \notin {"setOrder", "forget"} /\ rs'.orderId = rs.orderId
<1> SUFFICES Kept
  OBVIOUS
<1>0. pc \in [Runs -> Stages] /\ rs \in RobotStates
  BY DEF TypeOK, RunTypes, SharedTypes
<1>a. ASSUME NEW a, NEW st, SetAction(r, a, st) PROVE rs'.orderId = rs.orderId
  BY <1>0, <1>a, SetActionKeeps
<1> USE DEF Goto, Settle, tables, RobotStates
<1>1. CASE RunSetOrder(r)
  BY <1>0, <1>a, <1>1 DEF RunSetOrder, SetOrder
<1>2. CASE StoreInsertOrder(r)
  BY <1>0, <1>a, <1>2 DEF StoreInsertOrder
<1>3. CASE InitNodeStates(r)
  BY <1>0, <1>a, <1>3 DEF InitNodeStates, SetNodeStates
<1>4. CASE InitEdgeStates(r)
  BY <1>0, <1>a, <1>4 DEF InitEdgeStates, SetEdgeStates
<1>5. CASE RunInitActionStates(r)
  BY <1>0, <1>a, <1>5 DEF RunInitActionStates, InitActionStates
<1>6. CASE EnsureNotCharging(r)
  BY <1>0, <1>a, <1>6 DEF EnsureNotCharging
<1>7. CASE ReachNode(r)
  BY <1>0, <1>a, <1>7 DEF ReachNode, SetLastNode
<1>8. CASE RunRemoveNodeState(r)
  BY <1>0, <1>a, <1>8 DEF RunRemoveNodeState, RemoveNodeState
<1>9. CASE NodeActionsDone(r)
  BY <1>0, <1>a, <1>9 DEF NodeActionsDone
<1>10. CASE OrderCancelled(r)
  BY <1>0, <1>a, <1>10 DEF OrderCancelled
<1>11. CASE RefuseCrossMap(r)
  BY <1>0, <1>a, <1>11 DEF RefuseCrossMap
<1>12. CASE NextNode(r)
  BY <1>0, <1>a, <1>12 DEF NextNode
<1>13. CASE NodesDone(r)
  BY <1>0, <1>a, <1>13 DEF NodesDone
<1>14. CASE EdgeActionsDone(r)
  BY <1>0, <1>a, <1>14 DEF EdgeActionsDone
<1>15. CASE NavigateXY(r)
  BY <1>0, <1>a, <1>15 DEF NavigateXY
<1>16. CASE NavigateNoTarget(r)
  BY <1>0, <1>a, <1>16 DEF NavigateNoTarget
<1>17. CASE NavigateByStation(r)
  BY <1>0, <1>a, <1>17 DEF NavigateByStation, BeginLeg
<1>18. CASE SendDelivery(r)
  BY <1>0, <1>a, <1>18 DEF SendDelivery
<1>19. CASE DeliveryActive(r)
  BY <1>0, <1>a, <1>19 DEF DeliveryActive
<1>20. CASE RetryDelivery(r)
  BY <1>0, <1>a, <1>20 DEF RetryDelivery
<1>21. CASE LegArrived(r)
  BY <1>0, <1>a, <1>21 DEF LegArrived
<1>22. CASE LegFailed(r)
  BY <1>0, <1>a, <1>22 DEF LegFailed
<1>23. CASE RunRemoveEdgeState(r)
  BY <1>0, <1>a, <1>23 DEF RunRemoveEdgeState, RemoveEdgeState
<1>24. CASE EnterCounterWait(r)
  BY <1>0, <1>a, <1>24 DEF EnterCounterWait
<1>25. CASE CounterWaitCancelled(r)
  BY <1>0, <1>a, <1>25 DEF CounterWaitCancelled
<1>26. CASE ReturnToCounter(r)
  BY <1>0, <1>a, <1>26 DEF ReturnToCounter, BeginLeg
<1>27. CASE StoreFinishOrder(r)
  BY <1>0, <1>a, <1>27 DEF StoreFinishOrder
<1>28. CASE RunClearOrder(r)
  BY <1>0, <1>a, <1>28 DEF RunClearOrder
<1>29. CASE ForgetOrder(r)
  BY <1>0, <1>a, <1>29 DEF ForgetOrder
<1>30. ASSUME NEW loop \in ActionLoops, ActionCancelled(r, loop) PROVE Kept
  BY <1>0, <1>a, <1>30 DEF ActionCancelled, ActionLoops, RunningIn
<1>31. ASSUME NEW loop \in ActionLoops, SkipAction(r, loop) PROVE Kept
  BY <1>0, <1>a, <1>31 DEF SkipAction, ActionLoops, RunningIn
<1>32. ASSUME NEW loop \in ActionLoops, StartAction(r, loop) PROVE Kept
  BY <1>0, <1>a, <1>32 DEF StartAction, ActionLoops, RunningIn
<1>33. ASSUME NEW loop \in ActionLoops, FinishAction(r, loop) PROVE Kept
  BY <1>0, <1>a, <1>33 DEF FinishAction, ActionLoops, RunningIn
<1>34. ASSUME NEW loop \in ActionLoops, FailAction(r, loop) PROVE Kept
  BY <1>0, <1>a, <1>34 DEF FailAction, ActionLoops, RunningIn
<1> QED
      BY <1>1, <1>2, <1>3, <1>4, <1>5, <1>6, <1>7, <1>8, <1>9, <1>10,
         <1>11, <1>12, <1>13, <1>14, <1>15, <1>16, <1>17, <1>18, <1>19, <1>20,
         <1>21, <1>22, <1>23, <1>24, <1>25, <1>26, <1>27, <1>28, <1>29, <1>30,
         <1>31, <1>32, <1>33, <1>34
         DEF RunStep

(* What a step does to the pending nodes and the last node. *)
LEMMA RunStepOwnNodes ==
  ASSUME TypeOK, NEW r \in Runs, RunStep(r), LoopInv(r), LoopInv(r)', OwnNodes(r)
  PROVE  OwnNodes(r)'
<1>0. /\ pc \in [Runs -> Stages] /\ rs \in RobotStates /\ plan' = plan
      /\ rows \in [OrderIds -> Rows] /\ Id(r) \in OrderIds
      /\ node \in [Runs -> Nat \ {0}] /\ result \in [Runs -> Outcomes \cup {None}]
      /\ DOMAIN plan[r].nodes = 1..Len(plan[r].nodes)
      /\ Len(plan[r].nodes) \in Nat
  BY RunStepFrame, RunHasPlan, PlanTypes
     DEF TypeOK, RunTypes, SharedTypes
<1> DEFINE Tracking == pc[r] \in {"edgeStates", "actionStates"} \/ OnTheWay(r)
           LastKept == /\ rs'.lastNode = rs.lastNode
                       /\ rows'[Id(r)].lastNode = rows[Id(r)].lastNode
           NodesKept == rs'.nodes = rs.nodes
(* A step that moves neither mark and writes none of the nodes. *)
<1>a. ASSUME LastKept, NodesKept, Removed(r)' = Removed(r),
             Recorded(r)' = Recorded(r), OnTheWay(r)
      PROVE  OwnNodes(r)'
  <2>1. Unvisited(r)' = Unvisited(r) /\ Id(r)' = Id(r)
    BY <1>0, <1>a DEF Unvisited, Id
  <2> QED BY <1>0, <1>a, <2>1 DEF OwnNodes
(* A step off the way. *)
<1>b. ASSUME ~OnTheWay(r)', pc'[r] \notin {"edgeStates", "actionStates"}
      PROVE  OwnNodes(r)'
  BY <1>b DEF OwnNodes
(* A step before the way. *)
<1>c. ASSUME pc'[r] \in {"edgeStates", "actionStates", "charger"}, node'[r] = 1,
             rs'.nodes \subseteq PlanNodes(plan[r])
      PROVE  OwnNodes(r)'
  <2>1. Removed(r)' = 0 /\ Recorded(r)' = 0
    BY <1>c DEF Removed, Recorded, InNode
  <2>2. Unvisited(r)' = PlanNodes(plan[r])
    BY <1>0, <2>1 DEF Unvisited, PlanNodes
  <2> QED BY <1>c, <2>1, <2>2 DEF OwnNodes
<1>d. ASSUME node[r] = 1, pc[r] \in {"edgeStates", "actionStates"}
      PROVE  rs.nodes \subseteq PlanNodes(plan[r])
  <2>1. Removed(r) = 0
    BY <1>d DEF Removed, InNode
  <2>2. Unvisited(r) = PlanNodes(plan[r])
    BY <1>0, <2>1 DEF Unvisited, PlanNodes
  <2> QED BY <1>d, <2>2 DEF OwnNodes
<1> DEFINE WayKept == LastKept /\ NodesKept /\ node'[r] = node[r] /\ OnTheWay(r)
(* On the way between places where both marks are behind the index, or on   *)
(* the node with both marks at it.                                         *)
<1>e. ASSUME WayKept, pc[r] \notin InNode \cup {"removeNode"},
             pc'[r] \notin InNode \cup {"removeNode"}
      PROVE  OwnNodes(r)'
  BY <1>a, <1>e DEF Removed, Recorded
<1>f. ASSUME WayKept, pc[r] \in InNode, pc'[r] \in InNode PROVE OwnNodes(r)'
  BY <1>a, <1>f DEF Removed, Recorded
<1>g. ASSUME NEW a, NEW st, SetAction(r, a, st) PROVE LastKept /\ NodesKept
  BY <1>0, <1>g, SetActionKeeps
<1>h. ASSUME UNCHANGED <<rs, rows>> PROVE LastKept /\ NodesKept
  BY <1>h
<1> HIDE DEF LastKept, NodesKept
<1> USE DEF Goto, Settle, tables, loopVars, OnTheWay, Travelling, Complete, InNode
<1>1. CASE RunSetOrder(r)
  BY <1>0, <1>b, <1>1 DEF RunSetOrder
<1>2. CASE StoreInsertOrder(r)
  BY <1>0, <1>b, <1>2 DEF StoreInsertOrder
<1>3. CASE InitNodeStates(r)
  <2>1. /\ pc[r] = "nodeStates" /\ pc'[r] = "edgeStates" /\ node' = node
        /\ rs'.nodes = PlanNodes(plan[r])
    BY <1>0, <1>3 DEF InitNodeStates, SetNodeStates, RobotStates
  <2> QED BY <1>c, <2>1 DEF LoopInv
<1>4. CASE InitEdgeStates(r)
  <2>1. /\ pc[r] = "edgeStates" /\ pc'[r] = "actionStates" /\ node' = node
        /\ rs'.nodes = rs.nodes
    BY <1>0, <1>4 DEF InitEdgeStates, SetEdgeStates, RobotStates
  <2> QED BY <1>c, <1>d, <2>1 DEF LoopInv
<1>5. CASE RunInitActionStates(r)
  <2>1. /\ pc[r] = "actionStates" /\ pc'[r] = "charger" /\ node' = node
        /\ rs'.nodes = rs.nodes
    BY <1>0, <1>5 DEF RunInitActionStates, InitActionStates, RobotStates
  <2> QED BY <1>c, <1>d, <2>1 DEF LoopInv
<1>6. CASE EnsureNotCharging(r)
  <2>1. pc[r] = "charger" /\ node' = node /\ UNCHANGED <<rs, rows>>
    BY <1>6 DEF EnsureNotCharging
  <2>2. \/ pc'[r] = "lastNode"
        \/ pc'[r] = "settle" /\ result'[r] = "failed"
    BY <1>0, <1>6 DEF EnsureNotCharging
  <2> QED BY <1>b, <1>e, <1>h, <2>1, <2>2
<1>7. CASE ReachNode(r)
  <2>1. /\ pc[r] = "lastNode" /\ pc'[r] = "removeNode" /\ node' = node
        /\ rs'.nodes = rs.nodes /\ rs'.lastNode = plan[r].nodes[node[r]].name
        /\ rows'[Id(r)].lastNode = plan[r].nodes[node[r]].name
    BY <1>0, <1>7 DEF ReachNode, SetLastNode, RobotStates, Node, Rows
  <2>2. Recorded(r)' = node[r] /\ Removed(r)' = Removed(r)
    BY <2>1 DEF Recorded, Removed
  <2>3. Unvisited(r)' = Unvisited(r) /\ Id(r)' = Id(r)
    BY <1>0, <2>2 DEF Unvisited, Id
  <2> QED BY <1>0, <2>1, <2>2, <2>3 DEF OwnNodes
<1>8. CASE RunRemoveNodeState(r)
  <2>1. /\ pc[r] = "removeNode" /\ pc'[r] = "nodeAction" /\ node' = node
        /\ rs'.nodes = rs.nodes \ {plan[r].nodes[node[r]].name}
        /\ rs'.lastNode = rs.lastNode /\ rows' = rows
    BY <1>0, <1>8 DEF RunRemoveNodeState, RemoveNodeState, RobotStates, Node
  <2>2. /\ Recorded(r)' = node[r] /\ Recorded(r) = node[r]
        /\ Removed(r)' = node[r] /\ Removed(r) = node[r] - 1
    BY <2>1 DEF Recorded, Removed
  <2>3. Unvisited(r) \ {plan[r].nodes[node[r]].name} \subseteq Unvisited(r)'
    <3>1. \A k \in DOMAIN plan[r].nodes :
            k > node[r] - 1 => k = node[r] \/ k > node[r]
      BY <1>0
    <3> QED BY <1>0, <2>2, <3>1 DEF Unvisited
  <2>4. Id(r)' = Id(r)
    BY <1>0 DEF Id
  <2> QED BY <1>0, <2>1, <2>2, <2>3, <2>4 DEF OwnNodes
<1>9. CASE NodeActionsDone(r)
  <2>1. /\ pc[r] = "nodeAction" /\ pc'[r] = "nextNode"
        /\ node'[r] = node[r] + 1 /\ UNCHANGED <<rs, rows>>
    BY <1>0, <1>9 DEF NodeActionsDone
  <2>2. Removed(r)' = Removed(r) /\ Recorded(r)' = Recorded(r)
    BY <1>0, <2>1 DEF Removed, Recorded
  <2> QED BY <1>a, <1>h, <2>1, <2>2
<1>10. CASE OrderCancelled(r)
  BY <1>0, <1>b, <1>10 DEF OrderCancelled
<1>11. CASE RefuseCrossMap(r)
  BY <1>0, <1>b, <1>11 DEF RefuseCrossMap
<1>12. CASE NextNode(r)
  BY <1>0, <1>e, <1>h, <1>12 DEF NextNode
<1>13. CASE NodesDone(r)
  <2>1. pc[r] = "nextNode" /\ node' = node /\ UNCHANGED <<rs, rows>>
    BY <1>13 DEF NodesDone
  <2>2. pc'[r] \in {"settle", "counterEntry"}
    BY <1>0, <1>13 DEF NodesDone
  <2> QED BY <1>e, <1>h, <2>1, <2>2
<1>14. CASE EdgeActionsDone(r)
  BY <1>0, <1>e, <1>h, <1>14 DEF EdgeActionsDone
<1>15. CASE NavigateXY(r)
  BY <1>0, <1>e, <1>h, <1>15 DEF NavigateXY
<1>16. CASE NavigateNoTarget(r)
  BY <1>0, <1>b, <1>16 DEF NavigateNoTarget
<1>17. CASE NavigateByStation(r)
  <2>1. node' = node /\ LastKept /\ NodesKept
    BY <1>g, <1>17 DEF NavigateByStation
  <2> QED BY <1>0, <1>e, <2>1, <1>17 DEF NavigateByStation, BeginLeg
<1>18. CASE SendDelivery(r)
  BY <1>0, <1>e, <1>h, <1>18 DEF SendDelivery
<1>19. CASE DeliveryActive(r)
  BY <1>0, <1>e, <1>h, <1>19 DEF DeliveryActive
<1>20. CASE RetryDelivery(r)
  BY <1>0, <1>e, <1>h, <1>20 DEF RetryDelivery
<1>21. CASE LegArrived(r)
  <2>1. pc[r] = "arriving" /\ node' = node
    BY <1>21 DEF LegArrived
  <2>2. LastKept /\ NodesKept
    BY <1>g, <1>h, <1>21 DEF LegArrived
  <2>3. pc'[r] \in {"settle", "removeEdge"}
    BY <1>0, <1>21 DEF LegArrived
  <2> QED BY <1>e, <2>1, <2>2, <2>3
<1>22. CASE LegFailed(r)
  BY <1>0, <1>b, <1>22 DEF LegFailed
<1>23. CASE RunRemoveEdgeState(r)
  <2>1. /\ pc[r] = "removeEdge" /\ pc'[r] = "lastNode" /\ node' = node
        /\ rs'.nodes = rs.nodes /\ rs'.lastNode = rs.lastNode /\ rows' = rows
    BY <1>0, <1>23 DEF RunRemoveEdgeState, RemoveEdgeState, RobotStates
  <2> QED BY <1>e, <2>1 DEF LastKept, NodesKept
<1>24. CASE EnterCounterWait(r)
  BY <1>0, <1>e, <1>h, <1>24 DEF EnterCounterWait
<1>25. CASE CounterWaitCancelled(r)
  BY <1>0, <1>b, <1>25 DEF CounterWaitCancelled
<1>26. CASE ReturnToCounter(r)
  BY <1>0, <1>e, <1>h, <1>26 DEF ReturnToCounter, BeginLeg
<1>27. CASE StoreFinishOrder(r)
  <2>1. /\ pc[r] = "settle" /\ pc'[r] = "clear" /\ UNCHANGED <<node, result, rs>>
        /\ rows'[Id(r)].lastNode = rows[Id(r)].lastNode
    BY <1>0, <1>27 DEF StoreFinishOrder, Rows
  <2>2. LastKept /\ NodesKept
    BY <2>1 DEF LastKept, NodesKept
  <2> QED BY <1>b, <1>e, <2>1, <2>2
<1>28. CASE RunClearOrder(r)
  BY <1>0, <1>b, <1>28 DEF RunClearOrder
<1>29. CASE ForgetOrder(r)
  BY <1>0, <1>b, <1>29 DEF ForgetOrder
<1>30. ASSUME NEW loop \in ActionLoops, ActionCancelled(r, loop) PROVE OwnNodes(r)'
  BY <1>0, <1>b, <1>30 DEF ActionCancelled
<1>31. ASSUME NEW loop \in ActionLoops, SkipAction(r, loop) PROVE OwnNodes(r)'
  BY <1>0, <1>e, <1>f, <1>h, <1>31 DEF SkipAction, ActionLoops
<1>32. ASSUME NEW loop \in ActionLoops, StartAction(r, loop) PROVE OwnNodes(r)'
  <2>1. node' = node /\ LastKept /\ NodesKept
    BY <1>g, <1>32 DEF StartAction
  <2> QED BY <1>0, <1>e, <1>f, <2>1, <1>32 DEF StartAction, ActionLoops, RunningIn
<1>33. ASSUME NEW loop \in ActionLoops, FinishAction(r, loop) PROVE OwnNodes(r)'
  <2>1. node' = node /\ LastKept /\ NodesKept
    BY <1>g, <1>33 DEF FinishAction
  <2> QED BY <1>0, <1>e, <1>f, <2>1, <1>33 DEF FinishAction, ActionLoops, RunningIn
<1>34. ASSUME NEW loop \in ActionLoops, FailAction(r, loop) PROVE OwnNodes(r)'
  BY <1>0, <1>b, <1>34 DEF FailAction
<1> QED
      BY <1>1, <1>2, <1>3, <1>4, <1>5, <1>6, <1>7, <1>8, <1>9, <1>10,
         <1>11, <1>12, <1>13, <1>14, <1>15, <1>16, <1>17, <1>18, <1>19, <1>20,
         <1>21, <1>22, <1>23, <1>24, <1>25, <1>26, <1>27, <1>28, <1>29, <1>30,
         <1>31, <1>32, <1>33, <1>34
         DEF RunStep

(* An action that is accounted for stays so, and the one just finished is;  *)
(* a step passes no other action.                                          *)
LEMMA RunStepOwnActions ==
  ASSUME TypeOK, NEW r \in Runs, RunStep(r), LoopInv(r)', OwnActions(r)
  PROVE  OwnActions(r)'
<1>0. /\ pc \in [Runs -> Stages] /\ rs \in RobotStates /\ plan' = plan
      /\ plan[r] \in Plans
      /\ node \in [Runs -> Nat \ {0}] /\ act \in [Runs -> Nat]
      /\ result \in [Runs -> Outcomes \cup {None}]
      /\ DOMAIN plan[r].nodes = 1..Len(plan[r].nodes)
      /\ Len(plan[r].nodes) \in Nat
  BY RunStepFrame, RunHasPlan, PlanTypes DEF TypeOK, RunTypes, SharedTypes
<1> DEFINE Busy == {"nodeActionRun", "edgeActionRun"} \cup OnLeg
           Kept == \A a \in ActionIds : Accounted(r, a) => Accounted(r, a)'
           Passes(n, i) == Handled(r, n, i)' => Handled(r, n, i)
           Passed == \A n \in DOMAIN plan[r].nodes :
                       \A i \in DOMAIN plan[r].nodes[n].actions : Passes(n, i)
<1>i. \A n \in DOMAIN plan[r].nodes : \A i \in DOMAIN plan[r].nodes[n].actions :
        i \in Nat \ {0} /\ plan[r].nodes[n].actions[i].id \in ActionIds
  <2> SUFFICES ASSUME NEW n \in DOMAIN plan[r].nodes,
                      NEW i \in DOMAIN plan[r].nodes[n].actions
               PROVE  i \in Nat \ {0} /\ plan[r].nodes[n].actions[i].id \in ActionIds
    OBVIOUS
  <2>1. plan[r] \in Plans
    BY <1>0
  <2> QED BY <2>1, NodeActionTypes
<1>a. ASSUME OnTheWay(r), Kept, Passed PROVE OwnActions(r)'
  BY <1>0, <1>a, <1>i DEF OwnActions
<1>b. ASSUME ~OnTheWay(r)' PROVE OwnActions(r)'
  BY <1>b DEF OwnActions
(* Which actions a step passes. *)
<1>e. ASSUME node'[r] = node[r], pc'[r] \notin InNode PROVE Passed
  BY <1>e DEF Handled
<1>f. ASSUME node'[r] = node[r], act'[r] = act[r], pc[r] \in InNode PROVE Passed
  BY <1>f DEF Handled
(* What it does to those it passed before. *)
<1>k. ASSUME rs'.actions = rs.actions, \A a : ~Executing(r, a) PROVE Kept
  BY <1>k DEF Accounted
<1>n. ASSUME pc[r] \notin Busy PROVE \A a : ~Executing(r, a)
  BY <1>n DEF Executing, ActionLoops, RunningIn
<1>g. ASSUME rs' = rs, pc[r] \notin Busy PROVE Kept
  BY <1>g, <1>k, <1>n
<1>l. ASSUME rs' = rs, pc[r] \in OnLeg, pc'[r] \in OnLeg, node'[r] = node[r]
      PROVE  Kept
  <2>1. MoreNodes(r)' = MoreNodes(r) /\ GotoAction(r)' = GotoAction(r)
    BY <1>0, <1>l, SameAction
  <2>2. \A a : Executing(r, a) => Executing(r, a)'
    BY <1>l, <2>1 DEF Executing, ActionLoops, RunningIn
  <2> QED BY <1>l, <2>2 DEF Accounted
<1>m. ASSUME NEW a, SetAction(r, a, "FINISHED"),
             \A b : Executing(r, b) => b = a.id
      PROVE  Kept /\ (a.id \in ActionIds => Accounted(r, a.id)')
  <2>1. rs'.actions = [b \in ActionIds |->
          IF b = a.id /\ rs.actions[b] # "absent" THEN "FINISHED" ELSE rs.actions[b]]
    BY <1>0, <1>m, SetActionKeeps
  <2> QED BY <1>m, <2>1 DEF Accounted
<1>r. ASSUME NEW a, SetAction(r, a, "RUNNING"), Executing(r, a.id)',
             pc[r] \notin Busy
      PROVE  Kept
  <2>1. rs'.actions = [b \in ActionIds |->
          IF b = a.id /\ rs.actions[b] # "absent" THEN "RUNNING" ELSE rs.actions[b]]
    BY <1>0, <1>r, SetActionKeeps
  <2>2. \A b : ~Executing(r, b)
    BY <1>n, <1>r
  <2> SUFFICES ASSUME NEW b \in ActionIds, Accounted(r, b) PROVE Accounted(r, b)'
    OBVIOUS
  <2>3. CASE b = a.id
    BY <1>r, <2>3 DEF Accounted
  <2>4. CASE b # a.id
    BY <2>1, <2>2, <2>4 DEF Accounted
  <2> QED BY <2>3, <2>4
<1> HIDE DEF Kept, Passed
<1> USE DEF Goto, Settle, tables, loopVars, OnTheWay, Travelling, Complete, InNode
<1>1. CASE RunSetOrder(r)
  BY <1>0, <1>b, <1>1 DEF RunSetOrder
<1>2. CASE StoreInsertOrder(r)
  BY <1>0, <1>b, <1>2 DEF StoreInsertOrder
<1>3. CASE InitNodeStates(r)
  BY <1>0, <1>b, <1>3 DEF InitNodeStates
<1>4. CASE InitEdgeStates(r)
  BY <1>0, <1>b, <1>4 DEF InitEdgeStates
<1>5. CASE RunInitActionStates(r)
  <2>1. pc'[r] = "charger" /\ node'[r] = 1
    BY <1>0, <1>5 DEF RunInitActionStates, LoopInv
  <2>2. \A n \in DOMAIN plan[r].nodes : \A i : ~Handled(r, n, i)'
    BY <1>0, <2>1 DEF Handled
  <2> QED BY <1>0, <2>2 DEF OwnActions
<1>6. CASE EnsureNotCharging(r)
  <2>1. pc[r] = "charger" /\ node' = node /\ rs' = rs
    BY <1>6 DEF EnsureNotCharging
  <2>2. \/ pc'[r] = "lastNode"
        \/ pc'[r] = "settle" /\ result'[r] = "failed"
    BY <1>0, <1>6 DEF EnsureNotCharging
  <2> QED BY <1>a, <1>b, <1>e, <1>g, <2>1, <2>2
<1>7. CASE ReachNode(r)
  <2>1. /\ pc[r] = "lastNode" /\ pc'[r] = "removeNode" /\ node' = node
        /\ rs'.actions = rs.actions
    BY <1>0, <1>7 DEF ReachNode, SetLastNode, RobotStates
  <2> QED BY <1>a, <1>e, <1>k, <1>n, <2>1
<1>8. CASE RunRemoveNodeState(r)
  <2>1. /\ pc[r] = "removeNode" /\ pc'[r] = "nodeAction" /\ node' = node
        /\ act'[r] = 1 /\ rs'.actions = rs.actions
    BY <1>0, <1>8 DEF RunRemoveNodeState, RemoveNodeState, RobotStates
  <2>2. Passed
    BY <1>i, <2>1 DEF Passed, Handled
  <2> QED BY <1>a, <1>k, <1>n, <2>1, <2>2
<1>9. CASE NodeActionsDone(r)
  <2>1. /\ pc[r] = "nodeAction" /\ pc'[r] = "nextNode"
        /\ node'[r] = node[r] + 1 /\ rs' = rs
        /\ act[r] > Len(plan[r].nodes[node[r]].actions)
    <3>1. ~(act[r] <= Len(plan[r].nodes[node[r]].actions))
      BY <1>9 DEF NodeActionsDone, MoreActions, Actions, Node
    <3>2. node[r] \in DOMAIN plan[r].nodes
      BY <1>0, <1>9 DEF NodeActionsDone, TypeOK, RunTypes, ReadsNode
    <3>3. Len(plan[r].nodes[node[r]].actions) \in Nat
      BY <1>0, <3>2, NodeActionTypes
    <3>4. act[r] > Len(plan[r].nodes[node[r]].actions)
      BY <1>0, <3>1, <3>3
    <3> QED BY <1>0, <3>4, <1>9 DEF NodeActionsDone
  <2>2. \A n \in DOMAIN plan[r].nodes : \A i \in DOMAIN plan[r].nodes[n].actions :
          Passes(n, i)
    <3> SUFFICES ASSUME NEW n \in DOMAIN plan[r].nodes,
                        NEW i \in DOMAIN plan[r].nodes[n].actions,
                        n < node[r] + 1
                 PROVE  Handled(r, n, i)
      BY <2>1 DEF Handled
    <3>1. n < node[r] \/ n = node[r]
      BY <1>0
    <3>2. CASE n = node[r]
      <4>1. /\ Len(plan[r].nodes[n].actions) \in Nat
            /\ DOMAIN plan[r].nodes[n].actions = 1..Len(plan[r].nodes[n].actions)
        BY <1>0, NodeActionTypes
      <4>2. i \in Nat /\ i <= Len(plan[r].nodes[n].actions)
        BY <4>1
      <4>3. i < act[r]
        BY <1>0, <2>1, <3>2, <4>1, <4>2
      <4> QED BY <2>1, <3>2, <4>3 DEF Handled
    <3> QED BY <3>1, <3>2 DEF Handled
  <2>3. Passed
    BY <2>2 DEF Passed
  <2> QED BY <1>a, <1>g, <2>1, <2>3
<1>10. CASE OrderCancelled(r)
  BY <1>0, <1>b, <1>10 DEF OrderCancelled
<1>11. CASE RefuseCrossMap(r)
  BY <1>0, <1>b, <1>11 DEF RefuseCrossMap
<1>12. CASE NextNode(r)
  BY <1>0, <1>a, <1>e, <1>g, <1>12 DEF NextNode
<1>13. CASE NodesDone(r)
  <2>1. pc[r] = "nextNode" /\ node' = node /\ rs' = rs
    BY <1>13 DEF NodesDone
  <2>2. pc'[r] \in {"settle", "counterEntry"}
    BY <1>0, <1>13 DEF NodesDone
  <2> QED BY <1>a, <1>e, <1>g, <2>1, <2>2
<1>14. CASE EdgeActionsDone(r)
  BY <1>0, <1>a, <1>e, <1>g, <1>14 DEF EdgeActionsDone
<1>15. CASE NavigateXY(r)
  BY <1>0, <1>a, <1>e, <1>g, <1>15 DEF NavigateXY
<1>16. CASE NavigateNoTarget(r)
  BY <1>0, <1>b, <1>16 DEF NavigateNoTarget
<1>17. CASE NavigateByStation(r)
  <2>1. node' = node /\ act' = act /\ pc[r] = "navigate" /\ pc'[r] = "deliver"
    BY <1>0, <1>17 DEF NavigateByStation, BeginLeg
  <2>2. SetAction(r, GotoAction(r), "RUNNING")
    BY <1>17 DEF NavigateByStation
  <2>3. MoreNodes(r)' /\ GotoAction(r)' = GotoAction(r)
    BY <1>0, <2>1, SameAction DEF TypeOK, RunTypes, ReadsNode, MoreNodes
  <2>4. PICK a : a = GotoAction(r)
    OBVIOUS
  <2>5. Executing(r, a.id)'
    BY <2>1, <2>3, <2>4 DEF Executing
  <2>6. Kept
    BY <1>r, <2>1, <2>2, <2>4, <2>5
  <2> QED BY <1>a, <1>e, <2>1, <2>6
<1>18. CASE SendDelivery(r)
  BY <1>0, <1>a, <1>e, <1>l, <1>18 DEF SendDelivery
<1>19. CASE DeliveryActive(r)
  BY <1>0, <1>a, <1>e, <1>l, <1>19 DEF DeliveryActive
<1>20. CASE RetryDelivery(r)
  BY <1>0, <1>a, <1>e, <1>l, <1>20 DEF RetryDelivery
<1>21. CASE LegArrived(r)
  <2>1. pc[r] = "arriving" /\ node' = node
    BY <1>21 DEF LegArrived
  <2>2. pc'[r] \in {"settle", "removeEdge"}
    BY <1>0, <1>21 DEF LegArrived
  <2>3. \A b : Executing(r, b) => MoreNodes(r) /\ b = GotoAction(r).id
    BY <2>1 DEF Executing, ActionLoops, RunningIn
  <2>4. CASE ToCounter(r)
    <3>1. rs' = rs
      BY <1>21, <2>4 DEF LegArrived
    <3>2. Kept
      BY <1>k, <2>3, <2>4, <3>1 DEF ToCounter
    <3> QED BY <1>a, <1>e, <2>1, <2>2, <3>2
  <2>5. CASE ~ToCounter(r)
    <3>1. SetAction(r, GotoAction(r), "FINISHED")
      BY <1>21, <2>5 DEF LegArrived
    <3>2. Kept
      BY <1>m, <2>3, <3>1
    <3> QED BY <1>a, <1>e, <2>1, <2>2, <3>2
  <2> QED BY <2>4, <2>5
<1>22. CASE LegFailed(r)
  BY <1>0, <1>b, <1>22 DEF LegFailed
<1>23. CASE RunRemoveEdgeState(r)
  <2>1. /\ pc[r] = "removeEdge" /\ pc'[r] = "lastNode" /\ node' = node
        /\ rs'.actions = rs.actions
    BY <1>0, <1>23 DEF RunRemoveEdgeState, RemoveEdgeState, RobotStates
  <2> QED BY <1>a, <1>e, <1>k, <1>n, <2>1
<1>24. CASE EnterCounterWait(r)
  BY <1>0, <1>a, <1>e, <1>g, <1>24 DEF EnterCounterWait
<1>25. CASE CounterWaitCancelled(r)
  BY <1>0, <1>b, <1>25 DEF CounterWaitCancelled
<1>26. CASE ReturnToCounter(r)
  BY <1>0, <1>a, <1>e, <1>g, <1>26 DEF ReturnToCounter, BeginLeg
<1>27. CASE StoreFinishOrder(r)
  <2>1. pc[r] = "settle" /\ pc'[r] = "clear" /\ UNCHANGED <<node, result, rs>>
    BY <1>0, <1>27 DEF StoreFinishOrder
  <2> QED BY <1>a, <1>b, <1>e, <1>g, <2>1
<1>28. CASE RunClearOrder(r)
  BY <1>0, <1>b, <1>28 DEF RunClearOrder
<1>29. CASE ForgetOrder(r)
  BY <1>0, <1>b, <1>29 DEF ForgetOrder
<1>30. ASSUME NEW loop \in ActionLoops, ActionCancelled(r, loop) PROVE OwnActions(r)'
  BY <1>0, <1>b, <1>30 DEF ActionCancelled
<1>31. ASSUME NEW loop \in ActionLoops, SkipAction(r, loop) PROVE OwnActions(r)'
  <2>1. /\ loop = "nodeAction" /\ pc[r] = "nodeAction" /\ pc'[r] = "nodeAction"
        /\ node' = node /\ act'[r] = act[r] + 1 /\ rs' = rs
        /\ plan[r].nodes[node[r]].actions[act[r]].type = "GoToLocation"
    BY <1>0, <1>31 DEF SkipAction, Skipped, Action, Actions, Node
  <2>2. Kept
    BY <1>g, <2>1
  <2>3. \A n \in DOMAIN plan[r].nodes : \A i \in DOMAIN plan[r].nodes[n].actions :
          Handled(r, n, i)' => Handled(r, n, i) \/ (n = node[r] /\ i = act[r])
    BY <1>0, <1>i, <2>1 DEF Handled
  <2> QED BY <1>0, <1>i, <2>1, <2>2, <2>3 DEF OwnActions, Kept
<1>32. ASSUME NEW loop \in ActionLoops, StartAction(r, loop) PROVE OwnActions(r)'
  <2>1. /\ node' = node /\ act' = act /\ pc[r] = loop /\ pc'[r] = RunningIn(loop)
        /\ SetAction(r, Action(r, loop), "RUNNING")
    BY <1>0, <1>32 DEF StartAction
  <2>2. Action(r, loop)' = Action(r, loop)
    BY <1>0, <2>1, SameAction
  <2>3. PICK a : a = Action(r, loop)
    OBVIOUS
  <2>4. Executing(r, a.id)'
    BY <2>1, <2>2, <2>3 DEF Executing
  <2>5. Kept
    BY <1>r, <2>1, <2>3, <2>4 DEF ActionLoops
  <2>6. Passed
    BY <1>e, <1>f, <2>1 DEF ActionLoops, RunningIn
  <2> QED BY <1>a, <2>1, <2>5, <2>6 DEF ActionLoops
<1>33. ASSUME NEW loop \in ActionLoops, FinishAction(r, loop) PROVE OwnActions(r)'
  <2>1. /\ pc[r] = RunningIn(loop) /\ pc'[r] = loop /\ node' = node
        /\ SetAction(r, Action(r, loop), "FINISHED")
        /\ act'[r] = act[r] + 1
    BY <1>0, <1>33 DEF FinishAction
  <2>2. \A b : Executing(r, b) => b = Action(r, loop).id
    BY <2>1 DEF Executing, ActionLoops, RunningIn
  <2>3. PICK a : a = Action(r, loop)
    OBVIOUS
  <2>4. Kept /\ (a.id \in ActionIds => Accounted(r, a.id)')
    BY <1>m, <2>1, <2>2, <2>3
  <2>5. CASE loop = "edgeAction"
    BY <1>a, <1>e, <2>1, <2>4, <2>5 DEF RunningIn
  <2>6. CASE loop = "nodeAction"
    <3>1. a = plan[r].nodes[node[r]].actions[act[r]]
      BY <2>3, <2>6 DEF Action, Actions, Node
    <3>2. \A n \in DOMAIN plan[r].nodes : \A i \in DOMAIN plan[r].nodes[n].actions :
            Handled(r, n, i)' => Handled(r, n, i) \/ (n = node[r] /\ i = act[r])
      BY <1>0, <1>i, <2>1, <2>6 DEF Handled, RunningIn
    <3> QED BY <1>0, <1>i, <2>1, <2>4, <2>6, <3>1, <3>2
            DEF OwnActions, Kept, RunningIn
  <2> QED BY <2>5, <2>6 DEF ActionLoops
<1>34. ASSUME NEW loop \in ActionLoops, FailAction(r, loop) PROVE OwnActions(r)'
  BY <1>0, <1>b, <1>34 DEF FailAction
<1> QED
      BY <1>1, <1>2, <1>3, <1>4, <1>5, <1>6, <1>7, <1>8, <1>9, <1>10,
         <1>11, <1>12, <1>13, <1>14, <1>15, <1>16, <1>17, <1>18, <1>19, <1>20,
         <1>21, <1>22, <1>23, <1>24, <1>25, <1>26, <1>27, <1>28, <1>29, <1>30,
         <1>31, <1>32, <1>33, <1>34
         DEF RunStep

(* An instant action writes no action state of an order: it removes only    *)
(* reported ones.                                                          *)
LEMMA InstantJourney ==
  ASSUME TypeOK, NEW i \in Instants, InstantHandle(i) \/ InstantStep(i)
  PROVE  /\ rs'.orderId = rs.orderId /\ rs'.nodes = rs.nodes
         /\ rs'.lastNode = rs.lastNode
         /\ \A a \in ActionIds \ Instants :
              rs.actions[a] \in {"FINISHED", "absent"} =>
                rs'.actions[a] \in {"FINISHED", "absent"}
<1>0. rs \in RobotStates
  BY DEF TypeOK, SharedTypes
<1> USE DEF RobotStates
<1>1. CASE InstantHandle(i)
  BY <1>0, <1>1 DEF InstantHandle, AddActionState
<1>2. CASE InstantCancel(i)
  BY <1>2 DEF InstantCancel
<1>3. CASE InstantReport(i)
  <2>1. PICK st \in Reported : rs' = UpdateActionState(rs, i, st)
    BY <1>3 DEF InstantReport, Reported
  <2> QED BY <1>0, <2>1 DEF UpdateActionState
<1>4. CASE InstantCleanUp(i)
  BY <1>0, <1>4 DEF InstantCleanUp, RemoveFinishedActions, Reported
<1> QED BY <1>1, <1>2, <1>3, <1>4 DEF InstantStep

(* The parts of a run whose own variables a step leaves alone. *)
LEMMA SameJourney ==
  ASSUME TypeOK, NEW r \in Runs, plan[r] \in Plans,
         pc'[r] = pc[r], plan'[r] = plan[r], node'[r] = node[r],
         act'[r] = act[r], result'[r] = result[r],
         rs'.orderId = rs.orderId, rs'.nodes = rs.nodes,
         rs'.lastNode = rs.lastNode, rows' = rows, LiveRuns' = LiveRuns,
         \A a \in ActionIds \ Instants : rs.actions[a] \in {"FINISHED", "absent"} =>
           rs'.actions[a] \in {"FINISHED", "absent"}
  PROVE  /\ OwnState(r) => OwnState(r)'
         /\ OwnNodes(r) => OwnNodes(r)'
         /\ OwnActions(r) => OwnActions(r)'
<1>1. /\ Id(r)' = Id(r) /\ OnTheWay(r)' = OnTheWay(r)
      /\ Removed(r)' = Removed(r) /\ Recorded(r)' = Recorded(r)
      /\ \A n, i : Handled(r, n, i)' = Handled(r, n, i)
  <2>1. Id(r)' = Id(r)
    BY DEF Id
  <2>2. OnTheWay(r)' = OnTheWay(r)
    BY DEF OnTheWay, Complete, Travelling
  <2>3. Removed(r)' = Removed(r) /\ Recorded(r)' = Recorded(r)
    BY DEF Removed, Recorded, InNode
  <2>4. \A n, i : Handled(r, n, i)' = Handled(r, n, i)
    BY DEF Handled, InNode
  <2> QED BY <2>1, <2>2, <2>3, <2>4
<1>2. Unvisited(r)' = Unvisited(r)
  BY <1>1 DEF Unvisited
<1>3. \A a \in ActionIds \ Instants : Accounted(r, a) => Accounted(r, a)'
  BY SameExecuting DEF Accounted
<1>4. OwnState(r) => OwnState(r)'
  BY <1>1 DEF OwnState
<1>5. OwnNodes(r) => OwnNodes(r)'
  BY <1>1, <1>2 DEF OwnNodes
<1>6. OwnActions(r) => OwnActions(r)'
  BY <1>1, <1>3, NodeActionTypes DEF OwnActions
<1> QED BY <1>4, <1>5, <1>6

LEMMA SameLoop ==
  ASSUME NEW r, pc'[r] = pc[r], plan'[r] = plan[r], node'[r] = node[r],
         result'[r] = result[r], LoopInv(r)
  PROVE  LoopInv(r)'
BY DEF LoopInv, Complete

LEMMA RunStepResults ==
  ASSUME TypeOK, NEW r \in Runs, RunStep(r)
  PROVE  \A q \in Runs \ {r} : result'[q] = result[q]
<1> DEFINE Others == \A q \in Runs \ {r} : result'[q] = result[q]
<1> SUFFICES Others
  OBVIOUS
<1>0. result \in [Runs -> Outcomes \cup {None}]
  BY DEF TypeOK, RunTypes
<1> USE DEF Settle, loopVars
<1>1. CASE RunSetOrder(r)
  BY <1>0, <1>1 DEF RunSetOrder
<1>2. CASE StoreInsertOrder(r)
  BY <1>0, <1>2 DEF StoreInsertOrder
<1>3. CASE InitNodeStates(r)
  BY <1>0, <1>3 DEF InitNodeStates
<1>4. CASE InitEdgeStates(r)
  BY <1>0, <1>4 DEF InitEdgeStates
<1>5. CASE RunInitActionStates(r)
  BY <1>0, <1>5 DEF RunInitActionStates
<1>6. CASE EnsureNotCharging(r)
  BY <1>0, <1>6 DEF EnsureNotCharging
<1>7. CASE ReachNode(r)
  BY <1>0, <1>7 DEF ReachNode
<1>8. CASE RunRemoveNodeState(r)
  BY <1>0, <1>8 DEF RunRemoveNodeState
<1>9. CASE NodeActionsDone(r)
  BY <1>0, <1>9 DEF NodeActionsDone
<1>10. CASE OrderCancelled(r)
  BY <1>0, <1>10 DEF OrderCancelled
<1>11. CASE RefuseCrossMap(r)
  BY <1>0, <1>11 DEF RefuseCrossMap
<1>12. CASE NextNode(r)
  BY <1>0, <1>12 DEF NextNode
<1>13. CASE NodesDone(r)
  BY <1>0, <1>13 DEF NodesDone
<1>14. CASE EdgeActionsDone(r)
  BY <1>0, <1>14 DEF EdgeActionsDone
<1>15. CASE NavigateXY(r)
  BY <1>0, <1>15 DEF NavigateXY
<1>16. CASE NavigateNoTarget(r)
  BY <1>0, <1>16 DEF NavigateNoTarget
<1>17. CASE NavigateByStation(r)
  BY <1>0, <1>17 DEF NavigateByStation, BeginLeg
<1>18. CASE SendDelivery(r)
  BY <1>0, <1>18 DEF SendDelivery
<1>19. CASE DeliveryActive(r)
  BY <1>0, <1>19 DEF DeliveryActive
<1>20. CASE RetryDelivery(r)
  BY <1>0, <1>20 DEF RetryDelivery
<1>21. CASE LegArrived(r)
  BY <1>0, <1>21 DEF LegArrived
<1>22. CASE LegFailed(r)
  BY <1>0, <1>22 DEF LegFailed
<1>23. CASE RunRemoveEdgeState(r)
  BY <1>0, <1>23 DEF RunRemoveEdgeState
<1>24. CASE EnterCounterWait(r)
  BY <1>0, <1>24 DEF EnterCounterWait
<1>25. CASE CounterWaitCancelled(r)
  BY <1>0, <1>25 DEF CounterWaitCancelled
<1>26. CASE ReturnToCounter(r)
  BY <1>0, <1>26 DEF ReturnToCounter, BeginLeg
<1>27. CASE StoreFinishOrder(r)
  BY <1>0, <1>27 DEF StoreFinishOrder
<1>28. CASE RunClearOrder(r)
  BY <1>0, <1>28 DEF RunClearOrder
<1>29. CASE ForgetOrder(r)
  BY <1>0, <1>29 DEF ForgetOrder
<1>30. ASSUME NEW loop \in ActionLoops, ActionCancelled(r, loop) PROVE Others
  BY <1>0, <1>30 DEF ActionCancelled, ActionLoops, RunningIn
<1>31. ASSUME NEW loop \in ActionLoops, SkipAction(r, loop) PROVE Others
  BY <1>0, <1>31 DEF SkipAction, ActionLoops, RunningIn
<1>32. ASSUME NEW loop \in ActionLoops, StartAction(r, loop) PROVE Others
  BY <1>0, <1>32 DEF StartAction, ActionLoops, RunningIn
<1>33. ASSUME NEW loop \in ActionLoops, FinishAction(r, loop) PROVE Others
  BY <1>0, <1>33 DEF FinishAction, ActionLoops, RunningIn
<1>34. ASSUME NEW loop \in ActionLoops, FailAction(r, loop) PROVE Others
  BY <1>0, <1>34 DEF FailAction, ActionLoops, RunningIn
<1> QED
      BY <1>1, <1>2, <1>3, <1>4, <1>5, <1>6, <1>7, <1>8, <1>9, <1>10,
         <1>11, <1>12, <1>13, <1>14, <1>15, <1>16, <1>17, <1>18, <1>19, <1>20,
         <1>21, <1>22, <1>23, <1>24, <1>25, <1>26, <1>27, <1>28, <1>29, <1>30,
         <1>31, <1>32, <1>33, <1>34
         DEF RunStep

LEMMA NextJourneyInv ==
  TypeOK /\ DownInv /\ JourneyInv /\ [Next]_vars => JourneyInv'
<1> SUFFICES ASSUME TypeOK, DownInv, JourneyInv, [Next]_vars,
                    NEW r \in Runs
             PROVE  /\ LoopInv(r)'
                    /\ Alone(r)' => OwnState(r)' /\ OwnNodes(r)' /\ OwnActions(r)'
  BY DEF JourneyInv
<1>0. /\ pc \in [Runs -> Stages] /\ plan \in [Runs -> Plans \cup {None}]
      /\ LoopInv(r)
      /\ Alone(r) => OwnState(r) /\ OwnNodes(r) /\ OwnActions(r)
      /\ Alone(r) => plan[r] \in Plans
  BY RunHasPlan DEF TypeOK, RunTypes, JourneyInv, Alone
<1>1. CASE UNCHANGED vars
  <2>1. /\ UNCHANGED <<pc, plan, node, act, result, rs, rows, overlap>>
        /\ Alone(r)' = Alone(r)
    BY <1>1 DEF vars, loopVars, tables, history, Alone
  <2>2. LiveRuns' = LiveRuns
    BY <2>1 DEF LiveRuns
  <2> QED BY <1>0, <2>1, <2>2, SameLoop, SameJourney
<1>2. ASSUME NEW q \in Runs, NEW p \in Plans, HandleOrder(q, p)
      PROVE  /\ LoopInv(r)'
             /\ Alone(r)' => OwnState(r)' /\ OwnNodes(r)' /\ OwnActions(r)'
  <2>1. /\ UNCHANGED <<node, act, result>> /\ pc[q] = "idle"
        /\ pc'[q] = "setOrder" /\ plan'[q] = p
        /\ \A s \in Runs \ {q} : pc'[s] = pc[s] /\ plan'[s] = plan[s]
        /\ overlap' = overlap \cup
             (IF LiveRuns = {} THEN {} ELSE LiveRuns \cup {q})
    BY <1>0, <1>2 DEF HandleOrder
  <2>2. CASE r # q
    <3>1. LoopInv(r)'
      BY <1>0, <2>1, <2>2, SameLoop
    <3>2. ~Alone(r)'
      BY <2>1, <2>2 DEF Alone, LiveRuns
    <3> QED BY <3>1, <3>2
  <2>3. CASE r = q
    <3>1. node[q] = 1 /\ Len(p.nodes) \in Nat
      BY <2>1, PlanTypes DEF TypeOK, RunTypes
    <3>2. LoopInv(q)'
      BY <2>1, <3>1 DEF LoopInv, Complete
    <3>3. ~OnTheWay(q)'
      BY <2>1 DEF OnTheWay, Travelling, Complete
    <3>4. OwnNodes(q)' /\ OwnActions(q)'
      BY <2>1, <3>3 DEF OwnNodes, OwnActions
    <3>5. LiveRuns = {} => LiveRuns' = {q}
      BY <2>1 DEF LiveRuns
    <3>6. Alone(q)' => OwnState(q)'
      BY <2>1, <3>5 DEF Alone, OwnState
    <3> QED BY <2>3, <3>2, <3>4, <3>6
  <2> QED BY <2>2, <2>3
<1>3. ASSUME NEW q \in Runs, RunStep(q)
      PROVE  /\ LoopInv(r)'
             /\ Alone(r)' => OwnState(r)' /\ OwnNodes(r)' /\ OwnActions(r)'
  <2>1. /\ UNCHANGED <<plan, overlap>> /\ pc[q] \in Live
        /\ \A s \in Runs \ {q} : pc'[s] = pc[s] /\ node'[s] = node[s]
                                 /\ result'[s] = result[s]
    BY <1>3, RunStepFrame, RunStepActionRows, RunStepResults
  <2>2. CASE r # q
    <3>1. LoopInv(r)'
      BY <1>0, <2>1, <2>2, SameLoop
    <3>2. Alone(r)' => Alone(r)
      BY <2>1, <2>2 DEF Alone
    <3>3. q \in LiveRuns
      BY <2>1 DEF LiveRuns
    <3>4. ~Alone(r)
      BY <1>0, <2>2, <3>3 DEF OwnState
    <3> QED BY <3>1, <3>2, <3>4
  <2>3. CASE r = q
    <3>1. LoopInv(r)'
      BY <1>0, <1>3, <2>3, RunStepLoopInv
    <3> SUFFICES ASSUME Alone(r)'
                 PROVE  OwnState(r)' /\ OwnNodes(r)' /\ OwnActions(r)'
      BY <3>1
    <3>2. Alone(r) /\ pc'[r] \in Live
      BY <2>1, <2>3 DEF Alone
    <3>3. OwnNodes(r)' /\ OwnActions(r)'
      BY <1>0, <1>3, <2>3, <3>1, <3>2, RunStepOwnNodes, RunStepOwnActions
    <3>4. LiveRuns' = {r}
      BY <1>0, <2>1, <2>3, <3>2 DEF OwnState, LiveRuns
    <3>5. pc'[r] \notin {"setOrder", "forget"} => rs'.orderId = Id(r)'
      <4>1. Id(r)' = Id(r)
        BY <2>1 DEF Id
      <4>2. \/ pc'[r] = "insert" /\ rs'.orderId = Id(r)
            \/ pc'[r] = "forget"
            \/ pc[r] = "forget" /\ pc'[r] = "done"
            \/ pc[r] \notin {"setOrder", "forget"} /\ rs'.orderId = rs.orderId
        BY <1>3, <2>3, RunStepOrderId
      <4> QED BY <1>0, <3>2, <4>1, <4>2 DEF OwnState
    <3> QED BY <3>3, <3>4, <3>5 DEF OwnState
  <2> QED BY <2>2, <2>3
<1>4. ASSUME NEW i \in Instants, InstantHandle(i) \/ InstantStep(i)
      PROVE  /\ LoopInv(r)'
             /\ Alone(r)' => OwnState(r)' /\ OwnNodes(r)' /\ OwnActions(r)'
  <2>1. /\ UNCHANGED <<pc, plan, node, act, result, rows, overlap>>
        /\ Alone(r)' = Alone(r)
    BY <1>4, InstantFrame DEF loopVars, tables, history, Alone
  <2>2. LiveRuns' = LiveRuns
    BY <2>1 DEF LiveRuns
  <2>3. LoopInv(r)'
    BY <1>0, <2>1, SameLoop
  <2> SUFFICES ASSUME Alone(r)'
               PROVE  OwnState(r)' /\ OwnNodes(r)' /\ OwnActions(r)'
    BY <2>3
  <2> QED BY <1>0, <1>4, <2>1, <2>2, InstantJourney, SameJourney
<1>5. CASE Crash
  <2>1. pc'[r] \notin Live
    BY <1>0, <1>5 DEF Crash
  <2> QED BY <2>1 DEF LoopInv, Complete, Alone
<1>6. CASE Restart
  <2>1. pc[r] \notin Live /\ UNCHANGED <<pc, plan, node, result>>
    BY <1>6 DEF DownInv, LiveRuns, Restart, loopVars
  <2> QED BY <1>0, <2>1, SameLoop DEF Alone
<1> QED BY <1>1, <1>2, <1>3, <1>4, <1>5, <1>6 DEF Next

(* A run that shared the state with no other finishes only when it has been *)
(* through its whole order: no node is pending, state and table name the    *)
(* last one, and every action of a node is reported.                       *)
THEOREM FinishedRunsWentThrough == Spec => []FinishedWentThroughOrder
<1>1. Init => DownInv /\ JourneyInv
  <2> SUFFICES ASSUME Init PROVE DownInv /\ JourneyInv
    OBVIOUS
  <2>1. \A r \in Runs : pc[r] = "idle"
    BY DEF Init
  <2> QED BY <2>1 DEF DownInv, LiveRuns, JourneyInv, LoopInv, Complete, Alone
<1>2. TypeOK /\ JourneyInv => FinishedWentThroughOrder
  <2> SUFFICES ASSUME TypeOK, JourneyInv, NEW r \in Runs \ overlap,
                      pc[r] \in {"settle", "clear"}, result[r] = "finished"
               PROVE  LET last == plan[r].nodes[Len(plan[r].nodes)].name IN
                      /\ rs.orderId = Id(r) /\ rs.nodes = {}
                      /\ rs.lastNode = last /\ rows[Id(r)].lastNode = last
                      /\ \A n \in DOMAIN plan[r].nodes, a \in PlanActions(plan[r]) :
                           a \in Range1(plan[r].nodes[n].actions)
                           /\ a.type # "GoToLocation"
                             => rs.actions[a.id] \in {"FINISHED", "absent"}
    BY DEF FinishedWentThroughOrder
  <2>1. /\ OwnState(r) /\ OwnNodes(r) /\ OwnActions(r) /\ LoopInv(r)
        /\ OnTheWay(r)
    BY DEF JourneyInv, Alone, OnTheWay, Complete
  <2>2. /\ Len(plan[r].nodes) \in Nat \ {0} /\ node[r] \in Nat
        /\ DOMAIN plan[r].nodes = 1..Len(plan[r].nodes)
    BY RunHasPlan, PlanTypes DEF TypeOK, RunTypes
  <2>3. node[r] = Len(plan[r].nodes) + 1
    BY <2>1, <2>2 DEF LoopInv, Complete
  <2>4. Removed(r) = Len(plan[r].nodes) /\ Recorded(r) = Len(plan[r].nodes)
    BY <2>2, <2>3 DEF Removed, Recorded, InNode
  <2>5. Unvisited(r) = {}
    BY <2>2, <2>4 DEF Unvisited
  <2>6. rs.orderId = Id(r)
    BY <2>1 DEF OwnState
  <2>7. \A b : ~Executing(r, b)
    BY DEF Executing, ActionLoops, RunningIn
  <2>8. ASSUME NEW n \in DOMAIN plan[r].nodes, NEW a \in PlanActions(plan[r]),
               a \in Range1(plan[r].nodes[n].actions), a.type # "GoToLocation"
        PROVE  rs.actions[a.id] \in {"FINISHED", "absent"}
    <3>1. PICK i \in DOMAIN plan[r].nodes[n].actions :
            a = plan[r].nodes[n].actions[i]
      BY <2>8 DEF Range1
    <3>2. Handled(r, n, i)
      BY <2>2, <2>3 DEF Handled
    <3>3. Accounted(r, a.id)
      BY <2>1, <2>8, <3>1, <3>2 DEF OwnActions
    <3> QED BY <2>7, <3>3 DEF Accounted
  <2> QED BY <2>1, <2>2, <2>4, <2>5, <2>6, <2>8 DEF OwnNodes
<1> QED BY <1>1, <1>2, TypeCorrect, NextDownInv, NextJourneyInv, PTL DEF Spec
=============================================================================
