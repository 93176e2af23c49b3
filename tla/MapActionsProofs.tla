-------------------------- MODULE MapActionsProofs --------------------------
(***************************************************************************)
(* Theorems about MapActions for every number of actions, maps, scenarios  *)
(* and interleaving of the goroutines.                                     *)
(***************************************************************************)
EXTENDS MapActions, MapBeautifyProofs, FiniteSetTheorems, TLAPS

USE ScenariosAssumption

(* The robot loads a map at most once for each start of its core: one by    *)
(* hand and one for each switchMap that has come that far.                 *)
Restarted == {a \in Actions : pc[a] \notin {"unsent", "start", "stop", "start core"}}
Starting == IF robot.core = "starting" THEN 1 ELSE 0
LoadsBound == loads + Starting <= Cardinality(Restarted) + IF touched THEN 1 ELSE 0

(* The types of what TypeOK leaves out, and what never changes. *)
ScenarioTypes ==
  /\ world \in [prompt : BOOLEAN, answering : BOOLEAN, obeying : BOOLEAN, hands : BOOLEAN]
  /\ plan \in [Actions -> Requests]
  /\ DOMAIN given = Actions

MapTypes == TypeOK /\ ScenarioTypes /\ LoadsBound

Statuses == {"absent", "RUNNING", "FINISHED", "FAILED"}
Labels ==
  {"unsent", "start", "source", "fetch", "meta", "upload", "announce", "pose",
   "stop", "start core", "mode", "succeeded", "failed", "cooling", "over"}
Locals ==
  [label : Names, current : BOOLEAN, content : Maps \cup {None},
   meta : Maps \cup {None}, attempt : 1 .. 3]

LEMMA NextScenario == ScenarioTypes /\ [Next]_vars => ScenarioTypes'
<1> SUFFICES ASSUME ScenarioTypes, [Next]_vars PROVE ScenarioTypes'
  OBVIOUS
<1> USE DEF ScenarioTypes, scenario
<1>1. CASE UNCHANGED vars
  BY <1>1 DEF vars, scenario
<1>2. ASSUME RobotLoads PROVE ScenarioTypes'
  BY <1>2 DEF RobotLoads, Track
<1>3. ASSUME NEW m \in Maps, SwitchByHand(m) PROVE ScenarioTypes'
  BY <1>3 DEF SwitchByHand
<1>4. ASSUME NEW q \in Queries, MapLoaded(q) PROVE ScenarioTypes'
  BY <1>4 DEF MapLoaded
<1>5. ASSUME NEW q \in Queries, QueryAnswered(q) PROVE ScenarioTypes'
  BY <1>5 DEF QueryAnswered
<1>6. ASSUME NEW q \in Queries, QuerySetsMapID(q) PROVE ScenarioTypes'
  BY <1>6 DEF QuerySetsMapID, Track
<1>7. ASSUME NEW a \in Actions, Handle(a) PROVE ScenarioTypes'
  BY <1>7 DEF Handle
<1>8. ASSUME NEW a \in Actions, MapDataStep(a),
                UNCHANGED <<scenario, robot, touched, loads, mapId, query, steady>>
      PROVE  ScenarioTypes'
  <2>1. CASE RejectUnknown(a)
    BY <1>8, <2>1 DEF RejectUnknown, UpdateActionState
  <2>2. CASE RunSimple(a)
    BY <1>8, <2>2 DEF RunSimple, Outcomes
  <2>3. CASE Finish(a)
    BY <1>8, <2>3 DEF Finish, UpdateActionState
  <2>4. CASE CleanUp(a)
    BY <1>8, <2>4 DEF CleanUp
  <2>5. CASE ChooseLabel(a)
    BY <1>8, <2>5 DEF ChooseLabel, Keep
  <2>6. CASE ChooseSource(a)
    BY <1>8, <2>6 DEF ChooseSource, Keep, IsCurrent
  <2>7. CASE FetchImage(a)
    BY <1>8, <2>7 DEF FetchImage, Keep, CoreOutcomes
  <2>8. CASE FetchMeta(a)
    BY <1>8, <2>8 DEF FetchMeta, Keep, CoreOutcomes
  <2>9. CASE FetchZIP(a)
    BY <1>8, <2>9 DEF FetchZIP, Outcomes, UpdateActionState
  <2>10. CASE UploadImage(a)
    BY <1>8, <2>10 DEF UploadImage, Outcomes, UpdateActionState, Plan
  <2>11. CASE FetchPOI(a)
    BY <1>8, <2>11 DEF FetchPOI, Keep, CoreOutcomes
  <2>12. CASE PublishWaypoints(a)
    BY <1>8, <2>12 DEF PublishWaypoints
  <2> QED BY <1>8, <2>1, <2>2, <2>3, <2>4, <2>5, <2>6, <2>7, <2>8, <2>9,
         <2>10, <2>11, <2>12 DEF MapDataStep
<1>9. ASSUME NEW a \in Actions, RobotActionStep(a),
                UNCHANGED <<scenario, touched, loads, paused, query, given>>
      PROVE  ScenarioTypes'
  <2>1. CASE TakeMap(a)
    BY <1>9, <2>1 DEF TakeMap, Track
  <2>2. CASE SendPose(a)
    BY <1>9, <2>2 DEF SendPose, Keep, Outcomes
  <2>3. CASE SelectMap(a)
    BY <1>9, <2>3 DEF SelectMap, PostCommand, Outcomes, Effects
  <2>4. CASE StopRobotCore(a)
    BY <1>9, <2>4 DEF StopRobotCore, PostCommand, Outcomes, Effects
  <2>5. CASE StartRobotCore(a)
    BY <1>9, <2>5 DEF StartRobotCore, PostCommand, Outcomes, Effects
  <2>6. CASE SelectDelivery(a)
    BY <1>9, <2>6 DEF SelectDelivery, Outcomes, Track
  <2> QED BY <1>9, <2>1, <2>2, <2>3, <2>4, <2>5, <2>6 DEF RobotActionStep
<1> QED
  BY <1>1, <1>2, <1>3, <1>4, <1>5, <1>6, <1>7, <1>8, <1>9
     DEF Next, QueryStep, ActionStep

(* The steps keep the types of what they write, variable by variable. *)
LEMMA NextRows ==
  ASSUME TypeOK, [Next]_vars
  PROVE  rows' \in [Actions -> Statuses] /\ pc' \in [Actions -> Labels]
<1> DEFINE Goal == rows' \in [Actions -> Statuses] /\ pc' \in [Actions -> Labels]
<1> SUFFICES Goal
  OBVIOUS
<1>t. rows \in [Actions -> Statuses] /\ pc \in [Actions -> Labels]
  BY DEF TypeOK, Statuses, Labels
<1> USE <1>t DEF Goto, Statuses, Labels
<1>1. CASE UNCHANGED vars
  BY <1>1 DEF vars, scenario
<1>2. ASSUME RobotLoads PROVE Goal
  BY <1>2 DEF RobotLoads, Track
<1>3. ASSUME NEW m \in Maps, SwitchByHand(m) PROVE Goal
  BY <1>3 DEF SwitchByHand
<1>4. ASSUME NEW q \in Queries, MapLoaded(q) PROVE Goal
  BY <1>4 DEF MapLoaded
<1>5. ASSUME NEW q \in Queries, QueryAnswered(q) PROVE Goal
  BY <1>5 DEF QueryAnswered
<1>6. ASSUME NEW q \in Queries, QuerySetsMapID(q) PROVE Goal
  BY <1>6 DEF QuerySetsMapID, Track
<1>7. ASSUME NEW a \in Actions, Handle(a) PROVE Goal
  BY <1>7 DEF Handle
<1>8. ASSUME NEW a \in Actions, MapDataStep(a),
                UNCHANGED <<scenario, robot, touched, loads, mapId, query, steady>>
      PROVE  Goal
  <2>1. CASE RejectUnknown(a)
    BY <1>8, <2>1 DEF RejectUnknown, UpdateActionState
  <2>2. CASE RunSimple(a)
    BY <1>8, <2>2 DEF RunSimple, Outcomes
  <2>3. CASE Finish(a)
    BY <1>8, <2>3 DEF Finish, UpdateActionState
  <2>4. CASE CleanUp(a)
    BY <1>8, <2>4 DEF CleanUp
  <2>5. CASE ChooseLabel(a)
    BY <1>8, <2>5 DEF ChooseLabel, Keep
  <2>6. CASE ChooseSource(a)
    BY <1>8, <2>6 DEF ChooseSource, Keep, IsCurrent
  <2>7. CASE FetchImage(a)
    BY <1>8, <2>7 DEF FetchImage, Keep, CoreOutcomes
  <2>8. CASE FetchMeta(a)
    BY <1>8, <2>8 DEF FetchMeta, Keep, CoreOutcomes
  <2>9. CASE FetchZIP(a)
    BY <1>8, <2>9 DEF FetchZIP, Outcomes, UpdateActionState
  <2>10. CASE UploadImage(a)
    BY <1>8, <2>10 DEF UploadImage, Outcomes, UpdateActionState, Plan
  <2>11. CASE FetchPOI(a)
    BY <1>8, <2>11 DEF FetchPOI, Keep, CoreOutcomes
  <2>12. CASE PublishWaypoints(a)
    BY <1>8, <2>12 DEF PublishWaypoints
  <2> QED BY <1>8, <2>1, <2>2, <2>3, <2>4, <2>5, <2>6, <2>7, <2>8, <2>9,
         <2>10, <2>11, <2>12 DEF MapDataStep
<1>9. ASSUME NEW a \in Actions, RobotActionStep(a),
                UNCHANGED <<scenario, touched, loads, paused, query, given>>
      PROVE  Goal
  <2>1. CASE TakeMap(a)
    BY <1>9, <2>1 DEF TakeMap, Track
  <2>2. CASE SendPose(a)
    BY <1>9, <2>2 DEF SendPose, Keep, Outcomes
  <2>3. CASE SelectMap(a)
    BY <1>9, <2>3 DEF SelectMap, PostCommand, Outcomes, Effects
  <2>4. CASE StopRobotCore(a)
    BY <1>9, <2>4 DEF StopRobotCore, PostCommand, Outcomes, Effects
  <2>5. CASE StartRobotCore(a)
    BY <1>9, <2>5 DEF StartRobotCore, PostCommand, Outcomes, Effects
  <2>6. CASE SelectDelivery(a)
    BY <1>9, <2>6 DEF SelectDelivery, Outcomes, Track
  <2> QED BY <1>9, <2>1, <2>2, <2>3, <2>4, <2>5, <2>6 DEF RobotActionStep
<1> QED
  BY <1>1, <1>2, <1>3, <1>4, <1>5, <1>6, <1>7, <1>8, <1>9
     DEF Next, QueryStep, ActionStep

(* What an action may keep of its own. *)
LEMMA KeepTypes ==
  ASSUME work \in [Actions -> Locals], NEW a \in Actions, NEW v,
         \/ Keep(a, "label", v) /\ v \in Names
         \/ Keep(a, "current", v) /\ v \in BOOLEAN
         \/ Keep(a, "content", v) /\ v \in Maps \cup {None}
         \/ Keep(a, "meta", v) /\ v \in Maps \cup {None}
         \/ Keep(a, "attempt", v) /\ v \in 1 .. 3
  PROVE  work' \in [Actions -> Locals]
<1>1. CASE Keep(a, "label", v) /\ v \in Names
  BY <1>1 DEF Keep, Locals
<1>2. CASE Keep(a, "current", v) /\ v \in BOOLEAN
  BY <1>2 DEF Keep, Locals
<1>3. CASE Keep(a, "content", v) /\ v \in Maps \cup {None}
  BY <1>3 DEF Keep, Locals
<1>4. CASE Keep(a, "meta", v) /\ v \in Maps \cup {None}
  BY <1>4 DEF Keep, Locals
<1>5. CASE Keep(a, "attempt", v) /\ v \in 1 .. 3
  BY <1>5 DEF Keep, Locals
<1> QED BY <1>1, <1>2, <1>3, <1>4, <1>5

LEMMA NextWork ==
  ASSUME TypeOK, ScenarioTypes, [Next]_vars
  PROVE  work' \in [Actions -> Locals]
<1>t. /\ work \in [Actions -> Locals] /\ mapId \in Names /\ robot.map \in Maps
      /\ \A a \in Actions : /\ work[a].label \in Names /\ work[a].attempt \in 1 .. 3
                            /\ plan[a].map \in Names /\ plan[a].byName \in BOOLEAN
  BY DEF TypeOK, ScenarioTypes, Locals, Requests
<1>1. CASE UNCHANGED vars
  BY <1>t, <1>1 DEF vars, scenario
<1>2. ASSUME RobotLoads PROVE work' \in [Actions -> Locals]
  BY <1>t, <1>2 DEF RobotLoads, Track
<1>3. ASSUME NEW m \in Maps, SwitchByHand(m) PROVE work' \in [Actions -> Locals]
  BY <1>t, <1>3 DEF SwitchByHand
<1>4. ASSUME NEW q \in Queries, MapLoaded(q) PROVE work' \in [Actions -> Locals]
  BY <1>t, <1>4 DEF MapLoaded
<1>5. ASSUME NEW q \in Queries, QueryAnswered(q) PROVE work' \in [Actions -> Locals]
  BY <1>t, <1>5 DEF QueryAnswered
<1>6. ASSUME NEW q \in Queries, QuerySetsMapID(q) PROVE work' \in [Actions -> Locals]
  BY <1>t, <1>6 DEF QuerySetsMapID, Track
<1>7. ASSUME NEW a \in Actions, Handle(a) PROVE work' \in [Actions -> Locals]
  BY <1>t, <1>7 DEF Handle
<1>8. ASSUME NEW a \in Actions, MapDataStep(a),
                UNCHANGED <<scenario, robot, touched, loads, mapId, query, steady>>
      PROVE  work' \in [Actions -> Locals]
  <2>1. CASE RejectUnknown(a)
    BY <1>t, <1>8, <2>1 DEF RejectUnknown, UpdateActionState
  <2>2. CASE RunSimple(a)
    BY <1>t, <1>8, <2>2 DEF RunSimple, Outcomes
  <2>3. CASE Finish(a)
    BY <1>t, <1>8, <2>3 DEF Finish, UpdateActionState
  <2>4. CASE CleanUp(a)
    BY <1>t, <1>8, <2>4 DEF CleanUp
  <2>5. CASE ChooseLabel(a)
    <3>1. PICK v \in Names : Keep(a, "label", v)
      BY <1>t, <1>8, <2>5 DEF ChooseLabel
    <3> QED BY <1>t, <3>1, KeepTypes
  <2>6. CASE ChooseSource(a)
    <3>1. Keep(a, "current", IsCurrent(a)) /\ IsCurrent(a) \in BOOLEAN
      BY <1>t, <1>8, <2>6 DEF ChooseSource, IsCurrent
    <3> QED BY <1>t, <3>1, KeepTypes
  <2>7. CASE FetchImage(a)
    <3>1. Keep(a, "content", robot.map) \/ work' = work
      BY <1>8, <2>7 DEF FetchImage
    <3> QED BY <1>t, <3>1, KeepTypes
  <2>8. CASE FetchMeta(a)
    <3>1. PICK v \in Maps \cup {None} : Keep(a, "meta", v)
      BY <1>t, <1>8, <2>8 DEF FetchMeta
    <3> QED BY <1>t, <3>1, KeepTypes
  <2>9. CASE FetchZIP(a)
    <3>1. CASE work' = work
      BY <1>t, <3>1
    <3>2. CASE work' # work
      <4>1. PICK meta \in {work[a].label, None} :
              /\ work' = [work EXCEPT ![a].content = work[a].label, ![a].meta = meta]
              /\ work[a].label \in Maps
        BY <3>2, <1>8, <2>9 DEF FetchZIP
      <4> DEFINE half == [work EXCEPT ![a].content = work[a].label]
      <4>2. half \in [Actions -> Locals]
        BY <1>t, <4>1 DEF Locals
      <4>3. work' = [half EXCEPT ![a].meta = meta]
        BY <1>t, <4>1, Zenon
      <4>4. meta \in Maps \cup {None}
        BY <4>1
      <4> HIDE DEF half
      <4>5. [half[a] EXCEPT !.meta = meta] \in Locals
        BY <4>2, <4>4 DEF Locals
      <4>6. work' = [half EXCEPT ![a] = [half[a] EXCEPT !.meta = meta]]
        BY <4>2, <4>3
      <4> QED BY <4>2, <4>5, <4>6
    <3> QED BY <3>1, <3>2
  <2>10. CASE UploadImage(a)
    BY <1>t, <1>8, <2>10 DEF UploadImage, Outcomes, UpdateActionState, Plan
  <2>11. CASE FetchPOI(a)
    <3>1. \/ \E v \in Maps \cup {None} : Keep(a, "content", v)
          \/ work' = work
      BY <1>t, <1>8, <2>11 DEF FetchPOI
    <3> QED BY <1>t, <3>1, KeepTypes
  <2>12. CASE PublishWaypoints(a)
    BY <1>t, <1>8, <2>12 DEF PublishWaypoints
  <2> QED BY <1>8, <2>1, <2>2, <2>3, <2>4, <2>5, <2>6, <2>7, <2>8, <2>9,
         <2>10, <2>11, <2>12 DEF MapDataStep
<1>9. ASSUME NEW a \in Actions, RobotActionStep(a),
                UNCHANGED <<scenario, touched, loads, paused, query, given>>
      PROVE  work' \in [Actions -> Locals]
  <2>1. CASE TakeMap(a)
    BY <1>t, <1>9, <2>1 DEF TakeMap, Track
  <2>2. CASE SendPose(a)
    <3>1. \/ work' = work
          \/ work[a].attempt # 3 /\ Keep(a, "attempt", work[a].attempt + 1)
      BY <1>9, <2>2 DEF SendPose
    <3>2. work[a].attempt # 3 => work[a].attempt + 1 \in 1 .. 3
      BY <1>t
    <3> QED BY <1>t, <3>1, <3>2, KeepTypes
  <2>3. CASE SelectMap(a)
    BY <1>t, <1>9, <2>3 DEF SelectMap, PostCommand, Outcomes, Effects
  <2>4. CASE StopRobotCore(a)
    BY <1>t, <1>9, <2>4 DEF StopRobotCore, PostCommand, Outcomes, Effects
  <2>5. CASE StartRobotCore(a)
    BY <1>t, <1>9, <2>5 DEF StartRobotCore, PostCommand, Outcomes, Effects
  <2>6. CASE SelectDelivery(a)
    BY <1>t, <1>9, <2>6 DEF SelectDelivery, Outcomes, Track
  <2> QED BY <1>9, <2>1, <2>2, <2>3, <2>4, <2>5, <2>6 DEF RobotActionStep
<1> QED
  BY <1>1, <1>2, <1>3, <1>4, <1>5, <1>6, <1>7, <1>8, <1>9
     DEF Next, QueryStep, ActionStep

LEMMA NextRobotTypes ==
  ASSUME TypeOK, ScenarioTypes, [Next]_vars
  PROVE  /\ robot' \in [map : Maps, selected : Maps, core : {"up", "down", "starting"}]
         /\ touched' \in BOOLEAN /\ mapId' \in Names /\ paused' \in BOOLEAN
<1> DEFINE Goal == /\ robot' \in [map : Maps, selected : Maps,
                                  core : {"up", "down", "starting"}]
                   /\ touched' \in BOOLEAN /\ mapId' \in Names /\ paused' \in BOOLEAN
<1> SUFFICES Goal
  OBVIOUS
<1>t. /\ robot \in [map : Maps, selected : Maps, core : {"up", "down", "starting"}]
      /\ touched \in BOOLEAN /\ mapId \in Names /\ paused \in BOOLEAN
      /\ \A q \in Queries : query[q].name \in Maps \cup {None}
      /\ \A a \in Actions : plan[a].map \in Names
  BY DEF TypeOK, ScenarioTypes, Requests
<1> USE <1>t DEF Names
<1>1. CASE UNCHANGED vars
  BY <1>1 DEF vars, scenario
<1>2. ASSUME RobotLoads PROVE Goal
  BY <1>2 DEF RobotLoads, Track
<1>3. ASSUME NEW m \in Maps, SwitchByHand(m) PROVE Goal
  BY <1>3 DEF SwitchByHand
<1>4. ASSUME NEW q \in Queries, MapLoaded(q) PROVE Goal
  BY <1>4 DEF MapLoaded
<1>5. ASSUME NEW q \in Queries, QueryAnswered(q) PROVE Goal
  BY <1>5 DEF QueryAnswered
<1>6. ASSUME NEW q \in Queries, QuerySetsMapID(q) PROVE Goal
  BY <1>6 DEF QuerySetsMapID, Track
<1>7. ASSUME NEW a \in Actions, Handle(a) PROVE Goal
  BY <1>7 DEF Handle
<1>8. ASSUME NEW a \in Actions, MapDataStep(a),
                UNCHANGED <<scenario, robot, touched, loads, mapId, query, steady>>
      PROVE  Goal
  BY <1>8 DEF MapDataStep, RejectUnknown, RunSimple, Finish, CleanUp, ChooseLabel,
     ChooseSource, FetchImage, FetchMeta, FetchZIP, UploadImage, FetchPOI,
     PublishWaypoints
<1>9. ASSUME NEW a \in Actions, RobotActionStep(a),
                UNCHANGED <<scenario, touched, loads, paused, query, given>>
      PROVE  Goal
  <2>1. CASE TakeMap(a)
    BY <1>9, <2>1 DEF TakeMap, Track
  <2>2. CASE SendPose(a)
    BY <1>9, <2>2 DEF SendPose, Keep, Outcomes
  <2>3. CASE SelectMap(a)
    BY <1>9, <2>3 DEF SelectMap, PostCommand, Outcomes, Effects
  <2>4. CASE StopRobotCore(a)
    BY <1>9, <2>4 DEF StopRobotCore, PostCommand, Outcomes, Effects
  <2>5. CASE StartRobotCore(a)
    BY <1>9, <2>5 DEF StartRobotCore, PostCommand, Outcomes, Effects
  <2>6. CASE SelectDelivery(a)
    BY <1>9, <2>6 DEF SelectDelivery, Outcomes, Track
  <2> QED BY <1>9, <2>1, <2>2, <2>3, <2>4, <2>5, <2>6 DEF RobotActionStep
<1> QED
  BY <1>1, <1>2, <1>3, <1>4, <1>5, <1>6, <1>7, <1>8, <1>9
     DEF Next, QueryStep, ActionStep

LEMMA NextQueryTypes ==
  ASSUME TypeOK, [Next]_vars
  PROVE  /\ query' \in [Queries -> [pc : {"idle", "asked", "answered", "done"},
                                    name : Maps \cup {None}]]
         /\ steady' \in [Actions -> BOOLEAN]
<1> DEFINE Goal == /\ query' \in [Queries -> [pc : {"idle", "asked", "answered", "done"},
                                              name : Maps \cup {None}]]
                   /\ steady' \in [Actions -> BOOLEAN]
<1> SUFFICES Goal
  OBVIOUS
<1>t. /\ query \in [Queries -> [pc : {"idle", "asked", "answered", "done"},
                                name : Maps \cup {None}]]
      /\ steady \in [Actions -> BOOLEAN] /\ robot.map \in Maps
  BY DEF TypeOK
<1> USE <1>t
<1>1. CASE UNCHANGED vars
  BY <1>1 DEF vars, scenario
<1>2. ASSUME RobotLoads PROVE Goal
  BY <1>2 DEF RobotLoads, Track
<1>3. ASSUME NEW m \in Maps, SwitchByHand(m) PROVE Goal
  BY <1>3 DEF SwitchByHand
<1>4. ASSUME NEW q \in Queries, MapLoaded(q) PROVE Goal
  BY <1>4 DEF MapLoaded
<1>5. ASSUME NEW q \in Queries, QueryAnswered(q) PROVE Goal
  BY <1>5 DEF QueryAnswered
<1>6. ASSUME NEW q \in Queries, QuerySetsMapID(q) PROVE Goal
  BY <1>6 DEF QuerySetsMapID, Track
<1>7. ASSUME NEW a \in Actions, Handle(a) PROVE Goal
  BY <1>7 DEF Handle
<1>8. ASSUME NEW a \in Actions, MapDataStep(a),
                UNCHANGED <<scenario, robot, touched, loads, mapId, query, steady>>
      PROVE  Goal
  BY <1>8
<1>9. ASSUME NEW a \in Actions, RobotActionStep(a),
                UNCHANGED <<scenario, touched, loads, paused, query, given>>
      PROVE  Goal
  <2>1. CASE TakeMap(a)
    BY <1>9, <2>1 DEF TakeMap, Track
  <2>2. CASE SendPose(a)
    BY <1>9, <2>2 DEF SendPose, Keep, Outcomes
  <2>3. CASE SelectMap(a)
    BY <1>9, <2>3 DEF SelectMap, PostCommand, Outcomes, Effects
  <2>4. CASE StopRobotCore(a)
    BY <1>9, <2>4 DEF StopRobotCore, PostCommand, Outcomes, Effects
  <2>5. CASE StartRobotCore(a)
    BY <1>9, <2>5 DEF StartRobotCore, PostCommand, Outcomes, Effects
  <2>6. CASE SelectDelivery(a)
    BY <1>9, <2>6 DEF SelectDelivery, Outcomes, Track
  <2> QED BY <1>9, <2>1, <2>2, <2>3, <2>4, <2>5, <2>6 DEF RobotActionStep
<1> QED
  BY <1>1, <1>2, <1>3, <1>4, <1>5, <1>6, <1>7, <1>8, <1>9
     DEF Next, QueryStep, ActionStep

(* No step takes an action back before the start of the robot's core. *)
LEMMA RestartedGrows ==
  ASSUME TypeOK, [Next]_vars
  PROVE  Restarted \subseteq Restarted'
<1> DEFINE Before == {"unsent", "start", "stop", "start core"}
<1> SUFFICES ASSUME NEW b \in Actions, pc[b] \notin Before
             PROVE  pc'[b] \notin Before
  BY DEF Restarted
<1>t. pc \in [Actions -> Labels]
  BY DEF TypeOK, Labels
<1> USE <1>t DEF Goto
<1>1. CASE UNCHANGED vars
  BY <1>1 DEF vars, scenario
<1>2. ASSUME RobotLoads PROVE pc'[b] \notin Before
  BY <1>2 DEF RobotLoads, Track
<1>3. ASSUME NEW m \in Maps, SwitchByHand(m) PROVE pc'[b] \notin Before
  BY <1>3 DEF SwitchByHand
<1>4. ASSUME NEW q \in Queries, MapLoaded(q) PROVE pc'[b] \notin Before
  BY <1>4 DEF MapLoaded
<1>5. ASSUME NEW q \in Queries, QueryAnswered(q) PROVE pc'[b] \notin Before
  BY <1>5 DEF QueryAnswered
<1>6. ASSUME NEW q \in Queries, QuerySetsMapID(q) PROVE pc'[b] \notin Before
  BY <1>6 DEF QuerySetsMapID, Track
<1>7. ASSUME NEW a \in Actions, Handle(a) PROVE pc'[b] \notin Before
  BY <1>7 DEF Handle
<1>8. ASSUME NEW a \in Actions, MapDataStep(a),
                UNCHANGED <<scenario, robot, touched, loads, mapId, query, steady>>
      PROVE  pc'[b] \notin Before
  <2>1. CASE RejectUnknown(a)
    BY <1>8, <2>1 DEF RejectUnknown, UpdateActionState
  <2>2. CASE RunSimple(a)
    BY <1>8, <2>2 DEF RunSimple, Outcomes
  <2>3. CASE Finish(a)
    BY <1>8, <2>3 DEF Finish, UpdateActionState
  <2>4. CASE CleanUp(a)
    BY <1>8, <2>4 DEF CleanUp
  <2>5. CASE ChooseLabel(a)
    BY <1>8, <2>5 DEF ChooseLabel, Keep
  <2>6. CASE ChooseSource(a)
    BY <1>8, <2>6 DEF ChooseSource, Keep, IsCurrent
  <2>7. CASE FetchImage(a)
    BY <1>8, <2>7 DEF FetchImage, Keep, CoreOutcomes
  <2>8. CASE FetchMeta(a)
    BY <1>8, <2>8 DEF FetchMeta, Keep, CoreOutcomes
  <2>9. CASE FetchZIP(a)
    BY <1>8, <2>9 DEF FetchZIP, Outcomes, UpdateActionState
  <2>10. CASE UploadImage(a)
    BY <1>8, <2>10 DEF UploadImage, Outcomes, UpdateActionState, Plan
  <2>11. CASE FetchPOI(a)
    BY <1>8, <2>11 DEF FetchPOI, Keep, CoreOutcomes
  <2>12. CASE PublishWaypoints(a)
    BY <1>8, <2>12 DEF PublishWaypoints
  <2> QED BY <1>8, <2>1, <2>2, <2>3, <2>4, <2>5, <2>6, <2>7, <2>8, <2>9,
         <2>10, <2>11, <2>12 DEF MapDataStep
<1>9. ASSUME NEW a \in Actions, RobotActionStep(a),
                UNCHANGED <<scenario, touched, loads, paused, query, given>>
      PROVE  pc'[b] \notin Before
  <2>1. CASE TakeMap(a)
    BY <1>9, <2>1 DEF TakeMap, Track
  <2>2. CASE SendPose(a)
    BY <1>9, <2>2 DEF SendPose, Keep, Outcomes
  <2>3. CASE SelectMap(a)
    BY <1>9, <2>3 DEF SelectMap, PostCommand, Outcomes, Effects
  <2>4. CASE StopRobotCore(a)
    BY <1>9, <2>4 DEF StopRobotCore, PostCommand, Outcomes, Effects
  <2>5. CASE StartRobotCore(a)
    BY <1>9, <2>5 DEF StartRobotCore, PostCommand, Outcomes, Effects
  <2>6. CASE SelectDelivery(a)
    BY <1>9, <2>6 DEF SelectDelivery, Outcomes, Track
  <2> QED BY <1>9, <2>1, <2>2, <2>3, <2>4, <2>5, <2>6 DEF RobotActionStep
<1> QED
  BY <1>1, <1>2, <1>3, <1>4, <1>5, <1>6, <1>7, <1>8, <1>9
     DEF Next, QueryStep, ActionStep

LEMMA RestartedCount ==
  ASSUME TypeOK, [Next]_vars
  PROVE  /\ Cardinality(Restarted) \in Nat /\ Cardinality(Restarted') \in Nat
         /\ Cardinality(Restarted) <= Cardinality(Restarted')
         /\ Cardinality(Restarted') <= Cardinality(Actions)
         /\ \A a \in Restarted' \ Restarted :
              Cardinality(Restarted) + 1 <= Cardinality(Restarted')
<1>1. Restarted \subseteq Restarted' /\ Restarted' \subseteq Actions
  BY RestartedGrows DEF Restarted
<1>2. IsFiniteSet(Restarted') /\ IsFiniteSet(Restarted)
  BY <1>1, FS_Subset
<1>3. /\ Cardinality(Restarted) \in Nat /\ Cardinality(Restarted') \in Nat
      /\ Cardinality(Restarted) <= Cardinality(Restarted')
      /\ Cardinality(Restarted') <= Cardinality(Actions)
  BY <1>1, <1>2, FS_Subset, FS_CardinalityType
<1>4. ASSUME NEW a \in Restarted' \ Restarted
      PROVE  Cardinality(Restarted) + 1 <= Cardinality(Restarted')
  <2>1. Restarted \cup {a} \subseteq Restarted'
    BY <1>1
  <2>2. Cardinality(Restarted \cup {a}) = Cardinality(Restarted) + 1
    BY <1>2, FS_AddElement
  <2> QED BY <1>2, <2>1, <2>2, FS_Subset
<1> QED BY <1>3, <1>4

LEMMA NextLoads ==
  ASSUME TypeOK, LoadsBound, [Next]_vars
  PROVE  /\ loads' \in 0 .. Cardinality(Actions) + 1
         /\ LoadsBound'
<1> DEFINE before == Cardinality(Restarted)
           after == Cardinality(Restarted')
           by == IF touched THEN 1 ELSE 0
           Goal == loads' \in Nat /\ loads' + Starting' <= after + IF touched' THEN 1 ELSE 0
<1>c. Cardinality(Actions) \in Nat
  BY FS_CardinalityType
<1>t. /\ loads \in Nat /\ touched \in BOOLEAN
      /\ pc \in [Actions -> Labels]
      /\ robot \in [map : Maps, selected : Maps, core : {"up", "down", "starting"}]
  <2>1. loads \in 0 .. Cardinality(Actions) + 1
    BY DEF TypeOK
  <2>2. loads \in Nat
    BY <1>c, <2>1
  <2> QED BY <2>2 DEF TypeOK, Labels
<1>n. /\ before \in Nat /\ after \in Nat /\ before <= after /\ after <= Cardinality(Actions)
      /\ \A a \in Restarted' \ Restarted : before + 1 <= after
  BY RestartedCount
<1>b. loads + Starting <= before + by
  BY DEF LoadsBound
<1> HIDE DEF before, after
<1> USE <1>c, <1>t, <1>n, <1>b DEF Starting
<1>g. Goal
  <2>1. CASE UNCHANGED vars
    BY <2>1 DEF vars, scenario
  <2>2. ASSUME RobotLoads PROVE Goal
    BY <2>2 DEF RobotLoads, Track
  <2>3. ASSUME NEW m \in Maps, SwitchByHand(m) PROVE Goal
    BY <2>3 DEF SwitchByHand
  <2>4. ASSUME NEW q \in Queries, MapLoaded(q) PROVE Goal
    BY <2>4 DEF MapLoaded
  <2>5. ASSUME NEW q \in Queries, QueryAnswered(q) PROVE Goal
    BY <2>5 DEF QueryAnswered
  <2>6. ASSUME NEW q \in Queries, QuerySetsMapID(q) PROVE Goal
    BY <2>6 DEF QuerySetsMapID, Track
  <2>7. ASSUME NEW a \in Actions, Handle(a) PROVE Goal
    BY <2>7 DEF Handle
  <2>8. ASSUME NEW a \in Actions, MapDataStep(a),
                  UNCHANGED <<scenario, robot, touched, loads, mapId, query, steady>>
        PROVE  Goal
    BY <2>8
  <2>9. ASSUME NEW a \in Actions, RobotActionStep(a),
                  UNCHANGED <<scenario, touched, loads, paused, query, given>>
        PROVE  Goal
    <3>1. CASE TakeMap(a)
      BY <2>9, <3>1 DEF TakeMap, Track
    <3>2. CASE SendPose(a)
      BY <2>9, <3>2 DEF SendPose, Keep, Outcomes
    <3>3. CASE SelectMap(a)
      <4>1. robot'.core = robot.core
        BY <2>9, <3>3 DEF SelectMap, PostCommand
      <4> QED BY <4>1, <2>9
    <3>4. CASE StopRobotCore(a)
      <4>1. robot'.core \in {robot.core, "down"}
        BY <2>9, <3>4 DEF StopRobotCore, PostCommand
      <4> QED BY <4>1, <2>9
    <3>5. CASE StartRobotCore(a)
      <4>1. a \in Restarted' \ Restarted
        BY <2>9, <3>5 DEF StartRobotCore, PostCommand, Goto, Restarted
      <4>2. robot'.core \in {robot.core, "starting"}
        BY <2>9, <3>5 DEF StartRobotCore, PostCommand
      <4>3. Starting' <= 1 /\ before + 1 <= after
        BY <4>1
      <4>4. CASE robot.core = "starting"
        BY <4>2, <4>3, <4>4, <2>9
      <4>5. CASE robot.core # "starting"
        BY <4>2, <4>3, <4>5, <2>9
      <4> QED BY <4>4, <4>5
    <3>6. CASE SelectDelivery(a)
      BY <2>9, <3>6 DEF SelectDelivery, Outcomes, Track
    <3> QED BY <2>9, <3>1, <3>2, <3>3, <3>4, <3>5, <3>6 DEF RobotActionStep
  <2> QED
    BY <2>1, <2>2, <2>3, <2>4, <2>5, <2>6, <2>7, <2>8, <2>9
       DEF Next, QueryStep, ActionStep
<1> QED
  <2>1. PICK k \in Nat : k = loads'
    BY <1>g
  <2>3. k <= Cardinality(Actions) + 1
    <3>1. PICK st \in {0, 1} : st = Starting'
      BY DEF Starting
    <3>2. PICK hand \in {0, 1} : hand = IF touched' THEN 1 ELSE 0
      OBVIOUS
    <3>3. k + st <= after + hand
      BY <1>g, <2>1, <3>1, <3>2
    <3> QED BY <1>c, <1>n, <3>3
  <2>2. loads' \in 0 .. Cardinality(Actions) + 1
    BY <1>g, <1>c, <2>1, <2>3
  <2> QED BY <1>g, <2>2 DEF LoadsBound, before, after

LEMMA MapTypesAlways == Spec => []MapTypes
<1>1. Init => MapTypes
  <2> SUFFICES ASSUME Init PROVE MapTypes
    OBVIOUS
  <2>1. TypeOK
    <3>1. PICK s \in Scenarios : world = s.world /\ plan = s.plan /\ image = s.image
      BY DEF Init
    <3>2. Cardinality(Actions) \in Nat
      BY FS_CardinalityType
    <3>3. query \in [Queries -> [pc : {"idle", "asked", "answered", "done"},
                                 name : Maps \cup {None}]]
      BY DEF Init
    <3>4. work \in [Actions -> [label : Names, current : BOOLEAN,
                                content : Maps \cup {None},
                                meta : Maps \cup {None}, attempt : 1 .. 3]]
      BY DEF Init, NoWork, Names
    <3>5. robot \in [map : Maps, selected : Maps, core : {"up", "down", "starting"}]
      BY DEF Init
    <3>6. loads \in 0 .. Cardinality(Actions) + 1
      BY <3>2 DEF Init
    <3>7. /\ touched \in BOOLEAN /\ paused \in BOOLEAN /\ mapId \in Names
          /\ steady \in [Actions -> BOOLEAN]
      BY DEF Init, Names
    <3>8. /\ rows \in [Actions -> Statuses] /\ pc \in [Actions -> Labels]
      BY DEF Init, Statuses, Labels
    <3> QED
      BY <3>3, <3>4, <3>5, <3>6, <3>7, <3>8, Zenon DEF TypeOK, Statuses, Labels
  <2>2. ScenarioTypes
    BY DEF Init, ScenarioTypes
  <2>3. LoadsBound
    <3>1. Restarted = {}
      BY DEF Init, Restarted
    <3> QED BY <3>1, FS_EmptySet DEF Init, LoadsBound, Starting
  <2> QED BY <2>1, <2>2, <2>3 DEF MapTypes
<1>2. MapTypes /\ [Next]_vars => MapTypes'
  <2> SUFFICES ASSUME MapTypes, [Next]_vars PROVE MapTypes'
    OBVIOUS
  <2>1. TypeOK'
    BY NextRows, NextWork, NextRobotTypes, NextQueryTypes, NextLoads
       DEF MapTypes, TypeOK, Statuses, Labels, Locals
  <2> QED BY <2>1, NextScenario, NextLoads DEF MapTypes
<1> QED BY <1>1, <1>2, PTL DEF Spec

(* Every variable keeps its type; there are never more map_loaded reports   *)
(* under way than starts of the robot's core, one by hand and one for each  *)
(* switchMap (httpapi.go:221-240, instant_actions.go:325-379).              *)
THEOREM MapActionTypes == Spec => []TypeOK
<1>1. MapTypes => TypeOK
  BY DEF MapTypes
<1> QED BY <1>1, MapTypesAlways, PTL

-----------------------------------------------------------------------------
(* Map data.                                                               *)

(* The action may rely on MapID: it was the map of the robot all the time,  *)
(* and the handler compares the name it is given with it.                  *)
Told(a) == plan[a].type = "uploadMap" \/ plan[a].byName
OfLabel(a, map) == map \in {work[a].label, None}

(* An action that took its map for the one the robot has loaded was right,  *)
(* and is still when the robot's core answers it; what it has fetched so    *)
(* far is of the map it was named.                                         *)
DataInv(a) ==
  /\ pc[a] = "unsent" => ~Given(a)
  /\ pc[a] # "unsent" /\ steady[a] => mapId = robot.map
  /\ steady[a] /\ Told(a) =>
       /\ pc[a] = "fetch" /\ work[a].current => work[a].label = robot.map
       /\ pc[a] = "meta" => work[a].label = robot.map
       /\ pc[a] \in {"meta", "upload", "announce"} => OfLabel(a, work[a].content)
       /\ pc[a] = "upload" => OfLabel(a, work[a].meta)
       /\ Given(a) => given[a].of \in {given[a].label, None}
                      /\ given[a].meta \in {given[a].label, None}

(* What steady[a] remembers of a step. *)
LEMMA SteadyStep ==
  ASSUME TypeOK, [Next]_vars, NEW b \in Actions, steady'[b]
  PROVE  \/ Handle(b)
         \/ /\ steady[b] /\ robot'.map = robot.map
            /\ mapId' = mapId \/ mapId' = robot'.map
<1> DEFINE Goal == \/ Handle(b)
                   \/ /\ steady[b] /\ robot'.map = robot.map
                      /\ mapId' = mapId \/ mapId' = robot'.map
<1> SUFFICES Goal
  OBVIOUS
<1>t. /\ steady \in [Actions -> BOOLEAN]
      /\ robot \in [map : Maps, selected : Maps, core : {"up", "down", "starting"}]
  BY DEF TypeOK
<1> USE <1>t
<1>1. CASE UNCHANGED vars
  BY <1>1 DEF vars, scenario
<1>2. ASSUME RobotLoads PROVE Goal
  BY <1>2 DEF RobotLoads, Track
<1>3. ASSUME NEW m \in Maps, SwitchByHand(m) PROVE Goal
  BY <1>3 DEF SwitchByHand
<1>4. ASSUME NEW q \in Queries, MapLoaded(q) PROVE Goal
  BY <1>4 DEF MapLoaded
<1>5. ASSUME NEW q \in Queries, QueryAnswered(q) PROVE Goal
  BY <1>5 DEF QueryAnswered
<1>6. ASSUME NEW q \in Queries, QuerySetsMapID(q) PROVE Goal
  BY <1>6 DEF QuerySetsMapID, Track
<1>7. ASSUME NEW a \in Actions, Handle(a) PROVE Goal
  BY <1>7 DEF Handle
<1>8. ASSUME NEW a \in Actions, MapDataStep(a),
                UNCHANGED <<scenario, robot, touched, loads, mapId, query, steady>>
      PROVE  Goal
  BY <1>8
<1>9. ASSUME NEW a \in Actions, RobotActionStep(a),
                UNCHANGED <<scenario, touched, loads, paused, query, given>>
      PROVE  Goal
  <2>1. CASE TakeMap(a)
    BY <1>9, <2>1 DEF TakeMap, Track
  <2>2. CASE SendPose(a)
    BY <1>9, <2>2 DEF SendPose, Keep, Outcomes
  <2>3. CASE SelectMap(a)
    BY <1>9, <2>3 DEF SelectMap, PostCommand, Outcomes, Effects
  <2>4. CASE StopRobotCore(a)
    BY <1>9, <2>4 DEF StopRobotCore, PostCommand, Outcomes, Effects
  <2>5. CASE StartRobotCore(a)
    BY <1>9, <2>5 DEF StartRobotCore, PostCommand, Outcomes, Effects
  <2>6. CASE SelectDelivery(a)
    BY <1>9, <2>6 DEF SelectDelivery, Outcomes, Track
  <2> QED BY <1>9, <2>1, <2>2, <2>3, <2>4, <2>5, <2>6 DEF RobotActionStep
<1> QED
  BY <1>1, <1>2, <1>3, <1>4, <1>5, <1>6, <1>7, <1>8, <1>9
     DEF Next, QueryStep, ActionStep

(* What a step of an action leaves of the others. *)
LEMMA OthersKept ==
  ASSUME TypeOK, ScenarioTypes, NEW a \in Actions, NEW b \in Actions \ {a},
         ActionStep(a)
  PROVE  pc'[b] = pc[b] /\ work'[b] = work[b] /\ given'[b] = given[b]
<1> DEFINE Goal == pc'[b] = pc[b] /\ work'[b] = work[b] /\ given'[b] = given[b]
<1>t. /\ pc \in [Actions -> Labels] /\ DOMAIN work = Actions /\ DOMAIN given = Actions
  BY DEF TypeOK, Labels, ScenarioTypes
<1> USE <1>t DEF Goto, Keep
<1>1. ASSUME MapDataStep(a),
                UNCHANGED <<scenario, robot, touched, loads, mapId, query, steady>>
      PROVE  Goal
  <2>1. CASE RejectUnknown(a)
    BY <1>1, <2>1 DEF RejectUnknown, UpdateActionState
  <2>2. CASE RunSimple(a)
    BY <1>1, <2>2 DEF RunSimple, Outcomes
  <2>3. CASE Finish(a)
    BY <1>1, <2>3 DEF Finish, UpdateActionState
  <2>4. CASE CleanUp(a)
    BY <1>1, <2>4 DEF CleanUp
  <2>5. CASE ChooseLabel(a)
    BY <1>1, <2>5 DEF ChooseLabel, Keep
  <2>6. CASE ChooseSource(a)
    BY <1>1, <2>6 DEF ChooseSource, Keep, IsCurrent
  <2>7. CASE FetchImage(a)
    BY <1>1, <2>7 DEF FetchImage, Keep, CoreOutcomes
  <2>8. CASE FetchMeta(a)
    BY <1>1, <2>8 DEF FetchMeta, Keep, CoreOutcomes
  <2>9. CASE FetchZIP(a)
    BY <1>1, <2>9 DEF FetchZIP, Outcomes, UpdateActionState
  <2>10. CASE UploadImage(a)
    BY <1>1, <2>10 DEF UploadImage, Outcomes, UpdateActionState, Plan
  <2>11. CASE FetchPOI(a)
    BY <1>1, <2>11 DEF FetchPOI, Keep, CoreOutcomes
  <2>12. CASE PublishWaypoints(a)
    BY <1>1, <2>12 DEF PublishWaypoints
  <2> QED BY <1>1, <2>1, <2>2, <2>3, <2>4, <2>5, <2>6, <2>7, <2>8, <2>9,
         <2>10, <2>11, <2>12 DEF MapDataStep
<1>2. ASSUME RobotActionStep(a),
                UNCHANGED <<scenario, touched, loads, paused, query, given>>
      PROVE  Goal
  <2>1. CASE TakeMap(a)
    BY <1>2, <2>1 DEF TakeMap, Track
  <2>2. CASE SendPose(a)
    BY <1>2, <2>2 DEF SendPose, Keep, Outcomes
  <2>3. CASE SelectMap(a)
    BY <1>2, <2>3 DEF SelectMap, PostCommand, Outcomes, Effects
  <2>4. CASE StopRobotCore(a)
    BY <1>2, <2>4 DEF StopRobotCore, PostCommand, Outcomes, Effects
  <2>5. CASE StartRobotCore(a)
    BY <1>2, <2>5 DEF StartRobotCore, PostCommand, Outcomes, Effects
  <2>6. CASE SelectDelivery(a)
    BY <1>2, <2>6 DEF SelectDelivery, Outcomes, Track
  <2> QED BY <1>2, <2>1, <2>2, <2>3, <2>4, <2>5, <2>6 DEF RobotActionStep
<1> QED BY <1>1, <1>2 DEF ActionStep

(* A step that leaves an action where it is keeps what is known of it. *)
LEMMA DataKept ==
  ASSUME TypeOK, [Next]_vars, NEW b \in Actions, DataInv(b), ~Handle(b),
         pc'[b] = pc[b], work'[b] = work[b], given'[b] = given[b], plan' = plan
  PROVE  DataInv(b)'
<1>1. CASE ~steady'[b]
  BY <1>1 DEF DataInv, Given
<1>2. CASE steady'[b]
  <2>1. /\ steady[b] /\ robot'.map = robot.map
        /\ mapId' = mapId \/ mapId' = robot'.map
    BY <1>2, SteadyStep
  <2> QED BY <2>1 DEF DataInv, Given, Told, OfLabel
<1> QED BY <1>1, <1>2

(* The steps of an action of its own. *)
LEMMA DataOwnStep ==
  ASSUME TypeOK, ScenarioTypes, [Next]_vars, NEW a \in Actions, DataInv(a),
         ActionStep(a)
  PROVE  DataInv(a)'
<1>t. /\ pc \in [Actions -> Labels] /\ DOMAIN given = Actions
      /\ work \in [Actions -> Locals] /\ plan' = plan
      /\ pc[a] # "unsent" /\ ~Handle(a)
  <2>1. pc[a] # "unsent"
    BY DEF ActionStep, MapDataStep, RobotActionStep, RejectUnknown, RunSimple, Finish,
           CleanUp, ChooseLabel, ChooseSource, FetchImage, FetchMeta, FetchZIP,
           UploadImage, FetchPOI, PublishWaypoints, TakeMap, SendPose, SelectMap,
           StopRobotCore, StartRobotCore, SelectDelivery
  <2> QED BY <2>1 DEF TypeOK, ScenarioTypes, Labels, Locals, Handle, ActionStep, scenario
<1>s. steady'[a] => /\ steady[a] /\ robot'.map = robot.map
                    /\ mapId' = mapId \/ mapId' = robot'.map
  BY <1>t, SteadyStep
<1> DEFINE MapID == pc'[a] # "unsent" /\ (steady'[a] => mapId' = robot'.map)
           Data == /\ pc'[a] = "fetch" /\ work'[a].current => work'[a].label = robot'.map
                   /\ pc'[a] = "meta" => work'[a].label = robot'.map
                   /\ pc'[a] \in {"meta", "upload", "announce"} =>
                        work'[a].content \in {work'[a].label, None}
                   /\ pc'[a] = "upload" => work'[a].meta \in {work'[a].label, None}
                   /\ given'[a] # Nothing =>
                        /\ given'[a].of \in {given'[a].label, None}
                        /\ given'[a].meta \in {given'[a].label, None}
<1>1. MapID
  <2>1. pc'[a] # "unsent"
    <3> USE <1>t DEF Goto
    <3> QED BY DEF ActionStep, MapDataStep, RobotActionStep, RejectUnknown, RunSimple,
           Finish, CleanUp, ChooseLabel, ChooseSource, FetchImage, FetchMeta, FetchZIP,
           UploadImage, FetchPOI, PublishWaypoints, TakeMap, SendPose, SelectMap,
           StopRobotCore, StartRobotCore, SelectDelivery, PostCommand
  <2> QED BY <1>s, <1>t, <2>1 DEF DataInv
<1>2. SUFFICES ASSUME steady'[a], Told(a)
               PROVE  Data
  BY <1>1, <1>t DEF DataInv, Told, OfLabel, Given
<1>d. /\ mapId = robot.map /\ robot'.map = robot.map
      /\ pc[a] = "fetch" /\ work[a].current => work[a].label = robot.map
      /\ pc[a] = "meta" => work[a].label = robot.map
      /\ pc[a] \in {"meta", "upload", "announce"} =>
           work[a].content \in {work[a].label, None}
      /\ pc[a] = "upload" => work[a].meta \in {work[a].label, None}
      /\ given[a] # Nothing => /\ given[a].of \in {given[a].label, None}
                               /\ given[a].meta \in {given[a].label, None}
  BY <1>s, <1>t, <1>2 DEF DataInv, OfLabel, Given
<1> USE <1>t, <1>d DEF Goto, Keep, Locals
<1>3. ASSUME MapDataStep(a),
                UNCHANGED <<scenario, robot, touched, loads, mapId, query, steady>>
      PROVE  Data
  <2>1. CASE RejectUnknown(a)
    BY <1>3, <2>1 DEF RejectUnknown, UpdateActionState
  <2>2. CASE RunSimple(a)
    BY <1>3, <2>2 DEF RunSimple, Outcomes
  <2>3. CASE Finish(a)
    BY <1>3, <2>3 DEF Finish, UpdateActionState
  <2>4. CASE CleanUp(a)
    BY <1>3, <2>4 DEF CleanUp
  <2>5. CASE ChooseLabel(a)
    BY <1>3, <2>5 DEF ChooseLabel, Keep
  <2>6. CASE ChooseSource(a)
    <3>1. IsCurrent(a) => work[a].label = mapId
      BY <1>2 DEF IsCurrent, Told
    <3> QED BY <3>1, <1>3, <2>6 DEF ChooseSource
  <2>7. CASE FetchImage(a)
    BY <1>3, <2>7 DEF FetchImage, Keep, CoreOutcomes
  <2>8. CASE FetchMeta(a)
    BY <1>3, <2>8 DEF FetchMeta, Keep, CoreOutcomes
  <2>9. CASE FetchZIP(a)
    <3>1. \/ pc'[a] = "failed" /\ given' = given
          \/ /\ pc'[a] \in {"upload", "announce"} /\ given' = given
             /\ \E meta \in {work[a].label, None} :
                  work' = [work EXCEPT ![a].content = work[a].label, ![a].meta = meta]
      BY <1>3, <2>9 DEF FetchZIP
    <3> QED BY <3>1
  <2>10. CASE UploadImage(a)
    <3>1. \/ pc'[a] = "failed" /\ given' = given
          \/ /\ pc'[a] = "succeeded"
             /\ given' = [given EXCEPT ![a] =
                            [label |-> work[a].label, of |-> work[a].content,
                             meta |-> work[a].meta, plan |-> Plan]]
      BY <1>3, <2>10, Zenon DEF UploadImage, Goto
    <3>2. pc'[a] = "succeeded" =>
            /\ given'[a].label = work[a].label
            /\ given'[a].of = work[a].content /\ given'[a].meta = work[a].meta
      BY <3>1
    <3>3. pc[a] = "upload" /\ work' = work
      BY <1>3, <2>10 DEF UploadImage
    <3>4. CASE pc'[a] = "failed" /\ given' = given
      BY <3>3, <3>4
    <3>5. CASE pc'[a] = "succeeded"
      BY <3>2, <3>3, <3>5
    <3> QED BY <3>1, <3>4, <3>5
  <2>11. CASE FetchPOI(a)
    <3>1. /\ given' = given
          /\ \/ pc'[a] = "failed"
             \/ /\ pc'[a] = "announce"
                /\ \E map \in {robot.map, None} : Keep(a, "content", map)
      BY <1>3, <2>11, Zenon DEF FetchPOI, Goto
    <3> QED BY <3>1, <1>3, <2>11 DEF FetchPOI
  <2>12. CASE PublishWaypoints(a)
    <3>1. given'[a] = [Nothing EXCEPT !.label = work[a].label, !.of = work[a].content]
      BY <1>3, <2>12 DEF PublishWaypoints
    <3> QED BY <3>1, <1>3, <2>12 DEF PublishWaypoints, Nothing
  <2> QED BY <1>3, <2>1, <2>2, <2>3, <2>4, <2>5, <2>6, <2>7, <2>8, <2>9,
         <2>10, <2>11, <2>12 DEF MapDataStep
<1>4. ASSUME RobotActionStep(a),
                UNCHANGED <<scenario, touched, loads, paused, query, given>>
      PROVE  Data
  <2>1. CASE TakeMap(a)
    BY <1>4, <2>1 DEF TakeMap, Track
  <2>2. CASE SendPose(a)
    BY <1>4, <2>2 DEF SendPose, Keep, Outcomes
  <2>3. CASE SelectMap(a)
    BY <1>4, <2>3 DEF SelectMap, PostCommand, Outcomes, Effects
  <2>4. CASE StopRobotCore(a)
    BY <1>4, <2>4 DEF StopRobotCore, PostCommand, Outcomes, Effects
  <2>5. CASE StartRobotCore(a)
    BY <1>4, <2>5 DEF StartRobotCore, PostCommand, Outcomes, Effects
  <2>6. CASE SelectDelivery(a)
    BY <1>4, <2>6 DEF SelectDelivery, Outcomes, Track
  <2> QED BY <1>4, <2>1, <2>2, <2>3, <2>4, <2>5, <2>6 DEF RobotActionStep
<1> QED BY <1>3, <1>4 DEF ActionStep

(* Steps of the robot, the reports and the arrival of an action. *)
LEMMA NextDataInv ==
  ASSUME MapTypes, [Next]_vars, NEW b \in Actions, DataInv(b)
  PROVE  DataInv(b)'
<1>t. /\ TypeOK /\ ScenarioTypes /\ plan' = plan
      /\ pc \in [Actions -> Labels] /\ steady \in [Actions -> BOOLEAN]
  <2>1. TypeOK /\ ScenarioTypes
    BY DEF MapTypes
  <2>2. plan' = plan
    BY DEF Next, vars, scenario, RobotLoads, SwitchByHand, MapLoaded, QueryStep,
           QueryAnswered, QuerySetsMapID, Handle, ActionStep
  <2> QED BY <2>1, <2>2 DEF TypeOK, Labels
<1>1. CASE Handle(b)
  <2>1. /\ pc'[b] = "start" /\ given' = given /\ robot' = robot /\ mapId' = mapId
        /\ steady'[b] = (mapId = robot.map) /\ pc[b] = "unsent"
    BY <1>1, <1>t DEF Handle, Goto
  <2>2. ~Given(b)
    BY <2>1 DEF DataInv
  <2> QED BY <2>1, <2>2 DEF DataInv, Given
<1>2. ASSUME ~Handle(b), pc'[b] = pc[b], work'[b] = work[b], given'[b] = given[b]
      PROVE  DataInv(b)'
  BY <1>2, <1>t, DataKept
<1>3. CASE UNCHANGED vars
  <2>1. CASE Handle(b)
    BY <1>1, <2>1
  <2>2. CASE ~Handle(b)
    BY <1>2, <1>3, <2>2 DEF vars
  <2> QED BY <2>1, <2>2
<1>4. ASSUME ~Handle(b), UNCHANGED <<pc, work, given>> PROVE DataInv(b)'
  BY <1>2, <1>4
<1>5. CASE RobotLoads \/ \E m \in Maps : SwitchByHand(m)
  BY <1>1, <1>4, <1>5 DEF RobotLoads, SwitchByHand
<1>6. CASE \E q \in Queries : MapLoaded(q) \/ QueryStep(q)
  BY <1>1, <1>4, <1>6 DEF MapLoaded, QueryStep, QueryAnswered, QuerySetsMapID
<1>7. ASSUME NEW a \in Actions, Handle(a) PROVE DataInv(b)'
  <2>1. CASE a = b
    BY <1>1, <1>7, <2>1
  <2>2. CASE a # b
    <3>1. pc'[b] = pc[b] /\ UNCHANGED <<work, given>>
      BY <1>t, <1>7, <2>2 DEF Handle, Goto
    <3> QED BY <1>1, <1>2, <3>1
  <2> QED BY <2>1, <2>2
<1>8. ASSUME NEW a \in Actions, ActionStep(a) PROVE DataInv(b)'
  <2>1. CASE a = b
    BY <1>t, <1>8, <2>1, DataOwnStep
  <2>2. CASE a # b
    <3>1. pc'[b] = pc[b] /\ work'[b] = work[b] /\ given'[b] = given[b]
      BY <1>t, <1>8, <2>2, OthersKept
    <3> QED BY <1>1, <1>2, <3>1
  <2> QED BY <2>1, <2>2
<1> QED BY <1>3, <1>5, <1>6, <1>7, <1>8 DEF Next

(* An image or a list of waypoints is of the map it is given for, also of a *)
(* map that is not loaded and also when somebody changes the map: as long   *)
(* as MapID was right from the arrival of the action on                     *)
(* (instant_actions.go:99-219, 381-439).                                    *)
THEOREM MapDataIsOfItsMap == Spec => []MapDataOfLabel
<1> DEFINE Inv == \A a \in Actions : DataInv(a)
<1>1. Init => Inv
  BY DEF Init, DataInv, Given
<1>2. MapTypes /\ Inv /\ [Next]_vars => Inv'
  BY NextDataInv
<1>3. Inv => MapDataOfLabel
  BY DEF DataInv, MapDataOfLabel, Told, Given
<1> QED BY <1>1, <1>2, <1>3, MapTypesAlways, PTL DEF Spec

-----------------------------------------------------------------------------
(* The floor plan.                                                         *)

(* removeSmallClusters, which marks and clears the mask as it scans, leaves *)
(* the pixels whose connected component in the mask it was given is large  *)
(* enough, in every picture that is drawn (map_beautify.go:233-271).       *)
THEOREM ClustersGone == Spec => []SmallClustersGone
<1>1. SmallClustersGone
  <2>1. WallMask(image) \in SUBSET Pixels
    BY DEF WallMask
  <2> QED BY <2>1, SmallClustersAreRemoved DEF SmallClustersGone
<1> QED BY <1>1, PTL

(* What the platform is given is the plan of the picture the bridge got. *)
PlanInv == \A a \in Actions : given[a].plan \in {<<>>, Plan}

LEMMA NextPlanInv ==
  ASSUME DOMAIN given = Actions, PlanInv, [Next]_vars
  PROVE  PlanInv'
<1>1. /\ image' = image
      /\ \A b \in Actions : given'[b] = given[b] \/ given'[b].plan \in {<<>>, Plan}
  <2> DEFINE Goal == /\ image' = image
                     /\ \A b \in Actions :
                          given'[b] = given[b] \/ given'[b].plan \in {<<>>, Plan}
  <2>1. CASE UNCHANGED vars \/ RobotLoads
    BY <2>1 DEF vars, scenario, RobotLoads
  <2>2. ASSUME NEW m \in Maps, SwitchByHand(m) PROVE Goal
    BY <2>2 DEF SwitchByHand, scenario
  <2>3. ASSUME NEW q \in Queries, MapLoaded(q) \/ QueryStep(q) PROVE Goal
    BY <2>3 DEF MapLoaded, QueryStep, QueryAnswered, QuerySetsMapID, scenario
  <2>4. ASSUME NEW a \in Actions, Handle(a) PROVE Goal
    BY <2>4 DEF Handle, scenario
  <2>5. ASSUME NEW a \in Actions, ActionStep(a) PROVE Goal
    <3>1. image' = image
      BY <2>5 DEF ActionStep, scenario
    <3>2. CASE UNCHANGED given
      BY <3>1, <3>2
    <3>3. CASE UploadImage(a) /\ ~UNCHANGED given
      <4>1. given' = [given EXCEPT ![a] = [label |-> work[a].label, of |-> work[a].content,
                                           meta |-> work[a].meta, plan |-> Plan]]
        BY <3>3 DEF UploadImage
      <4> HIDE DEF Plan
      <4> QED BY <3>1, <4>1
    <3>4. CASE PublishWaypoints(a)
      <4>1. given' = [given EXCEPT ![a] = [Nothing EXCEPT !.label = work[a].label,
                                                          !.of = work[a].content]]
        BY <3>4 DEF PublishWaypoints
      <4> QED BY <3>1, <4>1 DEF Nothing
    <3> QED
      BY <2>5, <3>2, <3>3, <3>4
         DEF ActionStep, MapDataStep, RejectUnknown, RunSimple, Finish, CleanUp, ChooseLabel,
             ChooseSource, FetchImage, FetchMeta, FetchZIP, FetchPOI
  <2> QED BY <2>1, <2>2, <2>3, <2>4, <2>5 DEF Next
<1>2. Plan' = Plan
  BY <1>1 DEF Plan
<1> QED BY <1>1, <1>2 DEF PlanInv

(* The plan the platform is given has every wall that is large enough and  *)
(* away from the rim, and no wall farther than two pixels from one of the  *)
(* picture (instant_actions.go:178-192, map_beautify.go:43-143).           *)
THEOREM PlanIsTrue == Spec => []WallsTrue
<1>1. Init => PlanInv
  BY DEF Init, PlanInv, Nothing
<1>2. MapTypes /\ PlanInv /\ [Next]_vars => PlanInv'
  BY NextPlanInv DEF MapTypes, ScenarioTypes
<1>3. PlanInv => WallsTrue
  <2> SUFFICES ASSUME NEW a \in Actions, Drawn(a), PlanInv
               PROVE  LET walls == WallMask(image)
                          inner == walls \cap Inner
                      IN /\ \A p \in inner :
                              Cardinality(Component(inner, p)) >= MinCluster =>
                                given[a].plan[p] = "wall"
                         /\ \A p \in Pixels :
                              given[a].plan[p] = "wall" => \E q \in walls : Within(2, p, q)
    BY DEF WallsTrue
  <2>1. given[a].plan = BeautifyMap(image)
    BY DEF PlanInv, Drawn, Plan
  <2> QED BY <2>1, PlanShowsWalls
<1> QED BY <1>1, <1>2, <1>3, MapTypesAlways, PTL DEF Spec

-----------------------------------------------------------------------------
(* MapID.                                                                  *)

(* Who tells the bridge which map the robot is on agrees with the robot:    *)
(* one switchMap, to a map that is there, and no initPosition that names    *)
(* one.  Either of them writes MapID whatever the robot has loaded.        *)
Undisturbed ==
  /\ world.prompt /\ world.answering /\ world.obeying
  /\ \A a \in Actions : plan[a].type = "initPosition" => plan[a].map = None
  /\ \A a \in Actions : plan[a].type = "switchMap" => plan[a].map # Missing
  /\ \A a, b \in Actions :
       plan[a].type = "switchMap" /\ plan[b].type = "switchMap" => a = b

(* A robot that runs is on the map of MapID, or a report or a query of it   *)
(* is under way.  A query knows no map but the one that is loaded: the      *)
(* robot loads none before it has ended.                                   *)
Pending(q) ==
  query[q].pc = "asked" \/ (query[q].pc = "answered" /\ query[q].name = robot.map)
AnswersTrue ==
  \A q \in Queries : query[q].pc = "answered" => query[q].name \in {robot.map, None}
MapIDKnown ==
  robot.core = "up" =>
    mapId = robot.map \/ loads > 0 \/ \E q \in Queries : Pending(q)

(* While switchMap is at work the robot has selected its map, and has       *)
(* loaded it when it runs again.                                           *)
SwitchInv ==
  \A a \in Actions : Switching(a) =>
    /\ plan[a].type = "switchMap" /\ robot.selected = plan[a].map
    /\ pc[a] = "start core" => robot.core = "down"
    /\ pc[a] = "mode" =>
         robot.core # "down" /\ (robot.core = "up" => robot.map = robot.selected)

LEMMA NextSwitchInv ==
  ASSUME TypeOK, ScenarioTypes, Undisturbed, SwitchInv, [Next]_vars
  PROVE  SwitchInv'
<1>t. /\ pc \in [Actions -> Labels] /\ plan \in [Actions -> Requests]
      /\ robot \in [map : Maps, selected : Maps, core : {"up", "down", "starting"}]
      /\ \A a \in Actions : plan[a].map \in Names
  BY DEF TypeOK, ScenarioTypes, Labels, Requests
<1>u. /\ world.prompt /\ Outcomes = {TRUE} /\ Effects(TRUE) = {TRUE} /\ world.obeying
      /\ \A a, b \in Actions :
           plan[a].type = "switchMap" /\ plan[b].type = "switchMap" => a = b
      /\ \A a \in Actions : plan[a].type = "switchMap" => plan[a].map # Missing
  BY DEF Undisturbed, Outcomes, Effects
<1>k. ASSUME robot' = robot, plan' = plan,
             \A b \in Actions : Switching(b)' => pc'[b] = pc[b]
      PROVE  SwitchInv'
  BY <1>k DEF SwitchInv, Switching
<1>l. ASSUME NEW a \in Actions, ActionStep(a), pc'[a] \notin {"stop", "start core", "mode"}
      PROVE  \A b \in Actions : Switching(b)' => pc'[b] = pc[b]
  BY <1>l, OthersKept DEF Switching
<1> USE <1>t, <1>u DEF Goto, scenario
<1>1. CASE UNCHANGED vars
  BY <1>1, <1>k DEF vars, scenario
<1>2. ASSUME RobotLoads PROVE SwitchInv'
  BY <1>2 DEF RobotLoads, SwitchInv, Switching
<1>3. ASSUME NEW m \in Maps, SwitchByHand(m) PROVE SwitchInv'
  BY <1>3 DEF SwitchByHand, SwitchInv, Switching
<1>4. ASSUME NEW q \in Queries, MapLoaded(q) PROVE SwitchInv'
  BY <1>4, <1>k DEF MapLoaded
<1>5. ASSUME NEW q \in Queries, QueryAnswered(q) PROVE SwitchInv'
  BY <1>5, <1>k DEF QueryAnswered
<1>6. ASSUME NEW q \in Queries, QuerySetsMapID(q) PROVE SwitchInv'
  BY <1>6, <1>k DEF QuerySetsMapID
<1>7. ASSUME NEW a \in Actions, Handle(a) PROVE SwitchInv'
  BY <1>7, <1>k DEF Handle, Switching
<1>8. ASSUME NEW a \in Actions, MapDataStep(a),
                UNCHANGED <<scenario, robot, touched, loads, mapId, query, steady>>
      PROVE  SwitchInv'
  <2>1. pc'[a] \notin {"stop", "start core", "mode"}
    BY <1>8 DEF MapDataStep, RejectUnknown, RunSimple, Finish, CleanUp, ChooseLabel,
           ChooseSource, FetchImage, FetchMeta, FetchZIP, UploadImage, FetchPOI,
           PublishWaypoints
  <2> QED BY <1>8, <2>1, <1>k, <1>l DEF ActionStep
<1>9. ASSUME NEW a \in Actions, RobotActionStep(a),
                UNCHANGED <<scenario, touched, loads, paused, query, given>>
      PROVE  SwitchInv'
  <2>1. CASE TakeMap(a)
    <3>1. pc'[a] \in {"pose", "failed"} /\ robot' = robot
      BY <1>9, <2>1 DEF TakeMap
    <3> QED BY <3>1, <1>9, <1>k, <1>l DEF ActionStep
  <2>2. CASE SendPose(a)
    <3>1. pc'[a] \in {"pose", "succeeded", "failed"} /\ robot' = robot
      BY <1>9, <2>2 DEF SendPose
    <3> QED BY <3>1, <1>9, <1>k, <1>l DEF ActionStep
  <2>3. CASE SelectMap(a)
    <3>1. \/ UNCHANGED robot /\ pc' = [pc EXCEPT ![a] = "failed"]
          \/ /\ robot' = [robot EXCEPT !.selected = plan[a].map]
             /\ pc' = [pc EXCEPT ![a] = "stop"]
      <4>1. plan[a].map # None => plan[a].map \in Maps
        BY <1>9, <2>3 DEF SelectMap, Names
      <4> QED BY <4>1, <1>9, <2>3 DEF SelectMap, PostCommand
    <3>2. plan[a].type = "switchMap" /\ plan' = plan
      BY <1>9, <2>3 DEF SelectMap
    <3>3. CASE UNCHANGED robot /\ pc' = [pc EXCEPT ![a] = "failed"]
      BY <3>2, <3>3, <1>k DEF Switching
    <3>4. CASE /\ robot' = [robot EXCEPT !.selected = plan[a].map]
               /\ pc' = [pc EXCEPT ![a] = "stop"]
      BY <3>2, <3>4 DEF SwitchInv, Switching
    <3> QED BY <3>1, <3>3, <3>4
  <2>4. CASE StopRobotCore(a)
    <3>1. /\ robot' = [robot EXCEPT !.core = "down"] /\ plan' = plan
          /\ pc' = [pc EXCEPT ![a] = "start core"]
      BY <1>9, <2>4 DEF StopRobotCore, PostCommand
    <3>2. pc[a] = "stop"
      BY <1>9, <2>4 DEF StopRobotCore
    <3> QED BY <3>1, <3>2 DEF SwitchInv, Switching
  <2>5. CASE StartRobotCore(a)
    <3>1. /\ robot' = [robot EXCEPT !.core = "starting"] /\ plan' = plan
          /\ pc' = [pc EXCEPT ![a] = "mode"]
      BY <1>9, <2>5 DEF StartRobotCore, PostCommand, SwitchInv, Switching
    <3>2. pc[a] = "start core"
      BY <1>9, <2>5 DEF StartRobotCore
    <3> QED BY <3>1, <3>2 DEF SwitchInv, Switching
  <2>6. CASE SelectDelivery(a)
    <3>1. pc'[a] \in {"succeeded", "failed"} /\ robot' = robot
      BY <1>9, <2>6 DEF SelectDelivery
    <3> QED BY <3>1, <1>9, <1>k, <1>l DEF ActionStep
  <2> QED BY <1>9, <2>1, <2>2, <2>3, <2>4, <2>5, <2>6 DEF RobotActionStep
<1> QED
  BY <1>1, <1>2, <1>3, <1>4, <1>5, <1>6, <1>7, <1>8, <1>9
     DEF Next, QueryStep, ActionStep

LEMMA NextAnswersTrue ==
  ASSUME TypeOK, Undisturbed, AnswersTrue, [Next]_vars
  PROVE  AnswersTrue'
<1>t. /\ query \in [Queries -> [pc : {"idle", "asked", "answered", "done"},
                                name : Maps \cup {None}]]
      /\ robot \in [map : Maps, selected : Maps, core : {"up", "down", "starting"}]
      /\ world.prompt
  BY DEF TypeOK, Undisturbed
<1> USE <1>t DEF AnswersTrue, InFlight
<1>1. CASE UNCHANGED vars
  BY <1>1 DEF vars, scenario
<1>2. ASSUME RobotLoads PROVE AnswersTrue'
  BY <1>2 DEF RobotLoads, Track
<1>3. ASSUME NEW m \in Maps, SwitchByHand(m) PROVE AnswersTrue'
  BY <1>3 DEF SwitchByHand
<1>4. ASSUME NEW q \in Queries, MapLoaded(q) PROVE AnswersTrue'
  BY <1>4 DEF MapLoaded
<1>5. ASSUME NEW q \in Queries, QueryAnswered(q) PROVE AnswersTrue'
  BY <1>5 DEF QueryAnswered
<1>6. ASSUME NEW q \in Queries, QuerySetsMapID(q) PROVE AnswersTrue'
  BY <1>6 DEF QuerySetsMapID, Track
<1>7. ASSUME NEW a \in Actions, Handle(a) PROVE AnswersTrue'
  BY <1>7 DEF Handle
<1>8. ASSUME NEW a \in Actions, MapDataStep(a),
                UNCHANGED <<scenario, robot, touched, loads, mapId, query, steady>>
      PROVE  AnswersTrue'
  BY <1>8
<1>9. ASSUME NEW a \in Actions, RobotActionStep(a),
                UNCHANGED <<scenario, touched, loads, paused, query, given>>
      PROVE  AnswersTrue'
  <2>1. CASE TakeMap(a)
    BY <1>9, <2>1 DEF TakeMap, Track
  <2>2. CASE SendPose(a)
    BY <1>9, <2>2 DEF SendPose, Keep, Outcomes
  <2>3. CASE SelectMap(a)
    BY <1>9, <2>3 DEF SelectMap, PostCommand, Outcomes, Effects
  <2>4. CASE StopRobotCore(a)
    BY <1>9, <2>4 DEF StopRobotCore, PostCommand, Outcomes, Effects
  <2>5. CASE StartRobotCore(a)
    BY <1>9, <2>5 DEF StartRobotCore, PostCommand, Outcomes, Effects
  <2>6. CASE SelectDelivery(a)
    BY <1>9, <2>6 DEF SelectDelivery, Outcomes, Track
  <2> QED BY <1>9, <2>1, <2>2, <2>3, <2>4, <2>5, <2>6 DEF RobotActionStep
<1> QED
  BY <1>1, <1>2, <1>3, <1>4, <1>5, <1>6, <1>7, <1>8, <1>9
     DEF Next, QueryStep, ActionStep

LEMMA NextMapIDKnown ==
  ASSUME TypeOK, ScenarioTypes, Undisturbed, AnswersTrue, SwitchInv, MapIDKnown,
         [Next]_vars
  PROVE  MapIDKnown'
<1>t. /\ query \in [Queries -> [pc : {"idle", "asked", "answered", "done"},
                                name : Maps \cup {None}]]
      /\ robot \in [map : Maps, selected : Maps, core : {"up", "down", "starting"}]
      /\ loads \in Nat
  <2>1. loads \in 0 .. Cardinality(Actions) + 1
    BY DEF TypeOK
  <2>2. Cardinality(Actions) \in Nat
    BY FS_CardinalityType
  <2>3. loads \in Nat
    BY <2>1, <2>2
  <2> QED BY <2>3 DEF TypeOK
<1>u. /\ world.answering /\ Outcomes = {TRUE} /\ Effects(TRUE) = {TRUE} /\ world.obeying
      /\ \A a \in Actions : plan[a].type = "initPosition" => plan[a].map = None
  BY DEF Undisturbed, Outcomes, Effects
<1>p. (\E q \in Queries : query[q].pc = "asked") => \E q \in Queries : Pending(q)
  BY DEF Pending
<1> USE <1>t, <1>u DEF MapIDKnown
<1>1. CASE UNCHANGED vars
  BY <1>1 DEF vars, Pending
<1>2. ASSUME RobotLoads PROVE MapIDKnown'
  BY <1>2 DEF RobotLoads, Track
<1>3. ASSUME NEW m \in Maps, SwitchByHand(m) PROVE MapIDKnown'
  BY <1>3 DEF SwitchByHand
<1>4. ASSUME NEW q \in Queries, MapLoaded(q) PROVE MapIDKnown'
  <2>1. query'[q].pc = "asked"
    BY <1>4 DEF MapLoaded
  <2> QED BY <2>1 DEF Pending
<1>5. ASSUME NEW q \in Queries, QueryAnswered(q) PROVE MapIDKnown'
  <2>1. UNCHANGED <<robot, mapId, loads>> /\ query[q].pc = "asked"
    BY <1>5 DEF QueryAnswered
  <2>2. robot.core = "up" => query'[q] = [pc |-> "answered", name |-> robot.map]
    BY <1>5 DEF QueryAnswered
  <2> QED BY <2>1, <2>2 DEF Pending
<1>6. ASSUME NEW q \in Queries, QuerySetsMapID(q) PROVE MapIDKnown'
  <2>1. /\ UNCHANGED <<robot, loads>> /\ query[q].pc = "answered"
        /\ mapId' = IF query[q].name = None THEN mapId ELSE query[q].name
        /\ \A p \in Queries \ {q} : query'[p] = query[p]
    BY <1>6 DEF QuerySetsMapID
  <2>2. CASE query[q].name = robot.map
    <3>1. mapId' = robot.map
      BY <2>1, <2>2
    <3> QED BY <2>1, <3>1
  <2>3. CASE query[q].name # robot.map
    <3>1. mapId' = mapId
      BY <2>1, <2>3 DEF AnswersTrue
    <3>2. \A p \in Queries : Pending(p) => Pending(p)'
      BY <2>1, <2>3 DEF Pending
    <3> QED BY <2>1, <3>1, <3>2
  <2> QED BY <2>2, <2>3
<1>7. ASSUME NEW a \in Actions, Handle(a) PROVE MapIDKnown'
  BY <1>7 DEF Handle, Pending
<1>8. ASSUME NEW a \in Actions, MapDataStep(a),
                UNCHANGED <<scenario, robot, touched, loads, mapId, query, steady>>
      PROVE  MapIDKnown'
  BY <1>8 DEF Pending
<1>9. ASSUME NEW a \in Actions, RobotActionStep(a),
                UNCHANGED <<scenario, touched, loads, paused, query, given>>
      PROVE  MapIDKnown'
  <2>1. CASE TakeMap(a)
    BY <1>9, <2>1 DEF TakeMap, Track, Pending
  <2>2. CASE SendPose(a)
    BY <1>9, <2>2 DEF SendPose, Keep, Outcomes, Pending
  <2>3. CASE SelectMap(a)
    <3>1. robot'.core = robot.core /\ robot'.map = robot.map
      BY <1>9, <2>3 DEF SelectMap, PostCommand
    <3>2. UNCHANGED <<loads, query, mapId>>
      BY <1>9, <2>3 DEF SelectMap, PostCommand
    <3> QED BY <3>1, <3>2 DEF Pending
  <2>4. CASE StopRobotCore(a)
    <3>1. robot'.core = "down"
      BY <1>9, <2>4 DEF StopRobotCore, PostCommand
    <3> QED BY <3>1
  <2>5. CASE StartRobotCore(a)
    <3>1. robot.core = "down"
      BY <1>9, <2>5 DEF StartRobotCore, SwitchInv, Switching
    <3>2. robot'.core = "starting"
      BY <1>9, <2>5, <3>1 DEF StartRobotCore, PostCommand
    <3> QED BY <3>2
  <2>6. CASE SelectDelivery(a)
    <3>1. /\ robot' = robot /\ mapId' = plan[a].map /\ robot.core # "starting"
      BY <1>9, <2>6 DEF SelectDelivery
    <3>2. robot.map = plan[a].map
      BY <1>9, <2>6, <3>1 DEF SelectDelivery, SwitchInv, Switching
    <3> QED BY <3>1, <3>2 DEF SwitchInv, Switching
  <2> QED BY <1>9, <2>1, <2>2, <2>3, <2>4, <2>5, <2>6 DEF RobotActionStep
<1> QED
  BY <1>1, <1>2, <1>3, <1>4, <1>5, <1>6, <1>7, <1>8, <1>9
     DEF Next, QueryStep, ActionStep

(* When nothing is under way MapID is the map the robot has loaded, whoever *)
(* changed it, a switchMap or somebody at the robot, and in whatever order  *)
(* the queries, the reports and switchMap itself wrote it                   *)
(* (httpapi.go:221-240, instant_actions.go:325-379, map_service.go:355-414). *)
THEOREM MapIDFollowsRobot == Spec => [](Undisturbed => MapIDAgrees)
<1> DEFINE Inv == Undisturbed => AnswersTrue /\ SwitchInv /\ MapIDKnown
<1>1. Init => Inv
  <2> SUFFICES ASSUME Init PROVE AnswersTrue /\ SwitchInv /\ MapIDKnown
    OBVIOUS
  <2>1. AnswersTrue /\ SwitchInv
    BY DEF Init, AnswersTrue, SwitchInv, Switching
  <2>2. 0 \in Queries
    <3>1. Cardinality(Actions) \in Nat
      BY FS_CardinalityType
    <3> QED BY <3>1 DEF Queries
  <2>3. Pending(0)
    BY <2>2 DEF Init, Pending
  <2> QED BY <2>1, <2>2, <2>3 DEF MapIDKnown
<1>2. MapTypes /\ Inv /\ [Next]_vars => Inv'
  <2> SUFFICES ASSUME MapTypes, Inv, [Next]_vars, Undisturbed'
               PROVE  AnswersTrue' /\ SwitchInv' /\ MapIDKnown'
    OBVIOUS
  <2>1. world' = world /\ plan' = plan
    BY DEF Next, vars, scenario, RobotLoads, SwitchByHand, MapLoaded, QueryStep,
           QueryAnswered, QuerySetsMapID, Handle, ActionStep
  <2>2. Undisturbed
    BY <2>1 DEF Undisturbed
  <2> QED
    BY <2>2, NextAnswersTrue, NextSwitchInv, NextMapIDKnown DEF MapTypes
<1>3. MapTypes /\ Inv => (Undisturbed => MapIDAgrees)
  <2> SUFFICES ASSUME MapTypes, AnswersTrue, MapIDKnown, Quiet
               PROVE  mapId = robot.map
    BY DEF MapIDAgrees
  <2> QED BY DEF Quiet, InFlight, MapIDKnown, Pending
<1> QED BY <1>1, <1>2, <1>3, MapTypesAlways, PTL DEF Spec
=============================================================================
