----------------------------- MODULE MapActions -----------------------------
(***************************************************************************)
(* Instant actions that have to do with maps (instant_actions.go), and how *)
(* the bridge knows which map the robot is on: RobotState.MapID is written *)
(* by a query when the session starts, by a query for every map_loaded     *)
(* webhook, by switchMap and by initPosition, each in a goroutine of its   *)
(* own.  cancelOrder is in OrderEngine; what TriggerStatePublish does is   *)
(* in MqttBridge.                                                          *)
(*                                                                         *)
(* Map data is the name of the map it describes.  The robot's core serves  *)
(* the map it has loaded, whatever name it is asked for; the archive of a  *)
(* map is there whether it is loaded or not.  A request names its map at   *)
(* most once.                                                              *)
(***************************************************************************)
EXTENDS MapBeautify

CONSTANTS
  Actions,    \* ids of the instant actions
  Maps,       \* the maps the robot has
  Missing,    \* the name of a map it does not have
  None,       \* the empty string, a nil pointer
  Scenarios   \* the environments considered, with the actions requested and the picture

Names == Maps \cup {Missing, None}
Types == {"uploadMap", "getWaypoints", "initPosition", "switchMap", "navigate",
          "stateRequest", "startPause", "stopPause", "tw_action", "unknown"}

(* complete: the parameters the handler insists on are there, except the   *)
(* map.  byName: the map is named as mapName, not as mapId.                *)
Requests ==
  [type : Types, map : Names, byName : BOOLEAN, complete : BOOLEAN]

(* prompt: the robot changes its map only while no report or query of an   *)
(* earlier change is under way.  answering: requests and reports get       *)
(* through.  obeying: the robot does what it answers 200 to, in the time   *)
(* it has.  hands: somebody changes the map at the robot, once.            *)
ASSUME ScenariosAssumption ==
  /\ IsFiniteSet(Actions)
  /\ {Missing, None} \cap Maps = {} /\ Missing # None /\ Maps # {}
  /\ \A s \in Scenarios :
       /\ s.world \in [prompt : BOOLEAN, answering : BOOLEAN, obeying : BOOLEAN, hands : BOOLEAN]
       /\ s.plan \in [Actions -> Requests]
       /\ DOMAIN s.image \subseteq Pixels

(* The query at the start and one for each time a map is loaded. *)
Queries == 0 .. Cardinality(Actions) + 1

VARIABLES
  world, plan, image,  \* the scenario
  robot,     \* the robot: map loaded, map selected, its core
  touched,   \* somebody changed the map at the robot
  loads,     \* map_loaded reports not yet handled
  mapId,     \* MapID of RobotState
  paused,    \* Paused of RobotState
  query,     \* goroutines of queryATOMCurrentMap
  rows,      \* status of every action in ActionStates
  pc,        \* where the goroutine of every action is
  work,      \* its locals
  given,     \* map data the platform was given by it
  steady     \* history: MapID was right from the arrival of the action on

vars == <<world, plan, image, robot, touched, loads, mapId, paused, query, rows, pc, work,
          given, steady>>
scenario == <<world, plan, image>>
-----------------------------------------------------------------------------
NoWork == [label |-> None, current |-> FALSE, content |-> None, meta |-> None, attempt |-> 1]
Nothing == [label |-> None, of |-> None, meta |-> None, plan |-> <<>>]

Init ==
  /\ \E s \in Scenarios : world = s.world /\ plan = s.plan /\ image = s.image
  /\ \E m \in Maps : robot = [map |-> m, selected |-> m, core |-> "up"]
  /\ touched = FALSE
  /\ loads = 0
  /\ mapId = None
  /\ paused = FALSE
  /\ query = [q \in Queries |-> [pc |-> IF q = 0 THEN "asked" ELSE "idle", name |-> None]]
  /\ rows = [a \in Actions |-> "absent"]
  /\ pc = [a \in Actions |-> "unsent"]
  /\ work = [a \in Actions |-> NoWork]
  /\ given = [a \in Actions |-> Nothing]
  /\ steady = [a \in Actions |-> TRUE]

(* Conjoined to every step that writes the map of the robot or MapID. *)
Track ==
  steady' = [a \in Actions |-> steady[a] /\ mapId' = robot'.map /\ robot'.map = robot.map]
-----------------------------------------------------------------------------
(* The robot (external). *)
InFlight == loads > 0 \/ \E q \in Queries : query[q].pc \in {"asked", "answered"}

Switching(a) == pc[a] \in {"stop", "start core", "mode"}

RobotLoads ==
  /\ robot.core = "starting"
  /\ world.prompt => ~InFlight
  /\ robot' = [robot EXCEPT !.map = robot.selected, !.core = "up"]
  /\ \/ loads' = loads + 1
     \/ ~world.answering /\ UNCHANGED loads
  /\ UNCHANGED <<scenario, touched, mapId, paused, query, rows, pc, work, given>>
  /\ Track

SwitchByHand(m) ==
  /\ world.hands /\ ~touched
  /\ robot.core = "up"
  /\ world.prompt => \A a \in Actions : ~Switching(a)
  /\ robot' = [robot EXCEPT !.selected = m, !.core = "starting"]
  /\ touched' = TRUE
  /\ UNCHANGED <<scenario, loads, mapId, paused, query, rows, pc, work, given, steady>>
-----------------------------------------------------------------------------
(* Seeded bug: the report is taken for one of the usual ones. *)
MapLoadedIgnored(q) ==
  /\ loads > 0
  /\ loads' = loads - 1
  /\ query' = [query EXCEPT ![q].name = None]
  /\ UNCHANGED <<scenario, robot, touched, mapId, paused, rows, pc, work, given, steady>>

(* The webhook: a map_loaded report starts a query. *)
MapLoaded(q) ==
  /\ loads > 0
  /\ query[q].pc = "idle" /\ \A p \in Queries : p < q => query[p].pc # "idle"
  /\ loads' = loads - 1
  /\ query' = [query EXCEPT ![q].pc = "asked"]
  /\ UNCHANGED <<scenario, robot, touched, mapId, paused, rows, pc, work, given, steady>>

(* queryATOMCurrentMap: every failure is an empty name. *)
QueryAnswered(q) ==
  /\ query[q].pc = "asked"
  /\ \E name \in {robot.map} \cup
          (IF world.answering /\ robot.core = "up" THEN {} ELSE {None}) :
       query' = [query EXCEPT ![q] = [pc |-> "answered", name |-> name]]
  /\ UNCHANGED <<scenario, robot, touched, loads, mapId, paused, rows, pc, work, given, steady>>

(* FetchInitialMapID and the goroutine of the webhook. *)
QuerySetsMapID(q) ==
  /\ query[q].pc = "answered"
  /\ mapId' = IF query[q].name = None THEN mapId ELSE query[q].name
  /\ query' = [query EXCEPT ![q] = [pc |-> "done", name |-> None]]
  /\ UNCHANGED <<scenario, robot, touched, loads, paused, rows, pc, work, given>>
  /\ Track

QueryStep(q) == QueryAnswered(q) \/ QuerySetsMapID(q)
-----------------------------------------------------------------------------
(* Requests the bridge sends: whether they succeed. *)
Outcomes == IF world.answering THEN {TRUE} ELSE BOOLEAN
CoreOutcomes == IF world.answering /\ robot.core = "up" THEN {TRUE} ELSE BOOLEAN

Goto(a, label) == pc' = [pc EXCEPT ![a] = label]
Keep(a, field, value) == work' = [work EXCEPT ![a][field] = value]

UpdateActionState(a, status) ==
  rows' = [rows EXCEPT ![a] = IF @ = "absent" THEN @ ELSE status]

(* handleInstantActions and Handle: tw_ actions are not for the bridge. *)
Handle(a) ==
  /\ pc[a] = "unsent" /\ plan[a].type # "tw_action"
  /\ rows' = [rows EXCEPT ![a] = "RUNNING"]
  /\ Goto(a, "start")
  /\ steady' = [steady EXCEPT ![a] = (mapId = robot.map)]
  /\ UNCHANGED <<scenario, robot, touched, loads, mapId, paused, query, work, given>>

(* An unknown type is reported, and its row is nobody's to clean up. *)
RejectUnknown(a) ==
  /\ pc[a] = "start" /\ plan[a].type = "unknown"
  /\ UpdateActionState(a, "FAILED")
  /\ Goto(a, "over")
  /\ UNCHANGED <<paused, work, given>>

RunSimple(a) ==
  /\ pc[a] = "start"
  /\ plan[a].type \in {"navigate", "stateRequest", "startPause", "stopPause"}
  /\ paused' = CASE plan[a].type = "startPause" -> TRUE
                 [] plan[a].type = "stopPause" -> FALSE
                 [] OTHER -> paused
  /\ \E ok \in IF plan[a].type = "navigate" THEN Outcomes ELSE {TRUE} :
       Goto(a, IF ok /\ plan[a].complete THEN "succeeded" ELSE "failed")
  /\ UNCHANGED <<rows, work, given>>

(* Seeded bug: a failed action returns like an unknown one. *)
FinishWithoutCleanUp(a) ==
  /\ pc[a] \in {"succeeded", "failed"}
  /\ UpdateActionState(a, IF pc[a] = "failed" THEN "FAILED" ELSE "FINISHED")
  /\ Goto(a, IF pc[a] = "failed" THEN "over" ELSE "cooling")
  /\ UNCHANGED <<paused, work, given>>

(* The end of Handle; uploadMap has set its own FINISHED. *)
Finish(a) ==
  /\ pc[a] \in {"succeeded", "failed"}
  /\ IF pc[a] = "failed" \/ plan[a].type # "uploadMap"
     THEN UpdateActionState(a, IF pc[a] = "failed" THEN "FAILED" ELSE "FINISHED")
     ELSE UNCHANGED rows
  /\ Goto(a, "cooling")
  /\ UNCHANGED <<paused, work, given>>

(* Five seconds later RemoveFinishedActions takes every finished row. *)
CleanUp(a) ==
  /\ pc[a] = "cooling"
  /\ rows' = [b \in Actions |-> IF rows[b] \in {"FINISHED", "FAILED"} THEN "absent" ELSE rows[b]]
  /\ Goto(a, "over")
  /\ UNCHANGED <<paused, work, given>>
-----------------------------------------------------------------------------
(* handleUploadMap and handleGetWaypoints.  MapID is read for the name and *)
(* read again to see whether that is the current map.                      *)
ChooseLabel(a) ==
  LET label == IF plan[a].map = None THEN mapId ELSE plan[a].map
  IN /\ pc[a] = "start" /\ plan[a].type \in {"uploadMap", "getWaypoints"}
     /\ Goto(a, IF plan[a].complete /\ label # None THEN "source" ELSE "failed")
     /\ Keep(a, "label", label)
     /\ UNCHANGED <<rows, paused, given>>

(* Seeded bug: the map that is loaded will do for every name. *)
AnyIsCurrent(a) == TRUE

IsCurrent(a) ==
  IF plan[a].type = "uploadMap"
  THEN work[a].label = mapId
  ELSE ~plan[a].byName \/ work[a].label = mapId

ChooseSource(a) ==
  /\ pc[a] = "source"
  /\ Keep(a, "current", IsCurrent(a))
  /\ Goto(a, "fetch")
  /\ UNCHANGED <<rows, paused, given>>

(* GetMapImage from the core. *)
FetchImage(a) ==
  /\ pc[a] = "fetch" /\ plan[a].type = "uploadMap" /\ work[a].current
  /\ \E ok \in CoreOutcomes :
       IF ok THEN Keep(a, "content", robot.map) /\ Goto(a, "meta")
             ELSE Goto(a, "failed") /\ UNCHANGED work
  /\ UNCHANGED <<rows, paused, given>>

(* GetMapMeta looks at no status: an error is no data, or a record of      *)
(* zeros, which describes no map.  The image is uploaded all the same.     *)
FetchMeta(a) ==
  /\ pc[a] = "meta"
  /\ \E ok \in CoreOutcomes : Keep(a, "meta", IF ok THEN robot.map ELSE None)
  /\ Goto(a, "upload")
  /\ UNCHANGED <<rows, paused, given>>

(* DownloadMapZIP and what is extracted; without the image, or the places, *)
(* the action fails, without the metadata it does not.  uploadMap reports  *)
(* a download that fails at once.                                          *)
FetchZIP(a) ==
  /\ pc[a] = "fetch" /\ ~work[a].current
  /\ \E downloaded \in (IF work[a].label \in Maps THEN Outcomes ELSE {FALSE}),
        complete \in Outcomes,
        meta \in {work[a].label} \cup (IF world.answering THEN {} ELSE {None}) :
       IF downloaded /\ complete
       THEN /\ work' = [work EXCEPT ![a].content = work[a].label, ![a].meta = meta]
            /\ Goto(a, IF plan[a].type = "uploadMap" THEN "upload" ELSE "announce")
            /\ UNCHANGED rows
       ELSE /\ Goto(a, "failed")
            /\ IF downloaded \/ plan[a].type # "uploadMap"
               THEN UNCHANGED rows ELSE UpdateActionState(a, "FAILED")
            /\ UNCHANGED work
  /\ UNCHANGED <<paused, given>>

(* BeautifyMap, or the picture as it is when it cannot be decoded, and the *)
(* upload to the address of the request.                                   *)
Plan == IF image = <<>> THEN image ELSE BeautifyMap(image)

UploadImage(a) ==
  /\ pc[a] = "upload"
  /\ \E ok \in Outcomes :
       IF ok
       THEN /\ given' = [given EXCEPT ![a] = [label |-> work[a].label, of |-> work[a].content,
                                              meta |-> work[a].meta, plan |-> Plan]]
            /\ UpdateActionState(a, "FINISHED")
            /\ Goto(a, "succeeded")
       ELSE Goto(a, "failed") /\ UNCHANGED <<given, rows>>
  /\ UNCHANGED <<paused, work>>

(* GetMapPOI from the core; an error the core answers with is taken for a  *)
(* map without places.                                                     *)
FetchPOI(a) ==
  /\ pc[a] = "fetch" /\ plan[a].type = "getWaypoints" /\ work[a].current
  /\ \/ \E ok \in CoreOutcomes :
          /\ Keep(a, "content", IF ok THEN robot.map ELSE None)
          /\ Goto(a, "announce")
     \/ /\ FALSE \in CoreOutcomes
        /\ Goto(a, "failed") /\ UNCHANGED work
  /\ UNCHANGED <<rows, paused, given>>

PublishWaypoints(a) ==
  /\ pc[a] = "announce"
  /\ given' = [given EXCEPT ![a] = [Nothing EXCEPT !.label = work[a].label,
                                                   !.of = work[a].content]]
  /\ Goto(a, "succeeded")
  /\ UNCHANGED <<rows, paused, work>>

MapDataStep(a) ==
  \/ RejectUnknown(a) \/ RunSimple(a) \/ Finish(a) \/ CleanUp(a) \/ ChooseLabel(a)
  \/ ChooseSource(a) \/ FetchImage(a) \/ FetchMeta(a) \/ FetchZIP(a) \/ UploadImage(a)
  \/ FetchPOI(a) \/ PublishWaypoints(a)
-----------------------------------------------------------------------------
(* handleInitPosition: the map is taken from the request before the pose   *)
(* is sent three times.  Only the last answer counts.                      *)
TakeMap(a) ==
  /\ pc[a] = "start" /\ plan[a].type = "initPosition"
  /\ mapId' = IF plan[a].complete /\ plan[a].map # None THEN plan[a].map ELSE mapId
  /\ Goto(a, IF plan[a].complete THEN "pose" ELSE "failed")
  /\ UNCHANGED <<robot, rows, work>>
  /\ Track

(* Seeded bug: the attempts are counted from nought. *)
SendPoseOnceMore(a) ==
  /\ pc[a] = "pose"
  /\ IF work[a].attempt > 3
     THEN \E ok \in Outcomes : Goto(a, IF ok THEN "succeeded" ELSE "failed") /\ UNCHANGED work
     ELSE Keep(a, "attempt", work[a].attempt + 1) /\ UNCHANGED pc
  /\ UNCHANGED <<robot, mapId, rows, steady>>

SendPose(a) ==
  /\ pc[a] = "pose"
  /\ IF work[a].attempt = 3
     THEN \E ok \in Outcomes : Goto(a, IF ok THEN "succeeded" ELSE "failed") /\ UNCHANGED work
     ELSE Keep(a, "attempt", work[a].attempt + 1) /\ UNCHANGED pc
  /\ UNCHANGED <<robot, mapId, rows, steady>>
-----------------------------------------------------------------------------
(* handleSwitchMap: four posts whose status nobody looks at.  A post that  *)
(* fails may have had its effect, one that is answered may have had none.  *)
Effects(ok) == IF ok /\ world.obeying THEN {TRUE} ELSE BOOLEAN

PostCommand(a, commanded, next) ==
  /\ \E ok \in Outcomes : \E effect \in Effects(ok) :
       /\ robot' = IF effect THEN commanded ELSE robot
       /\ Goto(a, IF ok THEN next ELSE "failed")
  /\ UNCHANGED <<mapId, rows, work, steady>>

SelectMap(a) ==
  /\ pc[a] = "start" /\ plan[a].type = "switchMap"
  /\ IF plan[a].map = None
     THEN Goto(a, "failed") /\ UNCHANGED <<robot, mapId, rows, work, steady>>
     ELSE PostCommand(a, IF plan[a].map \in Maps THEN [robot EXCEPT !.selected = plan[a].map]
                                                 ELSE robot, "stop")

StopRobotCore(a) ==
  /\ pc[a] = "stop"
  /\ PostCommand(a, [robot EXCEPT !.core = "down"], "start core")

StartRobotCore(a) ==
  /\ pc[a] = "start core"
  /\ PostCommand(a, [robot EXCEPT !.core = IF @ = "down" THEN "starting" ELSE @], "mode")

(* After 30 s the mode is selected, and MapID is what was asked for. *)
SelectDelivery(a) ==
  /\ pc[a] = "mode"
  /\ world.obeying => robot.core # "starting"
  /\ \E ok \in Outcomes :
       /\ mapId' = IF ok THEN plan[a].map ELSE mapId
       /\ Goto(a, IF ok THEN "succeeded" ELSE "failed")
  /\ UNCHANGED <<robot, rows, work>>
  /\ Track

RobotActionStep(a) ==
  TakeMap(a) \/ SendPose(a) \/ SelectMap(a) \/ StopRobotCore(a) \/ StartRobotCore(a)
    \/ SelectDelivery(a)

ActionStep(a) ==
  \/ MapDataStep(a)
     /\ UNCHANGED <<scenario, robot, touched, loads, mapId, query, steady>>
  \/ RobotActionStep(a)
     /\ UNCHANGED <<scenario, touched, loads, paused, query, given>>

Next ==
  \/ RobotLoads \/ \E m \in Maps : SwitchByHand(m)
  \/ \E q \in Queries : MapLoaded(q) \/ QueryStep(q)
  \/ \E a \in Actions : Handle(a) \/ ActionStep(a)

Spec == Init /\ [][Next]_vars

(* Requests end, if only by their timeout; the robot loads a map it was    *)
(* told to load.                                                           *)
Fairness ==
  /\ WF_vars(RobotLoads)
  /\ \A q \in Queries : WF_vars(MapLoaded(q)) /\ WF_vars(QueryStep(q))
  /\ \A a \in Actions : WF_vars(ActionStep(a))

FairSpec == Spec /\ Fairness
-----------------------------------------------------------------------------
TypeOK ==
  /\ robot \in [map : Maps, selected : Maps, core : {"up", "down", "starting"}]
  /\ touched \in BOOLEAN /\ paused \in BOOLEAN
  /\ loads \in 0 .. Cardinality(Actions) + 1
  /\ mapId \in Names
  /\ query \in [Queries -> [pc : {"idle", "asked", "answered", "done"}, name : Maps \cup {None}]]
  /\ rows \in [Actions -> {"absent", "RUNNING", "FINISHED", "FAILED"}]
  /\ pc \in [Actions -> {"unsent", "start", "source", "fetch", "meta", "upload", "announce",
                         "pose", "stop", "start core", "mode", "succeeded", "failed",
                         "cooling", "over"}]
  /\ work \in [Actions -> [label : Names, current : BOOLEAN, content : Maps \cup {None},
                           meta : Maps \cup {None}, attempt : 1 .. 3]]
  /\ steady \in [Actions -> BOOLEAN]

(* When nothing is under way MapID is the map the robot has loaded,        *)
(* whoever changed it and in whatever order the query of the webhook, the  *)
(* one at the start and switchMap wrote it.  It takes a robot that does as *)
(* told, answers, and is slower to change its map than the bridge to ask.  *)
Quiet ==
  /\ ~InFlight /\ robot.core = "up"
  /\ \A a \in Actions : pc[a] \in {"unsent", "cooling", "over"}
MapIDAgrees ==
  world.prompt /\ world.answering /\ world.obeying /\ Quiet => mapId = robot.map

(* An image or a list of waypoints is of the map it is given for, with the *)
(* metadata of that map, when MapID was right all the time: also for maps  *)
(* that are not loaded.  Waypoints asked for by mapId are excepted.        *)
Given(a) == given[a] # Nothing
MapDataOfLabel ==
  \A a \in Actions :
    Given(a) /\ steady[a] /\ (plan[a].type = "uploadMap" \/ plan[a].byName) =>
      given[a].of \in {given[a].label, None} /\ given[a].meta \in {given[a].label, None}

(* removeSmallClusters, which marks and clears as it scans the lines,      *)
(* leaves the pixels whose connected component in the mask it was given is *)
(* large enough.                                                           *)
Drawn(a) == pc[a] = "succeeded" /\ given[a].plan # <<>>
SmallClustersGone ==
  \A a \in Actions :
    Drawn(a) =>
      LET walls == WallMask(image)
      IN RemoveSmallClusters(walls) =
           {p \in walls : Cardinality(Component(walls, p)) >= MinCluster}

(* On the plan that is uploaded every wall that is large enough and away   *)
(* from the rim is drawn, and what is drawn as a wall has one within two   *)
(* pixels, though gaps were closed, clusters removed and lines thickened.  *)
WallsTrue ==
  \A a \in Actions :
    Drawn(a) =>
      LET walls == WallMask(image)
          inner == walls \cap Inner
      IN /\ \A p \in inner :
              Cardinality(Component(inner, p)) >= MinCluster => given[a].plan[p] = "wall"
         /\ \A p \in Pixels :
              given[a].plan[p] = "wall" => \E q \in walls : Within(2, p, q)

(* Every action that is accepted leaves the list in the end, also one that *)
(* fails half way or finds the robot's core down.                          *)
ActionsDrain ==
  \A a \in Actions :
    (pc[a] = "start" /\ plan[a].type # "unknown") ~> rows[a] = "absent"

(* handleGetWaypoints: "Determine if this is the current map".  Waypoints  *)
(* are published for the map they belong to.                               *)
WaypointsOfMap ==
  \A a \in Actions :
    Given(a) /\ steady[a] /\ plan[a].type = "getWaypoints" =>
      given[a].of \in {given[a].label, None}
=============================================================================
