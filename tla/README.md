# Verification of pi2w-bridge

pi2w-bridge connects delivery robots to a VDA 5050 fleet platform. One Go process keeps a
*session* per robot: it takes orders and instant actions from an MQTT broker, drives the robot
through its HTTP API (the "ATOM API") and a WebSocket, receives the robot's reports on a webhook,
and keeps robots, orders and action states in SQLite. This directory holds TLA+ specifications of
it, their TLC configurations, and proofs checked by TLAPS.

## Inventory

| Part | Source | State | Operations | Hard because | Specification |
|---|---|---|---|---|---|
| Order engine | `order_handler.go` | `currentOrder`, `rawOrder`, `cancelCh`; locals of each `executeOrder` goroutine | `HandleOrder`, `CancelCurrentOrder`, `executeOrder` and what it calls | an order supersedes another without waiting for its goroutine; retries and timers; all goroutines share one `RobotState` | `OrderEngine` |
| Robot state | `robot_state.go` | order id, node/edge/action states, last node; pose, battery, driving, map, connection | one mutator per field group, each under `mu` | written by runs, instant actions, webhooks, WebSocket, map loop | `RobotState`; the fields other parts write with those parts |
| Navigation, charging | `order_handler.go`, `state_mapping.go` | `Driving`, `Status`, `BatteryCharging`, `NavArrivedCh` | `sendDeliveryWithRetry`, `waitForNavigation`, `actionStartCharging`, `ensureNotCharging` | two sources of truth (webhook, poll), both late | `Navigation` |
| Instant actions | `instant_actions.go` | one goroutine per action; its entry in the action states | `Handle` and ten action types | shares the list of action states with the order; 5 s clean-up; `MapID` has four writers | `OrderEngine`, `MapActions` |
| Store | `store.go` | tables `robots`, `orders`, `action_states` | upserts, status updates, `FailRunningOrders` | survives a crash, memory does not | `OrderEngine`, `SessionManager` |
| Session manager | `manager.go`, `session.go` | session map, `started`, table `robots` | `Register`, `Deregister`, reaper, `StopAll` | swap under the lock, stop and start outside it | `SessionManager` |
| robots.yaml | `robots_yaml.go` | last records, debounce timer | `SyncRobotsYAML`, watcher | a cache of what was registered | `SessionManager` |
| Session | `session.go` | `stopCh`, the parts below | `Start`, `Stop` | parts stop one after the other | `Session` |
| MQTT bridge | `mqtt_bridge.go` | client, `stopCh`, trigger channel, retained connection topic | `Connect`, `onConnect`, publish loops, `Stop` | the library reconnects by itself; `Stop` races with `Connect` | `MqttBridge` |
| Robot WebSocket | `robot_ws.go` | `conn`, `stopCh` | `connectLoop`, `readLoop`, `Stop` | `Stop` races with a dial | `RobotWS` |
| Webhook registration | `register.go` | backoff | register, keep-alive, delivery mode | acts on the robot 30 s later | `WebhookRegistration` |
| HTTP API | `httpapi.go`, `state_mapping.go` | none | webhook, admin, health | calls the manager concurrently | callers in `SessionManager`, reports in `Navigation`, `MapActions` |
| Map service | `map_service.go` | map list cache | image, metadata, places, archive | the core serves the loaded map whatever it is asked for | `MapActions` |
| Map beautification | `map_beautify.go` | none | morphology, clusters, layers | in-place scan with a visited mask | `MapBeautify` |
| TTS | `tts_client.go` | none | prepare, play | best effort | – |
| Composition, config, geometry, tools | `state_composer.go`, `factsheet.go`, `config.go`, `serverconfig.go`, `math_utils.go`, `cmd/` | none | formatting, defaults | not protocol | – |
| Robot server | `robot-fastapi/main.py` | a separate program | – | environment of the bridge | – |

How they interact: `main` opens the store, marks the running orders of the last process failed,
loads sessions, starts the yaml watcher and the HTTP API. A session starts its MQTT bridge, whose
callbacks call `HandleOrder` and `Handle`; these start goroutines that write `RobotState` and the
store; the publish loops read `RobotState`; the webhook writes it.

What makes each part correct: the engine tells every superseded run to stop, never closes a channel
twice, records one outcome for every order it accepted, leaves nothing of an order in the state
when idle; a leg counts as arrived only if the robot arrived, and no leg goes on that no order owns;
instant actions report and then leave the state; map data belongs to the map it is published for; a
stopped session owns no MQTT client and the retained connection message says so; table `robots`
agrees with the session map when nobody is at work; a floor plan shows the walls and nothing else
as walls.

## Plan

1. `RobotState`, `OrderEngine`, the abstract `OrderLedger`, runs and first proofs. **Done.**
2. `SessionManager`: generations of sessions of one robot with everybody who exchanges them, over
   table `robots`, crashes and restarts; types and the mapped session proved. **Done.**
3. `Navigation`: legs and dockings against a robot, webhook and poll as delayed observations, two
   orders on one robot. **Done.**
4. `SessionShared`, `MqttBridge`, `RobotWS`, `WebhookRegistration`, composed by `Session`. **Done.**
5. `MapActions`, the instant actions beside `cancelOrder`, over `MapBeautify`. **Done**, with the
   morphology, the scan and the plan itself proved for pictures of every size.
6. Every safety invariant of the passing runs proved, each in the proof module of its component.
   **Done.**
7. `LegLedger`, the abstract promise of the legs, checked and proved to be implemented by
   `Navigation`. **Done.**
8. Left: what the code owes under fairness, and the ledger's fairness with it, stays with the model
   checker; of the parts under "Not modelled" the map list and the visualization loop come first.

`MqttBridge`, `RobotWS` and `WebhookRegistration` share `SessionShared` and are composed by
`Session`; `MapActions` uses `MapBeautify` for the picture it uploads; `OrderEngine` uses
`RobotState` and implements `OrderLedger`, `Navigation` implements `LegLedger`. `Navigation` also
has the inside of what `OrderEngine` takes from `arriving` as a choice, the outcome of a leg, and
`Session` what `SessionManager` takes as one step, `Start` and `Stop`; the larger modules are not
composed with each other because their product is out of a model checker's reach and they share
only the outcome of a leg and the phase of a session.

## Modules

**`RobotState`** is the order-related part of the struct as a record, and every mutator of
`robot_state.go` (with `removeNodeState`, `removeEdgeState`, `initActionStates` of
`order_handler.go`) as an operator from record to record. Each runs under `mu` in the code, so each
use is one step. Lists are abstracted to sets and to a function from action id to status, because
nothing depends on their order and VDA 5050 makes action ids unique.

**`OrderEngine`** is the engine of one robot. Its actors are the MQTT callback (`HandleOrder`,
`InstantHandle`), the `executeOrder` goroutines (`Runs`), the instant action goroutines
(`Instants`), the process that may crash, and `main` at a restart.

| Specification | Code |
|---|---|
| `current`, `raw`, `cancelCh` | fields of `OrderHandler`; an order, a payload and a channel are named by their run |
| `chan[r]` | the channel `executeOrder` was given |
| `pc`, `node`, `act`, `att`, `result`, `curMap` | program counter and locals of `executeOrder` and its callees |
| `rs` | `oh.state` |
| `rows`, `actionRows` | tables `orders`, `action_states` |
| `instant` | progress of the goroutine of `Handle` |
| `lateLegs`, `overlap` | history variables, read by properties only |

A step of a run is one region under `rs.mu` or `oh.mu`, with the checks before it and writes of
rows that only runs of its own order write. Waits become stages: `charger`, `nodeActionRun`,
`confirm`, `arriving`, `counterWait`, `clear`. A select on a timer and the cancel channel may take
either branch when both are ready (`ReturnToCounter`, `CounterWaitCancelled`), but not when the
timer has only just been created (`EnterCounterWait`). Outcomes of HTTP calls, polls and timers are
chosen nondeterministically among those the code distinguishes: a leg arrives or fails, a docking
finishes or fails, leaving the charger succeeds or fails. Orders are parsed records; an order
without an id or nodes is rejected by `HandleOrder` and changes nothing. Requests to the TTS
service and the state trigger channel are left out here; the channel is in `MqttBridge`.

**`OrderLedger`** is the abstract promise of table `orders` to the admin API: a row that says
running is owed an outcome by a live run; debts are paid; a crash forgets them and one recovery
makes that good. `OrderEngine` instantiates it with `status` = the status column, `owed` = the runs
between `InsertOrder` and `FinishOrder`, `lost` = the process is down.

**`Navigation`** is the inside of a leg and of a docking. The robot is an external process with a
place, a task and a routing status; it posts reports of its status and of the charging pins and
answers polls. A *world* says what it and the network may do (delay or lose reports, fail requests,
ignore commands, be obstructed) and is fixed at the start, so that each property names what it
needs.

| Specification | Code |
|---|---|
| `view` | `Status`, `Driving`, `BatteryCharging` of `RobotState` |
| `signal` | the buffered channel `NavArrivedCh` |
| `reports` | webhook requests not yet handled; `ReceiveReport` is `ApplyWebhookData` |
| `pc`, `attempt`, `departed`, `seen` | program counter and locals of `sendDeliveryWithRetry`, `waitForNavigation`, `actionStartCharging` |
| `closed`, `stopping` | closed cancel channels; a goroutine of `cancelOrder` that has closed one and not yet posted its stop |
| `reached`, `disturbed`, `held`, `unseen`, `unstopped` | history variables, read by properties and by two assumptions on the environment |

A poll is two steps, the snapshot of the state and the answer of the robot, because reports and
other orders may fall between them. The 30 s departure timer, the five-minute timeouts and the
retries are steps of their own. So is the stop that `cancelOrder` posts after it closed the channel
(`CancelCurrentOrder`, then `PostStop`): whoever drives the robot by then is stopped. A command that
is answered has its effect only on a robot that obeys.

The departure timer of the code runs out whatever the robot does. `LeavesInTime` states what is
assumed of an obeying robot instead: told to leave, it does so and is polled within the 30 s, *unless*
it was blocked before the bridge knew that it had departed (`held`). Then the timer may fire while the
robot stands on the road. The world is free of this assumption when it does not obey or answer.

A behaviour begins when the session is made, by a start of the process, a registration or the
reaper, with a robot that stands still: at the counter, or, in a *docked* world, on the charger of an
earlier session. `NewRobotState` says of both that nothing charges, and a robot on the charger does
not repeat that it is there (`order_handler.go:586-589`); `unseen` is true until it has moved off. A
session that begins while the robot is still on a leg of the process before is not modelled.

**`LegLedger`** is what the legs promise whoever watches the robot: only a run that still owes the robot
a stop sends it off, and a run is done with its leg in the step that stops the robot, or else the robot
is *astray*, left to itself. `Navigation` instantiates it with `owed` = the runs between `StartLeg` and
the end of the leg, `moving` = the robot is on a delivery, its way back, or about to return, and
`astray` = a leg was given up or a request lost in a world that is not reliable. It says more than
`NoOrphanLeg`, which looks at the robot only when no order is left: here each of two overlapping runs
has to stop the robot, whatever the other does.

**`SessionManager`** is the life of one robot's sessions. Robots share nothing but the lock of the
map, so one is enough. Its actors are the callers of `Register` and `Deregister` (`Admins`, the
yaml goroutine, the reaper), `main` at the end (`Term`), `Webhooks`, the goroutines of the
sessions, whoever edits robots.yaml, and crashes.

| Specification | Code |
|---|---|
| `mapped` | `m.sessions[id]` |
| `session[s]` | unused, new, started, stopped: `started` and `stopCh` of a `RobotSession`; gone with its process |
| `conf[s]`, `client[s]` | `rec` of a session; its MQTT client, open from `Connect` on, which `Stop` disconnects |
| `row` | the row in table `robots`: record, source, status |
| `pc[c]`, `old[c]`, `new[c]`, `arg[c]` | where a caller is in `Register` or `Deregister`, and its locals |
| `file`, `changed`, `cache`, `want` | the robot in robots.yaml, an event that waits, `lastYAMLRecords`, the records the sync read |
| `webhook[w]` | the session a webhook handler got from `Get` |
| `up` | `main` before the API starts, serving, after the signal; down |
| `contended`, `missed`, `edits`, `exits` | history and bounds, not read by the code's actions |

`Register` is `SwapSession`, `StopSession` or `StopNothing`, `StoreOffline`, `StartSession`,
`StoreOnline`, `StoreRecord`; `Deregister` is `UnmapSession`, the same stop, `StoreDeleted`;
`StopAll` the same stop. The synchronisation goes on after each of them where it called it
(`Return`). A record is abstracted to its connection-relevant content, which is what
`robotRecordChanged` compares. Left out: SQL errors, a watcher that does not start, the status and
source an admin may put into a POST by hand, the session source `provisional`, which nothing in the code
produces, and panics of goroutines that survive their session's `Stop`.

**`Session`** is one session from the inside, `Start` to `Stop`, composed of three parts over
**`SessionShared`** (how far `Stop` is, the robot, whether its data is fresh):

- **`MqttBridge`**: `Connect` and its goroutine (the client is made under the lock in one step
  and told to connect in the next; only from then on it calls itself connected), the callbacks of the client, the state and the
  connection loop, the one-place trigger channel, `Stop`. The paho client and the broker are
  external: the client reconnects by itself, runs each callback in a goroutine, calls itself
  connected while it tries, and may keep QoS 1 messages for later; the broker keeps the last
  connection message and publishes the will when a connection breaks.
- **`RobotWS`**: `connectLoop`, `connect`, `readLoop` and `Stop`. A connection the robot dropped is
  broken until a read notices.
- **`WebhookRegistration`**: the three goroutines of `register.go`, each a chain of sleeps that end
  with their time or with the stop, and commands. A goroutine whose time ran out just before the
  stop still sends; `late` counts that.

**`MapActions`** has `Handle` for the action types that need neither order nor session: `uploadMap`,
`getWaypoints`, `initPosition`, `switchMap`, `navigate`, `startPause`, `stopPause`, `stateRequest`
and unknown types, and everybody who writes `MapID`: the query at the start of a session, the query
for each `map_loaded` report, `initPosition` and `switchMap`. Map data is named by the map it
describes. The robot is external: a map loaded, a map selected, and a core that is up, down or
starting. Here too a *scenario* fixes the environment and the two requests.

**`MapBeautify`** is the pipeline of `BeautifyMap` as operators on sets of pixels: classification,
`MorphClose`, `RemoveSmallClusters` as a fold over the scan with its visited mask, `Dilate`, and the
order of the layers. Its references are the connected component of a pixel and the distance of two
pixels. The cluster search is a recursive function, so that the module can be proved about.

`MCOrderEngine`, `MCNavigation`, `MCSessionManager`, `MCSession`, `MCMapActions` hold the small
orders, worlds, requests and pictures of the runs. `OrderEngineProofs`, `SessionManagerProofs`,
`SessionProofs`, `MapActionsProofs` and `MapBeautifyProofs` hold the theorems of their modules, and
`NavigationProofs`, `ArrivalProofs` and `ChargerProofs`, each on top of the one before, those of
`Navigation`. Definitions commented "Seeded bug" are not part of a
specification; each is a plausible wrong version of the definition it stands by and shows that
some property notices the difference.

## Runs

| Run | Asks | Result |
|---|---|---|
| `engine` | two overlapping runs of any of four orders with a crash and restart, or of two orders with a `cancelOrder`: channels, late legs, state message, both tables | holds |
| `engine_live` | fair scheduling: every run ends, instant actions leave the state, the ledger is implemented with its fairness, with `cancelOrder`, `stateRequest`, crash and restart | holds |
| `manager` | two admin requests, each POST or DELETE, against start-up, the reaper, panics and a webhook; or an edit of robots.yaml with a crash or an orderly exit anywhere | holds |
| `legs` | two orders (deliveries, dockings) against a robot, in 13 scenarios of seven worlds: arrival, orphaned legs, the ledger of the legs, charger, and that polls alone suffice | holds |
| `session` | one session from start to stop over a breaking broker connection and a restarting robot: what the platform is told, and what goes on after `Stop` | holds |
| `maps` | every map action alone and in pairs, in a calm, a hasty and a failing environment; the floor plan over 768 pictures | holds |
| `stale_payload` | the row of an order holds that order's message | **violated** |
| `wiped_order` | a finished order stays visible until cleared | **violated** |
| `two_clients` | there are never two live MQTT clients | **violated** |
| `lost_error` | a session that errored is replaced | **violated** |
| `contact` | a docking that counts as done had contact | **violated** |
| `waypoints` | waypoints are of the map they are published for | **violated** |

What the properties say, in the order of their weight:

- *Engine*: `RunningRowOwned` and `LedgerSpec` (table against goroutines across resends and
  crashes), `SupersededSignalled` and `NoDoubleClose` (handler against goroutines),
  `OneLegAfterCancel` (what retries can still do after a cancel), `QuiescentCleared` (shared state
  after any interleaving), `FinishedWentThroughOrder` (finished means done), `SettledActionRows`,
  `RunsSettle`, `InstantStatesDrain`.
- *Legs*: `ArrivedAtGoal` (no stale signal, report, poll or timer ends a leg early, as long as the
  environment is reliable. It names what can all the same: another order's leg or command, or the stop
  of a `cancelOrder`, that falls into the leg, `disturbed`; and the departure timer, when an obstacle
  held the robot before it was known to have departed, `held`. The second excuses the timer alone,
  not a signal or a poll), `NoOrphanLeg` (in every world: when no order is left the robot is on no leg, except after a
  timeout or a lost request, which the code leaves unstopped), `LegsAreStopped` (step by step, with
  overlapping and cancelled orders: who sends the robot off stops it), `LeavesChargerFirst` and
  `ChargingAgrees` (orders that follow one another; of a robot on the charger since before the session
  they speak from the moment it has moved off: until then the new flag is wrong, a delivery may be
  sent on the charger and a docking waits in vain, which is in the model and excluded with `unseen`),
  `PollsSuffice` (liveness: no webhook report is needed).
- *Manager*: `MappedStarted` (the map against the callers, in every interleaving), `RowAgrees`
  (table against map across restarts), `YamlApplied` (file, cache and sessions), `NeverTwoSessions`.
- *Session*: `OfflineIsLast`, `StaysDisconnected`, `SocketClosed`, `LateCommands` (each says how far
  `Stop` can be relied on and names what is left; for `StaysDisconnected` that is a client on which
  `Connect` was not yet called when `Stop` looked), `OnlineShown`, `SilenceShown`,
  `StateShown`, `StreamResumes`, `Registers`, `LoopEnds` (liveness across breaks and restarts).
- *Maps*: `MapIDAgrees` (four writers of `MapID` against the robot), `MapDataOfLabel` (data of the
  right map though `MapID` is read twice and the core ignores the name), `SmallClustersGone`
  (in-place scan against components), `WallsTrue` (the picture that is uploaded), `ActionsDrain`.

### Bounds

- Engine: two runs are enough for every pairwise interleaving. What three generations of runs could
  add, a channel that is forgotten under a second superseding, is settled for any number of runs by
  the theorems `SupersededRunsStop` and `RunningRowsAreOwned`. The plans contain: origin actions, a
  leg to a station, a leg by coordinates, a GoToLocation without target, an edge action, a node
  without edge, a node on another map, no map id, a charging task, return to the counter, and a
  resend of an id. `MaxAttempts` = 3 is the code's own constant. `MaxCrashes` = 1: the restarted
  process starts from `Init` but for the tables, so a second crash repeats the first.
  `CrashOrCancel` splits the safety run into behaviours with a crash and behaviours with a
  `cancelOrder`: a crash ends every run with its channel, so the two meet only in the tables, which
  `engine_live` has with both. `TwoShortOrOne` splits the
  liveness run; only orders, requests and crashes, which need not happen, are cut off, so no fair
  action is ever disabled by it.
- Legs: two orders, for a leg left over from the one before and for a superseding one. One report
  waits, two in the calm world, which is enough to overtake a poll and to be handled after the next
  leg began. Legs out and back meet the station, the counter and the robot's own way back. Overlapping
  orders have one scenario with every command answered and one where commands fail and orders are
  cancelled too. A docked session begins with a delivery and docks after it, or the other way round.
- Manager: three sessions are the one of the last process or of start-up and two registrations over
  it; two records tell a changed one from an unchanged one; two admin requests give every pair of
  concurrent callers beside reaper and yaml; one edit and one end of the process suffice because
  both leave the manager where another could follow only from a state already reached. `Panic` is
  bounded by the sessions left to replace the broken one. `EditsOrRequests` separates edits and
  ends of the process from admin requests, since yaml and admin are the same caller to `Register`.
- Session: one break of the connection, two restarts of the robot. `parts` names whose goroutines
  get to run in a world; the parts interact only through `stop`, `robotUp` and `fresh`, so a world
  holds the connection with one other part, or the registration alone, and the WebSocket with a
  broker that keeps up.
- Maps: two actions, a change of the map by hand, and all queries these can cause. The pictures are
  6 by 4 with every choice of walls on the eight inner pixels inside three kinds of rim, with
  `MinCluster` = 3 for the code's 8, so that clusters below, at and above the limit, touching
  corners and gaps to be closed all occur; what the plan shows is proved for every size.
- `contended` marks that callers overlapped since the process started, `missed` that an edit fell
  between the first synchronisation and the watch. Properties that need quiet callers name them; the
  overlaps themselves stay in the model, and `MappedStarted` holds in all of them.
- `SYMMETRY` permutes runs, cancel ids, sessions, records and requests in safety runs only; nothing
  in a specification orders them.
- Deadlock checking is off: an engine with no orders left to accept rests, and so do a manager with
  no requests, a robot without orders and a stopped session.

### Fairness

Every wait in the code is a select with a timer, a sleep, or an HTTP call of a client with a
timeout, and the Go runtime schedules goroutines fairly, so a goroutine that can step does.

- `OrderEngine`: weak fairness of each run's step, each instant action's step and of `Restart`,
  which stands for the supervisor of the container. No order and no crash has to happen.
- `Navigation`: weak fairness of the robot's step, of a report being handled or lost, of the stop a
  `cancelOrder` has yet to post, of each run's step; strong fairness of the departure deadline, which is ready whenever the run is not inside a
  poll: the timer has fired for good, and a select takes one of the ready channels at random.
- `SessionManager`: weak fairness of every caller's step, of connecting, of a webhook in flight, of
  reaper, synchronisation, shutdown and restart; requests, edits, panics and ends of the process
  need not happen.
- `Session`: weak fairness of each goroutine, of `Stop` once it began, of the broker, and of the
  robot's reports while it is up and registered. A robot streams poses to a client that is not yet
  stopped; it need not go on streaming afterwards, so that `LoopEnds` does not rest on a last message.
  Nothing obliges the robot to go down or to come back.
- `MapActions`: requests end, if only by their timeout, and a robot loads a map it was told to load.

## Findings

- `order_handler.go:106`: `storeInsertOrder` reads `oh.rawOrder` after `HandleOrder` has released
  the lock. If the next order arrives first, the superseded order's row gets the other's message.
- `order_handler.go:902`, and in the same way `:888` and `:914`: a superseded run that settles clears
  the state of the run that replaced it. `FinishedOrderKept` asks only that the state is not empty while
  a finished order should be visible (`order_handler.go:883`): in the trace the first order failed, and
  its clearing three seconds later leaves the second, which finishes, with an empty state.
- `session.go:103`: `Stop` disconnects a client only if it calls itself connected (`mqtt_bridge.go:322`),
  so only if the connect goroutine has called `Connect` on it by then. Otherwise, whether the client is
  not made yet or is made and not told to connect, that goroutine connects it afterwards, and two
  clients of one robot live (`manager.go:39` says never). By `StaysDisconnected` a client that had
  begun to connect when `Stop` looked does not come back.
- `session.go:52`: a webhook, or the end of `Register` itself (`manager.go:46`), writes over the
  status `errored` before the reaper sees it; the session is not replaced (design document,
  section on crash isolation).
- `state_mapping.go:132`: "goto charging" sets `BatteryCharging`, so a docking counts as done while
  the robot still drives to the charger; the comment at `order_handler.go:577` speaks of contact.
- `instant_actions.go:399`: `getWaypoints` by `mapId` takes every map for the one that is loaded, and
  publishes that one's places under the id it was asked for.

Seen while reading, without a run of their own: the clean-up of an instant action (`instant_actions.go:95`)
also removes finished actions of the order, and setting up an order (`order_handler.go:832`) drops
the entries of running instant actions; the flow in the comment at `register.go:145` lists a
`stop_robot_core` that the code does not send; `mqtt_bridge.go:69` calls the will OFFLINE, it is
CONNECTIONBROKEN. An obstacle right after the departure, blocking at every poll for 30 s, makes the
departure timer count the leg as arrived on the road (`order_handler.go:512`). A `cancelOrder` closes
the channel first and posts its stop afterwards (`instant_actions.go:58-63`), so the stop may hit an
order that came in between, and its standby may end that order's leg. After a restart, a registration
or the reaper, with the robot on the charger, the next delivery is sent without leaving it first.

## Proofs

For the engine, for every set of runs, orders, nodes, edges, actions and instant actions and every number of
crashes, under `NoneAssumption`, `PlansAssumption` and `EngineAssumption`:

| Theorem | Says |
|---|---|
| `TypeCorrect` | `Spec => []TypeOK` |
| `NeverClosesTwice` | `Spec => []NoDoubleClose` |
| `SupersededRunsStop` | `Spec => []SupersededSignalled` |
| `RunningRowsAreOwned` | `Spec => []RunningRowOwned` |
| `QuiescentStateIsCleared` | `Spec => []QuiescentCleared` |
| `OneMoreLegAtMost` | `Spec => []OneLegAfterCancel` |
| `SettledActionsAreReported` | `Spec => []SettledActionRows` |
| `FinishedRunsWentThrough` | `Spec => []FinishedWentThroughOrder` |
| `EngineImplementsLedger` | `Spec => Ledger!Safe` |

For the manager, for every set of sessions, records, requests and every number of edits and ends of
the process, under `ManagerAssumption`:

| Theorem | Says |
|---|---|
| `ManagerTypes` | `Spec => []TypeOK` |
| `MappedSessionRuns` | `Spec => []MappedStarted` |
| `OneSessionAtATime` | `Spec => []NeverTwoSessions` |
| `RowAgreesWithMap` | `Spec => []RowAgrees` |
| `UneditedFileRuns` | `Spec => []YamlApplied` |

For legs and dockings, for any number of orders over any stations and in every set of scenarios,
under `PlacesAssumption` and `WorldsAssumption`:

| Theorem | Says |
|---|---|
| `NavigationTypes` | `Spec => []TypeOK` |
| `NoOrphanLegEver` | `Spec => []NoOrphanLeg` |
| `ArrivedAtGoalAlways` | `Spec => []ArrivedAtGoal` |
| `LeavesChargerFirstAlways` | `Spec => []LeavesChargerFirst` |
| `ChargingAgreesAlways` | `Spec => []ChargingAgrees` |
| `LegsKeepLedger` | `Spec => LegsAreStopped`, which is `Ledger!Safe` |

For a session, for every set of environments and every number of restarts and breaks, under
`SessionAssumption`:

| Theorem | Says |
|---|---|
| `SessionTypes` | `Spec => []TypeOK` |
| `LateCommandsAlways` | `Spec => []LateCommands` |
| `SocketClosedAlways` | `Spec => []SocketClosed` |
| `BridgeStaysDisconnected` | `Spec => []StaysDisconnected` |
| `OfflineStaysLast` | `Spec => []OfflineIsLast` |

For the map actions, for every finite set of actions, every set of maps and of scenarios, under
`ScenariosAssumption`:

| Theorem | Says |
|---|---|
| `MapActionTypes` | `Spec => []TypeOK` |
| `MapDataIsOfItsMap` | `Spec => []MapDataOfLabel` |
| `MapIDFollowsRobot` | `Spec => [](Undisturbed => MapIDAgrees)` |
| `ClustersGone` | `Spec => []SmallClustersGone` |
| `PlanIsTrue` | `Spec => []WallsTrue` |

For the floor plan, for pictures of every size, under `BeautifyAssumption`:

| Theorem | Says |
|---|---|
| `ClosingKeepsWalls` | a wall pixel off the rim survives the closing |
| `ClosingStaysNear` | what closing, removal and thickening draw is within two pixels of a wall |
| `ClosingIsIdempotent` | a closed mask is closed |
| `SmallClustersAreRemoved` | `RemoveSmallClusters` of a mask is the pixels whose component in it is large enough |
| `PlanShowsWalls` | every wall that is large enough and off the rim is on the plan, every wall on the plan is within two pixels of one |

The assumptions on the constants say what kind of thing each is, and these facts besides. `PlansAssumption`:
an order names no action by the id of an instant action, since VDA 5050 makes action ids unique; the
model keeps one status per id. `ManagerAssumption`: `None` and the states of a webhook without a
session are no sessions, records or arguments. `PlacesAssumption`: an order is a single docking, or
ends at the counter, where `executeOrder` returns the robot to. `ScenariosAssumption`: the actions are
finitely many, since the queries for the maps they load are counted by them.

### Engine

`TypeOK` is inductive because it carries, besides types, that a run which will read its node has an
index within its order. The others need more:

- *Channels.* `NoDoubleClose` needs that the channel the handler holds is open; that needs that
  every open channel is held by the handler, which is `SupersededSignalled`. Together
  (`ChannelInv`) they are inductive: the only steps that touch channels are `HandleOrder`,
  `InstantCancel` and `Crash`.
- *Rows.* `RunningRowOwned` is inductive once a process that is down has no live run (`DownInv`):
  a row becomes running only by `StoreInsertOrder`, which puts its run among the owing ones, and a
  run stops owing only in `StoreFinishOrder`, which records an outcome for that row.
- *State.* `QuiescentCleared` is not inductive: the state may be dirty while runs live. `ClearedInv`
  says that the state is clear or some live run has not yet cleared it; `ClearOrder` cleans whatever
  the other runs wrote, and a run that cleared has no state left to write.
- *Late legs.* `LateInv` follows a cancelled run by stage: one that can still reach a leg without a
  cancel check has begun none late; one that has begun one is in stages that end in a cancel check.
- *Action rows.* `SettledActionRows` says nothing while a run of the order is under way, and two
  runs of one id write the same rows. `RunningActionOwned` says that every RUNNING row is the action
  that some run of its order executes at this moment (`Executing`), and a run that executes owes its
  outcome. A run that stops executing has written its row in the same step.
- *The journey.* `JourneyInv` says where a run that is alone with the state stands: the pending nodes
  are among those it has not removed, the last node is the one it recorded last, in state and table,
  and every action behind it is reported, is the one it executes, or only moves the robot. When it
  completes it is past the last node, and nothing is left pending.
- *Ledger.* Every step maps to `Open`, `Close`, `Lose`, `Recover` or a stutter, under the step
  lemmas `RunStepOwing` and `RunStepFrame`.

### Manager

- *Mapped session.* `MappedStarted` alone is not inductive: a caller might still have to stop the
  session that is now in the map. `MapInv` adds that a session left the map before its caller stops it, that main
  stops sessions it left in the map only when the process is stopping, and that a session in the map
  has been created, so that a new one differs from all that wait to be stopped.
- *One session.* `SoloInv` is what holds while callers do not overlap: one is at work at most
  (`OneBusy`), the session it created is in the map and not started before the one it took out is
  stopped (`NewMapped`), a `Deregister` has emptied the map (`Emptied`), and every started session is
  in the map or is the one about to be stopped (`StartedHeld`).
- *Row.* `RowInv` says that the row is active exactly if there is a session, whenever nobody is
  between the swap and the last write (`RowSettled`), and that no webhook is in flight without a
  session (`NothingInFlight`): the step that would let one write over a row marked deleted is an
  overlap. `RowAtEnds` does the same for start-up and shutdown.
- *File.* `CacheInv` says what the loader's cache stands for at each stage of a synchronisation: the
  record of the session in the map, which the reaper registers again from the row without a change.
  `FileInv` adds that as long as the file was not touched since it was read, this is the record in
  the file. Both need that no row and no argument is the admin's (`NoAdminRow`).

### Legs

- *Types.* A report is posted although as many wait as may when a stop ends a movement. The bound is
  inductive since the robot moves again only when there is room: one more, never two.
- *Orphans.* `OwnedLeg`: a robot that is on a delivery or a way back has a run between its command and
  its stop, as long as nothing was left unstopped, or the robot and the network are reliable.
- *Arrival.* `ArrivedAtGoal` speaks of the end of a leg. `ArriveInv` speaks of a leg that is *apart*,
  has not reached its station and was not disturbed: the robot is where this leg sent it, no signal
  is set and no report of an arrival waits, a poll that saw a movement saw this one, and `departed`
  says that the robot is off, so no way out of the loop is open but the timer, which needs `held`. It
  rests on `PlaceInv`, where a robot can be, and on `ToldInv`:
  the last report that waits says what the robot's status is now, or else the bridge knows it.
- *Charger.* `Announced` says what the waiting reports will do to `BatteryCharging`: at most one of
  those that clear it waits, either when the flag is up and the robot has left, or, of a robot nobody
  knew to be on the charger, when it is down and nothing before raises it; those that set it are
  followed by one that clears it unless the robot is on the charger. `Undiscovered` says that before
  such a robot has moved nothing that clears waits. With one order at a time (`OneAtATime`) the flag is
  up, or a docking under way, whenever the robot is at the charger and the session knows of it
  (`AtCharger`), and no run that is about to send the robot off has it there (`ChargerInv`).

- *Ledger.* `RunStepLedger` maps each step of a run to a step of `LegLedger` or a stutter: `StartLeg` to
  `Begin`, a command to `SetOff`, the ends of a leg to `Settle`, or to `GiveUp` if the stop or the
  command was lost or the leg timed out, a stop or a docking outside a leg to `Rest` or `Neglect`. The
  robot's own steps only end a movement. The mapping needs that an order which has not arrived runs
  nothing (`UnsentAhead`). `Astray` is empty in a reliable world, so that there the theorem leaves no
  way out: `Reliable` excludes the lost request and the timeout.

### Session

- *Commands.* `LateInv`: a goroutine that sent a command after the stop is past it, and only waits
  that see the stop are left to it.
- *Socket.* `SocketInv`: the loop ends only for the stop, and after it has a connection, or dials,
  only if it dialled during it.
- *Broker.* `ClientInv` follows the client through nil, made, connecting, connected, reconnecting and
  closed: after `Stop` looked one is alive only if it began to connect later, nothing is retained before it first connects, and a will is due, or no ONLINE there, while it
  reconnects. `OfflineInv`: once OFFLINE was published, unless an ONLINE was under way just then,
  nothing that says ONLINE is on its way, in the loop, a callback or the kept messages.

### Map actions

- *Types.* That there are enough queries for all reports is a counting argument: each map is loaded by a
  start of the core, of which there is one by hand and one for each `switchMap` that came that far
  (`LoadsBound`, over the cardinality of a set).
- *Data.* `DataInv`: as long as `MapID` is right, an action that took its map for the loaded one was
  right, and what it fetched so far is of the map it was named; a change of the map in between ends
  `steady`.
- *MapID.* `MapIDKnown`: a robot that runs is on the map of `MapID`, or a report or a query of it is
  under way; a query that was answered knows the loaded map, as the prompt robot loads no other
  before it has ended (`AnswersTrue`); and `switchMap` has the core restarted on the map it will write
  (`SwitchInv`). `Undisturbed` is the part of `Spec` this is true of: the robot answers, obeys and is
  prompt, as `MapIDAgrees` itself asks, at most one action is a `switchMap`, of a map that is there,
  and no `initPosition` names a map. The code writes `MapID` in both whatever the robot has loaded:
  two `switchMap` that overlap may write in the order the robot did not load them, and `initPosition`
  writes a name nobody checked. The run `maps` keeps to this too, and has every kind of scenario
  the theorem is about.

### Floor plan

- *Morphology.* The kernel is symmetric, so that a dilated mask has a pixel of the mask within one of each
  of its own. A pixel whose kernel is in the picture has that kernel in the dilated mask, so eroding
  leaves it. A closed mask dilates into the dilated original, and lies off the rim.
- *Induction.* The scan and the search are recursive functions, and the library's induction theorems take
  an operator as a parameter, which the provers do not. `SmallestNumber`, from the well-founded order of
  the naturals, says that a set of numbers has a smallest one; `Induction` over a set instead of an
  operator follows from it, and so does `LargestSet`, a largest one among subsets of a finite set. A
  recursive function is some function that satisfies its equation: that one exists is proved first
  (`FloodIsLeast`, `UnfoldingExists`), since otherwise nothing is known of it.
- *The search.* `FloodIsLeast`: what it finds is the least set of pixels that contains the first one and
  nothing available touches from outside. A largest set for which this failed would still grow, and the
  grown one would fail too. So components partition a mask, because the kernel is symmetric.
- *The scan.* `ScanInv`: after k pixels the visited ones are the components one of the k belongs to, and
  the mask lacks the visited components that are too small. `FloodFindsComponent` is why this is kept:
  what was cleared or visited are whole components, so the search in the half-cleared mask finds the
  component of the mask the scan was given. `ScanReaches`: the scan visits every pixel.
- *The plan.* What closing keeps of the inner walls has components at least as large (`ComponentsGrow`);
  thickening only adds. `PlanInv` says that what the platform is given is the plan of the picture of the
  scenario, or none. `ClustersGone` holds of every mask, in every state; `PlanIsTrue` is about what was uploaded.

### Only model-checked

- Liveness, and with it the fairness of the ledger: `RunsSettle`, `InstantStatesDrain`, `LedgerSpec`
  beyond its safety part, `PollsSuffice`, `ActionsDrain` and the liveness properties of `Session`. They
  need ENABLED.
- The properties of the six runs that are violated, which no theorem could state.

## Not modelled

- TTS client: best effort calls; a voice action is an action of the engine that may fail.
- Composition of messages, factsheet, configuration, geometry, command line tools: formatting,
  defaults and floating point numbers, no protocol. The robot's own server is another program.
- Of the MQTT bridge the visualization loop, of the session the map list loop and `statusLoop`: they
  copy or log what is there, and no other part reads it.
- Of the map service the map list; of the floor plan decoding, the PGM fallback, encoding and the
  scale bar; of the registration the setting `LASTMAP_NAME` and how the address of the webhook is found.
- Of the robot state pose, battery level and lidar, which are copied.
- Of the HTTP API the handlers that only read.
- SQL errors; a crash in the middle of a statement is left to SQLite's atomicity.
