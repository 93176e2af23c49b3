----------------------------- MODULE Navigation -----------------------------
(***************************************************************************)
(* Legs and dockings of one robot: ensureNotCharging, sendDeliveryWith-    *)
(* Retry, waitForNavigation, actionStartCharging and cancelRobotNav        *)
(* (order_handler.go) against the robot, with the two ways the bridge      *)
(* learns where the robot is: status reports the robot posts to the        *)
(* webhook (ApplyWebhookData, state_mapping.go) and the routing status it  *)
(* polls.  OrderEngine has only the outcome of a leg; here is how the      *)
(* outcome is found.                                                       *)
(*                                                                         *)
(* An order is a run, numbered in the order of arrival, with a list of     *)
(* places to go: stations and last the counter, or the dock.  The robot    *)
(* and the network are the environment.  What they may do in a behaviour   *)
(* is its world, fixed at the start, so that a property can name what it   *)
(* assumes of them.                                                        *)
(*                                                                         *)
(* A behaviour begins when the session is made (a start of the process, a  *)
(* registration, the reaper), with a robot that stands still: at the       *)
(* counter, or on the charger of an earlier session.                       *)
(***************************************************************************)
EXTENDS Naturals, Sequences

CONSTANTS
  MaxRuns,     \* how many orders arrive
  Stations,    \* named stations of the map
  Counter,     \* the station every delivery order returns to
  Dock,        \* the charging station
  Road,        \* anywhere else
  Scenarios    \* the environments considered, each with the orders that arrive in it

Places == Stations \cup {Counter, Dock}
Runs == 1 .. MaxRuns
Last(s) == s[Len(s)]
MaxAttempts == 3    \* sendDeliveryWithRetry

ASSUME PlacesAssumption ==
  /\ MaxRuns \in Nat \ {0}
  /\ Road \notin Places /\ Dock \notin Stations \cup {Counter}
  /\ \A s \in Scenarios :
       /\ s.plan \in [Runs -> Seq(Places) \ {<<>>}]
       /\ \A r \in Runs : s.plan[r] = <<Dock>> \/ Last(s.plan[r]) = Counter

(* prompt: a report is there within a second.  lossy: reports get lost.    *)
(* answering: commands and polls get through.  obeying: the robot does as  *)
(* told, leaves within 30 s and arrives within five minutes.  overlap: an  *)
(* order may arrive while another runs.  cancels: an order may be          *)
(* cancelled.  obstacles: the robot may have to stop on its way.  docked:  *)
(* the session begins with the robot on the charger.  waiting: how many    *)
(* reports may wait before the robot goes on.                              *)
ASSUME WorldsAssumption ==
  \A s \in Scenarios :
    s.world \in [prompt : BOOLEAN, lossy : BOOLEAN, answering : BOOLEAN, obeying : BOOLEAN,
                 overlap : BOOLEAN, cancels : BOOLEAN, obstacles : BOOLEAN, docked : BOOLEAN,
                 waiting : Nat \ {0}]

VARIABLES
  world,      \* what the environment may do
  plan,       \* plan[r]: the places the order of run r goes to
  robot,      \* the robot: where it is, its task and its goal, its routing status
  reports,    \* reports posted and not yet handled, oldest first
  view,       \* Status, Driving and BatteryCharging of RobotState
  signal,     \* NavArrivedCh holds a signal
  newest,     \* the run started last, 0 before the first
  closed,     \* runs whose cancel channel is closed
  stopping,   \* a cancelOrder has yet to post its stop
  pc,         \* where each run is
  leg,        \* index into plan[r]
  attempt,    \* attempt of sendDeliveryWithRetry
  departed,   \* departed of waitForNavigation
  seen,       \* the snapshot a poll started with
  reached,    \* history: the robot was at the goal during this leg
  disturbed,  \* history: a leg or a command of another run, or the stop of a
              \* cancelOrder, fell into this leg
  held,       \* history: the robot was blocked on this leg before it was known to
              \* have departed
  unseen,     \* history: the robot is on the charger since before the session
  unstopped   \* history: a leg was given up, or a request lost, without a stop

vars == <<world, plan, robot, reports, view, signal, newest, closed, stopping, pc, leg,
          attempt, departed, seen, reached, disturbed, held, unseen, unstopped>>
environment == <<world, plan>>
channels == <<newest, closed, stopping>>
noted == <<held, unseen>>
locals == <<leg, attempt, departed, seen>>
-----------------------------------------------------------------------------
(* "empty" is the empty string: a report without a status, a state before  *)
(* the first report, a poll that got no answer.                            *)
Statuses == {"map_loaded", "standby", "delivering", "blocking", "arrived", "return",
             "goto charging"}
Underway == {"delivering", "blocking", "return", "goto charging"}
Report ==
  [status : Statuses \cup {"empty"}, event : {"none", "empty", "show_charging", "remove_charging"}]
Snapshots == [status : Statuses \cup {"empty"}, driving : BOOLEAN]

Goal(r) == plan[r][leg[r]]
Charging(r) == plan[r][1] = Dock

Init ==
  /\ \E s \in Scenarios : world = s.world /\ plan = s.plan
  /\ robot = [at |-> IF world.docked THEN Dock ELSE Counter, task |-> "none", goal |-> Counter,
              status |-> IF world.docked THEN "standby" ELSE "map_loaded"]
  /\ reports = <<>>
  /\ view = [status |-> "empty", driving |-> FALSE, charging |-> FALSE]
  /\ signal = FALSE
  /\ newest = 0
  /\ closed = {}
  /\ stopping = FALSE
  /\ pc = [r \in Runs |-> "unsent"]
  /\ leg = [r \in Runs |-> 1]
  /\ attempt = [r \in Runs |-> 1]
  /\ departed = [r \in Runs |-> FALSE]
  /\ seen = [r \in Runs |-> [status |-> "empty", driving |-> FALSE]]
  /\ reached = [r \in Runs |-> FALSE]
  /\ disturbed = [r \in Runs |-> FALSE]
  /\ held = [r \in Runs |-> FALSE]
  /\ unseen = world.docked
  /\ unstopped = FALSE
-----------------------------------------------------------------------------
(* The robot (external).  A change of its routing status, and contact with *)
(* the charging pins, is posted as a report.                               *)
Post(status, event) == reports' = Append(reports, [status |-> status, event |-> event])

OnLeg(r) == pc[r] \in {"send", "check", "enter", "wait", "polling", "docking"}

(* The robot is now at place p: legs that go there have been there. *)
MoveTo(p, status, task) ==
  /\ robot' = [robot EXCEPT !.at = p, !.status = status, !.task = task]
  /\ reached' = [r \in Runs |-> reached[r] \/ (OnLeg(r) /\ p = Goal(r))]

RobotMay == Len(reports) < world.waiting

RobotDepart ==
  /\ robot.task = "deliver" /\ robot.at # robot.goal
  /\ robot.status \notin {"delivering", "blocking"}
  /\ MoveTo(Road, "delivering", "deliver")
  /\ Post("delivering", IF robot.at = Dock THEN "remove_charging" ELSE "none")

RobotArrive ==
  /\ robot.task = "deliver" /\ robot.status = "delivering"
  /\ MoveTo(robot.goal, "arrived", "none")
  /\ Post("arrived", "none")

(* A delivery to where the robot stands changes nothing it reports. *)
RobotIsThere ==
  /\ robot.task = "deliver" /\ robot.at = robot.goal
  /\ robot' = [robot EXCEPT !.task = "none"]
  /\ UNCHANGED <<reports, reached>>

RobotBlocked ==
  /\ world.obstacles
  /\ robot.status = "delivering"
  /\ MoveTo(Road, "blocking", robot.task)
  /\ Post("blocking", "none")

RobotGoesOn ==
  /\ robot.status = "blocking"
  /\ MoveTo(Road, "delivering", robot.task)
  /\ Post("delivering", "none")

(* After a delivery the robot returns to its origin unless it is stopped. *)
RobotReturn ==
  /\ robot.task = "none" /\ robot.status = "arrived" /\ robot.at # Counter
  /\ MoveTo(Road, "return", "none")
  /\ Post("return", "none")

RobotIsBack ==
  /\ robot.task = "none" /\ robot.status = "return"
  /\ MoveTo(Counter, "standby", "none")
  /\ Post("standby", "none")

RobotGotoCharge ==
  /\ robot.task = "dock" /\ robot.at # Dock /\ robot.status # "goto charging"
  /\ MoveTo(Road, "goto charging", "dock")
  /\ Post("goto charging", "none")

RobotDocks ==
  /\ robot.task = "dock" /\ robot.status = "goto charging"
  /\ MoveTo(Dock, "standby", "none")
  /\ Post("empty", "show_charging")

RobotUndocks ==
  /\ robot.task = "leave"
  /\ MoveTo(Road, "standby", "none")
  /\ Post("empty", "remove_charging")

RobotGivesUp ==
  /\ ~world.obeying
  /\ robot.status \in Underway
  /\ MoveTo(robot.at, "standby", "none")
  /\ Post("standby", "none")

RobotStep ==
  /\ RobotMay
  /\ \/ RobotDepart \/ RobotArrive \/ RobotIsThere \/ RobotBlocked \/ RobotGoesOn
     \/ RobotReturn \/ RobotIsBack \/ RobotGotoCharge \/ RobotDocks \/ RobotUndocks
     \/ RobotGivesUp
  /\ held' = [r \in Runs |->
                held[r] \/ (OnLeg(r) /\ ~departed[r] /\ robot'.status = "blocking")]
  /\ unseen' = (unseen /\ robot'.at = Dock)
  /\ UNCHANGED <<environment, view, signal, channels, pc, locals, disturbed, unstopped>>
-----------------------------------------------------------------------------
(* The webhook: ApplyWebhookData under the lock of the state, with         *)
(* applyDrivingState.  A report without a status leaves Status and Driving *)
(* alone; an event that is there and empty says that nothing charges.      *)
DrivingAfter(status) ==
  CASE status \in {"delivering", "return", "rerouting", "goto charging"} -> TRUE
    [] status \in {"standby", "waiting", "arrived", "none", "blocking"} -> FALSE
    [] OTHER -> view.driving

(* Seeded bug: remove_charging is not looked at. *)
ChargingAfterNoRemoval(report) ==
  view.charging \/ report.event = "show_charging" \/ report.status = "goto charging"

ChargingAfter(report) ==
  CASE report.event = "show_charging" -> TRUE
    [] report.event \in {"remove_charging", "empty"} -> FALSE
    [] OTHER -> view.charging \/ report.status = "goto charging"

ApplyWebhookData(report) ==
  /\ view' = [status   |-> IF report.status = "empty" THEN view.status ELSE report.status,
              driving  |-> DrivingAfter(report.status),
              charging |-> ChargingAfter(report)]
  /\ signal' = (signal \/ report.status \in {"arrived", "standby"})

ReceiveReport ==
  /\ reports # <<>>
  /\ ApplyWebhookData(Head(reports))
  /\ reports' = Tail(reports)
  /\ UNCHANGED <<environment, robot, channels, pc, locals, reached, disturbed, noted,
                 unstopped>>

LoseReport ==
  /\ world.lossy
  /\ reports # <<>>
  /\ reports' = Tail(reports)
  /\ UNCHANGED <<environment, robot, view, signal, channels, pc, locals, reached, disturbed,
                 noted, unstopped>>
-----------------------------------------------------------------------------
(* Commands.  A request that fails may have had its effect all the same;   *)
(* a robot that does not obey may answer 200 and do nothing.               *)
Requests == IF world.answering THEN {TRUE} ELSE BOOLEAN
Effects(ok) == IF ok /\ world.obeying THEN {TRUE} ELSE BOOLEAN

Commanded(task, goal) == [robot EXCEPT !.task = task, !.goal = goal]

Stopped ==
  [robot EXCEPT !.task = "none",
                !.status = IF @ \in Underway \cup {"arrived"} THEN "standby" ELSE @]

(* A command of run r reaches into the legs of the others. *)
Disturb(r) ==
  disturbed' = [q \in Runs |-> disturbed[q] \/ (OnLeg(q) /\ q # r)]

(* The robot comes to rest, and reports it if it was on its way. *)
StopRobot ==
  /\ robot' = Stopped
  /\ IF robot.status = Stopped.status THEN UNCHANGED reports ELSE Post("standby", "none")

(* cancelRobotNav: nobody looks at the answer. *)
CancelRobotNav(r) ==
  /\ Disturb(r)
  /\ \E ok \in Requests : \E effect \in Effects(ok) :
       /\ IF effect THEN StopRobot ELSE UNCHANGED <<robot, reports>>
       /\ unstopped' = (unstopped \/ ~effect)

Goto(r, label) == pc' = [pc EXCEPT ![r] = label]
-----------------------------------------------------------------------------
(* HandleOrder: the older run is told to stop, nobody waits for it.        *)
(* Orders that do not charge first leave the charger.                      *)
Idle(r) == pc[r] \in {"unsent", "over"}

(* Seeded bug: the leave is posted and nobody waits for the robot. *)
EnsureNotChargingNoWait(r) ==
  /\ Disturb(r)
  /\ \E ok \in Requests : \E effect \in Effects(ok) :
       robot' = IF effect /\ view.charging /\ robot.at = Dock
                THEN Commanded("leave", Dock) ELSE robot
  /\ Goto(r, "next")

EnsureNotCharging(r) ==
  IF Charging(r) \/ ~view.charging
  THEN Goto(r, "next") /\ UNCHANGED <<robot, disturbed>>
  ELSE Disturb(r) /\ \E ok \in Requests : \E effect \in Effects(ok) :
         /\ robot' = IF effect /\ robot.at = Dock THEN Commanded("leave", Dock) ELSE robot
         /\ Goto(r, IF ok THEN "leaving" ELSE "ending")

HandleOrder(r) ==
  /\ r = newest + 1
  /\ world.overlap \/ \A q \in Runs : Idle(q)
  /\ newest' = r
  /\ closed' = closed \cup ({newest} \cap Runs)
  /\ EnsureNotCharging(r)
  /\ UNCHANGED <<environment, reports, view, signal, stopping, locals, reached, noted,
                 unstopped>>

(* The instant action cancelOrder: the channel is closed if there is an    *)
(* order, ...                                                              *)
CancelCurrentOrder ==
  /\ world.cancels /\ ~stopping
  /\ closed' = closed \cup ({newest} \cap Runs)
  /\ stopping' = TRUE
  /\ UNCHANGED <<environment, robot, reports, view, signal, newest, pc, locals, reached,
                 disturbed, noted, unstopped>>

(* ... and then the robot is told to stop, whoever drives it by then. *)
PostStop ==
  /\ stopping
  /\ stopping' = FALSE
  /\ \E ok \in Requests : \E effect \in Effects(ok) :
       IF effect THEN StopRobot ELSE UNCHANGED <<robot, reports>>
  /\ disturbed' = [r \in Runs |-> disturbed[r] \/ OnLeg(r)]
  /\ UNCHANGED <<environment, view, signal, newest, closed, pc, locals, reached, noted,
                 unstopped>>

(* The rest of ensureNotCharging: the flag is polled every two seconds for *)
(* a minute; once it is down the robot gets five seconds.                  *)
LeftCharger(r) ==
  /\ pc[r] = "leaving"
  /\ ~view.charging
  /\ Goto(r, "stabilizing")

Stabilized(r) ==
  /\ pc[r] = "stabilizing"
  /\ Goto(r, "next")

LeaveFails(r) ==
  /\ \/ pc[r] = "leaving"
     \/ pc[r] = "stabilizing" /\ r \in closed
  /\ Goto(r, "ending")

LeaveStep(r) ==
  /\ LeftCharger(r) \/ Stabilized(r) \/ LeaveFails(r)
  /\ UNCHANGED <<environment, robot, reports, view, signal, channels, locals, reached,
                 disturbed, noted, unstopped>>
-----------------------------------------------------------------------------
(* executeOrder between two legs: a cancelled order stops the robot and is *)
(* cleared at once.                                                        *)
OrderCancelled(r) ==
  /\ pc[r] = "next" /\ r \in closed /\ ~Charging(r)
  /\ CancelRobotNav(r)
  /\ view' = [view EXCEPT !.driving = FALSE]
  /\ Goto(r, "over")
  /\ UNCHANGED <<environment, signal, channels, locals, reached, noted>>

StartLeg(r) ==
  /\ pc[r] = "next" /\ r \notin closed /\ Goal(r) # Dock
  /\ view' = [view EXCEPT !.driving = TRUE]
  /\ attempt' = [attempt EXCEPT ![r] = 1]
  /\ reached' = [reached EXCEPT ![r] = (robot.at = Goal(r))]
  /\ disturbed' = [disturbed EXCEPT ![r] = \E q \in Runs \ {r} : OnLeg(q) \/ pc[q] = "arrived"]
  /\ held' = [held EXCEPT ![r] = FALSE]
  /\ Goto(r, "send")
  /\ UNCHANGED <<environment, robot, reports, signal, channels, leg, departed, seen, unseen,
                 unstopped>>

(* A leg is given up.  Only navigateToStation, the way back to the counter, *)
(* takes Driving back at once; other legs leave it to ClearOrder.          *)
GiveUpLeg(r) ==
  /\ view' = [view EXCEPT !.driving = @ /\ Goal(r) # Counter]
  /\ Goto(r, "ending")

(* sendDeliveryWithRetry: the command, ... *)
SendDelivery(r) ==
  /\ pc[r] = "send"
  /\ Disturb(r)
  /\ \E ok \in Requests : \E effect \in Effects(ok) :
       /\ robot' = IF effect THEN Commanded("deliver", Goal(r)) ELSE robot
       /\ unstopped' = (unstopped \/ ~ok)
       /\ IF ok THEN Goto(r, "check") /\ UNCHANGED view ELSE GiveUpLeg(r)
  /\ UNCHANGED <<environment, reports, signal, channels, locals, reached, noted>>

Polled == {robot.status} \cup (IF world.answering THEN {} ELSE {"empty"})
Active == {"delivering", "rerouting", "backward"}
ReportsHandled == world.prompt => reports = <<>>

(* Seeded bug: the attempts are not limited. *)
CheckDeliveryUnlimited(r) ==
  /\ pc[r] = "check"
  /\ ReportsHandled
  /\ \E polled \in Polled :
       IF polled \in Active
       THEN Goto(r, "enter") /\ UNCHANGED attempt
       ELSE Goto(r, "send") /\ attempt' = [attempt EXCEPT ![r] = @ + 1]
  /\ UNCHANGED <<environment, robot, reports, view, signal, channels, leg, departed, seen,
                 reached, disturbed, noted, unstopped>>

(* ... and three seconds later the status.  The third attempt counts       *)
(* whatever it is.  The robot of this model says delivering where a real   *)
(* one may say rerouting, and does not drive backward.                     *)
CheckDelivery(r) ==
  /\ pc[r] = "check"
  /\ ReportsHandled
  /\ \E polled \in Polled :
       IF polled \in Active \/ attempt[r] = MaxAttempts
       THEN Goto(r, "enter") /\ UNCHANGED attempt
       ELSE Goto(r, "send") /\ attempt' = [attempt EXCEPT ![r] = @ + 1]
  /\ UNCHANGED <<environment, robot, reports, view, signal, channels, leg, departed, seen,
                 reached, disturbed, noted, unstopped>>
-----------------------------------------------------------------------------
(* Seeded bug: a robot that was sent off counts as departed. *)
EnterWaitDeparted(r) ==
  /\ pc[r] = "enter"
  /\ signal' = FALSE
  /\ departed' = [departed EXCEPT ![r] = TRUE]
  /\ Goto(r, "wait")
  /\ UNCHANGED <<environment, robot, reports, view, channels, leg, attempt, seen, reached,
                 disturbed, noted, unstopped>>

(* waitForNavigation.  Old signals are drained; a robot that was last      *)
(* reported on its way has departed.                                       *)
EnterWait(r) ==
  /\ pc[r] = "enter"
  /\ signal' = FALSE
  /\ departed' = [departed EXCEPT ![r] = view.status \in {"delivering", "rerouting", "return"}]
  /\ Goto(r, "wait")
  /\ UNCHANGED <<environment, robot, reports, view, channels, leg, attempt, seen, reached,
                 disturbed, noted, unstopped>>

(* Seeded bug: the stop is left to whoever cancelled the order. *)
WaitCancelledSilently(r) ==
  /\ pc[r] = "wait" /\ r \in closed
  /\ GiveUpLeg(r)
  /\ UNCHANGED <<environment, robot, reports, signal, channels, locals, reached, disturbed,
                 noted, unstopped>>

WaitCancelled(r) ==
  /\ pc[r] = "wait" /\ r \in closed
  /\ CancelRobotNav(r)
  /\ GiveUpLeg(r)
  /\ UNCHANGED <<environment, signal, channels, locals, reached, noted>>

(* Five minutes: the order fails, the robot is not told. *)
WaitTimeout(r) ==
  /\ pc[r] = "wait" /\ ~world.obeying
  /\ unstopped' = TRUE
  /\ GiveUpLeg(r)
  /\ UNCHANGED <<environment, robot, reports, signal, channels, locals, reached, disturbed,
                 noted>>

WaitSignal(r) ==
  /\ pc[r] = "wait" /\ signal
  /\ signal' = FALSE
  /\ Goto(r, IF departed[r] THEN "arrived" ELSE "wait")
  /\ UNCHANGED <<environment, robot, reports, view, channels, locals, reached, disturbed,
                 noted, unstopped>>

(* What is assumed about the time: a robot that is told to leave does so,  *)
(* and is polled, within the 30 s, unless something blocked it before it   *)
(* was known to have departed.                                             *)
LeavesInTime(r) ==
  world.obeying /\ world.answering /\ robot.task = "deliver" /\ robot.at # robot.goal => held[r]

(* No departure seen in 30 s: the robot is taken to be there. *)
DepartureDeadline(r) ==
  /\ pc[r] = "wait" /\ ~departed[r]
  /\ LeavesInTime(r)
  /\ Goto(r, "arrived")
  /\ UNCHANGED <<environment, robot, reports, view, signal, channels, locals, reached,
                 disturbed, noted, unstopped>>

(* A tick reads the state, then asks the robot. *)
PollTick(r) ==
  /\ pc[r] = "wait"
  /\ ReportsHandled
  /\ seen' = [seen EXCEPT ![r] = [status |-> view.status, driving |-> view.driving]]
  /\ Goto(r, "polling")
  /\ UNCHANGED <<environment, robot, reports, view, signal, channels, leg, attempt,
                 departed, reached, disturbed, noted, unstopped>>

LooksDeparted(snap, polled) ==
  \/ snap.status \in {"delivering", "rerouting", "return"}
  \/ snap.driving /\ polled \notin {"map_loaded", "standby"}
  \/ polled \in {"delivering", "rerouting"}

(* Seeded bug: only the reports are believed. *)
LooksArrivedByReport(snap, polled) ==
  snap.status = "arrived" \/ (snap.status = "standby" /\ ~snap.driving)

LooksArrived(snap, polled) ==
  \/ snap.status = "arrived"
  \/ snap.status = "standby" /\ ~snap.driving
  \/ polled \in {"arrived", "standby"}

PollAnswer(r) ==
  /\ pc[r] = "polling"
  /\ \E polled \in Polled :
       IF departed[r]
       THEN /\ Goto(r, IF LooksArrived(seen[r], polled) THEN "arrived" ELSE "wait")
            /\ UNCHANGED <<departed, signal>>
       ELSE /\ departed' = [departed EXCEPT ![r] = LooksDeparted(seen[r], polled)]
            /\ signal' = (signal /\ ~departed'[r])
            /\ Goto(r, "wait")
  /\ seen' = [seen EXCEPT ![r] = [status |-> "empty", driving |-> FALSE]]
  /\ UNCHANGED <<environment, robot, reports, view, channels, leg, attempt, reached,
                 disturbed, noted, unstopped>>

(* Seeded bug: the robot is not stopped when it is there. *)
EndLegWithoutStop(r) ==
  /\ pc[r] = "arrived"
  /\ view' = [view EXCEPT !.driving = FALSE]
  /\ departed' = [departed EXCEPT ![r] = FALSE]
  /\ reached' = [reached EXCEPT ![r] = FALSE]
  /\ held' = [held EXCEPT ![r] = FALSE]
  /\ IF leg[r] = Len(plan[r])
     THEN Goto(r, "ending") /\ UNCHANGED leg
     ELSE Goto(r, "next") /\ leg' = [leg EXCEPT ![r] = @ + 1]
  /\ UNCHANGED <<environment, robot, reports, signal, channels, attempt, seen, disturbed,
                 unseen, unstopped>>

(* The leg is over: the robot is stopped lest it returns by itself. *)
EndLeg(r) ==
  /\ pc[r] = "arrived"
  /\ CancelRobotNav(r)
  /\ view' = [view EXCEPT !.driving = FALSE]
  /\ departed' = [departed EXCEPT ![r] = FALSE]
  /\ reached' = [reached EXCEPT ![r] = FALSE]
  /\ held' = [held EXCEPT ![r] = FALSE]
  /\ IF leg[r] = Len(plan[r])
     THEN Goto(r, "ending") /\ UNCHANGED leg
     ELSE Goto(r, "next") /\ leg' = [leg EXCEPT ![r] = @ + 1]
  /\ UNCHANGED <<environment, signal, channels, attempt, seen, unseen>>

LegStep(r) ==
  \/ OrderCancelled(r) \/ StartLeg(r) \/ SendDelivery(r) \/ CheckDelivery(r) \/ EnterWait(r)
  \/ WaitCancelled(r) \/ WaitTimeout(r) \/ WaitSignal(r) \/ DepartureDeadline(r)
  \/ PollTick(r) \/ PollAnswer(r) \/ EndLeg(r)
-----------------------------------------------------------------------------
(* actionStartCharging.  A robot known to charge is left alone; otherwise  *)
(* the flag is polled every two seconds for five minutes.                  *)
GotoCharging(r) ==
  /\ pc[r] = "next" /\ Charging(r)
  /\ reached' = [reached EXCEPT ![r] = (robot.at = Dock)]
  /\ \/ /\ r \in closed
        /\ Goto(r, "ending")
        /\ UNCHANGED <<robot, disturbed, unstopped>>
     \/ /\ r \notin closed /\ view.charging
        /\ Goto(r, "charged")
        /\ UNCHANGED <<robot, disturbed, unstopped>>
     \/ /\ r \notin closed /\ ~view.charging
        /\ Disturb(r)
        /\ \E ok \in Requests : \E effect \in Effects(ok) :
             /\ robot' = IF effect /\ robot.at # Dock THEN Commanded("dock", Dock) ELSE robot
             /\ unstopped' = (unstopped \/ ~ok)
             /\ Goto(r, IF ok THEN "docking" ELSE "ending")
  /\ UNCHANGED <<environment, reports, view, signal, channels, locals, noted>>

ChargingSeen(r) ==
  /\ pc[r] = "docking"
  /\ view.charging
  /\ Goto(r, "charged")
  /\ UNCHANGED <<environment, robot, reports, view, signal, channels, locals, reached,
                 disturbed, noted, unstopped>>

(* Cancelled or timed out: the robot is not told.  A robot that is on the  *)
(* charger already does not report it again.                               *)
DockingFails(r) ==
  /\ pc[r] = "docking"
  /\ r \in closed \/ ~world.obeying \/ world.lossy \/ unseen
  /\ unstopped' = TRUE
  /\ Goto(r, "ending")
  /\ UNCHANGED <<environment, robot, reports, view, signal, channels, locals, reached,
                 disturbed, noted>>

EndDocking(r) ==
  /\ pc[r] = "charged"
  /\ Goto(r, "ending")
  /\ UNCHANGED <<environment, robot, reports, view, signal, channels, locals, reached,
                 disturbed, noted, unstopped>>

DockStep(r) == GotoCharging(r) \/ ChargingSeen(r) \/ DockingFails(r) \/ EndDocking(r)

(* finishOrder and failOrder: ClearOrder three seconds later, also when a  *)
(* newer run drives by then.                                               *)
ClearOrder(r) ==
  /\ pc[r] = "ending"
  /\ view' = [view EXCEPT !.driving = FALSE]
  /\ Goto(r, "over")
  /\ reached' = [reached EXCEPT ![r] = FALSE]
  /\ held' = [held EXCEPT ![r] = FALSE]
  /\ disturbed' = [disturbed EXCEPT ![r] = FALSE]
  /\ departed' = [departed EXCEPT ![r] = FALSE]
  /\ UNCHANGED <<environment, robot, reports, signal, channels, leg, attempt, seen, unseen,
                 unstopped>>

RunStep(r) == LeaveStep(r) \/ LegStep(r) \/ DockStep(r) \/ ClearOrder(r)

Next ==
  \/ RobotStep \/ ReceiveReport \/ LoseReport \/ CancelCurrentOrder \/ PostStop
  \/ \E r \in Runs : HandleOrder(r) \/ RunStep(r)

Spec == Init /\ [][Next]_vars

(* What the goroutines and the environment keep doing: the robot goes on   *)
(* with its task, reports are handled or lost, goroutines that can go on   *)
(* do.  The departure timer has fired while a poll runs and select takes   *)
(* one of what is ready at random: it is not passed over for ever.         *)
Fairness ==
  /\ WF_vars(RobotStep)
  /\ WF_vars(ReceiveReport \/ LoseReport)
  /\ WF_vars(PostStop)
  /\ \A r \in Runs : WF_vars(RunStep(r)) /\ SF_vars(DepartureDeadline(r))

FairSpec == Spec /\ Fairness
-----------------------------------------------------------------------------
TypeOK ==
  /\ \E s \in Scenarios : world = s.world /\ plan = s.plan
  /\ robot \in [at : Places \cup {Road}, task : {"none", "deliver", "dock", "leave"},
                goal : Places, status : Statuses]
  /\ reports \in Seq(Report) /\ Len(reports) <= world.waiting + MaxRuns
  /\ view \in [status : Statuses \cup {"empty"}, driving : BOOLEAN, charging : BOOLEAN]
  /\ signal \in BOOLEAN /\ stopping \in BOOLEAN /\ unseen \in BOOLEAN /\ unstopped \in BOOLEAN
  /\ newest \in 0 .. MaxRuns
  /\ closed \subseteq Runs
  /\ pc \in [Runs -> {"unsent", "leaving", "stabilizing", "next", "send", "check", "enter",
                      "wait", "polling", "arrived", "docking", "charged", "ending", "over"}]
  /\ \A r \in Runs : leg[r] \in 1 .. Len(plan[r]) /\ attempt[r] \in 1 .. MaxAttempts
  /\ departed \in [Runs -> BOOLEAN] /\ reached \in [Runs -> BOOLEAN]
  /\ disturbed \in [Runs -> BOOLEAN] /\ held \in [Runs -> BOOLEAN]
  /\ seen \in [Runs -> Snapshots]

(* A leg that is counted as arrived went to its station: old arrival       *)
(* signals, reports of the leg before, the robot's own return and the 30 s *)
(* timer never end a leg early, as long as reports are there within the    *)
(* second and the robot does as told.  Two things can: what others do to   *)
(* the robot during this leg (another order's leg or command, the stop of  *)
(* a cancelOrder), and the timer, when an obstacle held the robot before   *)
(* it was known to have departed.                                          *)
Reliable == world.prompt /\ world.answering /\ world.obeying /\ ~world.lossy
EndedByTimer(r) == ~departed[r]
ArrivedAtGoal ==
  Reliable => \A r \in Runs :
    pc[r] = "arrived" => reached[r] \/ disturbed[r] \/ (held[r] /\ EndedByTimer(r))

(* When no order is left the robot is on no delivery and no way back,      *)
(* whatever was lost, cancelled, superseded or repeated, unless a leg      *)
(* timed out or a request failed and nobody stopped it.                    *)
NoOrphanLeg ==
  (newest > 0 /\ \A r \in Runs : Idle(r)) /\ ~unstopped =>
     robot.task # "deliver" /\ robot.status \notin {"delivering", "blocking", "return"}

Calm == Reliable /\ ~world.overlap /\ ~world.cancels

(* A delivery is not sent to a robot on the charger, except to one that    *)
(* has been there since before the session: a new RobotState says that     *)
(* nothing charges, and the robot does not repeat that it does.            *)
LeavesChargerFirst ==
  Calm /\ ~unseen => \A r \in Runs : pc[r] = "send" => robot.at # Dock

(* Between orders, when everything is handled, BatteryCharging says        *)
(* whether the robot is on the charger, with the same exception; once such *)
(* a robot has left the charger they agree again.                          *)
ChargingAgrees ==
  Calm /\ ~unseen /\ reports = <<>> /\ robot.task = "none" /\ (\A r \in Runs : Idle(r)) =>
     (view.charging <=> robot.at = Dock)

(* Without any webhook report the status polls still bring every leg of a  *)
(* robot that arrives to its end, and the five minutes are not needed.     *)
PollsSuffice ==
  \A r \in Runs :
    (world.answering /\ world.obeying /\ ~world.overlap /\ ~world.cancels /\ ~world.obstacles
       /\ pc[r] = "wait")
      ~> pc[r] = "arrived"

(* Who owes the robot a stop.  A robot that has arrived returns by itself  *)
(* unless it is stopped.  Where all is reliable it is never left to itself *)
(* on a leg: what unstopped marks there is a docking that was cancelled,   *)
(* or waited in vain.                                                      *)
Owing == {"send", "check", "enter", "wait", "polling", "arrived"}
Owed == {r \in Runs : pc[r] \in Owing}
Moving ==
  \/ robot.task = "deliver"
  \/ robot.status \in {"delivering", "blocking", "return", "arrived"}
Astray == unstopped /\ ~Reliable

Ledger == INSTANCE LegLedger WITH owed <- Owed, moving <- Moving, astray <- Astray

(* Step by step the legs keep the ledger: nobody but a run that has yet to *)
(* stop the robot sends it off, and each run that is done with its leg has *)
(* stopped the robot in that step, also when another run drives it by then *)
(* or the order was cancelled.                                             *)
LegsAreStopped == Ledger!Safe

(* actionStartCharging: "polls for the show_charging webhook event to      *)
(* confirm the charging pins made contact".  A docking that is counted as  *)
(* done found the robot on the charger.                                    *)
DockedMeansContact == Calm => \A r \in Runs : pc[r] = "charged" => reached[r]
=============================================================================
