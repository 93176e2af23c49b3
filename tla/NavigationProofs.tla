-------------------------- MODULE NavigationProofs --------------------------
(***************************************************************************)
(* Theorems about Navigation for every map, every number of orders and     *)
(* every set of scenarios.                                                 *)
(***************************************************************************)
EXTENDS Navigation, SequenceTheorems, TLAPS
-----------------------------------------------------------------------------
(* TypeOK, part by part.  A report is posted without looking how many wait *)
(* only by a stop that ends a movement, and the robot moves again only     *)
(* when there is room: one report more than may wait, never two.           *)
Robots ==
  [at : Places \cup {Road}, task : {"none", "deliver", "dock", "leave"}, goal : Places,
   status : Statuses]
Labels ==
  {"unsent", "leaving", "stabilizing", "next", "send", "check", "enter", "wait", "polling",
   "arrived", "docking", "charged", "ending", "over"}
Stoppable == Underway \cup {"arrived"}

WorldTypes == \E s \in Scenarios : world = s.world /\ plan = s.plan
RobotTypes == robot \in Robots
ReportTypes ==
  /\ reports \in Seq(Report)
  /\ Len(reports) <= world.waiting + (IF robot.status \in Stoppable THEN 0 ELSE 1)
ViewTypes ==
  /\ view \in [status : Statuses \cup {"empty"}, driving : BOOLEAN, charging : BOOLEAN]
  /\ signal \in BOOLEAN
RunTypes ==
  /\ newest \in 0 .. MaxRuns /\ closed \subseteq Runs /\ stopping \in BOOLEAN
  /\ pc \in [Runs -> Labels]
LocalTypes ==
  /\ leg \in [Runs -> Nat] /\ \A r \in Runs : leg[r] \in 1 .. Len(plan[r])
  /\ attempt \in [Runs -> 1 .. MaxAttempts]
  /\ departed \in [Runs -> BOOLEAN]
  /\ seen \in [Runs -> Snapshots]
HistoryTypes ==
  /\ reached \in [Runs -> BOOLEAN] /\ disturbed \in [Runs -> BOOLEAN]
  /\ held \in [Runs -> BOOLEAN] /\ unseen \in BOOLEAN /\ unstopped \in BOOLEAN
Types ==
  /\ WorldTypes /\ RobotTypes /\ ReportTypes /\ ViewTypes
  /\ RunTypes /\ LocalTypes /\ HistoryTypes
-----------------------------------------------------------------------------
LEMMA WorldFacts ==
  ASSUME WorldTypes
  PROVE  /\ plan \in [Runs -> Seq(Places) \ {<<>>}]
         /\ world.waiting \in Nat \ {0} /\ world.docked \in BOOLEAN
<1>1. PICK s \in Scenarios : world = s.world /\ plan = s.plan
  BY DEF WorldTypes
<1>2. plan \in [Runs -> Seq(Places) \ {<<>>}]
  BY <1>1, PlacesAssumption
<1>3. world \in [prompt : BOOLEAN, lossy : BOOLEAN, answering : BOOLEAN, obeying : BOOLEAN,
                 overlap : BOOLEAN, cancels : BOOLEAN, obstacles : BOOLEAN, docked : BOOLEAN,
                 waiting : Nat \ {0}]
  BY <1>1, WorldsAssumption
<1> QED BY <1>2, <1>3

LEMMA GoalTypes ==
  ASSUME WorldTypes, LocalTypes, NEW r \in Runs
  PROVE  Goal(r) \in Places
  BY WorldFacts DEF Goal, LocalTypes

LEMMA PostTypes ==
  ASSUME reports \in Seq(Report), NEW status \in Statuses \cup {"empty"},
         NEW event \in {"none", "empty", "show_charging", "remove_charging"}, Post(status, event)
  PROVE  reports' \in Seq(Report) /\ Len(reports') = Len(reports) + 1
<1>1. [status |-> status, event |-> event] \in Report
  BY DEF Report
<1> QED BY <1>1, AppendProperties DEF Post

(* A step of the robot that posts keeps the types. *)
LEMMA MoveTypes ==
  ASSUME Types, RobotMay, UNCHANGED <<world, plan>>,
         NEW p \in Places \cup {Road}, NEW status \in Statuses,
         NEW task \in {"none", "deliver", "dock", "leave"}, MoveTo(p, status, task),
         NEW posted \in Statuses \cup {"empty"},
         NEW event \in {"none", "empty", "show_charging", "remove_charging"}, Post(posted, event)
  PROVE  RobotTypes' /\ ReportTypes' /\ reached' \in [Runs -> BOOLEAN]
<1>1. RobotTypes'
  BY DEF Types, RobotTypes, Robots, MoveTo
<1>2. reports' \in Seq(Report) /\ Len(reports') = Len(reports) + 1
  BY PostTypes DEF Types, ReportTypes
<1>3. ReportTypes'
  <2>1. Len(reports) \in Nat /\ world.waiting \in Nat /\ Len(reports) < world.waiting
    BY WorldFacts, LenProperties DEF Types, ReportTypes, RobotMay
  <2> QED BY <1>2, <2>1 DEF ReportTypes
<1>4. reached' \in [Runs -> BOOLEAN]
  <2>1. \A r \in Runs : reached[r] \in BOOLEAN
    BY DEF Types, HistoryTypes
  <2> QED BY <2>1 DEF MoveTo
<1> QED BY <1>1, <1>3, <1>4

LEMMA RobotStepTypes ==
  ASSUME Types, RobotStep
  PROVE  Types'
<1> UNCHANGED <<world, plan>> /\ RobotMay
  BY DEF RobotStep, environment
<1>1. RobotTypes' /\ ReportTypes' /\ reached' \in [Runs -> BOOLEAN]
  <2> robot \in Robots /\ robot.at \in Places \cup {Road} /\ robot.goal \in Places
      /\ robot.task \in {"none", "deliver", "dock", "leave"} /\ Dock \in Places
      /\ Counter \in Places /\ Road \in Places \cup {Road}
    BY DEF Types, RobotTypes, Robots, Places
  <2> USE DEF Statuses
  <2>1. CASE RobotDepart
    BY <2>1, MoveTypes DEF RobotDepart
  <2>2. CASE RobotArrive
    BY <2>2, MoveTypes DEF RobotArrive
  <2>3. CASE RobotIsThere
    BY <2>3 DEF RobotIsThere, Types, RobotTypes, Robots, ReportTypes, HistoryTypes
  <2>4. CASE RobotBlocked
    BY <2>4, MoveTypes DEF RobotBlocked
  <2>5. CASE RobotGoesOn
    BY <2>5, MoveTypes DEF RobotGoesOn
  <2>6. CASE RobotReturn
    BY <2>6, MoveTypes DEF RobotReturn
  <2>7. CASE RobotIsBack
    BY <2>7, MoveTypes DEF RobotIsBack
  <2>8. CASE RobotGotoCharge
    BY <2>8, MoveTypes DEF RobotGotoCharge
  <2>9. CASE RobotDocks
    BY <2>9, MoveTypes DEF RobotDocks
  <2>10. CASE RobotUndocks
    BY <2>10, MoveTypes DEF RobotUndocks
  <2>11. CASE RobotGivesUp
    BY <2>11, MoveTypes DEF RobotGivesUp
  <2> QED
    BY <2>1, <2>2, <2>3, <2>4, <2>5, <2>6, <2>7, <2>8, <2>9, <2>10, <2>11 DEF RobotStep
<1>2. UNCHANGED <<view, signal, newest, closed, stopping, pc, leg, attempt, departed, seen,
                  disturbed, unstopped>>
  BY DEF RobotStep, locals, channels
<1>3. held' \in [Runs -> BOOLEAN] /\ unseen' \in BOOLEAN
  <2>1. \A r \in Runs :
          (held[r] \/ (OnLeg(r) /\ ~departed[r] /\ robot'.status = "blocking")) \in BOOLEAN
    BY DEF Types, HistoryTypes
  <2> QED BY <2>1 DEF RobotStep
<1> QED
  BY <1>1, <1>2, <1>3 DEF Types, WorldTypes, ViewTypes, RunTypes, LocalTypes, HistoryTypes
LEMMA ReceiveTypes ==
  ASSUME Types, ReceiveReport
  PROVE  Types'
<1>1. Head(reports) \in Report /\ reports' \in Seq(Report) /\ Len(reports') = Len(reports) - 1
  BY HeadTailProperties DEF ReceiveReport, Types, ReportTypes
<1>2. UNCHANGED <<world, robot>>
  BY DEF ReceiveReport, environment
<1>3. ReportTypes'
  <2>1. Len(reports) \in Nat /\ world.waiting \in Nat
    BY WorldFacts, LenProperties DEF Types, ReportTypes
  <2> QED BY <1>1, <1>2, <2>1 DEF Types, ReportTypes
<1>4. ViewTypes'
  <2> DEFINE report == Head(reports)
  <2>1. report.status \in Statuses \cup {"empty"}
        /\ report.event \in {"none", "empty", "show_charging", "remove_charging"}
    BY <1>1 DEF Report
  <2> HIDE DEF report
  <2>2. DrivingAfter(report.status) \in BOOLEAN
    BY DEF DrivingAfter, Types, ViewTypes
  <2>3. ChargingAfter(report) \in BOOLEAN
    BY <2>1 DEF ChargingAfter, Types, ViewTypes
  <2>4. /\ view' = [status |-> IF report.status = "empty" THEN view.status ELSE report.status,
                    driving |-> DrivingAfter(report.status),
                    charging |-> ChargingAfter(report)]
        /\ signal' \in BOOLEAN
    BY DEF ReceiveReport, ApplyWebhookData, report
  <2> QED BY <2>1, <2>2, <2>3, <2>4 DEF Types, ViewTypes
<1> QED
  BY <1>2, <1>3, <1>4 DEF ReceiveReport, environment, locals, channels, noted, Types, WorldTypes,
                          RobotTypes, RunTypes, LocalTypes, HistoryTypes

LEMMA LoseTypes ==
  ASSUME Types, LoseReport
  PROVE  Types'
<1>1. reports' \in Seq(Report) /\ Len(reports') = Len(reports) - 1
  BY HeadTailProperties DEF LoseReport, Types, ReportTypes
<1>2. UNCHANGED <<world, robot>>
  BY DEF LoseReport, environment
<1>3. ReportTypes'
  <2>1. Len(reports) \in Nat /\ world.waiting \in Nat
    BY WorldFacts, LenProperties DEF Types, ReportTypes
  <2> QED BY <1>1, <1>2, <2>1 DEF Types, ReportTypes
<1> QED
  BY <1>2, <1>3 DEF LoseReport, environment, locals, channels, noted, Types, WorldTypes,
                    RobotTypes, ViewTypes, RunTypes, LocalTypes, HistoryTypes

LEMMA DisturbTypes ==
  ASSUME Types, NEW r \in Runs, Disturb(r)
  PROVE  disturbed' \in [Runs -> BOOLEAN]
  BY DEF Disturb, Types, HistoryTypes

(* A stop ends a movement at most once, so the report it posts has room. *)
LEMMA StopTypes ==
  ASSUME Types, StopRobot, UNCHANGED world
  PROVE  RobotTypes' /\ ReportTypes'
<1>1. /\ robot' = Stopped
      /\ \/ robot.status = Stopped.status /\ UNCHANGED reports
         \/ robot.status # Stopped.status /\ Post("standby", "none")
  BY DEF StopRobot
<1>2. /\ Stopped \in Robots
      /\ Stopped.status = IF robot.status \in Stoppable THEN "standby" ELSE robot.status
  BY DEF Types, RobotTypes, Robots, Stopped, Stoppable, Statuses
<1>3. "standby" \notin Stoppable
  BY DEF Stoppable, Underway
<1>4. RobotTypes' /\ robot'.status \notin Stoppable
  BY <1>1, <1>2, <1>3 DEF RobotTypes
<1>5. CASE robot.status \in Stoppable
  <2>1. reports' \in Seq(Report) /\ Len(reports') = Len(reports) + 1
    BY <1>1, <1>2, <1>3, <1>5, PostTypes DEF Types, ReportTypes, Statuses
  <2>2. Len(reports) <= world.waiting + 0
    BY <1>5 DEF Types, ReportTypes
  <2>3. world.waiting \in Nat /\ Len(reports) \in Nat
    BY WorldFacts, LenProperties DEF Types, ReportTypes
  <2>4. Len(reports') <= world'.waiting + 1
    BY <2>1, <2>2, <2>3
  <2> QED BY <1>4, <2>1, <2>4 DEF ReportTypes
<1>6. CASE robot.status \notin Stoppable
  <2>1. UNCHANGED reports
    BY <1>1, <1>2, <1>6
  <2> QED BY <1>4, <1>6, <2>1 DEF Types, ReportTypes
<1> QED BY <1>5, <1>6

(* cancelRobotNav stops the robot, or leaves it to itself where requests   *)
(* or commands may fail.                                                   *)
LEMMA CancelOutcome ==
  ASSUME Types, NEW r \in Runs, CancelRobotNav(r)
  PROVE  \/ StopRobot /\ UNCHANGED unstopped
         \/ unstopped' /\ ~Reliable /\ UNCHANGED <<robot, reports>>
<1>1. PICK ok \in Requests : \E effect \in Effects(ok) :
        /\ IF effect THEN StopRobot ELSE UNCHANGED <<robot, reports>>
        /\ unstopped' = (unstopped \/ ~effect)
  BY DEF CancelRobotNav
<1>2. PICK effect \in Effects(ok) :
        /\ IF effect THEN StopRobot ELSE UNCHANGED <<robot, reports>>
        /\ unstopped' = (unstopped \/ ~effect)
  BY <1>1
<1>3. unstopped \in BOOLEAN
  BY DEF Types, HistoryTypes
<1>4. Reliable => effect
  BY DEF Requests, Effects, Reliable
<1>5. CASE effect
  BY <1>2, <1>3, <1>5
<1>6. CASE ~effect
  BY <1>2, <1>4, <1>6
<1> QED BY <1>5, <1>6

LEMMA CancelTypes ==
  ASSUME Types, NEW r \in Runs, CancelRobotNav(r), UNCHANGED world
  PROVE  /\ RobotTypes' /\ ReportTypes'
         /\ disturbed' \in [Runs -> BOOLEAN] /\ unstopped' \in BOOLEAN
<1>1. disturbed' \in [Runs -> BOOLEAN]
  BY DisturbTypes DEF CancelRobotNav
<1>2. unstopped' \in BOOLEAN
  BY DEF CancelRobotNav
<1>3. CASE StopRobot
  BY <1>1, <1>2, <1>3, StopTypes
<1>4. CASE UNCHANGED <<robot, reports>>
  BY <1>1, <1>2, <1>4 DEF Types, RobotTypes, ReportTypes
<1> QED BY <1>3, <1>4, CancelOutcome

(* A command is about a place the robot knows. *)
LEMMA CommandTypes ==
  ASSUME RobotTypes, NEW task \in {"none", "deliver", "dock", "leave"}, NEW goal \in Places
  PROVE  /\ Commanded(task, goal) \in Robots
         /\ Commanded(task, goal).status = robot.status
  BY DEF RobotTypes, Robots, Commanded

LEMMA HandleTypes ==
  ASSUME Types, NEW r \in Runs, HandleOrder(r)
  PROVE  Types'
<1>1. UNCHANGED <<world, plan, reports, view, signal, stopping, leg, attempt, departed, seen,
                  reached, held, unseen, unstopped>>
  BY DEF HandleOrder, environment, locals, noted
<1>2. newest' \in 0 .. MaxRuns /\ closed' \subseteq Runs
  <2>1. newest' = r /\ closed' = closed \cup ({newest} \cap Runs)
    BY DEF HandleOrder
  <2> QED BY <2>1, PlacesAssumption DEF Types, RunTypes, Runs
<1>3. pc' \in [Runs -> Labels]
  BY DEF HandleOrder, EnsureNotCharging, Goto, Types, RunTypes, Labels
<1>4. robot' \in Robots /\ robot'.status = robot.status
  <2>1. robot' = robot \/ robot' = Commanded("leave", Dock)
    BY DEF HandleOrder, EnsureNotCharging
  <2>2. Dock \in Places
    BY DEF Places
  <2> QED BY <2>1, <2>2, CommandTypes DEF Types, RobotTypes
<1>5. disturbed' \in [Runs -> BOOLEAN]
  <2>1. Disturb(r) \/ UNCHANGED disturbed
    BY DEF HandleOrder, EnsureNotCharging
  <2> QED BY <2>1, DisturbTypes DEF Types, HistoryTypes
<1> QED
  BY <1>1, <1>2, <1>3, <1>4, <1>5
     DEF Types, WorldTypes, RobotTypes, ReportTypes, ViewTypes, RunTypes, LocalTypes,
         HistoryTypes
(* The steps of a leg, a docking and the end of an order. *)
LEMMA LegStepTypes ==
  ASSUME Types, NEW r \in Runs, LegStep(r)
  PROVE  Types'
<1> USE DEF environment, locals, channels, noted, Goto
<1>a. ASSUME UNCHANGED <<world, robot, reports>> PROVE RobotTypes' /\ ReportTypes'
  BY <1>a DEF Types, RobotTypes, ReportTypes
<1>b. ASSUME UNCHANGED <<world, plan>> PROVE WorldTypes'
  BY <1>b DEF Types, WorldTypes
<1>c. ASSUME NEW driving \in BOOLEAN, view' = [view EXCEPT !.driving = driving],
             UNCHANGED signal
      PROVE  ViewTypes'
  BY <1>c DEF Types, ViewTypes
<1>d. ASSUME GiveUpLeg(r), UNCHANGED <<signal, newest, closed, stopping>>
      PROVE  ViewTypes' /\ RunTypes'
  <2>1. (view.driving /\ Goal(r) # Counter) \in BOOLEAN
    OBVIOUS
  <2>2. ViewTypes'
    BY <1>c, <1>d, <2>1 DEF GiveUpLeg
  <2> QED BY <1>d, <2>2 DEF GiveUpLeg, Types, RunTypes, Labels
<1>e. ASSUME UNCHANGED <<plan, leg, attempt, departed, seen>> PROVE LocalTypes'
  BY <1>e DEF Types, LocalTypes
<1>1. CASE OrderCancelled(r)
  <2>1. RobotTypes' /\ ReportTypes' /\ HistoryTypes'
    BY <1>1, CancelTypes DEF OrderCancelled, Types, HistoryTypes
  <2>2. ViewTypes'
    BY <1>1, <1>c DEF OrderCancelled
  <2>3. RunTypes'
    BY <1>1 DEF OrderCancelled, Types, RunTypes, Labels
  <2> QED BY <1>1, <1>b, <1>e, <2>1, <2>2, <2>3 DEF OrderCancelled, Types
<1>2. CASE StartLeg(r)
  <2>1. ViewTypes'
    BY <1>2, <1>c DEF StartLeg
  <2>2. RunTypes'
    BY <1>2 DEF StartLeg, Types, RunTypes, Labels
  <2>3. LocalTypes'
    BY <1>2 DEF StartLeg, Types, LocalTypes, MaxAttempts
  <2>4. HistoryTypes'
    <3>1. (robot.at = Goal(r)) \in BOOLEAN
          /\ (\E q \in Runs \ {r} : OnLeg(q) \/ pc[q] = "arrived") \in BOOLEAN
      OBVIOUS
    <3> QED BY <1>2, <3>1 DEF StartLeg, Types, HistoryTypes
  <2> QED BY <1>2, <1>a, <1>b, <2>1, <2>2, <2>3, <2>4 DEF StartLeg, Types
<1>3. CASE SendDelivery(r)
  <2>1. PICK ok \in Requests : \E effect \in Effects(ok) :
          /\ robot' = IF effect THEN Commanded("deliver", Goal(r)) ELSE robot
          /\ unstopped' = (unstopped \/ ~ok)
          /\ IF ok THEN Goto(r, "check") /\ UNCHANGED view ELSE GiveUpLeg(r)
    BY <1>3 DEF SendDelivery
  <2>2. robot' \in Robots /\ robot'.status = robot.status
    BY <2>1, CommandTypes, GoalTypes DEF Types, RobotTypes
  <2>3. RobotTypes' /\ ReportTypes'
    BY <1>3, <2>2 DEF SendDelivery, Types, RobotTypes, ReportTypes
  <2>4. unstopped' \in BOOLEAN /\ disturbed' \in [Runs -> BOOLEAN]
    BY <1>3, <2>1, DisturbTypes DEF SendDelivery
  <2>5. HistoryTypes'
    BY <1>3, <2>4 DEF SendDelivery, Types, HistoryTypes
  <2>6. ViewTypes' /\ RunTypes'
    BY <1>3, <1>d, <2>1 DEF SendDelivery, Types, ViewTypes, RunTypes, Labels
  <2> QED BY <1>3, <1>b, <1>e, <2>3, <2>5, <2>6 DEF SendDelivery, Types
<1>4. CASE CheckDelivery(r)
  <2>1. pc' \in [Runs -> Labels]
    BY <1>4 DEF CheckDelivery, Types, RunTypes, Labels
  <2>2. attempt' \in [Runs -> 1 .. MaxAttempts]
    <3>1. attempt[r] \in 1 .. MaxAttempts
      BY DEF Types, LocalTypes
    <3>2. attempt' = attempt
          \/ (attempt[r] # MaxAttempts /\ attempt' = [attempt EXCEPT ![r] = attempt[r] + 1])
      BY <1>4 DEF CheckDelivery
    <3>3. attempt[r] # MaxAttempts => attempt[r] + 1 \in 1 .. MaxAttempts
      BY <3>1 DEF MaxAttempts
    <3> QED BY <3>2, <3>3 DEF Types, LocalTypes
  <2> QED BY <1>4, <1>a, <1>b, <2>1, <2>2 DEF CheckDelivery, Types, ViewTypes, RunTypes,
                                             LocalTypes, HistoryTypes
<1>5. CASE EnterWait(r)
  <2>1. (view.status \in {"delivering", "rerouting", "return"}) \in BOOLEAN
    OBVIOUS
  <2>2. LocalTypes'
    BY <1>5, <2>1 DEF EnterWait, Types, LocalTypes
  <2>3. RunTypes' /\ ViewTypes' /\ HistoryTypes'
    BY <1>5 DEF EnterWait, Types, RunTypes, ViewTypes, HistoryTypes, Labels
  <2> QED BY <1>5, <1>a, <1>b, <2>2, <2>3 DEF EnterWait, Types
<1>6. CASE WaitCancelled(r)
  <2>1. RobotTypes' /\ ReportTypes' /\ HistoryTypes'
    BY <1>6, CancelTypes DEF WaitCancelled, Types, HistoryTypes
  <2> QED BY <1>6, <1>b, <1>d, <1>e, <2>1 DEF WaitCancelled, Types
<1>7. CASE WaitTimeout(r)
  <2>1. HistoryTypes'
    BY <1>7 DEF WaitTimeout, Types, HistoryTypes
  <2> QED BY <1>7, <1>a, <1>b, <1>d, <1>e, <2>1 DEF WaitTimeout, Types
<1>8. CASE WaitSignal(r)
  <2>1. RunTypes' /\ ViewTypes' /\ HistoryTypes'
    BY <1>8 DEF WaitSignal, Types, RunTypes, ViewTypes, HistoryTypes, Labels
  <2> QED BY <1>8, <1>a, <1>b, <1>e, <2>1 DEF WaitSignal, Types
<1>9. CASE DepartureDeadline(r)
  <2>1. RunTypes' /\ ViewTypes' /\ HistoryTypes'
    BY <1>9 DEF DepartureDeadline, Types, RunTypes, ViewTypes, HistoryTypes, Labels
  <2> QED BY <1>9, <1>a, <1>b, <1>e, <2>1 DEF DepartureDeadline, Types
<1>10. CASE PollTick(r)
  <2>1. LocalTypes'
    BY <1>10 DEF PollTick, Types, LocalTypes, ViewTypes, Snapshots
  <2>2. RunTypes' /\ ViewTypes' /\ HistoryTypes'
    BY <1>10 DEF PollTick, Types, RunTypes, ViewTypes, HistoryTypes, Labels
  <2> QED BY <1>10, <1>a, <1>b, <2>1, <2>2 DEF PollTick, Types
<1>11. CASE PollAnswer(r)
  <2>1. PICK polled \in Polled :
          IF departed[r]
          THEN /\ Goto(r, IF LooksArrived(seen[r], polled) THEN "arrived" ELSE "wait")
               /\ UNCHANGED <<departed, signal>>
          ELSE /\ departed' = [departed EXCEPT ![r] = LooksDeparted(seen[r], polled)]
               /\ signal' = (signal /\ ~departed'[r])
               /\ Goto(r, "wait")
    BY <1>11 DEF PollAnswer
  <2>2. RunTypes'
    BY <1>11, <2>1 DEF PollAnswer, Types, RunTypes, Labels
  <2>3. departed' \in [Runs -> BOOLEAN]
    <3>1. LooksDeparted(seen[r], polled) \in BOOLEAN
      BY DEF LooksDeparted
    <3> QED BY <2>1, <3>1 DEF Types, LocalTypes
  <2>4. signal' \in BOOLEAN
    BY <2>1 DEF Types, ViewTypes
  <2>5. LocalTypes'
    BY <1>11, <2>3 DEF PollAnswer, Types, LocalTypes, Snapshots
  <2>6. ViewTypes' /\ HistoryTypes'
    BY <1>11, <2>4 DEF PollAnswer, Types, ViewTypes, HistoryTypes
  <2> QED BY <1>11, <1>a, <1>b, <2>2, <2>5, <2>6 DEF PollAnswer, Types
<1>12. CASE EndLeg(r)
  <2>1. RobotTypes' /\ ReportTypes' /\ disturbed' \in [Runs -> BOOLEAN]
        /\ unstopped' \in BOOLEAN
    BY <1>12, CancelTypes DEF EndLeg
  <2>2. HistoryTypes'
    BY <1>12, <2>1 DEF EndLeg, Types, HistoryTypes
  <2>3. ViewTypes'
    BY <1>12, <1>c DEF EndLeg
  <2>4. RunTypes'
    BY <1>12 DEF EndLeg, Types, RunTypes, Labels
  <2>5. leg' \in [Runs -> Nat] /\ \A q \in Runs : leg'[q] \in 1 .. Len(plan[q])
    <3>1. leg[r] \in 1 .. Len(plan[r]) /\ Len(plan[r]) \in Nat
      BY WorldFacts, LenProperties DEF Types, LocalTypes
    <3>2. leg' = leg \/ (leg[r] # Len(plan[r]) /\ leg' = [leg EXCEPT ![r] = leg[r] + 1])
      BY <1>12 DEF EndLeg
    <3>3. leg[r] # Len(plan[r]) => leg[r] + 1 \in 1 .. Len(plan[r])
      BY <3>1
    <3>4. leg[r] + 1 \in Nat
      BY <3>1
    <3> QED BY <3>1, <3>2, <3>3, <3>4 DEF Types, LocalTypes
  <2>6. LocalTypes'
    BY <1>12, <2>5 DEF EndLeg, Types, LocalTypes
  <2> QED BY <1>12, <1>b, <2>1, <2>2, <2>3, <2>4, <2>6 DEF EndLeg, Types
<1> QED
  BY <1>1, <1>2, <1>3, <1>4, <1>5, <1>6, <1>7, <1>8, <1>9, <1>10, <1>11, <1>12 DEF LegStep
LEMMA DockStepTypes ==
  ASSUME Types, NEW r \in Runs, DockStep(r) \/ ClearOrder(r) \/ LeaveStep(r)
  PROVE  Types'
<1> USE DEF environment, locals, channels, noted, Goto
<1>a. ASSUME UNCHANGED <<world, plan, robot, reports, leg, attempt, seen>>,
             departed' \in [Runs -> BOOLEAN]
      PROVE  WorldTypes' /\ RobotTypes' /\ ReportTypes' /\ LocalTypes'
  BY <1>a DEF Types, WorldTypes, RobotTypes, ReportTypes, LocalTypes
<1>b. departed \in [Runs -> BOOLEAN]
  BY DEF Types, LocalTypes
<1>1. CASE GotoCharging(r)
  <2>1. RunTypes' /\ ViewTypes'
    BY <1>1 DEF GotoCharging, Types, RunTypes, ViewTypes, Labels
  <2>2. /\ robot' = robot \/ robot' = Commanded("dock", Dock)
        /\ UNCHANGED disturbed \/ Disturb(r)
        /\ UNCHANGED unstopped \/ \E ok \in Requests : unstopped' = (unstopped \/ ~ok)
    BY <1>1 DEF GotoCharging
  <2>3. robot' \in Robots /\ robot'.status = robot.status
    BY <2>2, CommandTypes DEF Types, RobotTypes, Places
  <2>4. disturbed' \in [Runs -> BOOLEAN] /\ unstopped' \in BOOLEAN
    BY <2>2, DisturbTypes DEF Types, HistoryTypes
  <2>5. reached' \in [Runs -> BOOLEAN]
    <3>1. (robot.at = Dock) \in BOOLEAN
      OBVIOUS
    <3> QED BY <1>1, <3>1 DEF GotoCharging, Types, HistoryTypes
  <2> QED
    BY <1>1, <2>1, <2>3, <2>4, <2>5 DEF GotoCharging, Types, WorldTypes, RobotTypes, ReportTypes,
                                       LocalTypes, HistoryTypes
<1>2. CASE ChargingSeen(r)
  BY <1>2, <1>a, <1>b DEF ChargingSeen, Types, RunTypes, ViewTypes, HistoryTypes, Labels
<1>3. CASE DockingFails(r)
  BY <1>3, <1>a, <1>b DEF DockingFails, Types, RunTypes, ViewTypes, HistoryTypes, Labels
<1>4. CASE EndDocking(r)
  BY <1>4, <1>a, <1>b DEF EndDocking, Types, RunTypes, ViewTypes, HistoryTypes, Labels
<1>5. CASE ClearOrder(r)
  <2>1. departed' \in [Runs -> BOOLEAN]
    BY <1>5, <1>b DEF ClearOrder
  <2>2. ViewTypes'
    BY <1>5 DEF ClearOrder, Types, ViewTypes
  <2>3. RunTypes'
    BY <1>5 DEF ClearOrder, Types, RunTypes, Labels
  <2>4. HistoryTypes'
    BY <1>5 DEF ClearOrder, Types, HistoryTypes
  <2> QED BY <1>5, <1>a, <2>1, <2>2, <2>3, <2>4 DEF ClearOrder, Types
<1>6. CASE LeaveStep(r)
  <2>1. pc' \in [Runs -> Labels]
    BY <1>6 DEF LeaveStep, LeftCharger, Stabilized, LeaveFails, Types, RunTypes, Labels
  <2> QED BY <1>6, <1>a, <1>b, <2>1 DEF LeaveStep, Types, RunTypes, ViewTypes, HistoryTypes
<1> QED BY <1>1, <1>2, <1>3, <1>4, <1>5, <1>6 DEF DockStep

LEMMA InitTypes == Init => Types
<1> SUFFICES ASSUME Init PROVE Types
  OBVIOUS
<1>1. WorldTypes
  BY DEF Init, WorldTypes
<1>2. plan \in [Runs -> Seq(Places) \ {<<>>}] /\ world.waiting \in Nat \ {0}
  BY <1>1, WorldFacts
<1>3. RobotTypes
  BY DEF Init, RobotTypes, Robots, Places, Statuses
<1>4. ReportTypes
  BY <1>2, EmptySeq DEF Init, ReportTypes
<1>5. ViewTypes
  BY DEF Init, ViewTypes
<1>6. RunTypes
  <2>1. newest \in 0 .. MaxRuns /\ closed \subseteq Runs /\ pc \in [Runs -> Labels]
    BY PlacesAssumption DEF Init, Labels
  <2>2. stopping \in BOOLEAN
    BY DEF Init
  <2> QED BY <2>1, <2>2 DEF RunTypes
<1>7. LocalTypes
  <2>1. \A r \in Runs : Len(plan[r]) \in Nat \ {0}
    BY <1>2, EmptySeq
  <2>2. leg = [r \in Runs |-> 1]
    BY DEF Init
  <2>3. leg \in [Runs -> Nat] /\ \A r \in Runs : leg[r] \in 1 .. Len(plan[r])
    BY <2>1, <2>2
  <2> QED BY <2>3 DEF Init, LocalTypes, MaxAttempts, Snapshots
<1>8. HistoryTypes
  <2>1. unseen \in BOOLEAN
    BY <1>1, WorldFacts DEF Init
  <2> QED BY <2>1 DEF Init, HistoryTypes
<1> QED BY <1>1, <1>3, <1>4, <1>5, <1>6, <1>7, <1>8 DEF Types

LEMMA NextTypes == Types /\ [Next]_vars => Types'
<1> SUFFICES ASSUME Types, [Next]_vars PROVE Types'
  OBVIOUS
<1>1. CASE UNCHANGED vars
  BY <1>1 DEF vars, Types, WorldTypes, RobotTypes, ReportTypes, ViewTypes, RunTypes, LocalTypes,
              HistoryTypes
<1>2. CASE CancelCurrentOrder
  <2>1. closed' \subseteq Runs /\ stopping' \in BOOLEAN
    BY <1>2 DEF CancelCurrentOrder, Types, RunTypes
  <2> QED
    BY <1>2, <2>1 DEF CancelCurrentOrder, environment, locals, noted, Types, WorldTypes,
                      RobotTypes, ReportTypes, ViewTypes, RunTypes, LocalTypes, HistoryTypes
<1>3. CASE PostStop
  <2>1. RobotTypes' /\ ReportTypes'
    <3>1. UNCHANGED world /\ (StopRobot \/ UNCHANGED <<robot, reports>>)
      BY <1>3 DEF PostStop, environment
    <3>2. CASE StopRobot
      BY <3>1, <3>2, StopTypes
    <3>3. CASE UNCHANGED <<robot, reports>>
      BY <3>1, <3>3 DEF Types, RobotTypes, ReportTypes
    <3> QED BY <3>1, <3>2, <3>3
  <2>2. disturbed' \in [Runs -> BOOLEAN]
    <3>1. \A r \in Runs : (disturbed[r] \/ OnLeg(r)) \in BOOLEAN
      OBVIOUS
    <3> QED BY <1>3, <3>1 DEF PostStop
  <2> QED
    BY <1>3, <2>1, <2>2 DEF PostStop, environment, locals, noted, Types, WorldTypes, ViewTypes,
                            RunTypes, LocalTypes, HistoryTypes
<1> QED
  BY <1>1, <1>2, <1>3, RobotStepTypes, ReceiveTypes, LoseTypes, HandleTypes, LegStepTypes,
     DockStepTypes DEF Next, RunStep

LEMMA SpecTypes == Spec => []Types
  BY InitTypes, NextTypes, PTL DEF Spec

(* Every variable keeps its type.  In particular no attempt is counted     *)
(* past the third, no leg is past the last place of its order, and at most *)
(* one report waits beyond those the robot waits for                       *)
(* (order_handler.go:477-693).                                             *)
THEOREM NavigationTypes == Spec => []TypeOK
<1>1. Types => TypeOK
  <2> SUFFICES ASSUME Types PROVE TypeOK
    OBVIOUS
  <2>1. Len(reports) <= world.waiting + MaxRuns
    BY WorldFacts, LenProperties, PlacesAssumption DEF Types, ReportTypes
  <2>2. \A r \in Runs : leg[r] \in 1 .. Len(plan[r]) /\ attempt[r] \in 1 .. MaxAttempts
    BY DEF Types, LocalTypes
  <2> QED
    BY <2>1, <2>2 DEF Types, WorldTypes, RobotTypes, Robots, ReportTypes, ViewTypes, RunTypes,
                      Labels, LocalTypes, HistoryTypes, TypeOK
<1> QED BY <1>1, SpecTypes, PTL
-----------------------------------------------------------------------------
(* A robot that is on a delivery, or will return by itself after one, has  *)
(* a run that has yet to stop it: as long as every stop was sent and got   *)
(* through, and whatever happens when the robot and the network are        *)
(* reliable.  Orders that have not arrived run nothing.                    *)
OwnedLeg == Moving /\ (Reliable \/ ~unstopped) => \E r \in Runs : pc[r] \in Owing
UnsentAhead == \A r \in Runs : r > newest => pc[r] = "unsent"
LegInv == OwnedLeg /\ UnsentAhead

(* Where a run goes: only for the part of the code it is in. *)
LEMMA RunStepMoves ==
  ASSUME Types, NEW r \in Runs, RunStep(r)
  PROVE  /\ pc[r] # "unsent" /\ UNCHANGED newest
         /\ \E label \in Labels : pc' = [pc EXCEPT ![r] = label]
<1> USE DEF Goto, Labels, channels
<1>1. CASE LeaveStep(r)
  BY <1>1 DEF LeaveStep, LeftCharger, Stabilized, LeaveFails
<1>2. CASE LegStep(r)
  BY <1>2 DEF LegStep, OrderCancelled, StartLeg, SendDelivery, CheckDelivery, EnterWait,
              WaitCancelled, WaitTimeout, WaitSignal, DepartureDeadline, PollTick, PollAnswer,
              EndLeg, GiveUpLeg
<1>3. CASE DockStep(r)
  BY <1>3 DEF DockStep, GotoCharging, ChargingSeen, DockingFails, EndDocking
<1>4. CASE ClearOrder(r)
  BY <1>4 DEF ClearOrder
<1> QED BY <1>1, <1>2, <1>3, <1>4 DEF RunStep

LEMMA NextUnsent == Types /\ UnsentAhead /\ [Next]_vars => UnsentAhead'
<1> SUFFICES ASSUME Types, UnsentAhead, [Next]_vars PROVE UnsentAhead'
  OBVIOUS
<1>0. pc \in [Runs -> Labels] /\ newest \in Nat /\ Runs \subseteq Nat
  BY DEF Types, RunTypes, Runs
<1>1. CASE UNCHANGED <<pc, newest>>
  BY <1>1 DEF UnsentAhead
<1>2. ASSUME NEW r \in Runs, HandleOrder(r) PROVE UnsentAhead'
  <2>1. newest' = newest + 1 /\ newest' = r /\ \A q \in Runs \ {r} : pc'[q] = pc[q]
    BY <1>0, <1>2 DEF HandleOrder, EnsureNotCharging, Goto
  <2> QED BY <1>0, <2>1 DEF UnsentAhead
<1>3. ASSUME NEW r \in Runs, RunStep(r) PROVE UnsentAhead'
  BY <1>0, <1>3, RunStepMoves DEF UnsentAhead
<1> QED
  BY <1>1, <1>2, <1>3 DEF Next, vars, RobotStep, ReceiveReport, LoseReport, CancelCurrentOrder,
                          PostStop, channels

(* A stop that gets through leaves nothing to own. *)
LEMMA StopRests ==
  ASSUME Types, StopRobot
  PROVE  ~Moving'
  BY DEF StopRobot, Types, RobotTypes, Robots, Stopped, Underway, Moving

LEMMA StoppedRests ==
  ASSUME Types, NEW r \in Runs, CancelRobotNav(r)
  PROVE  (unstopped' /\ ~Reliable) \/ ~Moving'
  BY CancelOutcome, StopRests

LEMMA RobotStepOwned ==
  ASSUME Types, OwnedLeg, RobotStep
  PROVE  OwnedLeg'
<1>1. UNCHANGED <<world, pc, unstopped>>
  BY DEF RobotStep, environment
<1>2. Moving' => Moving
  BY DEF RobotStep, RobotDepart, RobotArrive, RobotIsThere, RobotBlocked, RobotGoesOn,
         RobotReturn, RobotIsBack, RobotGotoCharge, RobotDocks, RobotUndocks, RobotGivesUp,
         MoveTo, Moving, Types, RobotTypes, Robots
<1> QED BY <1>1, <1>2 DEF OwnedLeg, Reliable

LEMMA RunStepOwned ==
  ASSUME Types, OwnedLeg, NEW r \in Runs, RunStep(r)
  PROVE  OwnedLeg'
<1> USE DEF Goto
<1> UNCHANGED world
  BY DEF RunStep, LeaveStep, LegStep, DockStep, OrderCancelled, StartLeg, SendDelivery,
         CheckDelivery, EnterWait, WaitCancelled, WaitTimeout, WaitSignal, DepartureDeadline,
         PollTick, PollAnswer, EndLeg, GotoCharging, ChargingSeen, DockingFails, EndDocking,
         ClearOrder, environment
<1> Reliable' = Reliable
  BY DEF Reliable
<1>0. pc \in [Runs -> Labels] /\ robot \in Robots /\ unstopped \in BOOLEAN
  BY DEF Types, RobotTypes, RunTypes, HistoryTypes
<1>1. ASSUME UNCHANGED unstopped \/ unstopped', Moving' => Moving,
             \A q \in Runs : pc[q] \in Owing => pc'[q] \in Owing
      PROVE  OwnedLeg'
  BY <1>1 DEF OwnedLeg
<1>2. ASSUME CancelRobotNav(r) PROVE OwnedLeg'
  BY <1>2, StoppedRests DEF OwnedLeg
<1>3. ASSUME NEW label, pc' = [pc EXCEPT ![r] = label], pc[r] \in Owing => label \in Owing,
             UNCHANGED robot, UNCHANGED unstopped \/ unstopped'
      PROVE  OwnedLeg'
  <2>1. \A q \in Runs : pc[q] \in Owing => pc'[q] \in Owing
    BY <1>0, <1>3
  <2>2. Moving' => Moving
    BY <1>3 DEF Moving
  <2> QED BY <1>1, <1>3, <2>1, <2>2
<1>4. CASE LeaveStep(r)
  BY <1>3, <1>4 DEF LeaveStep, LeftCharger, Stabilized, LeaveFails, Owing
<1>5. CASE OrderCancelled(r) \/ WaitCancelled(r) \/ EndLeg(r)
  BY <1>2, <1>5 DEF OrderCancelled, WaitCancelled, EndLeg
<1>6. CASE StartLeg(r) \/ CheckDelivery(r) \/ EnterWait(r) \/ WaitSignal(r)
             \/ DepartureDeadline(r) \/ PollTick(r) \/ PollAnswer(r)
  BY <1>3, <1>6 DEF StartLeg, CheckDelivery, EnterWait, WaitSignal, DepartureDeadline, PollTick,
                    PollAnswer, Owing
<1>7. CASE SendDelivery(r)
  <2>1. CASE unstopped' /\ ~Reliable
    BY <2>1 DEF OwnedLeg
  <2>2. CASE Reliable \/ ~unstopped'
    <3>1. Goto(r, "check")
      BY <1>7, <2>2 DEF SendDelivery, Requests, Reliable
    <3> QED BY <1>0, <3>1 DEF OwnedLeg, Owing
  <2> QED BY <2>1, <2>2
<1>8. CASE WaitTimeout(r)
  BY <1>8 DEF WaitTimeout, OwnedLeg, Reliable
<1>9. CASE GotoCharging(r)
  <2>1. /\ pc[r] = "next" /\ \E label \in Labels : pc' = [pc EXCEPT ![r] = label]
        /\ robot' = robot \/ robot' = Commanded("dock", Dock)
        /\ UNCHANGED unstopped \/ \E ok \in Requests : unstopped' = (unstopped \/ ~ok)
    BY <1>9 DEF GotoCharging, Labels
  <2>2. UNCHANGED unstopped \/ unstopped'
    BY <1>0, <2>1
  <2>3. Moving' => Moving
    BY <1>0, <2>1 DEF Moving, Commanded, Robots
  <2>4. \A q \in Runs : pc[q] \in Owing => pc'[q] \in Owing
    BY <1>0, <2>1 DEF Owing
  <2> QED BY <1>1, <2>2, <2>3, <2>4
<1>10. CASE ChargingSeen(r) \/ DockingFails(r) \/ EndDocking(r)
  BY <1>3, <1>10 DEF ChargingSeen, DockingFails, EndDocking, Owing
<1>11. CASE ClearOrder(r)
  BY <1>3, <1>11 DEF ClearOrder, Owing
<1> QED
  BY <1>4, <1>5, <1>6, <1>7, <1>8, <1>9, <1>10, <1>11 DEF RunStep, LegStep, DockStep

LEMMA NextOwned == Types /\ LegInv /\ [Next]_vars => LegInv'
<1> SUFFICES ASSUME Types, LegInv, [Next]_vars PROVE OwnedLeg'
  BY NextUnsent DEF LegInv
<1>1. CASE UNCHANGED vars
  BY <1>1 DEF vars, LegInv, OwnedLeg, Moving, Reliable
<1>2. CASE ReceiveReport \/ LoseReport \/ CancelCurrentOrder
  BY <1>2 DEF ReceiveReport, LoseReport, CancelCurrentOrder, LegInv, OwnedLeg, Moving, Reliable,
              environment
<1>4. CASE PostStop
  <2>1. UNCHANGED <<world, pc, unstopped>> /\ (StopRobot \/ UNCHANGED robot)
    BY <1>4 DEF PostStop, environment
  <2>2. Moving' => Moving
    BY <2>1, StopRests DEF Moving
  <2> QED BY <2>1, <2>2 DEF LegInv, OwnedLeg, Reliable
<1>3. ASSUME NEW r \in Runs, HandleOrder(r) PROVE OwnedLeg'
  <2>1. pc \in [Runs -> Labels] /\ robot \in Robots /\ newest \in Nat
    BY DEF Types, RobotTypes, RunTypes
  <2>2. pc[r] = "unsent"
    BY <1>3, <2>1 DEF HandleOrder, LegInv, UnsentAhead
  <2>3. UNCHANGED unstopped /\ (robot' = robot \/ robot' = Commanded("leave", Dock))
    BY <1>3 DEF HandleOrder, EnsureNotCharging
  <2>4. Moving' => Moving
    BY <2>1, <2>3 DEF Commanded, Moving, Robots
  <2>5. \A q \in Runs : pc[q] \in Owing => pc'[q] \in Owing
    BY <1>3, <2>1, <2>2 DEF HandleOrder, EnsureNotCharging, Goto, Owing
  <2>6. UNCHANGED world
    BY <1>3 DEF HandleOrder, environment
  <2> QED BY <2>3, <2>4, <2>5, <2>6 DEF LegInv, OwnedLeg, Reliable
<1> QED
  BY <1>1, <1>2, <1>3, <1>4, RobotStepOwned, RunStepOwned DEF Next, LegInv

LEMMA SpecOwned == Spec => []LegInv
<1>1. Init => LegInv
  BY DEF Init, LegInv, OwnedLeg, UnsentAhead, Moving
<1> QED BY <1>1, SpecTypes, NextOwned, PTL DEF Spec

(* When no order is left the robot is on no delivery and no way back: the  *)
(* end of every leg, its cancellation included, stops the robot, unless a  *)
(* leg timed out or a request failed (order_handler.go:477-693).           *)
THEOREM NoOrphanLegEver == Spec => []NoOrphanLeg
<1>1. LegInv => NoOrphanLeg
  BY DEF LegInv, OwnedLeg, Moving, Owing, NoOrphanLeg, Idle
<1> QED BY <1>1, SpecOwned, PTL
-----------------------------------------------------------------------------
(* Refinement of the ledger. *)

(* A lost stop leaves the robot to itself, the others leave it standing. *)
LEMMA StopLedger ==
  ASSUME Types, NEW r \in Runs, CancelRobotNav(r), UNCHANGED world
  PROVE  \/ Astray' /\ UNCHANGED Moving
         \/ ~Moving' /\ UNCHANGED Astray
<1>1. Reliable' = Reliable
  BY DEF Reliable
<1>2. CASE StopRobot /\ UNCHANGED unstopped
  BY <1>1, <1>2, StopRests DEF Astray
<1>3. CASE unstopped' /\ ~Reliable /\ UNCHANGED <<robot, reports>>
  BY <1>1, <1>3 DEF Astray, Moving
<1> QED BY <1>2, <1>3, CancelOutcome

(* What a step of the ledger is, in terms of the run that takes it. *)
LEMMA OwedChanges ==
  ASSUME Types, NEW r \in Runs, NEW label \in Labels, pc' = [pc EXCEPT ![r] = label]
  PROVE  /\ (pc[r] \in Owing <=> label \in Owing) => Owed' = Owed
         /\ pc[r] \notin Owing /\ label \in Owing => r \notin Owed /\ Owed' = Owed \cup {r}
         /\ pc[r] \in Owing /\ label \notin Owing => r \in Owed /\ Owed' = Owed \ {r}
<1>1. pc \in [Runs -> Labels]
  BY DEF Types, RunTypes
<1>2. pc'[r] = label /\ \A q \in Runs \ {r} : pc'[q] = pc[q]
  BY <1>1
<1> QED BY <1>2 DEF Owed

LEMMA RunStepLedger ==
  ASSUME Types, NEW r \in Runs, RunStep(r)
  PROVE  [Ledger!Next]_(Ledger!vars)
<1>0. /\ pc \in [Runs -> Labels] /\ robot \in Robots /\ unstopped \in BOOLEAN
      /\ Moving \in BOOLEAN /\ Moving' \in BOOLEAN
      /\ Astray \in BOOLEAN /\ Astray' \in BOOLEAN
  BY DEF Types, RobotTypes, RunTypes, HistoryTypes, Moving, Astray
<1>1. UNCHANGED world /\ Reliable' = Reliable
  BY DEF RunStep, LeaveStep, LegStep, DockStep, OrderCancelled, StartLeg, SendDelivery,
         CheckDelivery, EnterWait, WaitCancelled, WaitTimeout, WaitSignal, DepartureDeadline,
         PollTick, PollAnswer, EndLeg, GotoCharging, ChargingSeen, DockingFails, EndDocking,
         ClearOrder, environment, Reliable
<1>2. PICK label \in Labels : pc' = [pc EXCEPT ![r] = label]
  BY RunStepMoves
<1>3. pc'[r] = label
  BY <1>0, <1>2
<1>4. ASSUME UNCHANGED <<robot, unstopped>>, pc[r] \in Owing <=> label \in Owing
      PROVE  UNCHANGED Ledger!vars
  BY <1>1, <1>2, <1>4, OwedChanges DEF Moving, Astray, Ledger!vars
<1>5. CASE LeaveStep(r) \/ CheckDelivery(r) \/ EnterWait(r) \/ WaitSignal(r)
             \/ DepartureDeadline(r) \/ PollTick(r) \/ PollAnswer(r) \/ ChargingSeen(r)
             \/ EndDocking(r) \/ ClearOrder(r)
  <2>1. pc[r] \in Owing <=> pc'[r] \in Owing
    BY <1>0, <1>5 DEF LeaveStep, LeftCharger, Stabilized, LeaveFails, CheckDelivery, EnterWait,
       WaitSignal, DepartureDeadline, PollTick, PollAnswer, ChargingSeen, EndDocking,
       ClearOrder, Owing, Goto
  <2>2. UNCHANGED <<robot, unstopped>>
    BY <1>5 DEF LeaveStep, LeftCharger, Stabilized, LeaveFails, CheckDelivery, EnterWait,
       WaitSignal, DepartureDeadline, PollTick, PollAnswer, ChargingSeen, EndDocking, ClearOrder
  <2> QED BY <1>3, <1>4, <2>1, <2>2
<1>6. CASE StartLeg(r)
  <2>1. pc[r] \notin Owing /\ pc'[r] \in Owing
    BY <1>0, <1>6 DEF StartLeg, Goto, Owing
  <2>2. UNCHANGED <<Moving, Astray>>
    BY <1>1, <1>6 DEF StartLeg, Moving, Astray
  <2>3. Ledger!Begin(r)
    BY <1>2, <1>3, <2>1, <2>2, OwedChanges DEF Ledger!Begin
  <2> QED BY <2>3 DEF Ledger!Next
<1>7. CASE OrderCancelled(r)
  <2>1. Owed' = Owed
    <3>1. pc[r] \notin Owing /\ pc'[r] \notin Owing
      BY <1>0, <1>7 DEF OrderCancelled, Goto, Owing
    <3> QED BY <1>2, <1>3, <3>1, OwedChanges
  <2>2. Ledger!Neglect \/ Ledger!Rest
    <3>1. CancelRobotNav(r)
      BY <1>7 DEF OrderCancelled
    <3> QED BY <1>0, <1>1, <2>1, <3>1, StopLedger DEF Ledger!Neglect, Ledger!Rest
  <2> QED BY <2>2 DEF Ledger!Next
<1>8. CASE WaitCancelled(r) \/ EndLeg(r)
  <2>1. r \in Owed /\ Owed' = Owed \ {r}
    <3>1. pc[r] \in Owing /\ pc'[r] \notin Owing
      BY <1>0, <1>8 DEF WaitCancelled, GiveUpLeg, EndLeg, Goto, Owing
    <3> QED BY <1>2, <1>3, <3>1, OwedChanges
  <2>2. Ledger!Settle(r) \/ Ledger!GiveUp(r)
    <3>1. CancelRobotNav(r)
      BY <1>8 DEF WaitCancelled, EndLeg
    <3> QED BY <1>0, <1>1, <2>1, <3>1, StopLedger DEF Ledger!Settle, Ledger!GiveUp
  <2> QED BY <2>2 DEF Ledger!Next
<1>9. CASE SendDelivery(r)
  <2>0. pc[r] \in Owing
    BY <1>9 DEF SendDelivery, Owing
  <2>1. CASE label \in Owing
    <3>1. Owed' = Owed /\ Owed # {}
      BY <1>2, <2>0, <2>1, OwedChanges DEF Owed
    <3>2. /\ UNCHANGED unstopped
          /\ robot' = robot \/ robot' = Commanded("deliver", Goal(r))
      BY <1>0, <1>3, <1>9, <2>1 DEF SendDelivery, GiveUpLeg, Goto, Owing
    <3>3. UNCHANGED Astray /\ (UNCHANGED Moving \/ Moving')
      BY <1>0, <1>1, <3>2 DEF Astray, Moving, Commanded, Robots
    <3> QED BY <3>1, <3>3 DEF Ledger!Next, Ledger!SetOff, Ledger!vars
  <2>2. CASE label \notin Owing
    <3>1. r \in Owed /\ Owed' = Owed \ {r}
      BY <1>2, <2>0, <2>2, OwedChanges
    <3>2. unstopped' /\ ~Reliable
      BY <1>0, <1>3, <1>9, <2>2 DEF SendDelivery, Goto, Owing, Requests, Reliable
    <3>3. Ledger!GiveUp(r)
      BY <1>0, <1>1, <3>1, <3>2 DEF Ledger!GiveUp, Astray
    <3> QED BY <3>3 DEF Ledger!Next
  <2> QED BY <2>1, <2>2
<1>10. CASE WaitTimeout(r)
  <2>1. r \in Owed /\ Owed' = Owed \ {r}
    <3>1. pc[r] \in Owing /\ pc'[r] \notin Owing
      BY <1>0, <1>10 DEF WaitTimeout, GiveUpLeg, Goto, Owing
    <3> QED BY <1>2, <1>3, <3>1, OwedChanges
  <2>2. Astray'
    BY <1>1, <1>10 DEF WaitTimeout, Astray, Reliable
  <2> QED BY <1>0, <2>1, <2>2 DEF Ledger!Next, Ledger!GiveUp
<1>11. CASE GotoCharging(r) \/ DockingFails(r)
  <2>1. Owed' = Owed
    <3>1. pc[r] \notin Owing /\ pc'[r] \notin Owing
      BY <1>0, <1>11 DEF GotoCharging, DockingFails, Goto, Owing
    <3> QED BY <1>2, <1>3, <3>1, OwedChanges
  <2>2. Moving' => Moving
    <3>1. robot' = robot \/ robot' = Commanded("dock", Dock)
      BY <1>11 DEF GotoCharging, DockingFails
    <3> QED BY <1>0, <3>1 DEF Moving, Commanded, Robots
  <2>3. Astray' \/ UNCHANGED Astray
    BY <1>0, <1>1, <1>11 DEF GotoCharging, DockingFails, Astray
  <2>4. CASE Astray'
    BY <1>0, <2>1, <2>2, <2>4 DEF Ledger!Next, Ledger!Neglect
  <2>5. CASE UNCHANGED Astray
    BY <1>0, <2>1, <2>2, <2>5 DEF Ledger!Next, Ledger!Rest, Ledger!vars
  <2> QED BY <2>3, <2>4, <2>5
<1> QED
  BY <1>5, <1>6, <1>7, <1>8, <1>9, <1>10, <1>11 DEF RunStep, LegStep, DockStep

LEMMA NextLedger ==
  Types /\ LegInv /\ [Next]_vars => [Ledger!Next]_(Ledger!vars)
<1> SUFFICES ASSUME Types, LegInv, [Next]_vars
             PROVE  [Ledger!Next]_(Ledger!vars)
  OBVIOUS
<1>0. /\ pc \in [Runs -> Labels] /\ robot \in Robots /\ newest \in Nat
      /\ Moving \in BOOLEAN /\ Moving' \in BOOLEAN
  BY DEF Types, RobotTypes, RunTypes, Moving
<1>1. ASSUME UNCHANGED <<Owed, Astray>>, Moving' => Moving
      PROVE  [Ledger!Next]_(Ledger!vars)
  BY <1>0, <1>1 DEF Ledger!Next, Ledger!Rest, Ledger!vars
<1>2. CASE UNCHANGED vars \/ ReceiveReport \/ LoseReport \/ CancelCurrentOrder
  BY <1>1, <1>2 DEF vars, ReceiveReport, LoseReport, CancelCurrentOrder, environment, Owed,
                    Moving, Astray, Reliable
<1>5. CASE PostStop
  <2>1. UNCHANGED <<world, pc, unstopped>> /\ (StopRobot \/ UNCHANGED robot)
    BY <1>5 DEF PostStop, environment
  <2>2. UNCHANGED <<Owed, Astray>>
    BY <2>1 DEF Owed, Astray, Reliable
  <2>3. Moving' => Moving
    BY <2>1, StopRests DEF Moving
  <2> QED BY <1>1, <2>2, <2>3
<1>3. CASE RobotStep
  <2>1. UNCHANGED <<Owed, Astray>>
    BY <1>3 DEF RobotStep, environment, Owed, Astray, Reliable
  <2>2. Moving' => Moving
    BY <1>0, <1>3 DEF RobotStep, RobotDepart, RobotArrive, RobotIsThere, RobotBlocked,
           RobotGoesOn, RobotReturn, RobotIsBack, RobotGotoCharge, RobotDocks, RobotUndocks,
           RobotGivesUp, MoveTo, Moving, Robots
  <2> QED BY <1>1, <2>1, <2>2
<1>4. ASSUME NEW r \in Runs, HandleOrder(r) PROVE [Ledger!Next]_(Ledger!vars)
  <2>1. pc[r] = "unsent"
    BY <1>0, <1>4 DEF HandleOrder, LegInv, UnsentAhead
  <2>2. PICK label \in {"next", "leaving", "ending"} : pc' = [pc EXCEPT ![r] = label]
    BY <1>4 DEF HandleOrder, EnsureNotCharging, Goto
  <2>3. Owed' = Owed
    BY <2>1, <2>2, OwedChanges DEF Owing, Labels
  <2>4. Astray' = Astray
    BY <1>4 DEF HandleOrder, environment, Astray, Reliable
  <2>5. robot' = robot \/ robot' = Commanded("leave", Dock)
    BY <1>4 DEF HandleOrder, EnsureNotCharging
  <2>6. Moving' => Moving
    BY <1>0, <2>5 DEF Moving, Commanded, Robots
  <2> QED BY <1>1, <2>3, <2>4, <2>6
<1> QED BY <1>2, <1>3, <1>4, <1>5, RunStepLedger DEF Next

(* The legs keep the ledger: only a run that has yet to stop the robot     *)
(* sends it off, and a run is done with its leg in the step that stops the *)
(* robot, also one that was superseded or cancelled, unless the request    *)
(* was lost or the leg timed out (order_handler.go:456-693).               *)
THEOREM LegsKeepLedger == Spec => LegsAreStopped
<1>1. Init => Ledger!Init
  BY DEF Init, Ledger!Init, Owed, Owing, Moving, Astray
<1> QED BY <1>1, SpecTypes, SpecOwned, NextLedger, PTL
        DEF Spec, LegsAreStopped, Ledger!Safe
=============================================================================
