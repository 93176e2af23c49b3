--------------------------- MODULE ArrivalProofs ----------------------------
(***************************************************************************)
(* The theorem that a leg counted as arrived went to its station, and what *)
(* it rests on: what the reports tell, and where a robot is that was sent  *)
(* off.                                                                    *)
(***************************************************************************)
EXTENDS NavigationProofs
-----------------------------------------------------------------------------
(* What the bridge believes once the reports that wait are handled: the    *)
(* last status among them, or else the one it has.                         *)
LastTold(queue, shown, status) ==
  \/ shown = status /\ \A i \in 1 .. Len(queue) : queue[i].status = "empty"
  \/ /\ status # "empty"
     /\ \E i \in 1 .. Len(queue) :
          /\ queue[i].status = status
          /\ \A j \in 1 .. Len(queue) : j > i => queue[j].status = "empty"

LEMMA PostTells ==
  ASSUME NEW queue \in Seq(Report), NEW report \in Report, NEW shown, report.status # "empty"
  PROVE  LastTold(Append(queue, report), shown, report.status)
<1> DEFINE longer == Append(queue, report)
<1>1. /\ Len(queue) \in Nat /\ Len(longer) = Len(queue) + 1
      /\ longer[Len(queue) + 1] = report
  BY AppendProperties, LenProperties
<1> HIDE DEF longer
<1>2. Len(longer) \in 1 .. Len(longer) /\ longer[Len(longer)].status = report.status
  BY <1>1
<1>3. \A j \in 1 .. Len(longer) : ~(j > Len(longer))
  BY <1>1
<1> QED BY <1>2, <1>3 DEF LastTold, longer

LEMMA PostKeeps ==
  ASSUME NEW queue \in Seq(Report), NEW report \in Report, NEW shown, NEW status,
         report.status = "empty", LastTold(queue, shown, status)
  PROVE  LastTold(Append(queue, report), shown, status)
<1> DEFINE longer == Append(queue, report)
<1>1. /\ Len(queue) \in Nat /\ Len(longer) = Len(queue) + 1
      /\ longer[Len(queue) + 1] = report
      /\ \A i \in 1 .. Len(queue) : longer[i] = queue[i]
  BY AppendProperties, LenProperties
<1> HIDE DEF longer
<1>2. \A i \in 1 .. Len(longer) : i \in 1 .. Len(queue) \/ i = Len(queue) + 1
  BY <1>1
<1>3. 1 .. Len(queue) \subseteq 1 .. Len(longer)
  BY <1>1
<1> QED BY <1>1, <1>2, <1>3 DEF LastTold, longer

LEMMA HandledKeeps ==
  ASSUME NEW queue \in Seq(Report), queue # <<>>, NEW shown, NEW status,
         LastTold(queue, shown, status)
  PROVE  LastTold(Tail(queue),
                  IF Head(queue).status = "empty" THEN shown ELSE Head(queue).status, status)
<1> DEFINE shorter == Tail(queue)
           known == IF Head(queue).status = "empty" THEN shown ELSE Head(queue).status
<1>1. /\ Len(queue) \in Nat /\ Len(shorter) = Len(queue) - 1
      /\ \A i \in 1 .. Len(shorter) : shorter[i] = queue[i + 1]
  BY HeadTailProperties, LenProperties
<1>2. Head(queue) = queue[1] /\ Len(queue) > 0
  BY EmptySeq, LenProperties
<1> HIDE DEF shorter
<1>3. \A i \in 1 .. Len(shorter) : i + 1 \in 1 .. Len(queue)
  BY <1>1
<1>4. CASE shown = status /\ \A i \in 1 .. Len(queue) : queue[i].status = "empty"
  <2>1. known = status
    BY <1>2, <1>4, <1>1
  <2>2. \A i \in 1 .. Len(shorter) : shorter[i].status = "empty"
    BY <1>1, <1>3, <1>4
  <2> QED BY <2>1, <2>2 DEF LastTold, shorter
<1>5. ASSUME status # "empty", NEW i \in 1 .. Len(queue), queue[i].status = status,
             \A j \in 1 .. Len(queue) : j > i => queue[j].status = "empty"
      PROVE  LastTold(shorter, known, status)
  <2>1. CASE i = 1
    <3>1. known = status
      BY <1>2, <1>5, <2>1
    <3>2. \A j \in 1 .. Len(shorter) : j + 1 > 1
      OBVIOUS
    <3>3. \A j \in 1 .. Len(shorter) : shorter[j].status = "empty"
      BY <1>1, <1>3, <1>5, <2>1, <3>2
    <3> QED BY <3>1, <3>3 DEF LastTold
  <2>2. CASE i # 1
    <3> DEFINE k == i - 1
    <3>1. k \in 1 .. Len(shorter) /\ k + 1 = i
      BY <1>1, <2>2
    <3> HIDE DEF k
    <3>2. shorter[k].status = status
      BY <1>1, <1>5, <3>1
    <3>3. \A j \in 1 .. Len(shorter) : j > k => j + 1 > i
      BY <3>1
    <3>4. \A j \in 1 .. Len(shorter) : j > k => shorter[j].status = "empty"
      BY <1>1, <1>3, <1>5, <3>3
    <3> QED BY <1>5, <3>1, <3>2, <3>4 DEF LastTold
  <2> QED BY <2>1, <2>2
<1> QED BY <1>4, <1>5 DEF LastTold, shorter
-----------------------------------------------------------------------------
(* What a step of an order may do to the robot, to the reports, to what    *)
(* the bridge knows, and to the other orders: a command reaches into their *)
(* legs, and is noted there.                                               *)
Commands(r) ==
  \/ UNCHANGED <<robot, reports>>
  \/ robot' = Stopped
     /\ IF robot.status = Stopped.status THEN UNCHANGED reports ELSE Post("standby", "none")
  \/ /\ UNCHANGED reports
     /\ \/ pc[r] = "send" /\ robot' = Commanded("deliver", Goal(r))
        \/ robot.at = Dock /\ view.charging /\ robot' = Commanded("leave", Dock)
        \/ pc[r] = "next" /\ robot.at # Dock /\ ~view.charging /\ robot' = Commanded("dock", Dock)

LeavesOthers(r) ==
  \A q \in Runs \ {r} :
    /\ pc'[q] = pc[q] /\ leg'[q] = leg[q] /\ departed'[q] = departed[q] /\ seen'[q] = seen[q]
    /\ reached'[q] = reached[q] /\ held'[q] = held[q]
    /\ disturbed[q] => disturbed'[q]
    /\ UNCHANGED <<robot, reports>> \/ (OnLeg(q) => disturbed'[q])

LEMMA CancelEffects ==
  ASSUME Types, NEW r \in Runs, CancelRobotNav(r)
  PROVE  Commands(r) /\ Disturb(r)
  BY CancelOutcome DEF CancelRobotNav, StopRobot, Commands

LEMMA DisturbEffects ==
  ASSUME Types, NEW r \in Runs, Disturb(r)
  PROVE  \A q \in Runs : disturbed'[q] = (disturbed[q] \/ (OnLeg(q) /\ q # r))
  BY DEF Disturb

LEMMA RunEffects ==
  ASSUME Types, NEW r \in Runs, RunStep(r) \/ HandleOrder(r)
  PROVE  /\ UNCHANGED <<world, plan, unseen>> /\ view'.status = view.status /\ (signal' => signal)
         /\ Commands(r)
         /\ LeavesOthers(r)
<1> USE DEF environment, locals, channels, noted, Goto
<1>0. /\ pc \in [Runs -> Labels] /\ leg \in [Runs -> Nat] /\ departed \in [Runs -> BOOLEAN]
      /\ seen \in [Runs -> Snapshots] /\ reached \in [Runs -> BOOLEAN]
      /\ disturbed \in [Runs -> BOOLEAN] /\ held \in [Runs -> BOOLEAN]
      /\ view \in [status : Statuses \cup {"empty"}, driving : BOOLEAN, charging : BOOLEAN]
      /\ signal \in BOOLEAN
  BY DEF Types, RunTypes, LocalTypes, HistoryTypes, ViewTypes
<1>a. ASSUME NEW label, pc' = [pc EXCEPT ![r] = label],
             UNCHANGED <<robot, reports, leg, departed, seen, reached, disturbed, held>>
      PROVE  LeavesOthers(r)
  BY <1>0, <1>a DEF LeavesOthers
<1>b. ASSUME Disturb(r), NEW label, pc' = [pc EXCEPT ![r] = label],
             UNCHANGED <<leg, departed, seen, reached, held>>
      PROVE  LeavesOthers(r)
  BY <1>0, <1>b, DisturbEffects DEF LeavesOthers
<1>1. CASE HandleOrder(r)
  <2>1. UNCHANGED <<world, plan, view, signal, reports, leg, departed, seen, reached, held, unseen>>
    BY <1>1 DEF HandleOrder
  <2>2. Commands(r)
    BY <1>1, <2>1 DEF HandleOrder, EnsureNotCharging, Commands
  <2>3. /\ Disturb(r) \/ UNCHANGED <<robot, disturbed>>
        /\ \E label \in Labels : pc' = [pc EXCEPT ![r] = label]
    BY <1>1 DEF HandleOrder, EnsureNotCharging, Labels
  <2>4. LeavesOthers(r)
    BY <2>1, <2>3, <1>a, <1>b
  <2> QED BY <2>1, <2>2, <2>4
<1>2. CASE LeaveStep(r)
  BY <1>2, <1>a DEF LeaveStep, LeftCharger, Stabilized, LeaveFails, Commands
<1>3. CASE OrderCancelled(r) \/ WaitCancelled(r)
  BY <1>0, <1>3, <1>b, CancelEffects DEF OrderCancelled, WaitCancelled, GiveUpLeg
<1>4. CASE EndLeg(r)
  <2>1. Commands(r) /\ Disturb(r)
    BY <1>4, CancelEffects DEF EndLeg
  <2>2. LeavesOthers(r)
    BY <1>0, <1>4, <2>1, DisturbEffects DEF EndLeg, LeavesOthers
  <2> QED BY <1>0, <1>4, <2>1, <2>2 DEF EndLeg
<1>5. CASE StartLeg(r)
  BY <1>0, <1>5 DEF StartLeg, Commands, LeavesOthers
<1>6. CASE SendDelivery(r)
  <2>1. Commands(r) /\ Disturb(r)
    BY <1>6 DEF SendDelivery, Commands
  <2>2. \E label \in Labels : pc' = [pc EXCEPT ![r] = label]
    BY <1>6 DEF SendDelivery, GiveUpLeg, Labels
  <2>3. view'.status = view.status
    BY <1>0, <1>6 DEF SendDelivery, GiveUpLeg
  <2> QED BY <1>6, <1>b, <2>1, <2>2, <2>3 DEF SendDelivery
<1>7. CASE CheckDelivery(r) \/ WaitSignal(r) \/ DepartureDeadline(r)
  BY <1>7, <1>a DEF CheckDelivery, WaitSignal, DepartureDeadline, Commands
<1>8. CASE EnterWait(r) \/ PollTick(r)
  BY <1>0, <1>8 DEF EnterWait, PollTick, Commands, LeavesOthers
<1>9. CASE WaitTimeout(r)
  BY <1>0, <1>9, <1>a DEF WaitTimeout, GiveUpLeg, Commands
<1>10. CASE PollAnswer(r)
  <2>1. UNCHANGED <<world, plan, robot, reports, view, leg, reached, disturbed, noted>>
    BY <1>10 DEF PollAnswer
  <2>2. \A q \in Runs \ {r} : pc'[q] = pc[q] /\ departed'[q] = departed[q] /\ seen'[q] = seen[q]
    BY <1>0, <1>10 DEF PollAnswer
  <2>3. signal' => signal
    BY <1>10 DEF PollAnswer
  <2> QED BY <2>1, <2>2, <2>3 DEF Commands, LeavesOthers
<1>11. CASE GotoCharging(r)
  <2>1. Commands(r) /\ (Disturb(r) \/ UNCHANGED <<robot, disturbed>>)
    BY <1>11 DEF GotoCharging, Commands
  <2>2. UNCHANGED <<world, plan, reports, view, signal, leg, departed, seen, noted>>
    BY <1>11 DEF GotoCharging
  <2>3. \A q \in Runs \ {r} : pc'[q] = pc[q] /\ reached'[q] = reached[q]
    BY <1>0, <1>11 DEF GotoCharging
  <2> QED BY <2>1, <2>2, <2>3, DisturbEffects DEF LeavesOthers
<1>12. CASE ChargingSeen(r) \/ DockingFails(r) \/ EndDocking(r)
  BY <1>12, <1>a DEF ChargingSeen, DockingFails, EndDocking, Commands
<1>13. CASE ClearOrder(r)
  BY <1>0, <1>13 DEF ClearOrder, Commands, LeavesOthers
<1> QED
  BY <1>1, <1>2, <1>3, <1>4, <1>5, <1>6, <1>7, <1>8, <1>9, <1>10, <1>11, <1>12, <1>13
     DEF RunStep, LegStep, DockStep
-----------------------------------------------------------------------------
(* Where the robot is.  It is on the charger only at rest, no delivery     *)
(* goes there, and a leg whose robot is at its goal has reached it.        *)
Under == {"check", "enter", "wait", "polling"}
PlaceInv ==
  /\ robot.at = Dock => robot.status = "standby"
  /\ robot.task = "leave" => robot.at = Dock
  /\ robot.task = "deliver" => robot.goal # Dock
  /\ \A r \in Runs : pc[r] \in Under \cup {"send"} =>
       Goal(r) # Dock /\ (~reached[r] => robot.at # Goal(r))

LEMMA InitPlace == Init => PlaceInv
  BY PlacesAssumption DEF Init, PlaceInv, Under

LEMMA RobotStepPlace ==
  ASSUME Types, PlaceInv, RobotStep
  PROVE  PlaceInv'
<1>0. /\ robot \in Robots /\ reached \in [Runs -> BOOLEAN]
      /\ Road # Dock /\ Counter # Dock
  BY PlacesAssumption DEF Types, RobotTypes, HistoryTypes, Places
<1>1. UNCHANGED <<plan, pc, leg>>
  BY DEF RobotStep, environment, locals, channels, noted
<1>2. /\ robot'.at = Dock => robot'.status = "standby"
      /\ robot'.task = "leave" => robot'.at = Dock
      /\ robot'.task = "deliver" => robot'.goal # Dock
  <2> USE <1>0 DEF MoveTo, PlaceInv, Robots
  <2>1. CASE RobotDepart \/ RobotArrive \/ RobotIsThere
    BY <2>1 DEF RobotDepart, RobotArrive, RobotIsThere
  <2>2. CASE RobotBlocked \/ RobotGoesOn
    BY <2>2 DEF RobotBlocked, RobotGoesOn
  <2>3. CASE RobotReturn \/ RobotIsBack \/ RobotGotoCharge \/ RobotDocks \/ RobotUndocks
    BY <2>3 DEF RobotReturn, RobotIsBack, RobotGotoCharge, RobotDocks, RobotUndocks
  <2>4. CASE RobotGivesUp
    BY <2>4 DEF RobotGivesUp
  <2> QED BY <2>1, <2>2, <2>3, <2>4 DEF RobotStep
<1>3. \/ UNCHANGED reached /\ robot'.at = robot.at
      \/ \A r \in Runs : reached'[r] = (reached[r] \/ (OnLeg(r) /\ robot'.at = Goal(r)))
  <2>1. ASSUME NEW p, NEW status, NEW task, MoveTo(p, status, task)
        PROVE  \A r \in Runs : reached'[r] = (reached[r] \/ (OnLeg(r) /\ robot'.at = Goal(r)))
    <3>1. robot'.at = p
      BY <1>0, <2>1 DEF MoveTo, Robots
    <3> QED BY <2>1, <3>1 DEF MoveTo
  <2>2. CASE RobotIsThere
    BY <1>0, <2>2 DEF RobotIsThere, Robots
  <2> QED
    BY <2>1, <2>2 DEF RobotStep, RobotDepart, RobotArrive, RobotBlocked, RobotGoesOn,
       RobotReturn, RobotIsBack, RobotGotoCharge, RobotDocks, RobotUndocks, RobotGivesUp
<1>4. \A r \in Runs : pc[r] \in Under \cup {"send"} => OnLeg(r)
  BY DEF Under, OnLeg
<1>5. \A r \in Runs : pc[r] \in Under \cup {"send"} => (~reached'[r] => robot'.at # Goal(r))
  BY <1>3, <1>4 DEF PlaceInv
<1>6. \A r \in Runs : Goal(r)' = Goal(r) /\ pc'[r] = pc[r]
  BY <1>1 DEF Goal
<1>7. \A r \in Runs : pc'[r] \in Under \cup {"send"} =>
        Goal(r)' # Dock /\ (~reached'[r] => robot'.at # Goal(r)')
  BY <1>5, <1>6 DEF PlaceInv
<1> QED BY <1>2, <1>7 DEF PlaceInv

LEMMA RunPlace ==
  ASSUME Types, PlaceInv, NEW r \in Runs, RunStep(r) \/ HandleOrder(r)
  PROVE  PlaceInv'
<1> USE DEF environment, locals, channels, noted, Goto
<1>0. /\ robot \in Robots /\ pc \in [Runs -> Labels] /\ leg \in [Runs -> Nat]
      /\ reached \in [Runs -> BOOLEAN]
  BY DEF Types, RobotTypes, RunTypes, LocalTypes, HistoryTypes
<1>1. UNCHANGED plan /\ Commands(r) /\ LeavesOthers(r)
  BY RunEffects
<1>2. robot'.at = robot.at
  BY <1>0, <1>1 DEF Commands, Stopped, Commanded, Robots
<1>3. /\ robot'.at = Dock => robot'.status = "standby"
      /\ robot'.task = "leave" => robot'.at = Dock
      /\ robot'.task = "deliver" => robot'.goal # Dock
  BY <1>0, <1>1 DEF Commands, Stopped, Commanded, Robots, PlaceInv, Underway
<1>4. \A q \in Runs \ {r} : Goal(q)' = Goal(q) /\ pc'[q] = pc[q] /\ reached'[q] = reached[q]
  BY <1>1 DEF LeavesOthers, Goal
<1>5. pc'[r] \in Under \cup {"send"} => Goal(r)' # Dock /\ (~reached'[r] => robot.at # Goal(r)')
  <2> SUFFICES ASSUME pc'[r] \in Under \cup {"send"}
               PROVE  Goal(r)' # Dock /\ (~reached'[r] => robot.at # Goal(r)')
    OBVIOUS
  <2>1. CASE StartLeg(r)
    <3>1. Goal(r)' = Goal(r) /\ Goal(r) # Dock /\ reached'[r] = (robot.at = Goal(r))
      BY <1>0, <2>1 DEF StartLeg, Goal
    <3> QED BY <3>1
  <2>2. CASE SendDelivery(r) \/ CheckDelivery(r) \/ EnterWait(r) \/ WaitSignal(r) \/ PollTick(r)
             \/ PollAnswer(r)
    <3>1. pc[r] \in Under \cup {"send"} /\ UNCHANGED <<leg, reached>>
      BY <2>2 DEF SendDelivery, CheckDelivery, EnterWait, WaitSignal, PollTick, PollAnswer, Under
    <3> QED BY <1>1, <3>1 DEF PlaceInv, Goal
  <2>3. StartLeg(r) \/ SendDelivery(r) \/ CheckDelivery(r) \/ EnterWait(r) \/ WaitSignal(r)
        \/ PollTick(r) \/ PollAnswer(r)
    <3>1. CASE LeaveStep(r) \/ DockStep(r) \/ ClearOrder(r) \/ HandleOrder(r)
      BY <1>0, <3>1 DEF LeaveStep, LeftCharger, Stabilized, LeaveFails, DockStep, GotoCharging,
             ChargingSeen, DockingFails, EndDocking, ClearOrder, HandleOrder, EnsureNotCharging,
             Under
    <3>2. CASE OrderCancelled(r) \/ WaitCancelled(r) \/ WaitTimeout(r) \/ DepartureDeadline(r)
               \/ EndLeg(r)
      BY <1>0, <3>2 DEF OrderCancelled, WaitCancelled, WaitTimeout, DepartureDeadline, EndLeg,
             GiveUpLeg, Under
    <3> QED BY <3>1, <3>2 DEF RunStep, LegStep
  <2> QED BY <2>1, <2>2, <2>3
<1>6. \A q \in Runs : pc'[q] \in Under \cup {"send"} =>
        Goal(q)' # Dock /\ (~reached'[q] => robot'.at # Goal(q)')
  BY <1>2, <1>4, <1>5 DEF PlaceInv
<1> QED BY <1>3, <1>6 DEF PlaceInv

LEMMA PostStopPlace ==
  ASSUME Types, PlaceInv, PostStop
  PROVE  PlaceInv'
<1>1. UNCHANGED <<plan, pc, leg, reached>> /\ (StopRobot \/ UNCHANGED robot)
  BY DEF PostStop, environment, locals
<1>2. \A q \in Runs : Goal(q)' = Goal(q)
  BY <1>1 DEF Goal
<1>3. CASE StopRobot
  BY <1>1, <1>2, <1>3 DEF StopRobot, Stopped, Types, RobotTypes, Robots, PlaceInv, Underway
<1>4. CASE UNCHANGED robot
  BY <1>1, <1>2, <1>4 DEF PlaceInv
<1> QED BY <1>1, <1>3, <1>4

LEMMA NextPlace == Types /\ PlaceInv /\ [Next]_vars => PlaceInv'
<1> SUFFICES ASSUME Types, PlaceInv, [Next]_vars PROVE PlaceInv'
  OBVIOUS
<1>1. CASE UNCHANGED vars
  BY <1>1 DEF vars, PlaceInv, Goal
<1>2. CASE ReceiveReport \/ LoseReport \/ CancelCurrentOrder
  BY <1>2 DEF ReceiveReport, LoseReport, CancelCurrentOrder, PlaceInv, Goal, environment, locals,
     channels, noted
<1> QED BY <1>1, <1>2, RobotStepPlace, RunPlace, PostStopPlace DEF Next
-----------------------------------------------------------------------------
(* What the bridge is told, when no report is lost: the status of the      *)
(* robot, once the reports that wait are handled.  Two things are never    *)
(* posted as a status: the one a session begins with, and that the robot   *)
(* stands on the charger.                                                  *)
Told(status) == LastTold(reports, view.status, status)
ToldInv ==
  ~world.lossy =>
    \/ Told(robot.status)
    \/ robot.status = "standby" /\ Told("goto charging")
    \/ robot.status \in {"map_loaded", "standby"} /\ Told("empty")

LEMMA InitTold == Init => ToldInv
  BY EmptySeq DEF Init, ToldInv, Told, LastTold

LEMMA PostedTold ==
  ASSUME Types, NEW status \in Statuses,
         NEW event \in {"none", "empty", "show_charging", "remove_charging"},
         Post(status, event), UNCHANGED view, robot'.status = status
  PROVE  ToldInv'
<1>1. [status |-> status, event |-> event] \in Report
  BY DEF Report
<1>2. status # "empty"
  BY DEF Statuses
<1>3. LastTold(reports', view'.status, status)
  BY <1>1, <1>2, PostTells DEF Types, ReportTypes, Post
<1> QED BY <1>3 DEF ToldInv, Told

LEMMA RobotStepTold ==
  ASSUME Types, PlaceInv, ToldInv, RobotStep
  PROVE  ToldInv'
<1>0. robot \in Robots /\ reports \in Seq(Report)
  BY DEF Types, RobotTypes, ReportTypes
<1>1. UNCHANGED <<world, view>>
  BY DEF RobotStep, environment
<1>2. CASE RobotIsThere
  BY <1>0, <1>1, <1>2 DEF RobotIsThere, ToldInv, Told, Robots
<1>3. CASE RobotDocks \/ RobotUndocks
  <2>1. \E event \in {"show_charging", "remove_charging"} :
          reports' = Append(reports, [status |-> "empty", event |-> event])
    BY <1>3 DEF RobotDocks, RobotUndocks, Post
  <2>2. PICK event \in {"show_charging", "remove_charging"} :
          reports' = Append(reports, [status |-> "empty", event |-> event])
    BY <2>1
  <2>3. [status |-> "empty", event |-> event] \in Report
    BY DEF Report
  <2>4. \A status : Told(status) => Told(status)'
    BY <1>0, <1>1, <2>2, <2>3, PostKeeps DEF Told
  <2>5. robot'.status = "standby" /\ robot.status \in {"standby", "goto charging"}
    BY <1>0, <1>3 DEF RobotDocks, RobotUndocks, MoveTo, PlaceInv, Robots
  <2>6. ~world.lossy => Told("standby") \/ Told("goto charging") \/ Told("empty")
    BY <2>5 DEF ToldInv
  <2> QED BY <1>1, <2>4, <2>5, <2>6 DEF ToldInv
<1>4. CASE RobotDepart \/ RobotArrive \/ RobotBlocked \/ RobotGoesOn \/ RobotReturn
           \/ RobotIsBack \/ RobotGotoCharge \/ RobotGivesUp
  <2>1. \E status \in Statuses : \E event \in {"none", "remove_charging"} :
          Post(status, event) /\ robot'.status = status
    BY <1>0, <1>4 DEF RobotDepart, RobotArrive, RobotBlocked, RobotGoesOn, RobotReturn,
           RobotIsBack, RobotGotoCharge, RobotGivesUp, MoveTo, Robots, Statuses
  <2> QED BY <1>1, <2>1, PostedTold
<1> QED BY <1>2, <1>3, <1>4 DEF RobotStep

LEMMA ReceiveTold ==
  ASSUME Types, ToldInv, ReceiveReport
  PROVE  ToldInv'
<1>1. UNCHANGED <<world, robot>> /\ reports # <<>> /\ reports' = Tail(reports)
      /\ reports \in Seq(Report)
      /\ view'.status = IF Head(reports).status = "empty" THEN view.status
                        ELSE Head(reports).status
  BY DEF ReceiveReport, ApplyWebhookData, environment, Types, ReportTypes
<1>2. \A status : Told(status) => Told(status)'
  BY <1>1, HandledKeeps DEF Told
<1> QED BY <1>1, <1>2 DEF ToldInv

LEMMA RunTold ==
  ASSUME Types, ToldInv, NEW r \in Runs, RunStep(r) \/ HandleOrder(r)
  PROVE  ToldInv'
<1>0. robot \in Robots /\ UNCHANGED world /\ view'.status = view.status /\ Commands(r)
  BY RunEffects DEF Types, RobotTypes
<1>1. CASE UNCHANGED reports /\ robot'.status = robot.status
  BY <1>0, <1>1 DEF ToldInv, Told
<1>2. CASE Post("standby", "none") /\ robot'.status = "standby"
  <2>1. [status |-> "standby", event |-> "none"] \in Report
    BY DEF Report, Statuses
  <2>2. LastTold(reports', view'.status, "standby")
    BY <1>0, <1>2, <2>1, PostTells DEF Types, ReportTypes, Post
  <2> QED BY <1>2, <2>2 DEF ToldInv, Told
<1>3. \/ UNCHANGED reports /\ robot'.status = robot.status
      \/ Post("standby", "none") /\ robot'.status = "standby"
  BY <1>0 DEF Commands, Stopped, Commanded, Robots
<1> QED BY <1>1, <1>2, <1>3

LEMMA PostStopTold ==
  ASSUME Types, ToldInv, PostStop
  PROVE  ToldInv'
<1>1. UNCHANGED <<world, view>> /\ (StopRobot \/ UNCHANGED <<robot, reports>>)
  BY DEF PostStop, environment
<1>2. CASE UNCHANGED reports /\ robot'.status = robot.status
  BY <1>1, <1>2 DEF ToldInv, Told
<1>3. CASE Post("standby", "none") /\ robot'.status = "standby"
  BY <1>1, <1>3, PostedTold DEF Statuses
<1>4. ASSUME StopRobot
      PROVE  \/ UNCHANGED reports /\ robot'.status = robot.status
             \/ Post("standby", "none") /\ robot'.status = "standby"
  BY <1>4 DEF StopRobot, Stopped, Types, RobotTypes, Robots
<1> QED BY <1>1, <1>2, <1>3, <1>4

LEMMA NextTold == Types /\ PlaceInv /\ ToldInv /\ [Next]_vars => ToldInv'
<1> SUFFICES ASSUME Types, PlaceInv, ToldInv, [Next]_vars PROVE ToldInv'
  OBVIOUS
<1>1. CASE UNCHANGED vars \/ CancelCurrentOrder
  BY <1>1 DEF vars, CancelCurrentOrder, ToldInv, Told, environment
<1>2. CASE LoseReport
  BY <1>2 DEF LoseReport, ToldInv, environment
<1> QED BY <1>1, <1>2, RobotStepTold, ReceiveTold, RunTold, PostStopTold DEF Next
-----------------------------------------------------------------------------
(* A leg that is apart has not reached its station, and nobody else has    *)
(* disturbed it.  Its robot is where the leg sent it, no signal and no     *)
(* report of an arrival is on its way, and departed says that the robot    *)
(* is off.  So nothing lets the leg end but the timer, of a robot that is  *)
(* held.                                                                   *)
Quiet == {"map_loaded", "standby", "goto charging"}
Afield == {"delivering", "blocking"}
Off == Afield \cup {"goto charging"}
Apart(r) == ~reached[r] /\ ~disturbed[r]
Sent(r) ==
  robot.task = "deliver" /\ robot.goal = Goal(r) /\ robot.status \in Quiet \cup Afield
NoArrival == \A i \in 1 .. Len(reports) : reports[i].status \in Afield

ToSend(r) == Sent(r) \/ (robot.task # "deliver" /\ robot.status \in Quiet)
Waits(r) == ~signal /\ (departed[r] => robot.status \in Off)
Polls(r) ==
  /\ seen[r].status \in {"delivering", "blocking", "return", "arrived"} =>
       robot.status \in Afield
  /\ departed[r] => seen[r].status \in Off

ApartLeg(r) ==
  /\ pc[r] = "arrived" => held[r] /\ EndedByTimer(r)
  /\ pc[r] = "send" => ToSend(r)
  /\ pc[r] \in Under => Sent(r)
  /\ pc[r] \in {"enter", "wait", "polling"} => NoArrival
  /\ pc[r] \in {"wait", "polling"} => Waits(r)
  /\ pc[r] = "polling" => Polls(r)

ArriveInv == Reliable => \A r \in Runs : Apart(r) => ApartLeg(r)

(* A leg nothing is done to stays what it is. *)
LEMMA KeepsLeg ==
  ASSUME NEW q \in Runs, ApartLeg(q), pc'[q] = pc[q], Goal(q)' = Goal(q),
         departed'[q] = departed[q], seen'[q] = seen[q], held'[q] = held[q], signal' => signal,
         UNCHANGED <<robot, reports>>
  PROVE  ApartLeg(q)'
  BY DEF ApartLeg, EndedByTimer, ToSend, Sent, NoArrival, Waits, Polls

LEMMA AppendNoArrival ==
  ASSUME Types, NoArrival, NEW status \in Afield, NEW event,
         event \in {"none", "remove_charging"}, Post(status, event)
  PROVE  NoArrival'
<1>1. [status |-> status, event |-> event] \in Report
  BY DEF Report, Statuses, Afield
<1>2. reports \in Seq(Report) /\ reports' = Append(reports, [status |-> status, event |-> event])
  BY DEF Types, ReportTypes, Post
<1>3. /\ Len(reports) \in Nat /\ Len(reports') = Len(reports) + 1
      /\ reports'[Len(reports) + 1] = [status |-> status, event |-> event]
      /\ \A i \in 1 .. Len(reports) : reports'[i] = reports[i]
  BY <1>1, <1>2, AppendProperties, LenProperties
<1>4. \A i \in 1 .. Len(reports') : i \in 1 .. Len(reports) \/ i = Len(reports) + 1
  BY <1>3
<1> QED BY <1>3, <1>4 DEF NoArrival

(* What the robot does by itself: with a leg that is apart it goes on with *)
(* the leg, or stands at rest before the leg is sent.                      *)
LEMMA RobotStepLeg ==
  ASSUME Types, PlaceInv, Reliable, RobotStep, NEW r \in Runs, Apart(r)', Apart(r), ApartLeg(r)
  PROVE  ApartLeg(r)'
<1>0. /\ robot \in Robots /\ reached \in [Runs -> BOOLEAN] /\ pc \in [Runs -> Labels]
      /\ pc[r] \in Under \cup {"send"} => OnLeg(r)
  BY DEF Types, RobotTypes, HistoryTypes, RunTypes, OnLeg, Under
<1>1. UNCHANGED <<world, plan, view, signal, pc, leg, departed, seen, disturbed>>
  BY DEF RobotStep, environment, locals, channels, noted
<1>2. /\ Goal(r)' = Goal(r) /\ pc'[r] = pc[r] /\ departed'[r] = departed[r] /\ seen'[r] = seen[r]
      /\ held[r] => held'[r]
  BY <1>1 DEF Goal, RobotStep
<1>3. CASE pc[r] \notin Under \cup {"send"}
  BY <1>1, <1>2, <1>3 DEF ApartLeg, Under, EndedByTimer
<1>4. CASE pc[r] \in Under \cup {"send"} /\ Sent(r)
  <2>1. RobotDepart \/ RobotBlocked \/ RobotGoesOn
    <3>1. ~RobotIsThere
      BY <1>4 DEF RobotIsThere, PlaceInv, Sent, Apart
    <3>2. ~RobotArrive
      BY <1>0, <1>4 DEF RobotArrive, MoveTo, Sent, Apart
    <3>3. ~(RobotReturn \/ RobotIsBack \/ RobotGotoCharge \/ RobotDocks \/ RobotUndocks
            \/ RobotGivesUp)
      BY <1>4 DEF RobotReturn, RobotIsBack, RobotGotoCharge, RobotDocks, RobotUndocks,
             RobotGivesUp, Sent, Reliable
    <3> QED BY <3>1, <3>2, <3>3 DEF RobotStep
  <2>2. \E status \in Afield : \E event \in {"none", "remove_charging"} :
          /\ MoveTo(Road, status, robot.task) /\ Post(status, event)
    BY <1>4, <2>1 DEF RobotDepart, RobotBlocked, RobotGoesOn, Afield, Sent
  <2>3. robot'.task = "deliver" /\ robot'.goal = robot.goal /\ robot'.status \in Afield
    BY <1>0, <1>4, <2>2 DEF MoveTo, Robots, Sent
  <2>4. Sent(r)'
    BY <1>2, <1>4, <2>3 DEF Sent
  <2>5. NoArrival => NoArrival'
    BY <2>2, AppendNoArrival
  <2>6. pc'[r] \in {"wait", "polling"} => Waits(r)'
    BY <1>1, <1>2, <2>3 DEF Waits, ApartLeg, Off
  <2>7. pc'[r] = "polling" => Polls(r)'
    BY <1>2, <2>3 DEF Polls, ApartLeg
  <2> QED BY <1>2, <1>4, <2>4, <2>5, <2>6, <2>7 DEF ApartLeg, ToSend, Under
<1>5. CASE pc[r] = "send" /\ robot.task # "deliver" /\ robot.status \in Quiet
  <2>1. RobotGotoCharge \/ RobotDocks \/ RobotUndocks
    BY <1>5 DEF RobotStep, RobotDepart, RobotArrive, RobotIsThere, RobotBlocked, RobotGoesOn,
           RobotReturn, RobotIsBack, RobotGivesUp, Quiet, Reliable
  <2>2. robot'.task # "deliver" /\ robot'.status \in Quiet
    BY <1>0, <2>1 DEF RobotGotoCharge, RobotDocks, RobotUndocks, MoveTo, Robots, Quiet
  <2> QED BY <1>2, <1>5, <2>2 DEF ApartLeg, ToSend, Under
<1> QED BY <1>3, <1>4, <1>5 DEF ApartLeg, ToSend, Under

LEMMA ReceiveLeg ==
  ASSUME Types, ReceiveReport, NEW r \in Runs, ApartLeg(r)
  PROVE  ApartLeg(r)'
<1>1. UNCHANGED <<robot, pc, leg, plan, departed, seen, held>> /\ reports # <<>>
      /\ reports' = Tail(reports) /\ reports \in Seq(Report)
  BY DEF ReceiveReport, environment, locals, channels, noted, Types, ReportTypes
<1>2. Goal(r)' = Goal(r)
  BY <1>1 DEF Goal
<1>3. ASSUME NoArrival PROVE NoArrival' /\ (signal' => signal)
  <2>1. /\ Len(reports) \in Nat /\ Len(reports') = Len(reports) - 1
        /\ \A i \in 1 .. Len(reports') : reports'[i] = reports[i + 1]
    BY <1>1, HeadTailProperties, LenProperties
  <2>2. Head(reports) = reports[1] /\ 1 \in 1 .. Len(reports)
    BY <1>1, EmptySeq, LenProperties
  <2>3. \A i \in 1 .. Len(reports') : i + 1 \in 1 .. Len(reports)
    BY <2>1
  <2>4. NoArrival'
    BY <1>3, <2>1, <2>3 DEF NoArrival
  <2>5. Head(reports).status \in Afield
    BY <1>3, <2>2 DEF NoArrival
  <2>6. signal' = (signal \/ Head(reports).status \in {"arrived", "standby"})
    BY DEF ReceiveReport, ApplyWebhookData
  <2> QED BY <2>4, <2>5, <2>6 DEF Afield
<1>4. pc[r] \in {"wait", "polling"} => Waits(r)'
  BY <1>1, <1>3 DEF ApartLeg, Waits
<1> QED BY <1>1, <1>2, <1>3, <1>4 DEF ApartLeg, ToSend, Sent, Polls, EndedByTimer

(* The steps of the leg itself. *)
LEMMA OwnLeg ==
  ASSUME Types, LegInv, PlaceInv, ToldInv, Reliable, NEW r \in Runs, LegStep(r),
         Apart(r) => ApartLeg(r), Apart(r)'
  PROVE  ApartLeg(r)'
<1> USE DEF Goto, locals, environment, noted
<1>0. /\ robot \in Robots /\ reports \in Seq(Report) /\ pc \in [Runs -> Labels]
      /\ departed \in [Runs -> BOOLEAN] /\ seen \in [Runs -> Snapshots]
      /\ reached \in [Runs -> BOOLEAN] /\ disturbed \in [Runs -> BOOLEAN]
      /\ view \in [status : Statuses \cup {"empty"}, driving : BOOLEAN, charging : BOOLEAN]
  BY DEF Types, RobotTypes, ReportTypes, RunTypes, LocalTypes, HistoryTypes, ViewTypes
<1>1. /\ world.prompt /\ Requests = {TRUE} /\ Effects(TRUE) = {TRUE} /\ Polled = {robot.status}
  BY DEF Reliable, Requests, Effects, Polled
<1>2. /\ Told(robot.status) \/ (robot.status = "standby" /\ Told("goto charging"))
         \/ (robot.status \in {"map_loaded", "standby"} /\ Told("empty"))
  BY DEF ToldInv, Reliable
<1>3. ASSUME UNCHANGED plan, leg'[r] = leg[r] PROVE Goal(r)' = Goal(r)
  BY <1>3 DEF Goal
<1>4. CASE OrderCancelled(r) \/ WaitCancelled(r) \/ WaitTimeout(r) \/ EndLeg(r)
  <2>1. pc'[r] \in {"over", "ending", "next"}
    BY <1>0, <1>4 DEF OrderCancelled, WaitCancelled, WaitTimeout, EndLeg, GiveUpLeg
  <2> QED BY <2>1 DEF ApartLeg, Under
<1>5. CASE StartLeg(r)
  <2>1. /\ UNCHANGED <<robot, plan, leg>> /\ pc'[r] = "send" /\ pc[r] = "next"
        /\ disturbed'[r] = \E q \in Runs \ {r} : OnLeg(q) \/ pc[q] = "arrived"
    BY <1>0, <1>5 DEF StartLeg
  <2>2. ~Moving
    BY <2>1 DEF Apart, LegInv, OwnedLeg, Owing, OnLeg
  <2>3. robot.task # "deliver" /\ robot.status \in Quiet
    BY <1>0, <2>2 DEF Moving, Robots, Statuses, Quiet
  <2> QED BY <2>1, <2>3 DEF ApartLeg, ToSend, Under
<1>6. CASE SendDelivery(r)
  <2>1. /\ robot' = Commanded("deliver", Goal(r)) /\ pc[r] = "send" /\ pc'[r] = "check"
        /\ UNCHANGED <<plan, leg, reached>> /\ Disturb(r)
    BY <1>0, <1>1, <1>6 DEF SendDelivery
  <2>2. disturbed'[r] = disturbed[r]
    BY <1>0, <2>1 DEF Disturb
  <2>3. ApartLeg(r)
    BY <2>1, <2>2 DEF Apart
  <2>4. robot'.task = "deliver" /\ robot'.goal = Goal(r) /\ robot'.status = robot.status
    BY <1>0, <2>1 DEF Commanded, Robots
  <2>5. Sent(r)'
    BY <1>3, <2>1, <2>3, <2>4 DEF ApartLeg, ToSend, Sent
  <2> QED BY <2>1, <2>5 DEF ApartLeg, ToSend
<1>7. CASE CheckDelivery(r) \/ EnterWait(r) \/ WaitSignal(r) \/ DepartureDeadline(r)
           \/ PollTick(r) \/ PollAnswer(r)
  <2>1. /\ UNCHANGED <<world, plan, robot, reports, view, leg, reached, disturbed>>
        /\ pc[r] \in Under
    BY <1>7 DEF CheckDelivery, EnterWait, WaitSignal, DepartureDeadline, PollTick, PollAnswer,
           Under
  <2>2. /\ ApartLeg(r) /\ Goal(r)' = Goal(r) /\ Sent(r) /\ Sent(r)' /\ (NoArrival => NoArrival')
    BY <1>3, <2>1 DEF Apart, ApartLeg, Sent, NoArrival
  <2>3. robot.at # robot.goal
    BY <2>1, <2>2 DEF PlaceInv, Apart, Sent
  <2>4. CASE CheckDelivery(r)
    <3>1. reports = <<>> /\ pc'[r] \in {"enter", "send"}
      BY <1>0, <1>1, <2>4 DEF CheckDelivery, ReportsHandled
    <3>2. NoArrival'
      BY <2>1, <3>1, EmptySeq DEF NoArrival
    <3> QED BY <2>2, <3>1, <3>2 DEF ApartLeg, ToSend, Under
  <2>5. CASE EnterWait(r)
    <3>1. /\ pc[r] = "enter" /\ pc'[r] = "wait" /\ ~signal'
          /\ departed'[r] => view.status \in {"delivering", "rerouting", "return"}
      BY <1>0, <2>5 DEF EnterWait
    <3>2. NoArrival
      BY <2>2, <3>1 DEF ApartLeg
    <3>3. departed'[r] => robot.status \in Off
      BY <1>2, <2>2, <3>1, <3>2 DEF Told, LastTold, NoArrival, Sent, Off, Afield, Quiet
    <3> QED BY <2>1, <2>2, <3>1, <3>2, <3>3 DEF ApartLeg, Waits
  <2>6. CASE WaitSignal(r)
    BY <2>2, <2>6 DEF WaitSignal, ApartLeg, Waits
  <2>7. CASE DepartureDeadline(r)
    <3>1. held[r] /\ ~departed[r]
      BY <2>2, <2>3, <2>7 DEF DepartureDeadline, LeavesInTime, Reliable, Sent
    <3>2. pc'[r] = "arrived" /\ held'[r] /\ ~departed'[r]
      BY <1>0, <2>7, <3>1 DEF DepartureDeadline
    <3> QED BY <3>2 DEF ApartLeg, EndedByTimer, Under
  <2>8. CASE PollTick(r)
    <3>1. /\ pc[r] = "wait" /\ pc'[r] = "polling" /\ UNCHANGED <<signal, departed>>
          /\ reports = <<>> /\ seen'[r].status = view.status
      BY <1>0, <1>1, <2>8 DEF PollTick, ReportsHandled
    <3>2. \/ view.status = robot.status
          \/ robot.status = "standby" /\ view.status = "goto charging"
          \/ robot.status \in {"map_loaded", "standby"} /\ view.status = "empty"
      <4>1. 1 .. Len(reports) = {}
        BY <3>1, EmptySeq
      <4>2. \A status : Told(status) => view.status = status
        BY ONLY <4>1 DEF Told, LastTold
      <4> QED BY <1>2, <4>2
    <3>3. NoArrival /\ Waits(r)
      BY <2>2, <3>1 DEF ApartLeg
    <3>4. Polls(r)'
      BY <2>1, <2>2, <3>1, <3>2, <3>3 DEF Polls, Waits, Sent, Off, Afield, Quiet
    <3> QED BY <2>1, <2>2, <3>1, <3>3, <3>4 DEF ApartLeg, Waits
  <2>9. CASE PollAnswer(r)
    <3>1. /\ pc[r] = "polling" /\ NoArrival /\ Waits(r) /\ Polls(r)
      BY <2>2, <2>9 DEF PollAnswer, ApartLeg
    <3>2. CASE departed[r]
      <4>1. ~LooksArrived(seen[r], robot.status)
        BY <3>1, <3>2 DEF LooksArrived, Waits, Polls, Off, Afield
      <4>2. pc'[r] = "wait" /\ UNCHANGED <<departed, signal>>
        BY <1>0, <1>1, <2>9, <3>2, <4>1 DEF PollAnswer
      <4> QED BY <2>1, <2>2, <3>1, <4>2 DEF ApartLeg, Waits
    <3>3. CASE ~departed[r]
      <4>1. pc'[r] = "wait" /\ (signal' => signal)
            /\ departed'[r] = LooksDeparted(seen[r], robot.status)
        BY <1>0, <1>1, <2>9, <3>3 DEF PollAnswer
      <4>2. LooksDeparted(seen[r], robot.status) => robot.status \in Off
        <5>1. seen[r].status \in Statuses \cup {"empty"}
          BY <1>0 DEF Snapshots
        <5> QED
          BY <2>2, <3>1, <5>1 DEF LooksDeparted, Polls, Sent, Off, Afield, Quiet, Statuses
      <4> QED BY <2>1, <2>2, <3>1, <4>1, <4>2 DEF ApartLeg, Waits
    <3> QED BY <3>2, <3>3
  <2> QED BY <1>7, <2>4, <2>5, <2>6, <2>7, <2>8, <2>9
<1> QED BY <1>4, <1>5, <1>6, <1>7 DEF LegStep

(* The step of an order, seen by a leg of another order. *)
LEMMA OthersLeg ==
  ASSUME Types, NEW r \in Runs, RunStep(r) \/ HandleOrder(r), NEW q \in Runs \ {r},
         Apart(q) => ApartLeg(q), Apart(q)'
  PROVE  ApartLeg(q)'
<1>1. UNCHANGED plan /\ (signal' => signal) /\ LeavesOthers(r)
  BY RunEffects
<1>2. /\ Goal(q)' = Goal(q) /\ pc'[q] = pc[q] /\ departed'[q] = departed[q]
      /\ seen'[q] = seen[q] /\ held'[q] = held[q] /\ Apart(q)
      /\ UNCHANGED <<robot, reports>> \/ ~OnLeg(q)
  BY <1>1 DEF LeavesOthers, Goal, Apart
<1>3. CASE UNCHANGED <<robot, reports>>
  BY <1>1, <1>2, <1>3, KeepsLeg
<1>4. CASE ~OnLeg(q)
  BY <1>2, <1>4 DEF ApartLeg, OnLeg, Under, EndedByTimer
<1> QED BY <1>2, <1>3, <1>4

LEMMA NextArrive ==
  Types /\ LegInv /\ PlaceInv /\ ToldInv /\ ArriveInv /\ [Next]_vars => ArriveInv'
<1> SUFFICES ASSUME Types, LegInv, PlaceInv, ToldInv, ArriveInv, [Next]_vars, Reliable',
                    NEW q \in Runs, Apart(q)'
             PROVE  ApartLeg(q)'
  BY DEF ArriveInv
<1>0. /\ pc \in [Runs -> Labels] /\ reached \in [Runs -> BOOLEAN]
      /\ disturbed \in [Runs -> BOOLEAN]
  BY DEF Types, RunTypes, HistoryTypes
<1>1. UNCHANGED world
  <2>1. \A r \in Runs : RunStep(r) \/ HandleOrder(r) => UNCHANGED world
    BY RunEffects
  <2> QED BY <2>1 DEF Next, vars, RobotStep, ReceiveReport, LoseReport, CancelCurrentOrder,
                      PostStop, environment
<1>2. Reliable /\ (Apart(q) => ApartLeg(q))
  BY <1>1 DEF Reliable, ArriveInv
<1>3. CASE UNCHANGED vars \/ CancelCurrentOrder
  <2>1. UNCHANGED <<robot, reports, signal, pc, departed, seen, plan, leg, reached, disturbed,
                    held>>
    BY <1>3 DEF vars, CancelCurrentOrder, environment, locals, channels, noted
  <2> QED BY <1>2, <2>1, KeepsLeg DEF Apart, Goal
<1>9. CASE PostStop
  <2>1. /\ UNCHANGED <<pc, departed, reached, held>>
        /\ disturbed' = [r \in Runs |-> disturbed[r] \/ OnLeg(r)]
    BY <1>9 DEF PostStop, locals, noted
  <2>2. Apart(q) /\ ~OnLeg(q)
    BY <2>1 DEF Apart
  <2> QED BY <1>2, <2>1, <2>2 DEF ApartLeg, OnLeg, Under, EndedByTimer
<1>4. CASE ReceiveReport
  <2>1. Apart(q)
    BY <1>4 DEF ReceiveReport, Apart
  <2> QED BY <1>2, <1>4, <2>1, ReceiveLeg
<1>5. CASE LoseReport
  BY <1>2, <1>5 DEF LoseReport, Reliable
<1>6. CASE RobotStep
  <2>1. UNCHANGED disturbed /\ (reached[q] => reached'[q])
    BY <1>0, <1>6 DEF RobotStep, RobotDepart, RobotArrive, RobotIsThere, RobotBlocked,
           RobotGoesOn, RobotReturn, RobotIsBack, RobotGotoCharge, RobotDocks, RobotUndocks,
           RobotGivesUp, MoveTo
  <2>2. Apart(q)
    BY <2>1 DEF Apart
  <2> QED BY <1>2, <1>6, <2>2, RobotStepLeg
<1>7. ASSUME RunStep(q) \/ HandleOrder(q) PROVE ApartLeg(q)'
  <2>1. CASE LegStep(q)
    BY <1>2, <2>1, OwnLeg
  <2>2. CASE LeaveStep(q) \/ DockStep(q) \/ ClearOrder(q) \/ HandleOrder(q)
    <3>1. pc'[q] \in {"stabilizing", "next", "ending", "charged", "docking", "over", "leaving"}
      BY <1>0, <2>2 DEF LeaveStep, LeftCharger, Stabilized, LeaveFails, DockStep, GotoCharging,
             ChargingSeen, DockingFails, EndDocking, ClearOrder, HandleOrder, EnsureNotCharging,
             Goto
    <3> QED BY <3>1 DEF ApartLeg, Under
  <2> QED BY <1>7, <2>1, <2>2 DEF RunStep
<1>8. ASSUME NEW r \in Runs \ {q}, RunStep(r) \/ HandleOrder(r) PROVE ApartLeg(q)'
  BY <1>2, <1>8, OthersLeg
<1> QED BY <1>3, <1>4, <1>5, <1>6, <1>7, <1>8, <1>9 DEF Next

LEMMA SpecArrive == Spec => [](PlaceInv /\ ToldInv /\ ArriveInv)
<1>1. Init => PlaceInv /\ ToldInv /\ ArriveInv
  <2>1. Init => ArriveInv
    BY DEF Init, ArriveInv, ApartLeg, Under
  <2> QED BY <2>1, InitPlace, InitTold
<1>2. /\ Types /\ LegInv /\ (PlaceInv /\ ToldInv /\ ArriveInv) /\ [Next]_vars
      => (PlaceInv /\ ToldInv /\ ArriveInv)'
  BY NextPlace, NextTold, NextArrive
<1> QED BY <1>1, <1>2, SpecTypes, SpecOwned, PTL DEF Spec

(* A leg counted as arrived went to its station: no old signal, no report  *)
(* of the leg before and no return of the robot's own ends it early when   *)
(* reports are there within the second and the robot obeys.  What can end  *)
(* it early is another order or a cancelOrder's stop that reached into the *)
(* leg, and the departure timer of a robot that an obstacle held           *)
(* (waitForNavigation, order_handler.go:477-557; handleCancelOrder,        *)
(* instant_actions.go:304-322).                                            *)
THEOREM ArrivedAtGoalAlways == Spec => []ArrivedAtGoal
<1>1. ArriveInv => ArrivedAtGoal
  BY DEF ArriveInv, ApartLeg, Apart, ArrivedAtGoal, Reliable
<1> QED BY <1>1, SpecArrive, PTL
=============================================================================
