--------------------------- MODULE ChargerProofs ----------------------------
(***************************************************************************)
(* The theorems about the charging flag: when orders follow one another    *)
(* and the robot and the network are reliable, BatteryCharging follows the *)
(* robot onto the charger and off it, report by report.                    *)
(***************************************************************************)
EXTENDS ArrivalProofs
-----------------------------------------------------------------------------
(* What the reports that wait will do to the flag.  charger says whether   *)
(* the robot is on the charger or on its way to it.  That it has left is   *)
(* reported once, of a robot that is known to have been there or of one    *)
(* that nobody knew of.                                                    *)
Clears(report) == report.event \in {"remove_charging", "empty"}
Charges(report) ==
  report.event = "show_charging" \/ (report.event = "none" /\ report.status = "goto charging")
Indices(queue) == 1 .. Len(queue)

Announced(queue, charging, charger) ==
  /\ charging => charger \/ \E i \in Indices(queue) : Clears(queue[i])
  /\ \A i \in Indices(queue) : Charges(queue[i]) =>
       charger \/ \E j \in Indices(queue) : j > i /\ Clears(queue[j])
  /\ \A i \in Indices(queue) : Clears(queue[i]) =>
       /\ \A j \in Indices(queue) : Clears(queue[j]) => j = i
       /\ IF charging THEN ~charger ELSE \A j \in Indices(queue) : j < i => ~Charges(queue[j])

LEMMA AppendIndices ==
  ASSUME NEW queue \in Seq(Report), NEW report \in Report
  PROVE  /\ Len(queue) \in Nat
         /\ Indices(Append(queue, report)) = Indices(queue) \cup {Len(queue) + 1}
         /\ Append(queue, report)[Len(queue) + 1] = report
         /\ \A i \in Indices(queue) : /\ Append(queue, report)[i] = queue[i]
                                      /\ i \in Nat /\ Len(queue) + 1 > i
<1>1. /\ Len(queue) \in Nat /\ Len(Append(queue, report)) = Len(queue) + 1
      /\ Append(queue, report)[Len(queue) + 1] = report
      /\ \A i \in 1 .. Len(queue) : Append(queue, report)[i] = queue[i]
  BY AppendProperties, LenProperties
<1>2. Indices(Append(queue, report)) = Indices(queue) \cup {Len(queue) + 1}
  BY <1>1 DEF Indices
<1> QED BY <1>1, <1>2 DEF Indices

LEMMA TailIndices ==
  ASSUME NEW queue \in Seq(Report), queue # <<>>
  PROVE  /\ Indices(queue) = {1} \cup {i + 1 : i \in Indices(Tail(queue))}
         /\ \A i \in Indices(Tail(queue)) : Tail(queue)[i] = queue[i + 1] /\ i \in Nat \ {0}
         /\ Head(queue) = queue[1] /\ Head(queue) \in Report
<1>1. /\ Len(queue) \in Nat /\ Len(Tail(queue)) = Len(queue) - 1 /\ Len(queue) > 0
      /\ \A i \in 1 .. Len(Tail(queue)) : Tail(queue)[i] = queue[i + 1]
      /\ Head(queue) = queue[1] /\ Head(queue) \in Report
  BY HeadTailProperties, LenProperties, EmptySeq
<1>2. \A i \in 1 .. Len(queue) : i = 1 \/ i - 1 \in 1 .. (Len(queue) - 1)
  BY <1>1
<1>3. \A i \in 1 .. Len(queue) : i = (i - 1) + 1
  OBVIOUS
<1>4. 1 .. Len(queue) \subseteq {1} \cup {i + 1 : i \in 1 .. (Len(queue) - 1)}
  BY <1>2, <1>3
<1>5. {1} \cup {i + 1 : i \in 1 .. (Len(queue) - 1)} \subseteq 1 .. Len(queue)
  BY <1>1
<1>6. Indices(queue) = {1} \cup {i + 1 : i \in Indices(Tail(queue))}
  BY <1>1, <1>4, <1>5 DEF Indices
<1> QED BY <1>1, <1>6 DEF Indices

(* A report that says nothing about charging. *)
LEMMA AnnouncedOther ==
  ASSUME NEW queue \in Seq(Report), NEW report \in Report, NEW charging \in BOOLEAN,
         NEW charger \in BOOLEAN, Announced(queue, charging, charger),
         ~Clears(report), ~Charges(report)
  PROVE  Announced(Append(queue, report), charging, charger)
<1> DEFINE longer == Append(queue, report)
<1>1. /\ Indices(longer) = Indices(queue) \cup {Len(queue) + 1}
      /\ longer[Len(queue) + 1] = report
      /\ \A i \in Indices(queue) : longer[i] = queue[i]
  BY AppendIndices
<1> HIDE DEF longer
<1> QED BY <1>1 DEF Announced, longer

(* A robot that is on its way to the charger, or has got there. *)
LEMMA AnnouncedCharges ==
  ASSUME NEW queue \in Seq(Report), NEW report \in Report, NEW charging \in BOOLEAN,
         Announced(queue, charging, TRUE), ~Clears(report)
  PROVE  Announced(Append(queue, report), charging, TRUE)
<1> DEFINE longer == Append(queue, report)
<1>1. /\ Indices(longer) = Indices(queue) \cup {Len(queue) + 1}
      /\ longer[Len(queue) + 1] = report
      /\ \A i \in Indices(queue) : longer[i] = queue[i]
  BY AppendIndices
<1>2. \A i \in Indices(queue) : ~(Len(queue) + 1 < i)
  BY AppendIndices
<1>3. \A i \in Indices(longer) : Clears(longer[i]) => i \in Indices(queue) /\ Clears(queue[i])
  BY <1>1
<1> HIDE DEF longer
<1>4. \A i \in Indices(longer) : Clears(longer[i]) =>
        /\ \A j \in Indices(longer) : Clears(longer[j]) => j = i
        /\ ~charging /\ \A j \in Indices(longer) : j < i => ~Charges(longer[j])
  BY <1>1, <1>2, <1>3 DEF Announced
<1> QED BY <1>4 DEF Announced, longer

(* A robot that leaves the charger. *)
LEMMA AnnouncedClears ==
  ASSUME NEW queue \in Seq(Report), NEW report \in Report,
         Announced(queue, TRUE, TRUE), Clears(report), ~Charges(report)
  PROVE  Announced(Append(queue, report), TRUE, FALSE)
<1> DEFINE longer == Append(queue, report)
<1>1. /\ Indices(longer) = Indices(queue) \cup {Len(queue) + 1}
      /\ longer[Len(queue) + 1] = report
      /\ \A i \in Indices(queue) : longer[i] = queue[i] /\ Len(queue) + 1 > i
  BY AppendIndices
<1> HIDE DEF longer
<1> QED BY <1>1 DEF Announced, longer

(* A robot leaves the charger that nobody knew to be there. *)
LEMMA AnnouncedFirst ==
  ASSUME NEW queue \in Seq(Report), NEW report \in Report,
         Announced(queue, FALSE, FALSE), \A i \in Indices(queue) : ~Clears(queue[i]),
         Clears(report), ~Charges(report)
  PROVE  Announced(Append(queue, report), FALSE, FALSE)
<1> DEFINE longer == Append(queue, report)
<1>1. /\ Indices(longer) = Indices(queue) \cup {Len(queue) + 1}
      /\ longer[Len(queue) + 1] = report
      /\ \A i \in Indices(queue) : longer[i] = queue[i] /\ Len(queue) + 1 > i
  BY AppendIndices
<1> HIDE DEF longer
<1>2. \A i \in Indices(queue) : ~Charges(queue[i])
  BY DEF Announced
<1> QED BY <1>1, <1>2 DEF Announced, longer

(* A report is handled: the flag becomes what ChargingAfter says. *)
LEMMA AnnouncedHandled ==
  ASSUME Types, reports # <<>>, NEW charger \in BOOLEAN,
         Announced(reports, view.charging, charger)
  PROVE  /\ Announced(Tail(reports), ChargingAfter(Head(reports)), charger)
         /\ charger /\ view.charging => ChargingAfter(Head(reports))
<1> DEFINE first == Head(reports)
           rest == Tail(reports)
           after == ChargingAfter(first)
<1>0. reports \in Seq(Report) /\ view.charging \in BOOLEAN
  BY DEF Types, ReportTypes, ViewTypes
<1>1. /\ Indices(reports) = {1} \cup {i + 1 : i \in Indices(rest)}
      /\ \A i \in Indices(rest) : rest[i] = reports[i + 1] /\ i \in Nat \ {0}
      /\ first = reports[1] /\ first \in Report
  BY <1>0, TailIndices
<1>2. after = (~Clears(first) /\ (view.charging \/ Charges(first)))
  BY <1>0, <1>1 DEF ChargingAfter, Clears, Charges, Report
<1> HIDE DEF first, rest, after
<1>3. 1 \in Indices(reports) /\ \A i \in Indices(rest) : i + 1 \in Indices(reports) /\ i + 1 # 1
  BY <1>1
<1>5. after => charger \/ \E i \in Indices(rest) : Clears(rest[i])
  <2>1. after => ~Clears(reports[1]) /\ (view.charging \/ Charges(reports[1]))
    BY <1>1, <1>2
  <2>2. after => charger \/ \E i \in Indices(reports) : i # 1 /\ Clears(reports[i])
    BY <1>3, <2>1 DEF Announced
  <2>3. \A i \in Indices(reports) : i # 1 => \E k \in Indices(rest) : i = k + 1
    BY <1>1
  <2>4. \A i \in Indices(reports) : i # 1 /\ Clears(reports[i]) =>
          \E k \in Indices(rest) : Clears(rest[k])
    BY <1>1, <2>3
  <2> QED BY <2>2, <2>4
<1>6. \A i \in Indices(rest) : Charges(rest[i]) =>
        charger \/ \E j \in Indices(rest) : j > i /\ Clears(rest[j])
  <2> SUFFICES ASSUME NEW i \in Indices(rest), Charges(rest[i]), ~charger
               PROVE  \E j \in Indices(rest) : j > i /\ Clears(rest[j])
    OBVIOUS
  <2>1. PICK k \in Indices(reports) : k > i + 1 /\ Clears(reports[k])
    BY <1>1, <1>3 DEF Announced
  <2>2. i \in Nat /\ k # 1
    BY <1>1, <2>1
  <2>3. PICK j \in Indices(rest) : k = j + 1
    BY <1>1, <2>2
  <2>4. i \in Nat /\ j \in Nat
    BY <1>1
  <2>5. j > i
    BY ONLY <2>1, <2>3, <2>4
  <2> QED BY <1>1, <2>1, <2>3, <2>5
<1>7. \A i \in Indices(rest) : Clears(rest[i]) =>
        /\ \A j \in Indices(rest) : Clears(rest[j]) => j = i
        /\ IF after THEN ~charger ELSE \A j \in Indices(rest) : j < i => ~Charges(rest[j])
  <2> SUFFICES ASSUME NEW i \in Indices(rest), Clears(rest[i])
               PROVE  /\ \A j \in Indices(rest) : Clears(rest[j]) => j = i
                      /\ IF after THEN ~charger
                         ELSE \A j \in Indices(rest) : j < i => ~Charges(rest[j])
    OBVIOUS
  <2>1. /\ \A j \in Indices(reports) : Clears(reports[j]) => j = i + 1
        /\ IF view.charging THEN ~charger
           ELSE \A j \in Indices(reports) : j < i + 1 => ~Charges(reports[j])
    BY <1>1, <1>3 DEF Announced
  <2>2. ~Clears(first) /\ i \in Nat \ {0}
    BY <1>1, <1>3, <2>1
  <2>3. \A j \in Indices(rest) : Clears(rest[j]) => j = i
    <3> SUFFICES ASSUME NEW j \in Indices(rest), Clears(rest[j]) PROVE j = i
      OBVIOUS
    <3>1. j + 1 = i + 1
      BY <1>1, <1>3, <2>1
    <3>2. i \in Nat /\ j \in Nat
      BY <1>1
    <3> QED BY ONLY <3>1, <3>2
  <2>4. CASE view.charging
    <3>1. after /\ ~charger
      BY <1>2, <2>1, <2>2, <2>4
    <3> QED BY <2>3, <3>1
  <2>5. CASE ~view.charging
    <3>1. 1 < i + 1 /\ ~Charges(first)
      BY <1>1, <1>3, <2>1, <2>2, <2>5
    <3>2. ~after
      BY <1>2, <2>5, <3>1
    <3>3. \A j \in Indices(rest) : j < i => j + 1 < i + 1
      BY <1>1, <2>2
    <3>4. \A j \in Indices(rest) : j < i => ~Charges(rest[j])
      BY <1>1, <1>3, <2>1, <2>5, <3>3
    <3> QED BY <2>3, <3>2, <3>4
  <2> QED BY <2>4, <2>5
<1>8. charger /\ view.charging => after
  BY <1>1, <1>2, <1>3 DEF Announced
<1> QED BY <1>5, <1>6, <1>7, <1>8 DEF Announced, first, rest, after
-----------------------------------------------------------------------------
(* One order at a time, none of them cancelled, and an order that docks    *)
(* does nothing else.                                                      *)
OneAtATime ==
  Calm => /\ \A r \in Runs : ~Idle(r) => r = newest
          /\ \A r \in closed : r < newest
          /\ ~stopping
DockPlans == \A r \in Runs : Charging(r) => leg[r] = 1 /\ pc[r] \notin Owing

LEMMA NextCalm ==
  ASSUME Types, [Next]_vars
  PROVE  UNCHANGED <<world, plan>>
<1>1. \A r \in Runs : RunStep(r) \/ HandleOrder(r) => UNCHANGED <<world, plan>>
  BY RunEffects
<1> QED BY <1>1 DEF Next, vars, RobotStep, ReceiveReport, LoseReport, CancelCurrentOrder,
                    PostStop, environment

LEMMA NextOneAtATime == Types /\ LegInv /\ OneAtATime /\ [Next]_vars => OneAtATime'
<1> SUFFICES ASSUME Types, LegInv, OneAtATime, [Next]_vars, Calm'
             PROVE  /\ \A r \in Runs : ~Idle(r)' => r = newest'
                    /\ \A r \in closed' : r < newest'
                    /\ ~stopping'
  BY DEF OneAtATime
<1>0. /\ pc \in [Runs -> Labels] /\ closed \subseteq Runs /\ newest \in Nat
      /\ Runs \subseteq Nat
  BY DEF Types, RunTypes, Runs
<1>1. Calm
  BY NextCalm DEF Calm, Reliable
<1>2. (\A r \in Runs : ~Idle(r) => r = newest) /\ (\A r \in closed : r < newest) /\ ~stopping
  BY <1>1 DEF OneAtATime
<1>3. CASE UNCHANGED <<pc, newest, closed, stopping>>
  BY <1>2, <1>3 DEF Idle
<1>4. CASE CancelCurrentOrder
  BY <1>1, <1>4 DEF CancelCurrentOrder, Calm
<1>5. ASSUME NEW r \in Runs, HandleOrder(r)
      PROVE  /\ (\A q \in Runs : ~Idle(q)' => q = newest') /\ (\A q \in closed' : q < newest')
             /\ ~stopping'
  <2>1. /\ newest' = newest + 1 /\ newest' = r /\ closed' = closed \cup ({newest} \cap Runs)
        /\ (\A q \in Runs : Idle(q)) /\ UNCHANGED stopping
    BY <1>1, <1>5 DEF HandleOrder, Calm
  <2>2. \A q \in Runs \ {r} : pc'[q] = pc[q]
    BY <1>0, <1>5 DEF HandleOrder, EnsureNotCharging, Goto
  <2>3. \A q \in Runs : ~Idle(q)' => q = newest'
    BY <2>1, <2>2 DEF Idle
  <2>4. \A q \in closed' : q \in Nat /\ (q < newest \/ q = newest)
    BY <1>0, <1>2, <2>1
  <2>5. \A q \in closed' : q < newest'
    BY <1>0, <2>1, <2>4
  <2> QED BY <1>2, <2>1, <2>3, <2>5
<1>6. ASSUME NEW r \in Runs, RunStep(r)
      PROVE  /\ (\A q \in Runs : ~Idle(q)' => q = newest') /\ (\A q \in closed' : q < newest')
             /\ ~stopping'
  <2>1. UNCHANGED <<newest, closed, stopping>>
    BY <1>6 DEF RunStep, LeaveStep, LegStep, DockStep, OrderCancelled, StartLeg, SendDelivery,
           CheckDelivery, EnterWait, WaitCancelled, WaitTimeout, WaitSignal, DepartureDeadline,
           PollTick, PollAnswer, EndLeg, GotoCharging, ChargingSeen, DockingFails, EndDocking,
           ClearOrder, channels
  <2>2. ~Idle(r) /\ \A q \in Runs \ {r} : pc'[q] = pc[q]
    <3>1. pc[r] # "over"
      BY <1>6 DEF RunStep, LeaveStep, LeftCharger, Stabilized, LeaveFails, LegStep, DockStep,
             OrderCancelled, StartLeg, SendDelivery, CheckDelivery, EnterWait, WaitCancelled,
             WaitTimeout, WaitSignal, DepartureDeadline, PollTick, PollAnswer, EndLeg,
             GotoCharging, ChargingSeen, DockingFails, EndDocking, ClearOrder
    <3> QED BY <1>0, <1>6, <3>1, RunStepMoves DEF Idle
  <2> QED BY <1>2, <2>1, <2>2 DEF Idle
<1> QED
  BY <1>2, <1>3, <1>4, <1>5, <1>6
     DEF Next, vars, RobotStep, ReceiveReport, LoseReport, PostStop, channels

LEMMA NextDockPlans == Types /\ LegInv /\ DockPlans /\ [Next]_vars => DockPlans'
<1> SUFFICES ASSUME Types, LegInv, DockPlans, [Next]_vars PROVE DockPlans'
  OBVIOUS
<1> USE DEF Goto, locals
<1>0. pc \in [Runs -> Labels] /\ leg \in [Runs -> Nat] /\ UNCHANGED plan
  BY NextCalm DEF Types, RunTypes, LocalTypes
<1>1. CASE UNCHANGED <<pc, leg>>
  BY <1>0, <1>1 DEF DockPlans, Charging
<1>2. ASSUME NEW r \in Runs, HandleOrder(r) \/ RunStep(r) PROVE DockPlans'
  <2>1. \A q \in Runs \ {r} : pc'[q] = pc[q] /\ leg'[q] = leg[q]
    BY <1>2, RunEffects DEF LeavesOthers
  <2>2. Charging(r) => leg'[r] = 1 /\ pc'[r] \notin Owing
    <3> SUFFICES ASSUME Charging(r) PROVE leg'[r] = 1 /\ pc'[r] \notin Owing
      OBVIOUS
    <3>1. leg[r] = 1 /\ pc[r] \notin Owing /\ Goal(r) = Dock
      BY DEF DockPlans, Charging, Goal
    <3>2. CASE HandleOrder(r) \/ LeaveStep(r)
      BY <1>0, <3>1, <3>2 DEF HandleOrder, EnsureNotCharging, LeaveStep, LeftCharger, Stabilized,
             LeaveFails, Owing
    <3>3. ~LegStep(r)
      BY <3>1 DEF LegStep, OrderCancelled, StartLeg, SendDelivery, CheckDelivery, EnterWait,
             WaitCancelled, WaitTimeout, WaitSignal, DepartureDeadline, PollTick, PollAnswer,
             EndLeg, Owing
    <3>4. CASE DockStep(r) \/ ClearOrder(r)
      BY <1>0, <3>1, <3>4 DEF DockStep, GotoCharging, ChargingSeen, DockingFails, EndDocking,
             ClearOrder, Owing
    <3> QED BY <1>2, <3>2, <3>3, <3>4 DEF RunStep
  <2> QED BY <1>0, <2>1, <2>2 DEF DockPlans, Charging
<1> QED
  BY <1>1, <1>2 DEF Next, vars, RobotStep, ReceiveReport, LoseReport, CancelCurrentOrder, PostStop
-----------------------------------------------------------------------------
(* Where the robot stands with the charger, and what the bridge and the    *)
(* orders know of it: a run that is about to send the robot off, or has,   *)
(* has it away from the charger, and the flag is up or about to go down    *)
(* exactly when it should be.  A robot that is on the charger since before *)
(* the session is not known to be there, and nothing that waits says so.   *)
AtCharger == ~unseen /\ (robot.at = Dock \/ robot.task = "dock")
Undiscovered ==
  /\ robot.at = Dock /\ robot.task \notin {"leave", "dock"} /\ ~view.charging
  /\ \A i \in Indices(reports) : ~Clears(reports[i])
SendsOff(r) ==
  \/ pc[r] \in Owing \cup {"stabilizing"}
  \/ pc[r] = "next" /\ ~Charging(r)
FlagOrDocking == view.charging \/ \E r \in Runs : pc[r] = "docking"

ChargerInv ==
  Calm => /\ robot.status = "goto charging" => robot.task = "dock"
          /\ robot.task = "leave" => view.charging
          /\ AtCharger => FlagOrDocking
          /\ \A r \in Runs : SendsOff(r) => ~AtCharger
          /\ Announced(reports, view.charging, AtCharger)
          /\ unseen => Undiscovered

LEMMA InitCharger == Init => ChargerInv
<1> SUFFICES ASSUME Init PROVE ChargerInv
  OBVIOUS
<1>1. Indices(reports) = {} /\ view.charging = FALSE /\ ~AtCharger
  BY EmptySeq, PlacesAssumption DEF Init, Indices, AtCharger
<1>4. unseen => Undiscovered
  BY <1>1 DEF Init, Undiscovered
<1>2. Announced(reports, view.charging, AtCharger)
  BY <1>1 DEF Announced
<1>3. \A r \in Runs : ~SendsOff(r)
  BY DEF Init, SendsOff, Owing
<1> QED BY <1>1, <1>2, <1>3, <1>4 DEF ChargerInv, Init

LEMMA RobotStepCharger ==
  ASSUME Types, LegInv, PlaceInv, ChargerInv, Calm, RobotStep
  PROVE  ChargerInv'
<1>0. /\ robot \in Robots /\ reports \in Seq(Report) /\ view.charging \in BOOLEAN
      /\ Road # Dock /\ Counter # Dock /\ AtCharger \in BOOLEAN /\ unseen \in BOOLEAN
  BY PlacesAssumption DEF Types, RobotTypes, ReportTypes, ViewTypes, HistoryTypes, Places,
                          AtCharger
<1>1. UNCHANGED <<plan, pc, view>> /\ unseen' = (unseen /\ robot'.at = Dock)
  BY DEF RobotStep, environment
<1>2. /\ robot.status = "goto charging" => robot.task = "dock"
      /\ robot.task = "leave" => view.charging
      /\ AtCharger => FlagOrDocking
      /\ \A r \in Runs : SendsOff(r) => ~AtCharger
      /\ Announced(reports, view.charging, AtCharger)
      /\ unseen => Undiscovered
  BY DEF ChargerInv
<1>3. (\A r \in Runs : SendsOff(r)' = SendsOff(r)) /\ FlagOrDocking' = FlagOrDocking
  BY <1>1 DEF SendsOff, FlagOrDocking, Charging
<1>4. Moving => ~AtCharger
  BY <1>2 DEF LegInv, OwnedLeg, SendsOff, Calm
<1>d. robot.at = Dock => robot.status = "standby"
  BY DEF PlaceInv
<1>5. CASE RobotIsThere
  <2>1. robot' = [robot EXCEPT !.task = "none"] /\ UNCHANGED reports
    BY <1>5 DEF RobotIsThere
  <2>2. robot'.at = robot.at /\ robot'.status = robot.status /\ robot'.task = "none"
    BY <1>0, <2>1 DEF Robots
  <2>3. robot.task = "deliver" /\ robot.at # Dock /\ ~unseen
    BY <1>2, <1>5 DEF RobotIsThere, PlaceInv, Undiscovered
  <2>4. AtCharger' = AtCharger /\ ~unseen'
    BY <1>1, <2>2, <2>3 DEF AtCharger
  <2> QED BY <1>1, <1>2, <1>3, <2>1, <2>2, <2>3, <2>4 DEF ChargerInv
<1>a. ASSUME ~AtCharger, robot.at # Dock, NEW p, p # Dock,
             NEW task \in {"deliver", "none", robot.task},
             NEW status \in Statuses \ {"goto charging"}, MoveTo(p, status, task),
             Post(status, "none")
      PROVE  ChargerInv'
  <2>1. robot'.at = p /\ robot'.task = task /\ robot'.status = status
    BY <1>0, <1>a DEF MoveTo, Robots
  <2>2. ~AtCharger' /\ robot'.task # "leave" /\ ~unseen'
    BY <1>1, <1>2, <1>a, <2>1 DEF AtCharger, PlaceInv, Undiscovered
  <2> DEFINE report == [status |-> status, event |-> "none"]
  <2>3. report \in Report /\ ~Clears(report) /\ ~Charges(report)
    BY DEF Report, Clears, Charges
  <2>4. reports' = Append(reports, report)
    BY <1>a DEF Post
  <2> HIDE DEF report
  <2>5. Announced(reports', view.charging, AtCharger)
    BY <1>0, <1>2, <2>3, <2>4, AnnouncedOther
  <2>6. AtCharger' = AtCharger
    BY <1>0, <1>a, <2>2 DEF AtCharger
  <2> QED BY <1>1, <1>2, <1>3, <2>1, <2>2, <2>5, <2>6 DEF ChargerInv
<1>6. CASE RobotDepart \/ RobotArrive \/ RobotBlocked \/ RobotGoesOn \/ RobotReturn \/ RobotIsBack
  <2>1. ~AtCharger
    BY <1>4, <1>6 DEF RobotDepart, RobotArrive, RobotBlocked, RobotGoesOn, RobotReturn,
           RobotIsBack, Moving
  <2> USE DEF Statuses
  <2>2. CASE RobotDepart /\ robot.at # Dock
    BY <1>0, <1>a, <2>1, <2>2 DEF RobotDepart
  <2>3. CASE RobotArrive
    BY <1>0, <1>a, <1>d, <2>1, <2>3 DEF RobotArrive, PlaceInv
  <2>4. CASE RobotBlocked
    BY <1>0, <1>a, <1>d, <2>1, <2>4 DEF RobotBlocked
  <2>5. CASE RobotGoesOn
    BY <1>0, <1>a, <1>d, <2>1, <2>5 DEF RobotGoesOn
  <2>6. CASE RobotReturn
    BY <1>0, <1>a, <1>d, <2>1, <2>6 DEF RobotReturn
  <2>7. CASE RobotIsBack
    BY <1>0, <1>a, <1>d, <2>1, <2>7 DEF RobotIsBack
  <2>8. CASE RobotDepart /\ robot.at = Dock
    <3> DEFINE report == [status |-> "delivering", event |-> "remove_charging"]
    <3>1. /\ robot'.at = Road /\ robot'.task = "deliver" /\ robot'.status = "delivering"
          /\ reports' = Append(reports, report)
      BY <1>0, <2>8 DEF RobotDepart, MoveTo, Robots, Post
    <3>2. report \in Report /\ Clears(report) /\ ~Charges(report)
      BY DEF Report, Clears, Charges
    <3> HIDE DEF report
    <3>3. ~view.charging /\ \A k \in Indices(reports) : ~Clears(reports[k])
      BY <1>2, <2>1, <2>8 DEF AtCharger, Undiscovered
    <3>4. AtCharger = FALSE /\ AtCharger' = FALSE /\ unseen' = FALSE
      BY <1>0, <1>1, <2>1, <3>1 DEF AtCharger
    <3>5. Announced(reports', FALSE, FALSE)
      BY <1>0, <1>2, <3>1, <3>2, <3>3, <3>4, AnnouncedFirst
    <3> QED BY <1>0, <1>1, <1>3, <3>1, <3>3, <3>4, <3>5 DEF ChargerInv
  <2> QED BY <1>6, <2>2, <2>3, <2>4, <2>5, <2>6, <2>7, <2>8
<1>7. CASE RobotGotoCharge \/ RobotDocks
  <2>1. robot.task = "dock" /\ unseen = FALSE /\ AtCharger = TRUE
    BY <1>0, <1>2, <1>7 DEF RobotGotoCharge, RobotDocks, AtCharger, Undiscovered
  <2>2. /\ AtCharger' = TRUE /\ robot'.task # "leave" /\ unseen' = FALSE
        /\ robot'.status = "goto charging" => robot'.task = "dock"
    BY <1>0, <1>1, <1>7, <2>1 DEF RobotGotoCharge, RobotDocks, MoveTo, AtCharger, Robots
  <2>3. PICK report \in Report : ~Clears(report) /\ reports' = Append(reports, report)
    BY <1>7 DEF RobotGotoCharge, RobotDocks, Post, Report, Clears, Statuses
  <2>4. Announced(reports', view.charging, TRUE)
    BY <1>0, <1>2, <2>1, <2>3, AnnouncedCharges
  <2> QED BY <1>1, <1>2, <1>3, <2>1, <2>2, <2>4 DEF ChargerInv
<1>8. CASE RobotUndocks
  <2>1. robot.task = "leave" /\ AtCharger = TRUE /\ view.charging = TRUE /\ unseen = FALSE
    BY <1>0, <1>2, <1>8 DEF RobotUndocks, AtCharger, PlaceInv, Undiscovered
  <2>2. /\ AtCharger' = FALSE /\ robot'.task = "none" /\ robot'.status = "standby"
        /\ unseen' = FALSE
    BY <1>0, <1>1, <1>8, <2>1 DEF RobotUndocks, MoveTo, AtCharger, Robots
  <2> DEFINE report == [status |-> "empty", event |-> "remove_charging"]
  <2>3. /\ report \in Report /\ Clears(report) /\ ~Charges(report)
        /\ reports' = Append(reports, report)
    BY <1>8 DEF RobotUndocks, Post, Report, Clears, Charges
  <2> HIDE DEF report
  <2>4. Announced(reports', TRUE, FALSE)
    BY <1>0, <1>2, <2>1, <2>3, AnnouncedClears
  <2> QED BY <1>1, <2>1, <2>2, <2>4 DEF ChargerInv
<1>9. CASE RobotGivesUp
  BY <1>9 DEF RobotGivesUp, Calm, Reliable
<1> QED BY <1>5, <1>6, <1>7, <1>8, <1>9 DEF RobotStep

LEMMA ReceiveCharger ==
  ASSUME Types, PlaceInv, ChargerInv, Calm, ReceiveReport
  PROVE  ChargerInv'
<1>1. /\ UNCHANGED <<plan, pc, robot, unseen>> /\ reports # <<>> /\ reports' = Tail(reports)
      /\ view'.charging = ChargingAfter(Head(reports))
  BY DEF ReceiveReport, ApplyWebhookData, environment, noted
<1>2. /\ AtCharger' = AtCharger /\ AtCharger \in BOOLEAN
      /\ \A r \in Runs : SendsOff(r)' = SendsOff(r)
  BY <1>1 DEF AtCharger, SendsOff, Charging
<1>3. /\ Announced(reports', view'.charging, AtCharger')
      /\ AtCharger /\ view.charging => view'.charging
  BY <1>1, <1>2, AnnouncedHandled DEF ChargerInv
<1>4. AtCharger' => FlagOrDocking'
  BY <1>1, <1>2, <1>3 DEF ChargerInv, FlagOrDocking
<1>5. robot.task = "leave" => view'.charging
  BY <1>3 DEF ChargerInv, PlaceInv, AtCharger, Undiscovered
<1>6. unseen => Undiscovered'
  <2> SUFFICES ASSUME unseen PROVE Undiscovered'
    OBVIOUS
  <2>1. /\ robot.at = Dock /\ robot.task \notin {"leave", "dock"} /\ ~view.charging
        /\ \A i \in Indices(reports) : ~Clears(reports[i])
    BY DEF ChargerInv, Undiscovered
  <2>2. \A i \in Indices(reports) : ~Charges(reports[i])
    BY <2>1 DEF ChargerInv, Announced, AtCharger
  <2>3. /\ Indices(reports) = {1} \cup {i + 1 : i \in Indices(reports')}
        /\ \A i \in Indices(reports') : reports'[i] = reports[i + 1]
        /\ Head(reports) = reports[1] /\ Head(reports) \in Report
    BY <1>1, TailIndices DEF Types, ReportTypes
  <2>4. ~Charges(Head(reports)) /\ ~Clears(Head(reports))
    BY <2>1, <2>2, <2>3
  <2>5. ~view'.charging
    BY <1>1, <2>1, <2>3, <2>4 DEF ChargingAfter, Charges, Clears, Report
  <2>6. \A i \in Indices(reports') : ~Clears(reports'[i])
    BY <2>1, <2>3
  <2> QED BY <1>1, <2>1, <2>5, <2>6 DEF Undiscovered
<1> QED BY <1>1, <1>2, <1>3, <1>4, <1>5, <1>6 DEF ChargerInv

LEMMA RunStepCharger ==
  ASSUME Types, LegInv, PlaceInv, OneAtATime, DockPlans, ChargerInv, Calm, NEW r \in Runs,
         RunStep(r) \/ HandleOrder(r)
  PROVE  ChargerInv'
<1> USE DEF Goto
<1>0. /\ robot \in Robots /\ reports \in Seq(Report) /\ view.charging \in BOOLEAN
      /\ pc \in [Runs -> Labels] /\ AtCharger \in BOOLEAN /\ newest \in Nat /\ Runs \subseteq Nat
      /\ view \in [status : Statuses \cup {"empty"}, driving : BOOLEAN, charging : BOOLEAN]
  BY DEF Types, RobotTypes, ReportTypes, ViewTypes, RunTypes, AtCharger, Runs
<1>1. /\ robot.status = "goto charging" => robot.task = "dock"
      /\ robot.task = "leave" => view.charging
      /\ AtCharger => FlagOrDocking
      /\ \A q \in Runs : SendsOff(q) => ~AtCharger
      /\ Announced(reports, view.charging, AtCharger)
      /\ unseen => Undiscovered
  BY DEF ChargerInv
<1>2. Requests = {TRUE} /\ Effects(TRUE) = {TRUE} /\ UNCHANGED <<plan, unseen>>
  BY RunEffects DEF Calm, Reliable, Requests, Effects
<1>3. \A q \in Runs \ {r} : pc'[q] = pc[q] /\ SendsOff(q)' = SendsOff(q)
  BY <1>2, RunEffects DEF LeavesOthers, SendsOff, Charging
<1>a. ASSUME UNCHANGED <<robot, reports>>, view'.charging = view.charging,
             NEW label, pc' = [pc EXCEPT ![r] = label], SendsOff(r)' => ~AtCharger,
             pc[r] = "docking" => view.charging \/ ~AtCharger
      PROVE  ChargerInv'
  <2>1. AtCharger' = AtCharger /\ (unseen => Undiscovered')
    BY <1>1, <1>2, <1>a DEF AtCharger, Undiscovered
  <2>2. AtCharger /\ FlagOrDocking => FlagOrDocking'
    BY <1>3, <1>a DEF FlagOrDocking
  <2>3. \A q \in Runs : SendsOff(q)' => ~AtCharger'
    BY <1>1, <1>3, <1>a, <2>1
  <2> QED BY <1>1, <1>2, <1>a, <2>1, <2>2, <2>3 DEF ChargerInv
<1>b. ASSUME SendsOff(r), CancelRobotNav(r), view'.charging = view.charging
      PROVE  ChargerInv'
  <2>1. robot' = Stopped /\ (UNCHANGED reports \/ Post("standby", "none"))
    BY <1>b, CancelOutcome DEF StopRobot, Calm
  <2>2. robot'.at = robot.at /\ robot'.task = "none" /\ robot'.status # "goto charging"
    BY <1>0, <2>1 DEF Stopped, Robots, Underway
  <2>3. AtCharger = FALSE /\ AtCharger' = FALSE
    BY <1>0, <1>1, <1>2, <1>b, <2>2 DEF AtCharger
  <2> DEFINE report == [status |-> "standby", event |-> "none"]
  <2>4. report \in Report /\ ~Clears(report) /\ ~Charges(report)
    BY DEF Report, Clears, Charges, Statuses
  <2>5. UNCHANGED reports \/ reports' = Append(reports, report)
    BY <2>1 DEF Post
  <2> HIDE DEF report
  <2>6. Announced(reports', view.charging, FALSE)
    BY <1>0, <1>1, <2>3, <2>4, <2>5, AnnouncedOther
  <2>7. unseen => Undiscovered'
    <3> SUFFICES ASSUME unseen PROVE Undiscovered'
      OBVIOUS
    <3>1. robot.at = Dock /\ ~view.charging /\ \A i \in Indices(reports) : ~Clears(reports[i])
      BY <1>1 DEF Undiscovered
    <3>2. CASE UNCHANGED reports
      BY <1>b, <2>2, <3>1, <3>2 DEF Undiscovered
    <3>3. CASE reports' = Append(reports, report)
      <4>1. \A i \in Indices(reports') : ~Clears(reports'[i])
        <5>1. /\ Indices(reports') = Indices(reports) \cup {Len(reports) + 1}
              /\ reports'[Len(reports) + 1] = report
              /\ \A i \in Indices(reports) : reports'[i] = reports[i]
          BY <1>0, <2>4, <3>3, AppendIndices
        <5> QED BY <2>4, <3>1, <5>1
      <4> QED BY <1>b, <2>2, <3>1, <4>1 DEF Undiscovered
    <3> QED BY <2>5, <3>2, <3>3
  <2> QED BY <1>2, <1>b, <2>2, <2>3, <2>6, <2>7 DEF ChargerInv
<1>4. CASE HandleOrder(r)
  <2>1. /\ \A q \in Runs : Idle(q)
        /\ UNCHANGED <<reports, view>>
    BY <1>4 DEF HandleOrder, Calm
  <2>2. \A q \in Runs : pc[q] # "docking"
    BY <2>1 DEF Idle
  <2>3. CASE Charging(r) \/ ~view.charging
    <3>1. pc' = [pc EXCEPT ![r] = "next"] /\ UNCHANGED robot
      BY <1>4, <2>3 DEF HandleOrder, EnsureNotCharging
    <3>2. SendsOff(r)' => ~AtCharger
      <4>1. pc'[r] = "next" /\ Charging(r)' = Charging(r)
        BY <1>0, <1>2, <3>1 DEF Charging
      <4>2. SendsOff(r)' => ~view.charging
        BY <2>3, <4>1 DEF SendsOff, Owing
      <4> QED BY <1>1, <2>2, <4>2 DEF FlagOrDocking
    <3> QED BY <1>a, <2>1, <2>2, <3>1, <3>2
  <2>4. CASE ~Charging(r) /\ view.charging
    <3>1. /\ pc' = [pc EXCEPT ![r] = "leaving"]
          /\ robot' = IF robot.at = Dock THEN Commanded("leave", Dock) ELSE robot
      BY <1>2, <1>4, <2>4 DEF HandleOrder, EnsureNotCharging
    <3>2. ~SendsOff(r)'
      BY <1>0, <3>1 DEF SendsOff, Owing
    <3>3. /\ robot'.at = robot.at /\ robot'.status = robot.status
          /\ robot.at = Dock => robot'.task = "leave" /\ robot.status = "standby"
          /\ robot.at # Dock => robot'.task = robot.task
      BY <1>0, <3>1 DEF Commanded, Robots, PlaceInv
    <3>4. AtCharger' = AtCharger /\ ~unseen'
      BY <1>1, <1>2, <2>4, <3>3 DEF AtCharger, Undiscovered
    <3>5. \A q \in Runs : ~SendsOff(q)'
      BY <1>3, <2>1, <3>2 DEF Idle, SendsOff, Owing
    <3> QED BY <1>1, <2>1, <2>4, <3>3, <3>4, <3>5 DEF ChargerInv, FlagOrDocking
  <2> QED BY <2>3, <2>4
<1>5. CASE LeaveStep(r)
  <2>1. UNCHANGED <<robot, reports, view>> /\ pc[r] \in {"leaving", "stabilizing"}
    BY <1>5 DEF LeaveStep, LeftCharger, Stabilized, LeaveFails
  <2>2. CASE LeftCharger(r)
    <3>1. \A q \in Runs : pc[q] # "docking"
      BY <2>1 DEF OneAtATime, Idle
    <3>2. ~AtCharger
      BY <1>1, <2>2, <3>1 DEF LeftCharger, FlagOrDocking
    <3> QED BY <1>a, <2>1, <2>2, <3>2 DEF LeftCharger
  <2>3. CASE Stabilized(r)
    BY <1>1, <1>a, <2>1, <2>3 DEF Stabilized, SendsOff
  <2>4. CASE LeaveFails(r)
    <3>1. ~SendsOff(r)'
      BY <1>0, <2>4 DEF LeaveFails, SendsOff, Owing
    <3> QED BY <1>a, <2>1, <2>4, <3>1 DEF LeaveFails
  <2> QED BY <1>5, <2>2, <2>3, <2>4 DEF LeaveStep
<1>6. CASE OrderCancelled(r) \/ WaitCancelled(r) \/ EndLeg(r)
  <2>1. CancelRobotNav(r) /\ view'.charging = view.charging
    BY <1>0, <1>6 DEF OrderCancelled, WaitCancelled, EndLeg, GiveUpLeg
  <2>2. SendsOff(r)
    BY <1>6 DEF OrderCancelled, WaitCancelled, EndLeg, SendsOff, Owing
  <2> QED BY <1>b, <2>1, <2>2
<1>7. CASE StartLeg(r)
  <2>1. ~Charging(r)
    <3>1. Charging(r) => Goal(r) = Dock
      BY DEF DockPlans, Goal, Charging
    <3> QED BY <1>7, <3>1 DEF StartLeg
  <2>2. /\ SendsOff(r) /\ UNCHANGED <<robot, reports>> /\ view'.charging = view.charging
        /\ pc' = [pc EXCEPT ![r] = "send"] /\ pc[r] # "docking"
    BY <1>0, <1>7, <2>1 DEF StartLeg, SendsOff
  <2> QED BY <1>1, <1>a, <2>2
<1>8. CASE SendDelivery(r)
  <2>1. /\ robot' = Commanded("deliver", Goal(r)) /\ UNCHANGED <<reports, view>>
        /\ pc[r] = "send" /\ pc'[r] = "check"
    BY <1>0, <1>2, <1>8 DEF SendDelivery
  <2>2. ~AtCharger
    BY <1>1, <2>1 DEF SendsOff, Owing
  <2>3. robot'.at = robot.at /\ robot'.task = "deliver" /\ robot'.status = robot.status
    BY <1>0, <2>1 DEF Commanded, Robots
  <2>4. AtCharger' = FALSE /\ AtCharger = FALSE /\ (unseen => Undiscovered')
    BY <1>0, <1>1, <1>2, <2>1, <2>2, <2>3 DEF AtCharger, Undiscovered
  <2>5. robot'.status # "goto charging"
    BY <1>1, <2>2, <2>3, <2>1 DEF AtCharger, PlaceInv, Undiscovered
  <2> QED BY <1>1, <1>2, <2>1, <2>2, <2>3, <2>4, <2>5 DEF ChargerInv
<1>9. CASE CheckDelivery(r) \/ EnterWait(r) \/ WaitSignal(r) \/ DepartureDeadline(r)
           \/ PollTick(r) \/ PollAnswer(r)
  <2>1. UNCHANGED <<robot, reports, view>> /\ SendsOff(r) /\ pc[r] # "docking"
    BY <1>9 DEF CheckDelivery, EnterWait, WaitSignal, DepartureDeadline, PollTick, PollAnswer,
           SendsOff, Owing
  <2>2. \E label \in Labels : pc' = [pc EXCEPT ![r] = label]
    BY <1>9 DEF CheckDelivery, EnterWait, WaitSignal, DepartureDeadline, PollTick, PollAnswer,
           Labels
  <2> QED BY <1>1, <1>a, <2>1, <2>2
<1>10. CASE WaitTimeout(r) \/ DockingFails(r)
  <2>1. CASE WaitTimeout(r)
    BY <2>1 DEF WaitTimeout, Calm, Reliable
  <2>2. CASE DockingFails(r)
    <3>1. (r \in closed \/ unseen) /\ ~Idle(r)
      BY <2>2 DEF DockingFails, Calm, Reliable, Idle
    <3>2. unseen
      BY <1>0, <3>1 DEF OneAtATime
    <3>3. ~AtCharger
      BY <3>2 DEF AtCharger
    <3>4. /\ UNCHANGED <<robot, reports, view>> /\ pc' = [pc EXCEPT ![r] = "ending"]
          /\ ~SendsOff(r)'
      BY <1>0, <2>2 DEF DockingFails, SendsOff, Owing
    <3> QED BY <1>a, <3>3, <3>4
  <2> QED BY <1>10, <2>1, <2>2
<1>11. CASE GotoCharging(r)
  <2>1. /\ pc[r] = "next" /\ Charging(r) /\ UNCHANGED <<reports, view>>
    BY <1>11 DEF GotoCharging
  <2>2. \A q \in Runs : pc[q] # "docking"
    BY <2>1 DEF OneAtATime, Idle
  <2>3. CASE UNCHANGED robot /\ \E label \in {"ending", "charged"} : pc' = [pc EXCEPT ![r] = label]
    <3>1. ~SendsOff(r)'
      BY <1>0, <2>3 DEF SendsOff, Owing
    <3> QED BY <1>a, <2>1, <2>3, <3>1
  <2>4. ASSUME ~view.charging, pc' = [pc EXCEPT ![r] = "docking"],
               robot' = IF robot.at # Dock THEN Commanded("dock", Dock) ELSE robot
        PROVE  ChargerInv'
    <3>1. AtCharger = FALSE
      BY <1>0, <1>1, <2>2, <2>4 DEF FlagOrDocking
    <3>0. CASE unseen
      <4>1. UNCHANGED robot /\ ~SendsOff(r)'
        BY <1>0, <1>1, <2>4, <3>0 DEF Undiscovered, SendsOff, Owing
      <4> QED BY <1>a, <2>1, <2>4, <3>1, <4>1
    <3> SUFFICES ASSUME ~unseen PROVE ChargerInv'
      BY <3>0
    <3>2. robot'.task = "dock" /\ AtCharger' = TRUE /\ ~unseen'
      BY <1>0, <1>2, <2>4, <3>1 DEF AtCharger, Commanded, Robots
    <3>3. \A q \in Runs : ~SendsOff(q)'
      <4>1. \A q \in Runs \ {r} : Idle(q)
        BY <2>1 DEF OneAtATime, Idle
      <4>2. ~SendsOff(r)'
        BY <1>0, <2>4 DEF SendsOff, Owing
      <4> QED BY <1>3, <4>1, <4>2 DEF Idle, SendsOff, Owing
    <3>4. Announced(reports, FALSE, FALSE)
      BY <1>0, <1>1, <2>4, <3>1
    <3>5. Announced(reports, FALSE, TRUE)
      BY <3>4 DEF Announced
    <3>6. view'.charging = FALSE /\ pc'[r] = "docking"
      BY <1>0, <2>1, <2>4
    <3> QED BY <2>1, <3>2, <3>3, <3>5, <3>6 DEF ChargerInv, FlagOrDocking
  <2> QED BY <1>2, <1>11, <2>3, <2>4 DEF GotoCharging
<1>12. CASE ChargingSeen(r) \/ EndDocking(r) \/ ClearOrder(r)
  <2>1. /\ UNCHANGED <<robot, reports>> /\ view'.charging = view.charging
        /\ pc[r] = "docking" => view.charging
        /\ \E label \in {"charged", "ending", "over"} : pc' = [pc EXCEPT ![r] = label]
    BY <1>0, <1>12 DEF ChargingSeen, EndDocking, ClearOrder
  <2>2. ~SendsOff(r)'
    BY <1>0, <2>1 DEF SendsOff, Owing
  <2> QED BY <1>a, <2>1, <2>2
<1> QED
  BY <1>4, <1>5, <1>6, <1>7, <1>8, <1>9, <1>10, <1>11, <1>12 DEF RunStep, LegStep, DockStep

LEMMA NextCharger ==
  /\ Types /\ LegInv /\ PlaceInv /\ OneAtATime /\ DockPlans /\ ChargerInv /\ [Next]_vars
  => ChargerInv'
<1> SUFFICES ASSUME Types, LegInv, PlaceInv, OneAtATime, DockPlans, ChargerInv, [Next]_vars,
                    Calm'
             PROVE  ChargerInv'
  BY DEF ChargerInv
<1>1. Calm
  BY NextCalm DEF Calm, Reliable
<1>2. CASE UNCHANGED vars \/ CancelCurrentOrder
  <2>1. UNCHANGED <<plan, robot, reports, view, pc, unseen>>
    BY <1>2 DEF vars, CancelCurrentOrder, environment, noted
  <2> QED BY <1>1, <2>1 DEF ChargerInv, AtCharger, FlagOrDocking, SendsOff, Charging, Undiscovered
<1>4. CASE PostStop
  BY <1>1, <1>4 DEF PostStop, OneAtATime
<1>3. CASE LoseReport
  BY <1>1, <1>3 DEF LoseReport, Calm, Reliable
<1> QED
  BY <1>1, <1>2, <1>3, <1>4, RobotStepCharger, ReceiveCharger, RunStepCharger DEF Next

LEMMA SpecCharger == Spec => [](OneAtATime /\ ChargerInv)
<1>1. Init => OneAtATime /\ DockPlans
  BY DEF Init, OneAtATime, DockPlans, Idle, Owing
<1>2. Init => OneAtATime /\ DockPlans /\ ChargerInv
  BY <1>1, InitCharger
<1>3. /\ Types /\ LegInv /\ PlaceInv /\ (OneAtATime /\ DockPlans /\ ChargerInv) /\ [Next]_vars
      => (OneAtATime /\ DockPlans /\ ChargerInv)'
  BY NextOneAtATime, NextDockPlans, NextCharger
<1> QED BY <1>2, <1>3, SpecTypes, SpecOwned, SpecArrive, PTL DEF Spec

(* No delivery is sent to a robot that stands on the charger: an order     *)
(* leaves the charger first, or knows that the robot is not on it          *)
(* (ensureNotCharging, order_handler.go:926-976).  Left out is a robot     *)
(* that has been there since before the session, of which nothing tells    *)
(* the bridge (NewRobotState, robot_state.go).                             *)
THEOREM LeavesChargerFirstAlways == Spec => []LeavesChargerFirst
<1>1. ChargerInv => LeavesChargerFirst
  BY DEF ChargerInv, SendsOff, Owing, AtCharger, LeavesChargerFirst
<1> QED BY <1>1, SpecCharger, PTL

(* Between orders, when every report is handled, BatteryCharging says      *)
(* whether the robot is on the charger (ApplyWebhookData,                  *)
(* state_mapping.go:11; actionStartCharging, order_handler.go:583-635),    *)
(* from the start, or, when the session began with the robot on it, from   *)
(* when the robot has left it.                                             *)
THEOREM ChargingAgreesAlways == Spec => []ChargingAgrees
<1>1. ChargerInv => ChargingAgrees
  <2> SUFFICES ASSUME ChargerInv, Calm, ~unseen, reports = <<>>, robot.task = "none",
                      \A r \in Runs : Idle(r)
               PROVE  view.charging <=> robot.at = Dock
    BY DEF ChargingAgrees
  <2>1. Indices(reports) = {}
    BY EmptySeq DEF Indices
  <2>2. AtCharger <=> robot.at = Dock
    BY DEF AtCharger
  <2>3. view.charging => AtCharger
    BY <2>1 DEF ChargerInv, Announced
  <2>4. AtCharger => view.charging
    BY DEF ChargerInv, FlagOrDocking, Idle
  <2> QED BY <2>2, <2>3, <2>4
<1> QED BY <1>1, SpecCharger, PTL
=============================================================================
