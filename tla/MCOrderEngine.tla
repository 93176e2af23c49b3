--------------------------- MODULE MCOrderEngine ----------------------------
(***************************************************************************)
(* Small orders for model checking OrderEngine.                            *)
(***************************************************************************)
EXTENDS OrderEngine, TLC

Act(id, type, station) == [id |-> id, type |-> type, station |-> station]
Stop(name, map, actions) == [name |-> name, map |-> map, actions |-> actions]
Track(name, end, actions) == [name |-> name, end |-> end, actions |-> actions]

(* A delivery: voice at the origin, one leg to a station, a wait there. *)
Delivery ==
  [id |-> "o1", task |-> "delivery",
   nodes |-> <<Stop("n0", "m1", <<Act("voice", "playVoice", None)>>),
               Stop("n1", "m1", <<Act("goto", "GoToLocation", "s1"),
                                  Act("wait", "wait", None)>>)>>,
   edges |-> <<Track("e1", "n1", <<>>)>>]

(* A charging task without map ids: no edge to the node, then docking. *)
Charging ==
  [id |-> "o2", task |-> "charging",
   nodes |-> <<Stop("n0", None, <<>>),
               Stop("n2", None, <<Act("dock", "startCharging", None)>>)>>,
   edges |-> <<>>]

(* The delivery's id sent again with a changed route, which ends on another *)
(* map; the track has an action and the stop on it has no target.           *)
Reroute ==
  [id |-> "o1", task |-> "delivery",
   nodes |-> <<Stop("n0", None, <<>>),
               Stop("n1", "m1", <<Act("nowhere", "GoToLocation", None)>>)>>,
   edges |-> <<Track("e1", "n1", <<Act("drop", "drop", None)>>)>>]

(* A ride by coordinates and no actions: the shortest delivery. *)
Ride ==
  [id |-> "o3", task |-> "delivery",
   nodes |-> <<Stop("n0", "m1", <<>>), Stop("n3", "m1", <<>>)>>,
   edges |-> <<Track("e3", "n3", <<>>)>>]

(* A single charging stop: the shortest order. *)
Dock ==
  [id |-> "o4", task |-> "charging",
   nodes |-> <<Stop("n0", "m1", <<Act("dock", "startCharging", None)>>)>>,
   edges |-> <<>>]

MCNodeIds == {"n0", "n1", "n2", "n3"}
MCEdgeIds == {"e1", "e3"}
MCOrderIds == {p.id : p \in Plans}
MCActionIds == UNION {PlanActionIds(p) : p \in Plans} \cup Instants

AllPlans == {Delivery, Charging, Reroute, Ride}
ShortPlans == {Ride, Dock}

Sent(plans) == \A r \in Runs : plan[r] \in plans \cup {None}
Unused(instants) == \A i \in instants : instant[i] = "idle"

(* Two runs of any orders with a crash, or of two orders with a cancel. *)
CrashOrCancel == Unused(Cancels) \/ (crashes = 0 /\ Sent({Ride, Charging}))

(* Any of these orders under one id: two runs of the shortest with a cancel *)
(* or a crash, or one run of any other with a state request on top.  Only   *)
(* orders, requests and crashes that need not happen are left out, so no    *)
(* fair action is cut off.                                                  *)
SameId(p) == [p EXCEPT !.id = "o1"]
LivePlans == {SameId(p) : p \in AllPlans \cup {Dock}}
OneRun == \A r \in Runs \ {CHOOSE r \in Runs : TRUE} : pc[r] = "idle"
TwoShortOrOne ==
  \/ OneRun /\ (crashes = 0 \/ Unused(Requests))
  \/ Sent({SameId(Dock)}) /\ Unused(Requests) /\ (crashes = 0 \/ Unused(Cancels))

Symmetry == Permutations(Runs) \cup Permutations(Cancels)
=============================================================================
