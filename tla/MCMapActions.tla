---------------------------- MODULE MCMapActions ----------------------------
EXTENDS MapActions

CONSTANTS a1, a2, M1, M2, Nowhere, NoMap

Calm    == [prompt |-> TRUE, answering |-> TRUE, obeying |-> TRUE, hands |-> TRUE]
Still   == [Calm EXCEPT !.hands = FALSE]
Hasty   == [Calm EXCEPT !.prompt = FALSE]
Failing == [Still EXCEPT !.prompt = FALSE, !.answering = FALSE, !.obeying = FALSE]

Asked(type, map, byName) == [type |-> type, map |-> map, byName |-> byName, complete |-> TRUE]
Absent == Asked("tw_action", NoMap, FALSE)   \* skipped, so no action at all

Named   == Asked("uploadMap", M1, TRUE)
Current == Asked("uploadMap", NoMap, TRUE)
Places  == Asked("getWaypoints", M1, TRUE)
Uploads   == {Named, Current, Asked("uploadMap", Nowhere, TRUE)}
Waypoints == {Places, Asked("getWaypoints", M2, FALSE),
              Asked("getWaypoints", NoMap, FALSE), Asked("getWaypoints", Nowhere, TRUE)}
Switch == Asked("switchMap", M2, FALSE)
Pose   == Asked("initPosition", NoMap, FALSE)
Others == {Asked("initPosition", M2, FALSE), Asked("switchMap", NoMap, FALSE),
           Asked("switchMap", Nowhere, FALSE), Asked("navigate", NoMap, FALSE),
           Asked("stateRequest", NoMap, FALSE), Asked("startPause", NoMap, FALSE),
           Asked("stopPause", NoMap, FALSE), Asked("unknown", NoMap, FALSE)}
            \cup {[Asked(t, M1, TRUE) EXCEPT !.complete = FALSE] :
                    t \in {"uploadMap", "initPosition", "navigate"}}

(* No picture that can be decoded.  Or an arbitrary picture inside a rim   *)
(* that is all wall, all free or all unknown.                              *)
Undecodable == <<>>
Rimmed ==
  {[p \in Pixels |-> IF p \notin Inner THEN rim ELSE IF p \in walls THEN "wall" ELSE "free"] :
     rim \in {"wall", "free", "unknown"}, walls \in SUBSET Inner}

In(w, requests, others, images) ==
  {[world |-> w, plan |-> (a1 :> r) @@ (a2 :> s), image |-> i] :
     r \in requests, s \in others, i \in images}

MCScenarios ==
  In(Calm, {Named, Current, Places, Pose}, {Switch}, {Undecodable})
    \cup In(Hasty, {Current, Places}, {Switch}, {Undecodable})
    \cup In([Hasty EXCEPT !.hands = FALSE], {Switch}, {Switch}, {Undecodable})
    \cup In(Failing, {Current, Switch}, {Switch}, {Undecodable})
    \cup In(Failing, Uploads \cup Waypoints \cup Others, {Absent}, {Undecodable})
    \cup In(Failing, {Current}, {Places}, {Undecodable})
    \cup In(Still, {Named}, {Absent}, Rimmed)

WaypointScenarios == In(Calm, Waypoints, {Absent}, {Undecodable})
=============================================================================
