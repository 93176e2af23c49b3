---------------------------- MODULE MCNavigation ----------------------------
EXTENDS Navigation

CONSTANTS A, Home, Charger, Elsewhere

(* What the worlds have in common: one report may wait, nothing disturbs. *)
Reliably ==
  [prompt |-> TRUE, lossy |-> FALSE, answering |-> TRUE, obeying |-> TRUE, overlap |-> FALSE,
   cancels |-> FALSE, obstacles |-> FALSE, docked |-> FALSE, waiting |-> 1]

(* Obstacles on the way; a session that begins with the robot on the       *)
(* charger; no report to rely on; an order that supersedes another, or is  *)
(* cancelled; requests and commands that fail, with orders that overlap or *)
(* with reports that get lost.                                             *)
CalmWorld    == [Reliably EXCEPT !.obstacles = TRUE, !.waiting = 2]
DockedWorld  == [Reliably EXCEPT !.docked = TRUE]
DeafWorld    == [Reliably EXCEPT !.prompt = FALSE, !.lossy = TRUE]
OverlapWorld == [Reliably EXCEPT !.overlap = TRUE]
CancelWorld  == [Reliably EXCEPT !.cancels = TRUE]
FailingWorld ==
  [Reliably EXCEPT !.answering = FALSE, !.obeying = FALSE, !.overlap = TRUE, !.cancels = TRUE]
LossyWorld   == [Reliably EXCEPT !.answering = FALSE, !.obeying = FALSE, !.lossy = TRUE]

(* Orders: one leg out and back to the counter, an origin only, from where *)
(* the robot goes to the counter, and charging.                            *)
Out    == <<A, Home>>
Back   == <<Home>>
ToDock == <<Charger>>

In(w, plans) == {[world |-> w, plan |-> p] : p \in plans}

MCScenarios ==
  In(CalmWorld, [Runs -> {Out, ToDock}])
    \cup In(DockedWorld, {<<Out, ToDock>>, <<ToDock, Out>>})
    \cup In(DeafWorld, {<<Out, Back>>, <<ToDock, Back>>})
    \cup In(OverlapWorld, {<<Out, Back>>})
    \cup In(CancelWorld, {<<Out, Back>>, <<ToDock, Out>>})
    \cup In(FailingWorld, {<<ToDock, Back>>})
    \cup In(LossyWorld, {<<Back, ToDock>>})
CalmScenarios == In(CalmWorld, [Runs -> {Out, ToDock}])
=============================================================================
