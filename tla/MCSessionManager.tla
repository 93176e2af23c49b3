-------------------------- MODULE MCSessionManager --------------------------
(***************************************************************************)
(* Small instances of SessionManager.                                      *)
(***************************************************************************)
EXTENDS SessionManager, TLC

(* Edits and ends of the process without admin requests, or the reverse;   *)
(* webhooks as long as the file is not edited.                             *)
EditsOrRequests ==
  /\ AdminActed => edits = 0 /\ exits = 0 /\ up \in {"booting", "serving"}
  /\ edits = 0 \/ \A w \in Webhooks : webhook[w] = "idle"

Symmetry ==
  Permutations(Sessions) \cup Permutations(Admins) \cup Permutations(Records)
    \cup Permutations(Webhooks)
=============================================================================
