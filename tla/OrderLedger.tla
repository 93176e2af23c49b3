---------------------------- MODULE OrderLedger -----------------------------
(***************************************************************************)
(* What the orders table promises a reader of the admin API, whatever the  *)
(* engine does: a row that says "running" is owed an outcome by a run that *)
(* is still alive, every such debt is paid, and a crash of the bridge,     *)
(* which forgets all debts, is made good by one recovery before anything   *)
(* else is written.  OrderEngine implements this specification.            *)
(***************************************************************************)
CONSTANTS OrderIds, Runs

VARIABLES
  status,  \* what the table says of each order
  owed,    \* for each order, the runs that still have to record an outcome
  lost     \* the process is down and has forgotten its runs

vars == <<status, owed, lost>>

Outcomes == {"finished", "failed", "cancelled"}

Init ==
  /\ status = [o \in OrderIds |-> "absent"]
  /\ owed = [o \in OrderIds |-> {}]
  /\ lost = FALSE

(* A run takes on an order, new or sent again. *)
Open(r, o) ==
  /\ ~lost
  /\ \A q \in OrderIds : r \notin owed[q]
  /\ status' = [status EXCEPT ![o] = "running"]
  /\ owed' = [owed EXCEPT ![o] = @ \cup {r}]
  /\ UNCHANGED lost

Close(r, o) ==
  /\ ~lost /\ r \in owed[o]
  /\ \E out \in Outcomes : status' = [status EXCEPT ![o] = out]
  /\ owed' = [owed EXCEPT ![o] = @ \ {r}]
  /\ UNCHANGED lost

Lose ==
  /\ ~lost /\ lost' = TRUE
  /\ owed' = [o \in OrderIds |-> {}]
  /\ UNCHANGED status

Recover ==
  /\ lost /\ lost' = FALSE
  /\ status' = [o \in OrderIds |->
                  IF status[o] = "running" THEN "failed" ELSE status[o]]
  /\ UNCHANGED owed

Next ==
  \/ \E r \in Runs, o \in OrderIds : Open(r, o) \/ Close(r, o)
  \/ Lose \/ Recover

Safe == Init /\ [][Next]_vars

Spec ==
  /\ Safe
  /\ \A r \in Runs, o \in OrderIds : WF_vars(Close(r, o))
  /\ WF_vars(Recover)
=============================================================================
