----------------------------- MODULE MCSession ------------------------------
EXTENDS Session

(* The connection, fed by the webhook: with a broker whose connection      *)
(* breaks and a robot that restarts; with callbacks in any order; with the *)
(* states that are published.  The connection and the WebSocket, or the    *)
(* registration, of a robot that does, or does not, restart.  The          *)
(* registration with a robot that restarts twice.                          *)
BrokerWorld ==
  [atom |-> TRUE, fastapi |-> TRUE, broker |-> TRUE, disabled |-> FALSE, ordered |-> TRUE,
   restarts |-> 1, breaks |-> 1, known |-> TRUE, parts |-> {"connection"}]
JumbledWorld == [BrokerWorld EXCEPT !.ordered = FALSE, !.restarts = 0]
StateWorld ==
  [BrokerWorld EXCEPT !.restarts = 0, !.known = FALSE, !.parts = {"connection", "state"}]
StreamWorld ==
  [BrokerWorld EXCEPT !.atom = FALSE, !.known = FALSE, !.breaks = 0,
                      !.parts = {"connection", "socket"}]
QuietWorld ==
  [BrokerWorld EXCEPT !.restarts = 0, !.breaks = 0, !.known = FALSE, !.disabled = TRUE,
                      !.parts = {"connection", "registration"}]
RobotWorld ==
  [BrokerWorld EXCEPT !.restarts = 2, !.known = FALSE, !.broker = FALSE,
                      !.parts = {"registration"}]

MCWorlds == {BrokerWorld, JumbledWorld, StateWorld, StreamWorld, QuietWorld, RobotWorld}
=============================================================================
