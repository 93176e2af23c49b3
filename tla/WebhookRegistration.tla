------------------------ MODULE WebhookRegistration -------------------------
(***************************************************************************)
(* RegisterWebhook, keepAliveRegister and activateDeliveryMode             *)
(* (register.go): three goroutines that post commands to the robot, each   *)
(* until stopCh of the session is closed.  A goroutine that sleeps, or     *)
(* waits for a ticker, selects between the time and the stop, so the time  *)
(* runs out only before the stop; the goroutine may act on it after.       *)
(***************************************************************************)
EXTENDS SessionShared

VARIABLES
  register,    \* where the goroutine of RegisterWebhook is
  interval,    \* its retryInterval, in seconds
  keepAlive,   \* where keepAliveRegister is
  activate,    \* where activateDeliveryMode is
  attempt,     \* its attempt
  registered,  \* the robot reports to the webhook
  late         \* history: commands each goroutine sent after the stop

regVars == <<register, interval, keepAlive, activate, attempt, registered, late>>
-----------------------------------------------------------------------------
Goroutines == {"register", "keepAlive", "activate"}
MaxRetry == 30

InitRegistration ==
  /\ register = "off" /\ keepAlive = "off" /\ activate = "off"
  /\ interval = 5
  /\ attempt = 1
  /\ registered = world.known
  /\ late = [g \in Goroutines |-> 0]

StartRegistration ==
  /\ register' = "wait"
  /\ UNCHANGED <<interval, keepAlive, activate, attempt, registered, late>>

Answers == world.atom /\ robotUp

Sent(g) == late' = [late EXCEPT ![g] = IF stop = Running THEN @ ELSE @ + 1]

(* Sleeping, and waiting for a ticker. *)
Slept == stop = Running
StopSeen == stop # Running
-----------------------------------------------------------------------------
(* Seeded bug: the interval doubles without a limit. *)
NextIntervalUnlimited(i) == IF i <= MaxRetry THEN 2 * i ELSE i

NextInterval(i) == IF 2 * i > MaxRetry THEN MaxRetry ELSE 2 * i

RegisterSleeps ==
  /\ register \in {"wait", "backoff"}
  /\ \/ /\ Slept
        /\ register' = "try"
        /\ interval' = IF register = "wait" THEN interval ELSE NextInterval(interval)
     \/ /\ StopSeen
        /\ register' = "ended"
        /\ UNCHANGED interval
  /\ UNCHANGED <<keepAlive, activate, attempt, registered, late>>

(* doRegister; once it succeeds the two other goroutines start. *)
Register ==
  /\ register = "try"
  /\ Sent("register")
  /\ IF Answers
     THEN /\ registered' = TRUE
          /\ register' = "ended" /\ keepAlive' = "wait" /\ activate' = "wait"
     ELSE register' = "backoff" /\ UNCHANGED <<keepAlive, activate, registered>>
  /\ UNCHANGED <<interval, attempt>>

(* Seeded bug: the robot is registered with once. *)
KeepAliveOnce ==
  /\ keepAlive = "wait"
  /\ keepAlive' = "ended"
  /\ UNCHANGED <<register, interval, activate, attempt, registered, late>>

KeepAliveTicks ==
  /\ keepAlive = "wait"
  /\ \/ Slept /\ keepAlive' = "try"
     \/ StopSeen /\ keepAlive' = "ended"
  /\ UNCHANGED <<register, interval, activate, attempt, registered, late>>

Reregister ==
  /\ keepAlive = "try"
  /\ Sent("keepAlive")
  /\ registered' = (registered \/ Answers)
  /\ keepAlive' = "wait"
  /\ UNCHANGED <<register, interval, activate, attempt>>
-----------------------------------------------------------------------------
(* activateDeliveryMode: 30 s, the name of the map, up to three posts that *)
(* select it, 2 s, polls for map_loaded for up to 90 s, 5 s, up to three   *)
(* posts of the mode.  Any answer to a post will do, and after the third   *)
(* that gets none it goes on all the same.                                 *)
Sleeps == {"wait", "set pause", "settle", "poll", "stabilize", "mode pause"}

After(place) ==
  CASE place = "wait" -> "read map"
    [] place = "set pause" -> IF attempt < 3 THEN "set" ELSE "settle"
    [] place = "settle" -> "poll"
    [] place = "poll" -> "stabilize"
    [] place = "stabilize" -> "mode"
    [] place = "mode pause" -> IF attempt < 3 THEN "mode" ELSE "ended"

(* Seeded bug: time.Sleep in place of sleepOrStop. *)
ActivateSleepsThrough ==
  /\ activate \in Sleeps
  /\ activate' = After(activate)
  /\ attempt' = IF activate \in {"set pause", "mode pause"} /\ attempt < 3 THEN attempt + 1 ELSE 1
  /\ UNCHANGED <<register, interval, keepAlive, registered, late>>

(* A poll that is under way at the stop may still find the map loaded. *)
ActivateSleeps ==
  /\ activate \in Sleeps
  /\ \/ /\ Slept \/ activate = "poll"
        /\ activate' = After(activate)
        /\ attempt' = IF activate \in {"set pause", "mode pause"} /\ attempt < 3
                      THEN attempt + 1 ELSE 1
     \/ StopSeen /\ activate' = "ended" /\ UNCHANGED attempt
  /\ UNCHANGED <<register, interval, keepAlive, registered, late>>

ReadLastmap ==
  /\ activate = "read map"
  /\ activate' = IF Answers THEN "set" ELSE "ended"
  /\ UNCHANGED <<register, interval, keepAlive, attempt, registered, late>>

Command ==
  /\ activate \in {"set", "mode"}
  /\ Sent("activate")
  /\ activate' = CASE Answers /\ activate = "set" -> "settle"
                   [] Answers /\ activate = "mode" -> "ended"
                   [] OTHER -> IF activate = "set" THEN "set pause" ELSE "mode pause"
  /\ UNCHANGED <<register, interval, keepAlive, attempt, registered>>

RegisterStep == RegisterSleeps \/ Register
KeepAliveStep == KeepAliveTicks \/ Reregister
ActivateStep == ActivateSleeps \/ ReadLastmap \/ Command

(* The robot forgets the webhook when it goes down. *)
ForgetWebhook == registered' = FALSE
-----------------------------------------------------------------------------
TypeOKRegistration ==
  /\ register \in {"off", "wait", "try", "backoff", "ended"}
  /\ interval \in {5, 10, 20, MaxRetry}
  /\ keepAlive \in {"off", "wait", "try", "ended"}
  /\ activate \in Sleeps \cup {"off", "read map", "set", "mode", "ended"}
  /\ attempt \in 1 .. 3
  /\ registered \in BOOLEAN
  /\ late \in [Goroutines -> Nat]

(* After Stop no goroutine sends the robot more than the one command it    *)
(* was about to send.                                                      *)
LateCommands == \A g \in Goroutines : late[g] <= 1

(* A robot that stays up is registered with, at the start and after every  *)
(* time it went down, until the session is stopped.                        *)
Registers ==
  (stop = Running /\ register # "off" /\ Answers /\ "registration" \in world.parts)
    ~> (registered \/ stop # Running \/ ~Answers)
=============================================================================
