--------------------------- MODULE SessionManager ---------------------------
(***************************************************************************)
(* The life of one robot in the bridge: SessionManager.Register and        *)
(* Deregister with the Start and Stop of the sessions they exchange        *)
(* (manager.go, session.go), and everyone who calls them: admin requests   *)
(* and webhooks (httpapi.go), the synchronisation with robots.yaml         *)
(* (robots_yaml.go), the reaper, start-up and shutdown (main.go), over the *)
(* robot's row in table robots (store.go) and crashes of the process.      *)
(*                                                                         *)
(* Sessions of different robots share nothing but the lock of the map,     *)
(* which is held for the exchange of one entry, so one robot is enough.    *)
(* A step of a caller is one region under a lock or one SQL statement.     *)
(***************************************************************************)
EXTENDS Naturals, FiniteSets

CONSTANTS
  Sessions,   \* RobotSession objects, each created once
  Records,    \* contents of a robot record that a connection depends on
  Admins,     \* admin requests, each sent once
  Webhooks,   \* webhook requests, each sent once
  Yaml,       \* the goroutine that loads the store and follows robots.yaml
  Reaper,     \* the reaper goroutine
  Term,       \* main after a termination signal
  Broken,     \* content of robots.yaml that does not parse
  None,       \* nil, no row, no entry
  MaxEdits,   \* bound: edits of robots.yaml
  MaxExits    \* bound: ends of the process

Callers == Admins \cup {Yaml, Reaper, Term}

(* A record as a caller passes it: "unset" is the empty status string.     *)
Arg(rec, source, status) == [rec |-> rec, source |-> source, status |-> status]
Args == [rec : Records, source : {"admin", "yaml"},
         status : {"unset", "offline", "online", "errored"}]

ASSUME ManagerAssumption ==
  /\ None \notin Sessions \cup Records \cup Args
  /\ Sessions \cap {"idle", "done"} = {}  \* the states of a webhook without one
  /\ Broken \notin Records \cup {None}
  /\ Yaml \notin Admins \cup {Reaper, Term}
  /\ Reaper \notin Admins \cup {Term}
  /\ Term \notin Admins
  /\ MaxEdits \in Nat /\ MaxExits \in Nat

VARIABLES
  up,        \* phase of the process
  mapped,    \* m.sessions[id]
  session,   \* phase of each session
  conf,      \* record of each session
  client,    \* MQTT client of each session
  row,       \* the robot's row in table robots
  pc,        \* where each caller is
  old,       \* the session a caller took out of the map
  new,       \* the session a caller put into the map
  arg,       \* the record a caller registers
  file,      \* the robot's entry in robots.yaml
  changed,   \* robots.yaml was edited since it was read last
  cache,     \* the robot's entry in lastYAMLRecords
  want,      \* the robot's entry as the running synchronisation read it
  webhook,   \* the session each webhook request found
  edits,     \* edits so far
  exits,     \* ends of the process so far
  contended, \* history: callers overlapped in this life of the process
  missed     \* history: an edit fell before the watch in this life

registry == <<mapped, session, conf, client>>
callers  == <<pc, old, new, arg>>
yamlVars == <<file, changed, cache, want>>
bounds   == <<edits, exits>>
history  == <<contended, missed>>
vars == <<up, registry, row, callers, yamlVars, webhook, bounds, history>>

NoRow == [rec |-> None, source |-> None, status |-> "absent"]
Rows ==
  {NoRow} \cup [rec : Records, source : {"admin", "yaml"},
                status : {"offline", "online", "errored", "deleted"}]

AtRest == {"idle", "done", "rest", "down"}
Busy == {c \in Callers : pc[c] \notin AtRest}
InFlight == {w \in Webhooks : webhook[w] \in Sessions}

-----------------------------------------------------------------------------
(* Table robots. *)

ListActiveRobots == row.status \notin {"absent", "deleted"}

UpsertRobot(r, status) ==
  row' = [rec |-> r.rec, source |-> r.source, status |-> status]

(* SetRobotStatus and TouchRobot update a row that exists. *)
SetRobotStatus(status) ==
  row' = IF row.status = "absent" THEN row ELSE [row EXCEPT !.status = status]

storeNZ(status, default) == IF status = "unset" THEN default ELSE status

-----------------------------------------------------------------------------
Init ==
  /\ up = "booting"
  /\ mapped = None
  /\ session = [s \in Sessions |-> "unused"]
  /\ conf = [s \in Sessions |-> None]
  /\ client = [s \in Sessions |-> "none"]
  /\ row = NoRow
  /\ pc = [c \in Callers |-> IF c = Yaml THEN "load" ELSE "idle"]
  /\ old = [c \in Callers |-> None]
  /\ new = [c \in Callers |-> None]
  /\ arg = [c \in Callers |-> None]
  /\ file \in Records \cup {None} /\ changed = FALSE
  /\ cache = None /\ want = None
  /\ webhook = [w \in Webhooks |-> "idle"]
  /\ edits = 0 /\ exits = 0
  /\ contended = FALSE /\ missed = FALSE

-----------------------------------------------------------------------------
(* Register and Deregister, step by step, for any caller.                  *)

Goto(c, from, to) == pc[c] = from /\ pc' = [pc EXCEPT ![c] = to]

Begins(c) == contended' = (contended \/ Busy # {})

(* The caller goes on with r to Register. *)
CallRegister(c, from, r) ==
  /\ Goto(c, from, "swap")
  /\ arg' = [arg EXCEPT ![c] = r]
  /\ UNCHANGED <<old, new>>

(* Where a caller goes on when Register or Deregister returns: start-up    *)
(* loads the store first and then the file.                                *)
Return(c) ==
  CASE c = Yaml -> IF arg[c] = None THEN "synced"
                   ELSE IF want = arg[c].rec THEN "cache" ELSE "sync"
    [] c = Reaper -> "idle"
    [] OTHER -> "done"

Returns(c, from) ==
  /\ Goto(c, from, Return(c))
  /\ old' = [old EXCEPT ![c] = None]
  /\ new' = [new EXCEPT ![c] = None]
  /\ arg' = [arg EXCEPT ![c] = None]

SwapSession(c) ==
  /\ Goto(c, "swap", "stop")
  /\ \E s \in Sessions :
       /\ session[s] = "unused"
       /\ session' = [session EXCEPT ![s] = "new"]
       /\ conf' = [conf EXCEPT ![s] = arg[c].rec]
       /\ mapped' = s
       /\ old' = [old EXCEPT ![c] = mapped]
       /\ new' = [new EXCEPT ![c] = s]
  /\ UNCHANGED <<up, client, row, arg, yamlVars, webhook, bounds, history>>

AfterStop(c) ==
  CASE c = Term -> "exit"
    [] c # Term /\ new[c] = None -> "mark"
    [] OTHER -> "start"

(* Seeded bug: the map is read again after the lock was released. *)
ReplacedNow(c) == mapped
Replaced(c) == old[c]

(* Seeded bug: only a connected session is stopped. *)
StopsConnected(c) == Replaced(c) # None /\ client[Replaced(c)] = "open"
Stops(c) == Replaced(c) # None /\ session[Replaced(c)] = "started"

(* Stop marks the session stopped and lets go of its MQTT client, if it    *)
(* has begun to connect by then.                                           *)
StopSession(c) ==
  /\ Goto(c, "stop", "offline")
  /\ Stops(c)
  /\ session' = [session EXCEPT ![Replaced(c)] = "stopped"]
  /\ client' = [client EXCEPT ![Replaced(c)] =
                  IF @ = "open" THEN "closed" ELSE @]
  /\ UNCHANGED <<up, mapped, conf, row, old, new, arg, yamlVars, webhook,
                 bounds, history>>

(* Stop of a session that is not started, or no session, does nothing. *)
StopNothing(c) ==
  /\ Goto(c, "stop", AfterStop(c))
  /\ ~Stops(c)
  /\ UNCHANGED <<up, registry, row, old, new, arg, yamlVars, webhook, bounds,
                 history>>

StoreOffline(c) ==
  /\ Goto(c, "offline", AfterStop(c))
  /\ SetRobotStatus("offline")
  /\ UNCHANGED <<up, registry, old, new, arg, yamlVars, webhook, bounds,
                 history>>

(* Start marks the session started and starts its goroutines. *)
StartSession(c) ==
  /\ Goto(c, "start", "online")
  /\ session' = [session EXCEPT ![new[c]] = "started"]
  /\ UNCHANGED <<up, mapped, conf, client, row, old, new, arg, yamlVars,
                 webhook, bounds, history>>

StoreOnline(c) ==
  /\ Goto(c, "online", "upsert")
  /\ UpsertRobot(arg[c], "online")
  /\ UNCHANGED <<up, registry, old, new, arg, yamlVars, webhook, bounds,
                 history>>

(* Register stores the record once more, with the status it was called with. *)
StoreRecord(c) ==
  /\ Returns(c, "upsert")
  /\ UpsertRobot(arg[c], storeNZ(arg[c].status, "offline"))
  /\ UNCHANGED <<up, registry, yamlVars, webhook, bounds, history>>

UnmapSession(c) ==
  /\ Goto(c, "unmap", "stop")
  /\ old' = [old EXCEPT ![c] = mapped]
  /\ mapped' = None
  /\ contended' = (contended \/ InFlight # {})
  /\ UNCHANGED <<up, session, conf, client, row, new, arg, yamlVars, webhook,
                 bounds, missed>>

(* Seeded bug: the row is not marked. *)
StoreNotDeleted(c) ==
  /\ Returns(c, "mark")
  /\ UNCHANGED <<up, registry, row, yamlVars, webhook, bounds, history>>

StoreDeleted(c) ==
  /\ Returns(c, "mark")
  /\ SetRobotStatus("deleted")
  /\ UNCHANGED <<up, registry, yamlVars, webhook, bounds, history>>

CallerStep(c) ==
  \/ SwapSession(c) \/ StopSession(c) \/ StopNothing(c) \/ StoreOffline(c)
  \/ StartSession(c) \/ StoreOnline(c) \/ StoreRecord(c)
  \/ UnmapSession(c) \/ StoreDeleted(c)

-----------------------------------------------------------------------------
(* Goroutines of a session.                                                *)

(* The goroutine mqttConnect, which does not look at the session again.    *)
(* Before it calls Connect Stop finds no client that calls itself          *)
(* connected, whether or not one is made already.                          *)
Connect(s) ==
  /\ session[s] \in {"started", "stopped"} /\ client[s] = "none"
  /\ client' = [client EXCEPT ![s] = "open"]
  /\ UNCHANGED <<up, mapped, session, conf, row, callers, yamlVars, webhook,
                 bounds, history>>

(* A guarded goroutine panics while the session lives.  Bound: only as long *)
(* as there is a session to replace it.                                     *)
Panic(s) ==
  /\ session[s] = "started" /\ row.status # "errored"
  /\ \E t \in Sessions : session[t] = "unused"
  /\ SetRobotStatus("errored")
  /\ UNCHANGED <<up, registry, callers, yamlVars, webhook, bounds, history>>

-----------------------------------------------------------------------------
(* Requests: the admin API and the webhook. *)

AdminPost(a, r) ==
  /\ up = "serving" /\ a \in Admins
  /\ CallRegister(a, "idle", Arg(r, "admin", "unset"))
  /\ Begins(a)
  /\ UNCHANGED <<up, registry, row, yamlVars, webhook, bounds, missed>>

AdminDelete(a) ==
  /\ up = "serving" /\ a \in Admins
  /\ Goto(a, "idle", "unmap")
  /\ Begins(a)
  /\ UNCHANGED <<up, registry, row, old, new, arg, yamlVars, webhook, bounds,
                 missed>>

(* A webhook of a robot without a session is dropped. *)
WebhookGet(w) ==
  /\ up = "serving" /\ webhook[w] = "idle" /\ mapped # None
  /\ webhook' = [webhook EXCEPT ![w] = mapped]
  /\ UNCHANGED <<up, registry, row, callers, yamlVars, bounds, history>>

(* HandleWebhook of the session found before. *)
WebhookTouch(w) ==
  /\ w \in InFlight
  /\ webhook' = [webhook EXCEPT ![w] = "done"]
  /\ SetRobotStatus("online")
  /\ UNCHANGED <<up, registry, callers, yamlVars, bounds, history>>

-----------------------------------------------------------------------------
(* The reaper registers errored robots from the list it read. *)
ReaperTick ==
  /\ up # "down" /\ row.status = "errored"
  /\ CallRegister(Reaper, "idle", Arg(row.rec, row.source, "online"))
  /\ Begins(Reaper)
  /\ UNCHANGED <<up, registry, row, yamlVars, webhook, bounds, missed>>

-----------------------------------------------------------------------------
(* Start-up and robots.yaml.                                               *)

(* Seeded bug: deleted robots are loaded too. *)
LoadDeletedToo ==
  /\ IF row.status # "absent"
     THEN CallRegister(Yaml, "load", Arg(row.rec, row.source, row.status))
     ELSE Goto(Yaml, "load", "sync") /\ UNCHANGED <<old, new, arg>>
  /\ UNCHANGED <<up, registry, row, yamlVars, webhook, bounds, history>>

LoadFromStore ==
  /\ IF ListActiveRobots
     THEN CallRegister(Yaml, "load", Arg(row.rec, row.source, row.status))
     ELSE Goto(Yaml, "load", "sync") /\ UNCHANGED <<old, new, arg>>
  /\ UNCHANGED <<up, registry, row, yamlVars, webhook, bounds, history>>

(* Seeded bug: a changed record is not noticed. *)
UnappliedNew == file \in Records /\ cache = None

(* SyncRobotsYAML: a record that is new to the cache or differs from it is *)
(* registered; a file that does not parse changes nothing.                 *)
Unapplied == file \in Records /\ file # cache

SyncRead ==
  /\ IF Unapplied
     THEN CallRegister(Yaml, "sync", Arg(file, "yaml", "unset"))
     ELSE /\ Goto(Yaml, "sync", IF file = Broken THEN "synced" ELSE "cache")
          /\ UNCHANGED <<old, new, arg>>
  /\ want' = IF file = Broken THEN want ELSE file
  /\ changed' = FALSE
  /\ UNCHANGED <<up, registry, row, file, cache, webhook, bounds, history>>

SyncCache ==
  /\ Goto(Yaml, "cache", "prune")
  /\ cache' = want
  /\ UNCHANGED <<up, registry, row, old, new, arg, file, changed, want,
                 webhook, bounds, history>>

(* A robot that came from the file and is not in it any more goes. *)
SyncPrune ==
  /\ Goto(Yaml, "prune",
          IF ListActiveRobots /\ row.source = "yaml" /\ want = None
          THEN "unmap" ELSE "synced")
  /\ UNCHANGED <<up, registry, row, old, new, arg, yamlVars, webhook, bounds,
                 history>>

(* The first synchronisation is followed by the watch and the HTTP API. *)
Synced ==
  /\ Goto(Yaml, "synced", "rest")
  /\ up' = IF up = "booting" THEN "serving" ELSE up
  /\ want' = None
  /\ missed' = IF up = "booting" THEN changed ELSE missed
  /\ changed' = IF up = "booting" THEN FALSE ELSE changed
  /\ UNCHANGED <<registry, row, old, new, arg, file, cache, webhook, bounds,
                 contended>>

(* The debounced event, which may just win against the stop of the watcher. *)
Resync ==
  /\ up \in {"serving", "stopping"} /\ changed
  /\ Goto(Yaml, "rest", "sync")
  /\ Begins(Yaml)
  /\ UNCHANGED <<up, registry, row, old, new, arg, yamlVars, webhook, bounds,
                 missed>>

YamlStep ==
  LoadFromStore \/ SyncRead \/ SyncCache \/ SyncPrune \/ Synced \/ Resync

(* Somebody edits the file. *)
EditFile(f) ==
  /\ edits < MaxEdits /\ f # file
  /\ file' = f /\ changed' = TRUE /\ edits' = edits + 1
  /\ UNCHANGED <<up, registry, row, callers, cache, want, webhook, exits,
                 history>>

-----------------------------------------------------------------------------
(* The end of the process and its restart. *)

(* A signal: the server takes no more requests. *)
Terminate ==
  /\ up = "serving" /\ exits < MaxExits
  /\ up' = "stopping"
  /\ Goto(Term, "idle", "list")
  /\ Begins(Term)
  /\ UNCHANGED <<registry, row, old, new, arg, yamlVars, webhook, bounds,
                 missed>>

(* The server gave its handlers three seconds; the list is read.  A reaper  *)
(* or watcher that is at work is not waited for.                            *)
StopAll ==
  /\ Goto(Term, "list", "stop")
  /\ old' = [old EXCEPT ![Term] = mapped]
  /\ contended' = (contended \/ InFlight # {})
  /\ UNCHANGED <<up, registry, row, new, arg, yamlVars, webhook, bounds,
                 missed>>

(* Memory is lost, whichever way the process ends. *)
EndProcess(pcTerm) ==
  /\ up' = "down" /\ exits' = exits + 1
  /\ mapped' = None
  /\ session' = [s \in Sessions |->
                   IF session[s] = "unused" THEN "unused" ELSE "gone"]
  /\ client' = [s \in Sessions |->
                  IF session[s] = "unused" THEN "none" ELSE "closed"]
  /\ pc' = [c \in Callers |->
              CASE c = Yaml -> "down"
                [] c = Reaper -> "idle"
                [] c = Term -> pcTerm
                [] OTHER -> IF pc[c] = "idle" THEN "idle" ELSE "done"]
  /\ old' = [c \in Callers |-> None]
  /\ new' = [c \in Callers |-> None]
  /\ arg' = [c \in Callers |-> None]
  /\ cache' = None /\ want' = None
  /\ webhook' = [w \in Webhooks |->
                   IF webhook[w] = "idle" THEN "idle" ELSE "done"]
  /\ UNCHANGED <<conf, row, file, changed, edits, history>>

Exit == pc[Term] = "exit" /\ EndProcess("done")
Crash == up # "down" /\ exits < MaxExits /\ EndProcess("idle")

Restart ==
  /\ up = "down" /\ up' = "booting"
  /\ pc' = [pc EXCEPT ![Yaml] = "load", ![Term] = "idle"]
  /\ contended' = FALSE /\ missed' = FALSE
  /\ UNCHANGED <<registry, row, old, new, arg, yamlVars, webhook, bounds>>

Next ==
  \/ \E c \in Callers : CallerStep(c)
  \/ \E s \in Sessions : Connect(s) \/ Panic(s)
  \/ \E a \in Admins : AdminDelete(a) \/ \E r \in Records : AdminPost(a, r)
  \/ \E w \in Webhooks : WebhookGet(w) \/ WebhookTouch(w)
  \/ \E f \in Records \cup {None, Broken} : EditFile(f)
  \/ ReaperTick \/ YamlStep
  \/ Terminate \/ StopAll \/ Exit \/ Crash \/ Restart

Spec == Init /\ [][Next]_vars

(* Goroutines are scheduled, the reaper's ticker and the debounce timer    *)
(* fire; requests, edits, panics and ends of the process need not happen.  *)
Fairness ==
  /\ \A c \in Callers : WF_vars(CallerStep(c))
  /\ \A s \in Sessions : WF_vars(Connect(s))
  /\ \A w \in Webhooks : WF_vars(WebhookTouch(w))
  /\ WF_vars(ReaperTick) /\ WF_vars(YamlStep)
  /\ WF_vars(StopAll) /\ WF_vars(Exit) /\ WF_vars(Restart)

FairSpec == Spec /\ Fairness

-----------------------------------------------------------------------------
(* Properties.                                                             *)

Quiet == up = "serving" /\ Busy = {}
AdminActed == \E a \in Admins : pc[a] # "idle"

(* Every variable keeps its type; a caller in Register has a record, and a *)
(* session from the exchange on; nobody is at work in a dead process.      *)
Registering == {"stop", "offline", "start", "online", "upsert"}
Stages ==
  AtRest \cup Registering \cup {"load", "sync", "cache", "prune", "synced",
    "swap", "unmap", "mark", "list", "exit"}

RegistryTypes ==
  /\ up \in {"booting", "serving", "stopping", "down"}
  /\ mapped \in Sessions \cup {None}
  /\ session \in [Sessions -> {"unused", "new", "started", "stopped", "gone"}]
  /\ conf \in [Sessions -> Records \cup {None}]
  /\ client \in [Sessions -> {"none", "open", "closed"}]
  /\ row \in Rows

CallerTypes ==
  /\ pc \in [Callers -> Stages]
  /\ old \in [Callers -> Sessions \cup {None}]
  /\ new \in [Callers -> Sessions \cup {None}]
  /\ arg \in [Callers -> Args \cup {None}]
  /\ pc[Term] \in {"idle", "list", "stop", "offline", "exit", "done"}
  /\ \A c \in Callers :
       /\ pc[c] = "swap" \/ new[c] # None => arg[c] \in Args
       /\ pc[c] \in {"start", "online", "upsert"} => new[c] # None
       /\ c = Term => new[c] = None
       /\ new[c] # None => pc[c] \in Registering
       /\ up = "down" => pc[c] \in AtRest

InputTypes ==
  /\ file \in Records \cup {None, Broken} /\ changed \in BOOLEAN
  /\ cache \in Records \cup {None} /\ want \in Records \cup {None}
  /\ webhook \in [Webhooks -> Sessions \cup {"idle", "done"}]
  /\ edits \in Nat /\ exits \in Nat
  /\ contended \in BOOLEAN /\ missed \in BOOLEAN

TypeOK == RegistryTypes /\ CallerTypes /\ InputTypes

(* The session in the map runs unless the caller that put it there has not *)
(* come to its Start yet: no interleaving of Register and Deregister stops *)
(* the session that stays, or leaves one that nobody will start.           *)
MappedStarted ==
  up \in {"booting", "serving"} /\ mapped # None =>
    \/ session[mapped] = "started"
    \/ \E c \in Callers :
         new[c] = mapped /\ pc[c] \in {"stop", "offline", "start"}

(* As long as callers do not overlap there are never two started sessions. *)
NeverTwoSessions ==
  ~contended =>
    \A s, t \in Sessions :
      session[s] = "started" /\ session[t] = "started" => s = t

(* When nobody is at work, and callers and webhooks in flight did not      *)
(* overlap, the row is active exactly if there is a session, and after an  *)
(* orderly shutdown it does not say online.                                *)
RowAgrees ==
  ~contended =>
    /\ Quiet => (ListActiveRobots <=> mapped # None)
    /\ pc[Term] = "done" => row.status # "online"

(* A file that everybody left in peace is what runs: a robot in it has a   *)
(* session with its record, one that came from it and is gone has none.    *)
YamlApplied ==
  Quiet /\ ~contended /\ ~missed /\ ~changed /\ ~AdminActed =>
    /\ file \in Records => mapped # None /\ conf[mapped] = file
    /\ file = None /\ row.source = "yaml" => mapped = None

-----------------------------------------------------------------------------
(* Statements of comments and of the design document that the code breaks. *)

(* manager.go:39: there are never two live MQTT clients. *)
OneLiveClient ==
  \A s, t \in Sessions : client[s] = "open" /\ client[t] = "open" => s = t

(* Design document, section 4: the reaper sees that a session errored and  *)
(* registers the robot again.                                              *)
ErroredReplaced ==
  \A s \in Sessions :
    row.status = "errored" /\ mapped = s /\ session[s] = "started"
      ~> mapped # s
=============================================================================
