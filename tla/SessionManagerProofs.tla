------------------------ MODULE SessionManagerProofs ------------------------
(***************************************************************************)
(* Theorems about SessionManager for every number of sessions, requests,   *)
(* edits and ends of the process.                                          *)
(***************************************************************************)
EXTENDS SessionManager, TLAPS

USE ManagerAssumption

(* The steps of [Next]_vars keep the types. *)
LEMMA NextTypes == TypeOK /\ [Next]_vars => TypeOK'
<1> SUFFICES ASSUME TypeOK, [Next]_vars PROVE TypeOK'
  OBVIOUS
<1> USE DEF TypeOK, RegistryTypes, CallerTypes, InputTypes, Callers, Stages,
            AtRest, Registering, Args, Rows, NoRow, Goto, registry, callers,
            yamlVars, bounds, history
<1>1. CASE UNCHANGED vars
  BY <1>1 DEF vars
<1>2. ASSUME NEW c \in Callers, SwapSession(c) PROVE TypeOK'
  <2>1. PICK s \in Sessions :
          /\ session' = [session EXCEPT ![s] = "new"]
          /\ conf' = [conf EXCEPT ![s] = arg[c].rec]
          /\ mapped' = s
          /\ old' = [old EXCEPT ![c] = mapped]
          /\ new' = [new EXCEPT ![c] = s]
    BY <1>2 DEF SwapSession
  <2>2. arg[c] \in Args /\ arg[c].rec \in Records /\ c # Term
    BY <1>2 DEF SwapSession
  <2>3. RegistryTypes'
    <3>1. up' = up /\ client' = client /\ row' = row
      BY <1>2 DEF SwapSession
    <3> QED BY <2>1, <2>2, <3>1
  <2>4. CallerTypes'
    BY <1>2, <2>1, <2>2 DEF SwapSession
  <2>5. InputTypes'
    BY <1>2 DEF SwapSession
  <2> QED BY <2>3, <2>4, <2>5
<1>3. ASSUME NEW c \in Callers, StopSession(c) PROVE TypeOK'
  BY <1>3 DEF Stops, Replaced, StopSession
<1>4. ASSUME NEW c \in Callers, StopNothing(c) PROVE TypeOK'
  BY <1>4 DEF Stops, Replaced, AfterStop, StopNothing
<1>5. ASSUME NEW c \in Callers, StoreOffline(c) PROVE TypeOK'
  BY <1>5 DEF AfterStop, SetRobotStatus, StoreOffline
<1>6. ASSUME NEW c \in Callers, StartSession(c) PROVE TypeOK'
  BY <1>6 DEF StartSession
<1>7. ASSUME NEW c \in Callers, StoreOnline(c) PROVE TypeOK'
  BY <1>7 DEF UpsertRobot, StoreOnline
<1>8. ASSUME NEW c \in Callers, StoreRecord(c) PROVE TypeOK'
  BY <1>8 DEF Returns, Return, UpsertRobot, storeNZ, StoreRecord
<1>9. ASSUME NEW c \in Callers, UnmapSession(c) PROVE TypeOK'
  BY <1>9 DEF UnmapSession
<1>10. ASSUME NEW c \in Callers, StoreDeleted(c) PROVE TypeOK'
  BY <1>10 DEF Returns, Return, SetRobotStatus, StoreDeleted
<1>11. ASSUME NEW s \in Sessions, Connect(s) PROVE TypeOK'
  BY <1>11 DEF Connect
<1>12. ASSUME NEW s \in Sessions, Panic(s) PROVE TypeOK'
  BY <1>12 DEF SetRobotStatus, Panic
<1>13. ASSUME NEW a \in Admins, AdminDelete(a) PROVE TypeOK'
  BY <1>13 DEF Begins, AdminDelete
<1>14. ASSUME NEW a \in Admins, NEW r \in Records, AdminPost(a, r) PROVE TypeOK'
  BY <1>14 DEF CallRegister, Arg, Begins, AdminPost
<1>15. ASSUME NEW w \in Webhooks, WebhookGet(w) PROVE TypeOK'
  BY <1>15 DEF WebhookGet
<1>16. ASSUME NEW w \in Webhooks, WebhookTouch(w) PROVE TypeOK'
  BY <1>16 DEF SetRobotStatus, InFlight, WebhookTouch
<1>17. ASSUME NEW f \in Records \cup {None, Broken}, EditFile(f) PROVE TypeOK'
  BY <1>17 DEF EditFile
<1>18. ASSUME ReaperTick PROVE TypeOK'
  BY <1>18 DEF CallRegister, Arg, Begins, ReaperTick
<1>19. ASSUME LoadFromStore PROVE TypeOK'
  BY <1>19 DEF CallRegister, Arg, ListActiveRobots, LoadFromStore
<1>20. ASSUME SyncRead PROVE TypeOK'
  <2>1. RegistryTypes'
    BY <1>20 DEF SyncRead
  <2>2. CallerTypes'
    <3>1. CASE Unapplied
      <4>1. Arg(file, "yaml", "unset") \in Args
        BY <3>1 DEF Unapplied, Arg
      <4> QED BY <1>20, <3>1, <4>1 DEF SyncRead, CallRegister
    <3>2. CASE ~Unapplied
      BY <1>20, <3>2 DEF SyncRead
    <3> QED BY <3>1, <3>2
  <2>3. InputTypes'
    BY <1>20 DEF SyncRead
  <2> QED BY <2>1, <2>2, <2>3
<1>21. ASSUME SyncCache PROVE TypeOK'
  BY <1>21 DEF SyncCache
<1>22. ASSUME SyncPrune PROVE TypeOK'
  BY <1>22 DEF ListActiveRobots, SyncPrune
<1>23. ASSUME Synced PROVE TypeOK'
  <2>1. RegistryTypes'
    BY <1>23 DEF Synced
  <2>2. CallerTypes'
    <3>1. pc' = [pc EXCEPT ![Yaml] = "rest"] /\ up # "down" /\ up' # "down"
      BY <1>23 DEF Synced
    <3> QED BY <1>23, <3>1 DEF Synced
  <2>3. InputTypes'
    BY <1>23 DEF Synced
  <2> QED BY <2>1, <2>2, <2>3
<1>24. ASSUME Resync PROVE TypeOK'
  BY <1>24 DEF Begins, Resync
<1>25. ASSUME Terminate PROVE TypeOK'
  <2>1. RegistryTypes'
    BY <1>25 DEF Terminate
  <2>2. CallerTypes'
    BY <1>25 DEF Terminate
  <2>3. InputTypes'
    BY <1>25 DEF Begins, Terminate
  <2> QED BY <2>1, <2>2, <2>3
<1>26. ASSUME StopAll PROVE TypeOK'
  BY <1>26 DEF StopAll
<1>27. ASSUME Exit PROVE TypeOK'
  BY <1>27 DEF EndProcess, Exit
<1>28. ASSUME Crash PROVE TypeOK'
  BY <1>28 DEF EndProcess, Crash
<1>29. ASSUME Restart PROVE TypeOK'
  <2>1. RegistryTypes'
    BY <1>29 DEF Restart
  <2>2. CallerTypes'
    <3>1. pc' \in [Callers -> Stages] /\ pc'[Term] = "idle"
      BY <1>29 DEF Restart
    <3>2. \A c \in Callers : pc'[c] = IF c = Yaml THEN "load"
                                     ELSE IF c = Term THEN "idle" ELSE pc[c]
      BY <1>29 DEF Restart
    <3> QED BY <1>29, <3>1, <3>2 DEF Restart
  <2>3. InputTypes'
    BY <1>29 DEF Restart
  <2> QED BY <2>1, <2>2, <2>3
<1> QED
  BY <1>1, <1>2, <1>3, <1>4, <1>5, <1>6, <1>7, <1>8, <1>9, <1>10, <1>11,
     <1>12, <1>13, <1>14, <1>15, <1>16, <1>17, <1>18, <1>19, <1>20, <1>21,
     <1>22, <1>23, <1>24, <1>25, <1>26, <1>27, <1>28, <1>29 DEF Next,
     CallerStep, YamlStep

(* Every variable keeps its type; a caller in Register has its record and, *)
(* from the exchange in the map on, its session (manager.go:29-50).        *)
THEOREM ManagerTypes == Spec => []TypeOK
<1>1. Init => RegistryTypes
  BY DEF Init, RegistryTypes, Rows
<1>3. Init => InputTypes
  <2> SUFFICES ASSUME Init PROVE InputTypes
    OBVIOUS
  <2>1. webhook \in [Webhooks -> Sessions \cup {"idle", "done"}]
    BY DEF Init
  <2> QED BY <2>1 DEF Init, InputTypes
<1>2. Init => CallerTypes
  BY DEF Init, CallerTypes, Callers, Stages, AtRest, Registering
<1> QED BY <1>1, <1>2, <1>3, NextTypes, PTL DEF Spec, TypeOK

-----------------------------------------------------------------------------
(* What makes MappedStarted inductive.  A session leaves the map before the *)
(* caller that took it out stops it, so nobody has the session in the map   *)
(* left to stop but main, which lists the map without emptying it and only  *)
(* does so once the server takes no more requests.                          *)
OldSessions ==
  \A c \in Callers :
    old[c] # None =>
      session[old[c]] # "unused" /\ (c # Term => old[c] # mapped)

MapInv ==
  /\ mapped # None => session[mapped] # "unused"
  /\ up = "down" => mapped = None
  /\ pc[Term] \notin {"idle", "done"} => up = "stopping"
  /\ OldSessions
  /\ MappedStarted

(* The steps of [Next]_vars keep MapInv. *)
LEMMA NextMapInv == TypeOK /\ MapInv /\ [Next]_vars => MapInv'
<1> SUFFICES ASSUME TypeOK, MapInv, [Next]_vars PROVE MapInv'
  OBVIOUS
<1> USE DEF TypeOK, RegistryTypes, CallerTypes, MapInv, OldSessions,
            MappedStarted, Callers, AtRest, Registering, Goto, registry,
            callers
<1>1. CASE UNCHANGED vars
  BY <1>1 DEF vars
<1>2. ASSUME NEW c \in Callers, SwapSession(c) PROVE MapInv'
  BY <1>2 DEF SwapSession
<1>3. ASSUME NEW c \in Callers, StopSession(c) PROVE MapInv'
  BY <1>3 DEF StopSession, Stops, Replaced
<1>4. ASSUME NEW c \in Callers, StopNothing(c) PROVE MapInv'
  BY <1>4 DEF StopNothing, Stops, Replaced, AfterStop
<1>5. ASSUME NEW c \in Callers, StoreOffline(c) PROVE MapInv'
  BY <1>5 DEF StoreOffline, AfterStop
<1>6. ASSUME NEW c \in Callers, StartSession(c) PROVE MapInv'
  BY <1>6 DEF StartSession
<1>7. ASSUME NEW c \in Callers, StoreOnline(c) PROVE MapInv'
  BY <1>7 DEF StoreOnline
<1>8. ASSUME NEW c \in Callers, StoreRecord(c) PROVE MapInv'
  BY <1>8 DEF StoreRecord, Returns, Return
<1>9. ASSUME NEW c \in Callers, UnmapSession(c) PROVE MapInv'
  BY <1>9 DEF UnmapSession
<1>10. ASSUME NEW c \in Callers, StoreDeleted(c) PROVE MapInv'
  BY <1>10 DEF StoreDeleted, Returns, Return
<1>11. ASSUME NEW s \in Sessions, Connect(s) PROVE MapInv'
  BY <1>11 DEF Connect
<1>12. ASSUME NEW s \in Sessions, Panic(s) PROVE MapInv'
  BY <1>12 DEF Panic
<1>13. ASSUME NEW a \in Admins, AdminDelete(a) PROVE MapInv'
  BY <1>13 DEF AdminDelete
<1>14. ASSUME NEW a \in Admins, NEW r \in Records, AdminPost(a, r) PROVE MapInv'
  BY <1>14 DEF AdminPost, CallRegister
<1>15. ASSUME NEW w \in Webhooks, WebhookGet(w) PROVE MapInv'
  BY <1>15 DEF WebhookGet
<1>16. ASSUME NEW w \in Webhooks, WebhookTouch(w) PROVE MapInv'
  BY <1>16 DEF WebhookTouch
<1>17. ASSUME NEW f \in Records \cup {None, Broken}, EditFile(f) PROVE MapInv'
  BY <1>17 DEF EditFile
<1>18. ASSUME ReaperTick PROVE MapInv'
  BY <1>18 DEF ReaperTick, CallRegister
<1>19. ASSUME LoadFromStore PROVE MapInv'
  BY <1>19 DEF LoadFromStore, CallRegister
<1>20. ASSUME SyncRead PROVE MapInv'
  BY <1>20 DEF SyncRead, CallRegister
<1>21. ASSUME SyncCache PROVE MapInv'
  BY <1>21 DEF SyncCache
<1>22. ASSUME SyncPrune PROVE MapInv'
  BY <1>22 DEF SyncPrune
<1>23. ASSUME Synced PROVE MapInv'
  BY <1>23 DEF Synced
<1>24. ASSUME Resync PROVE MapInv'
  BY <1>24 DEF Resync
<1>25. ASSUME Terminate PROVE MapInv'
  BY <1>25 DEF Terminate
<1>26. ASSUME StopAll PROVE MapInv'
  BY <1>26 DEF StopAll
<1>27. ASSUME Exit PROVE MapInv'
  BY <1>27 DEF Exit, EndProcess
<1>28. ASSUME Crash PROVE MapInv'
  BY <1>28 DEF Crash, EndProcess
<1>29. ASSUME Restart PROVE MapInv'
  BY <1>29 DEF Restart
<1> QED
  BY <1>1, <1>2, <1>3, <1>4, <1>5, <1>6, <1>7, <1>8, <1>9, <1>10, <1>11,
     <1>12, <1>13, <1>14, <1>15, <1>16, <1>17, <1>18, <1>19, <1>20, <1>21,
     <1>22, <1>23, <1>24, <1>25, <1>26, <1>27, <1>28, <1>29 DEF Next,
     CallerStep, YamlStep

(* The session in the map runs, or the caller that put it there is on its   *)
(* way to Start, however callers of Register and Deregister, main and a     *)
(* crash interleave (manager.go:29-64).                                     *)
THEOREM MappedSessionRuns == Spec => []MappedStarted
<1>1. Init => MapInv
  BY DEF Init, MapInv, OldSessions, MappedStarted, Callers
<1>2. MapInv => MappedStarted
  BY DEF MapInv
<1> QED BY <1>1, <1>2, ManagerTypes, NextMapInv, PTL DEF Spec

-----------------------------------------------------------------------------
(* One caller at a time.                                                   *)

(* A process that is down has no started session and nothing in flight, so  *)
(* the next life begins like the first.                                    *)
DownInv ==
  up = "down" =>
    /\ \A s \in Sessions : session[s] # "started"
    /\ InFlight = {} /\ cache = None /\ want = None

LEMMA NextDownInv == TypeOK /\ DownInv /\ [Next]_vars => DownInv'
<1> SUFFICES ASSUME TypeOK, DownInv, [Next]_vars PROVE DownInv'
  OBVIOUS
<1> USE DEF TypeOK, RegistryTypes, CallerTypes, InputTypes, DownInv, InFlight,
            AtRest, Goto, registry, yamlVars, Callers
<1>1. CASE UNCHANGED vars
  BY <1>1 DEF vars
<1>2. ASSUME NEW c \in Callers, SwapSession(c)
      PROVE  DownInv'
  BY <1>2 DEF SwapSession
<1>3. ASSUME NEW c \in Callers, StopSession(c)
      PROVE  DownInv'
  BY <1>3 DEF StopSession, Stops, Replaced
<1>4. ASSUME NEW c \in Callers, StopNothing(c)
      PROVE  DownInv'
  BY <1>4 DEF StopNothing, Stops, Replaced, AfterStop
<1>5. ASSUME NEW c \in Callers, StoreOffline(c)
      PROVE  DownInv'
  BY <1>5 DEF StoreOffline, AfterStop
<1>6. ASSUME NEW c \in Callers, StartSession(c)
      PROVE  DownInv'
  BY <1>6 DEF StartSession
<1>7. ASSUME NEW c \in Callers, StoreOnline(c)
      PROVE  DownInv'
  BY <1>7 DEF StoreOnline
<1>8. ASSUME NEW c \in Callers, StoreRecord(c)
      PROVE  DownInv'
  BY <1>8 DEF StoreRecord, Returns, Return
<1>9. ASSUME NEW c \in Callers, UnmapSession(c)
      PROVE  DownInv'
  BY <1>9 DEF UnmapSession
<1>10. ASSUME NEW c \in Callers, StoreDeleted(c)
      PROVE  DownInv'
  BY <1>10 DEF StoreDeleted, Returns, Return
<1>11. ASSUME NEW s \in Sessions, Connect(s)
      PROVE  DownInv'
  BY <1>11 DEF Connect
<1>12. ASSUME NEW s \in Sessions, Panic(s)
      PROVE  DownInv'
  BY <1>12 DEF Panic
<1>13. ASSUME NEW a \in Admins, AdminDelete(a)
      PROVE  DownInv'
  BY <1>13 DEF AdminDelete
<1>14. ASSUME NEW a \in Admins, NEW r \in Records, AdminPost(a, r)
      PROVE  DownInv'
  BY <1>14 DEF AdminPost, CallRegister
<1>15. ASSUME NEW w \in Webhooks, WebhookGet(w)
      PROVE  DownInv'
  BY <1>15 DEF WebhookGet
<1>16. ASSUME NEW w \in Webhooks, WebhookTouch(w)
      PROVE  DownInv'
  BY <1>16 DEF WebhookTouch
<1>17. ASSUME NEW f \in Records \cup {None, Broken}, EditFile(f)
      PROVE  DownInv'
  BY <1>17 DEF EditFile
<1>18. ASSUME ReaperTick
      PROVE  DownInv'
  BY <1>18 DEF ReaperTick, CallRegister
<1>19. ASSUME LoadFromStore
      PROVE  DownInv'
  BY <1>19 DEF LoadFromStore, CallRegister
<1>20. ASSUME SyncRead
      PROVE  DownInv'
  BY <1>20 DEF SyncRead, CallRegister
<1>21. ASSUME SyncCache
      PROVE  DownInv'
  BY <1>21 DEF SyncCache
<1>22. ASSUME SyncPrune
      PROVE  DownInv'
  BY <1>22 DEF SyncPrune
<1>23. ASSUME Synced
      PROVE  DownInv'
  BY <1>23 DEF Synced
<1>24. ASSUME Resync
      PROVE  DownInv'
  BY <1>24 DEF Resync
<1>25. ASSUME Terminate
      PROVE  DownInv'
  BY <1>25 DEF Terminate
<1>26. ASSUME StopAll
      PROVE  DownInv'
  BY <1>26 DEF StopAll
<1>27. ASSUME Exit
      PROVE  DownInv'
  BY <1>27 DEF Exit, EndProcess
<1>28. ASSUME Crash
      PROVE  DownInv'
  BY <1>28 DEF Crash, EndProcess
<1>29. ASSUME Restart
      PROVE  DownInv'
  BY <1>29 DEF Restart
<1> QED
  BY <1>1, <1>2, <1>3, <1>4, <1>5, <1>6, <1>7, <1>8, <1>9, <1>10, <1>11,
     <1>12, <1>13, <1>14, <1>15, <1>16, <1>17, <1>18, <1>19, <1>20, <1>21,
     <1>22, <1>23, <1>24, <1>25, <1>26, <1>27, <1>28, <1>29 DEF Next,
     CallerStep, YamlStep

(* What is true of the callers as long as they do not overlap.  The one at  *)
(* work in Register has put a session into the map that it has not started  *)
(* before it stopped the one it took out; the one in Deregister has emptied *)
(* the map.  So a started session is the one in the map, or is the one that *)
(* the caller at work is about to stop.                                    *)
OneBusy == \A c, d \in Busy : c = d
NewMapped ==
  \A c \in Callers : new[c] # None =>
    /\ mapped = new[c] /\ conf[new[c]] = arg[c].rec
    /\ pc[c] \in {"stop", "offline", "start"} => session[new[c]] = "new"
    /\ pc[c] \in {"online", "upsert"} => session[new[c]] = "started"
Emptied ==
  /\ \A c \in Callers \ {Term} :
       pc[c] \in {"stop", "offline", "mark"} /\ new[c] = None => mapped = None
  /\ pc[Term] = "stop" => old[Term] = mapped
StartedHeld ==
  \A s \in Sessions : session[s] = "started" =>
    s = mapped \/ \E c \in Callers : pc[c] = "stop" /\ old[c] = s
SoloInv == OneBusy /\ NewMapped /\ Emptied /\ StartedHeld

LEMMA BeginsAlone ==
  ASSUME NEW c, Begins(c), ~contended'
  PROVE  ~contended /\ \A d \in Callers : pc[d] \in AtRest
<1>1. ~contended /\ Busy = {}
  BY Zenon DEF Begins
<1> QED BY <1>1 DEF Busy

(* A caller at work is alone. *)
LEMMA AloneAtWork ==
  ASSUME OneBusy, NEW c \in Callers, pc[c] \notin AtRest
  PROVE  \A d \in Callers \ {c} : pc[d] \in AtRest
BY DEF OneBusy, Busy

LEMMA NextOneBusy ==
  TypeOK /\ (~contended => OneBusy) /\ [Next]_vars => (~contended' => OneBusy')
<1> SUFFICES ASSUME TypeOK, ~contended => OneBusy, [Next]_vars, ~contended'
             PROVE  OneBusy'
  OBVIOUS
<1>0. pc \in [Callers -> Stages]
  BY DEF TypeOK, CallerTypes
<1>a. up = "down" => \A c \in Callers : pc[c] \in AtRest
  BY DEF TypeOK, CallerTypes
<1>b. /\ Yaml \in Callers /\ Reaper \in Callers /\ Term \in Callers
      /\ Admins \subseteq Callers
  BY DEF Callers
<1>c. ASSUME NEW c \in Callers, NEW to, pc' = [pc EXCEPT ![c] = to],
             ~contended, pc[c] \notin AtRest
      PROVE  OneBusy'
  <2>1. \A d \in Callers \ {c} : pc'[d] \in AtRest
    BY <1>0, <1>c, AloneAtWork
  <2> QED BY <2>1 DEF OneBusy, Busy
<1>d. ASSUME NEW c \in Callers, NEW to, pc' = [pc EXCEPT ![c] = to], Begins(c)
      PROVE  OneBusy'
  <2>1. \A d \in Callers \ {c} : pc'[d] \in AtRest
    BY <1>0, <1>d, BeginsAlone
  <2> QED BY <2>1 DEF OneBusy, Busy
<1>e. ASSUME ~contended, pc' = pc PROVE OneBusy'
  BY <1>e DEF OneBusy, Busy
<1> USE DEF Goto, history, callers
<1>1. CASE UNCHANGED vars
  BY <1>1, <1>e DEF vars
<1>2. ASSUME NEW c \in Callers, SwapSession(c)
      PROVE  OneBusy'
  BY <1>c, <1>2 DEF SwapSession, AtRest
<1>3. ASSUME NEW c \in Callers, StopSession(c)
      PROVE  OneBusy'
  BY <1>c, <1>3 DEF StopSession, Stops, Replaced, AtRest
<1>4. ASSUME NEW c \in Callers, StopNothing(c)
      PROVE  OneBusy'
  BY <1>c, <1>4 DEF StopNothing, Stops, Replaced, AfterStop, AtRest
<1>5. ASSUME NEW c \in Callers, StoreOffline(c)
      PROVE  OneBusy'
  BY <1>c, <1>5 DEF StoreOffline, AfterStop, AtRest
<1>6. ASSUME NEW c \in Callers, StartSession(c)
      PROVE  OneBusy'
  BY <1>c, <1>6 DEF StartSession, AtRest
<1>7. ASSUME NEW c \in Callers, StoreOnline(c)
      PROVE  OneBusy'
  BY <1>c, <1>7 DEF StoreOnline, AtRest
<1>8. ASSUME NEW c \in Callers, StoreRecord(c)
      PROVE  OneBusy'
  BY <1>c, <1>8 DEF StoreRecord, Returns, Return, AtRest
<1>9. ASSUME NEW c \in Callers, UnmapSession(c)
      PROVE  OneBusy'
  <2>1. ~contended
    BY <1>9 DEF UnmapSession
  <2> QED BY <1>c, <2>1, <1>9 DEF UnmapSession, AtRest
<1>10. ASSUME NEW c \in Callers, StoreDeleted(c)
      PROVE  OneBusy'
  BY <1>c, <1>10 DEF StoreDeleted, Returns, Return, AtRest
<1>11. ASSUME NEW s \in Sessions, Connect(s)
      PROVE  OneBusy'
  BY <1>e, <1>11 DEF Connect
<1>12. ASSUME NEW s \in Sessions, Panic(s)
      PROVE  OneBusy'
  BY <1>e, <1>12 DEF Panic
<1>13. ASSUME NEW a \in Admins, AdminDelete(a)
      PROVE  OneBusy'
  BY <1>b, <1>d, <1>13 DEF AdminDelete
<1>14. ASSUME NEW a \in Admins, NEW r \in Records, AdminPost(a, r)
      PROVE  OneBusy'
  BY <1>b, <1>d, <1>14 DEF AdminPost, CallRegister
<1>15. ASSUME NEW w \in Webhooks, WebhookGet(w)
      PROVE  OneBusy'
  BY <1>e, <1>15 DEF WebhookGet
<1>16. ASSUME NEW w \in Webhooks, WebhookTouch(w)
      PROVE  OneBusy'
  BY <1>e, <1>16 DEF WebhookTouch
<1>17. ASSUME NEW f \in Records \cup {None, Broken}, EditFile(f)
      PROVE  OneBusy'
  BY <1>e, <1>17 DEF EditFile
<1>18. ASSUME ReaperTick
      PROVE  OneBusy'
  BY <1>b, <1>d, <1>18 DEF ReaperTick, CallRegister
<1>19. ASSUME LoadFromStore
      PROVE  OneBusy'
  BY <1>b, <1>c, <1>19 DEF LoadFromStore, CallRegister, AtRest
<1>20. ASSUME SyncRead
      PROVE  OneBusy'
  BY <1>b, <1>c, <1>20 DEF SyncRead, CallRegister, AtRest
<1>21. ASSUME SyncCache
      PROVE  OneBusy'
  BY <1>b, <1>c, <1>21 DEF SyncCache, AtRest
<1>22. ASSUME SyncPrune
      PROVE  OneBusy'
  BY <1>b, <1>c, <1>22 DEF SyncPrune, AtRest
<1>23. ASSUME Synced
      PROVE  OneBusy'
  BY <1>b, <1>c, <1>23 DEF Synced, AtRest
<1>24. ASSUME Resync
      PROVE  OneBusy'
  BY <1>b, <1>d, <1>24 DEF Resync
<1>25. ASSUME Terminate
      PROVE  OneBusy'
  BY <1>b, <1>d, <1>25 DEF Terminate
<1>26. ASSUME StopAll
      PROVE  OneBusy'
  <2>1. ~contended
    BY <1>26 DEF StopAll
  <2> QED BY <1>b, <1>c, <2>1, <1>26 DEF StopAll, AtRest
<1>27. ASSUME Exit
      PROVE  OneBusy'
  BY <1>0, <1>27 DEF Exit, EndProcess, OneBusy, Busy, AtRest
<1>28. ASSUME Crash
      PROVE  OneBusy'
  BY <1>0, <1>28 DEF Crash, EndProcess, OneBusy, Busy, AtRest
<1>29. ASSUME Restart
      PROVE  OneBusy'
  BY <1>0, <1>a, <1>29 DEF Restart, OneBusy, Busy, AtRest
<1> QED
  BY <1>1, <1>2, <1>3, <1>4, <1>5, <1>6, <1>7, <1>8, <1>9, <1>10, <1>11,
     <1>12, <1>13, <1>14, <1>15, <1>16, <1>17, <1>18, <1>19, <1>20, <1>21,
     <1>22, <1>23, <1>24, <1>25, <1>26, <1>27, <1>28, <1>29 DEF Next,
     CallerStep, YamlStep

(* Callers overlap until the process ends. *)
LEMMA ContendedStays ==
  ASSUME TypeOK, [Next]_vars, ~contended'
  PROVE  ~contended \/ Restart
<1> USE DEF Begins, history, TypeOK, InputTypes
<1>1. CASE UNCHANGED vars
  BY <1>1 DEF vars
<1>2. ASSUME NEW c \in Callers, SwapSession(c)
      PROVE  ~contended \/ Restart
  BY <1>2 DEF SwapSession
<1>3. ASSUME NEW c \in Callers, StopSession(c)
      PROVE  ~contended \/ Restart
  BY <1>3 DEF StopSession, Stops, Replaced
<1>4. ASSUME NEW c \in Callers, StopNothing(c)
      PROVE  ~contended \/ Restart
  BY <1>4 DEF StopNothing, Stops, Replaced, AfterStop
<1>5. ASSUME NEW c \in Callers, StoreOffline(c)
      PROVE  ~contended \/ Restart
  BY <1>5 DEF StoreOffline, AfterStop
<1>6. ASSUME NEW c \in Callers, StartSession(c)
      PROVE  ~contended \/ Restart
  BY <1>6 DEF StartSession
<1>7. ASSUME NEW c \in Callers, StoreOnline(c)
      PROVE  ~contended \/ Restart
  BY <1>7 DEF StoreOnline
<1>8. ASSUME NEW c \in Callers, StoreRecord(c)
      PROVE  ~contended \/ Restart
  BY <1>8 DEF StoreRecord, Returns, Return
<1>9. ASSUME NEW c \in Callers, UnmapSession(c)
      PROVE  ~contended \/ Restart
  BY <1>9 DEF UnmapSession
<1>10. ASSUME NEW c \in Callers, StoreDeleted(c)
      PROVE  ~contended \/ Restart
  BY <1>10 DEF StoreDeleted, Returns, Return
<1>11. ASSUME NEW s \in Sessions, Connect(s)
      PROVE  ~contended \/ Restart
  BY <1>11 DEF Connect
<1>12. ASSUME NEW s \in Sessions, Panic(s)
      PROVE  ~contended \/ Restart
  BY <1>12 DEF Panic
<1>13. ASSUME NEW a \in Admins, AdminDelete(a)
      PROVE  ~contended \/ Restart
  BY <1>13 DEF AdminDelete
<1>14. ASSUME NEW a \in Admins, NEW r \in Records, AdminPost(a, r)
      PROVE  ~contended \/ Restart
  BY <1>14 DEF AdminPost, CallRegister
<1>15. ASSUME NEW w \in Webhooks, WebhookGet(w)
      PROVE  ~contended \/ Restart
  BY <1>15 DEF WebhookGet
<1>16. ASSUME NEW w \in Webhooks, WebhookTouch(w)
      PROVE  ~contended \/ Restart
  BY <1>16 DEF WebhookTouch
<1>17. ASSUME NEW f \in Records \cup {None, Broken}, EditFile(f)
      PROVE  ~contended \/ Restart
  BY <1>17 DEF EditFile
<1>18. ASSUME ReaperTick
      PROVE  ~contended \/ Restart
  BY <1>18 DEF ReaperTick, CallRegister
<1>19. ASSUME LoadFromStore
      PROVE  ~contended \/ Restart
  BY <1>19 DEF LoadFromStore, CallRegister
<1>20. ASSUME SyncRead
      PROVE  ~contended \/ Restart
  BY <1>20 DEF SyncRead, CallRegister
<1>21. ASSUME SyncCache
      PROVE  ~contended \/ Restart
  BY <1>21 DEF SyncCache
<1>22. ASSUME SyncPrune
      PROVE  ~contended \/ Restart
  BY <1>22 DEF SyncPrune
<1>23. ASSUME Synced
      PROVE  ~contended \/ Restart
  BY <1>23 DEF Synced
<1>24. ASSUME Resync
      PROVE  ~contended \/ Restart
  BY <1>24 DEF Resync
<1>25. ASSUME Terminate
      PROVE  ~contended \/ Restart
  BY <1>25 DEF Terminate
<1>26. ASSUME StopAll
      PROVE  ~contended \/ Restart
  BY <1>26 DEF StopAll
<1>27. ASSUME Exit
      PROVE  ~contended \/ Restart
  BY <1>27 DEF Exit, EndProcess
<1>28. ASSUME Crash
      PROVE  ~contended \/ Restart
  BY <1>28 DEF Crash, EndProcess
<1>29. ASSUME Restart
      PROVE  ~contended \/ Restart
  BY <1>29 DEF Restart
<1> QED
  BY <1>1, <1>2, <1>3, <1>4, <1>5, <1>6, <1>7, <1>8, <1>9, <1>10, <1>11,
     <1>12, <1>13, <1>14, <1>15, <1>16, <1>17, <1>18, <1>19, <1>20, <1>21,
     <1>22, <1>23, <1>24, <1>25, <1>26, <1>27, <1>28, <1>29 DEF Next,
     CallerStep, YamlStep

LEMMA RestartSolo ==
  ASSUME TypeOK, MapInv, DownInv, Restart
  PROVE  SoloInv'
<1>1. OneBusy'
  <2>1. \A c \in Callers : pc[c] \in AtRest
    BY DEF Restart, TypeOK, CallerTypes
  <2> QED BY <2>1 DEF Restart, OneBusy, Busy, TypeOK, CallerTypes, AtRest
<1>2. \A c \in Callers : pc'[c] \notin Registering \cup {"mark"} /\ new'[c] = None
  BY DEF Restart, callers, TypeOK, CallerTypes, AtRest, Registering
<1>3. NewMapped' /\ Emptied'
  BY <1>2 DEF NewMapped, Emptied, Registering, Callers
<1>4. StartedHeld'
  BY DEF DownInv, Restart, registry, StartedHeld
<1> QED BY <1>1, <1>3, <1>4 DEF SoloInv

LEMMA NextNewMapped ==
  ASSUME TypeOK, MapInv, SoloInv, [Next]_vars
  PROVE  NewMapped'
<1> USE DEF TypeOK, RegistryTypes, CallerTypes, Goto, registry, callers,
            SoloInv, NewMapped, Registering, AtRest
<1>b. /\ Yaml \in Callers /\ Reaper \in Callers /\ Term \in Callers
      /\ Admins \subseteq Callers
  BY DEF Callers
<1>c. ASSUME NEW c \in Callers, pc[c] \notin AtRest
      PROVE  \A d \in Callers \ {c} : new[d] = None
  BY <1>c, AloneAtWork
<1>1. CASE UNCHANGED vars
  BY <1>1, <1>b DEF vars
<1>2. ASSUME NEW c \in Callers, SwapSession(c)
      PROVE  NewMapped'
  BY <1>c, <1>2 DEF SwapSession
<1>3. ASSUME NEW c \in Callers, StopSession(c)
      PROVE  NewMapped'
  BY <1>c, <1>3 DEF StopSession, Stops, Replaced
<1>4. ASSUME NEW c \in Callers, StopNothing(c)
      PROVE  NewMapped'
  BY <1>c, <1>4 DEF StopNothing, Stops, Replaced, AfterStop
<1>5. ASSUME NEW c \in Callers, StoreOffline(c)
      PROVE  NewMapped'
  BY <1>c, <1>5 DEF StoreOffline, AfterStop
<1>6. ASSUME NEW c \in Callers, StartSession(c)
      PROVE  NewMapped'
  BY <1>c, <1>6 DEF StartSession
<1>7. ASSUME NEW c \in Callers, StoreOnline(c)
      PROVE  NewMapped'
  BY <1>c, <1>7 DEF StoreOnline
<1>8. ASSUME NEW c \in Callers, StoreRecord(c)
      PROVE  NewMapped'
  BY <1>c, <1>8 DEF StoreRecord, Returns, Return
<1>9. ASSUME NEW c \in Callers, UnmapSession(c)
      PROVE  NewMapped'
  BY <1>c, <1>9 DEF UnmapSession
<1>10. ASSUME NEW c \in Callers, StoreDeleted(c)
      PROVE  NewMapped'
  BY <1>c, <1>10 DEF StoreDeleted, Returns, Return
<1>11. ASSUME NEW s \in Sessions, Connect(s)
      PROVE  NewMapped'
  BY <1>b, <1>11 DEF Connect
<1>12. ASSUME NEW s \in Sessions, Panic(s)
      PROVE  NewMapped'
  BY <1>b, <1>12 DEF Panic
<1>13. ASSUME NEW a \in Admins, AdminDelete(a)
      PROVE  NewMapped'
  BY <1>b, <1>13 DEF AdminDelete
<1>14. ASSUME NEW a \in Admins, NEW r \in Records, AdminPost(a, r)
      PROVE  NewMapped'
  BY <1>b, <1>14 DEF AdminPost, CallRegister
<1>15. ASSUME NEW w \in Webhooks, WebhookGet(w)
      PROVE  NewMapped'
  BY <1>b, <1>15 DEF WebhookGet
<1>16. ASSUME NEW w \in Webhooks, WebhookTouch(w)
      PROVE  NewMapped'
  BY <1>b, <1>16 DEF WebhookTouch
<1>17. ASSUME NEW f \in Records \cup {None, Broken}, EditFile(f)
      PROVE  NewMapped'
  BY <1>b, <1>17 DEF EditFile
<1>18. ASSUME ReaperTick
      PROVE  NewMapped'
  BY <1>b, <1>18 DEF ReaperTick, CallRegister
<1>19. ASSUME LoadFromStore
      PROVE  NewMapped'
  BY <1>b, <1>19 DEF LoadFromStore, CallRegister
<1>20. ASSUME SyncRead
      PROVE  NewMapped'
  BY <1>b, <1>20 DEF SyncRead, CallRegister
<1>21. ASSUME SyncCache
      PROVE  NewMapped'
  BY <1>b, <1>21 DEF SyncCache
<1>22. ASSUME SyncPrune
      PROVE  NewMapped'
  BY <1>b, <1>22 DEF SyncPrune
<1>23. ASSUME Synced
      PROVE  NewMapped'
  BY <1>b, <1>23 DEF Synced
<1>24. ASSUME Resync
      PROVE  NewMapped'
  BY <1>b, <1>24 DEF Resync
<1>25. ASSUME Terminate
      PROVE  NewMapped'
  BY <1>b, <1>25 DEF Terminate
<1>26. ASSUME StopAll
      PROVE  NewMapped'
  BY <1>b, <1>26 DEF StopAll
<1>27. ASSUME Exit
      PROVE  NewMapped'
  BY <1>b, <1>27 DEF Exit, EndProcess
<1>28. ASSUME Crash
      PROVE  NewMapped'
  BY <1>b, <1>28 DEF Crash, EndProcess
<1>29. ASSUME Restart
      PROVE  NewMapped'
  BY <1>b, <1>29 DEF Restart
<1> QED
  BY <1>1, <1>2, <1>3, <1>4, <1>5, <1>6, <1>7, <1>8, <1>9, <1>10, <1>11,
     <1>12, <1>13, <1>14, <1>15, <1>16, <1>17, <1>18, <1>19, <1>20, <1>21,
     <1>22, <1>23, <1>24, <1>25, <1>26, <1>27, <1>28, <1>29 DEF Next,
     CallerStep, YamlStep

LEMMA NextEmptied ==
  ASSUME TypeOK, MapInv, SoloInv, [Next]_vars
  PROVE  Emptied'
<1> USE DEF TypeOK, RegistryTypes, CallerTypes, Goto, registry, callers,
            SoloInv, Emptied, Registering, AtRest
<1>b. /\ Yaml \in Callers /\ Reaper \in Callers /\ Term \in Callers
      /\ Admins \subseteq Callers
  BY DEF Callers
<1>c. ASSUME NEW c \in Callers, pc[c] \notin AtRest
      PROVE  \A d \in Callers \ {c} : pc[d] \in AtRest
  BY <1>c, AloneAtWork
<1>1. CASE UNCHANGED vars
  BY <1>1, <1>b DEF vars
<1>2. ASSUME NEW c \in Callers, SwapSession(c)
      PROVE  Emptied'
  BY <1>b, <1>c, <1>2 DEF SwapSession
<1>3. ASSUME NEW c \in Callers, StopSession(c)
      PROVE  Emptied'
  BY <1>b, <1>c, <1>3 DEF StopSession, Stops, Replaced
<1>4. ASSUME NEW c \in Callers, StopNothing(c)
      PROVE  Emptied'
  BY <1>b, <1>c, <1>4 DEF StopNothing, Stops, Replaced, AfterStop
<1>5. ASSUME NEW c \in Callers, StoreOffline(c)
      PROVE  Emptied'
  BY <1>b, <1>c, <1>5 DEF StoreOffline, AfterStop
<1>6. ASSUME NEW c \in Callers, StartSession(c)
      PROVE  Emptied'
  BY <1>b, <1>c, <1>6 DEF StartSession
<1>7. ASSUME NEW c \in Callers, StoreOnline(c)
      PROVE  Emptied'
  BY <1>b, <1>c, <1>7 DEF StoreOnline
<1>8. ASSUME NEW c \in Callers, StoreRecord(c)
      PROVE  Emptied'
  BY <1>b, <1>c, <1>8 DEF StoreRecord, Returns, Return
<1>9. ASSUME NEW c \in Callers, UnmapSession(c)
      PROVE  Emptied'
  BY <1>b, <1>c, <1>9 DEF UnmapSession
<1>10. ASSUME NEW c \in Callers, StoreDeleted(c)
      PROVE  Emptied'
  BY <1>b, <1>c, <1>10 DEF StoreDeleted, Returns, Return
<1>11. ASSUME NEW s \in Sessions, Connect(s)
      PROVE  Emptied'
  BY <1>b, <1>11 DEF Connect
<1>12. ASSUME NEW s \in Sessions, Panic(s)
      PROVE  Emptied'
  BY <1>b, <1>12 DEF Panic
<1>13. ASSUME NEW a \in Admins, AdminDelete(a)
      PROVE  Emptied'
  BY <1>b, <1>13 DEF AdminDelete
<1>14. ASSUME NEW a \in Admins, NEW r \in Records, AdminPost(a, r)
      PROVE  Emptied'
  BY <1>b, <1>14 DEF AdminPost, CallRegister
<1>15. ASSUME NEW w \in Webhooks, WebhookGet(w)
      PROVE  Emptied'
  BY <1>b, <1>15 DEF WebhookGet
<1>16. ASSUME NEW w \in Webhooks, WebhookTouch(w)
      PROVE  Emptied'
  BY <1>b, <1>16 DEF WebhookTouch
<1>17. ASSUME NEW f \in Records \cup {None, Broken}, EditFile(f)
      PROVE  Emptied'
  BY <1>b, <1>17 DEF EditFile
<1>18. ASSUME ReaperTick
      PROVE  Emptied'
  BY <1>b, <1>18 DEF ReaperTick, CallRegister
<1>19. ASSUME LoadFromStore
      PROVE  Emptied'
  BY <1>b, <1>19 DEF LoadFromStore, CallRegister
<1>20. ASSUME SyncRead
      PROVE  Emptied'
  BY <1>b, <1>20 DEF SyncRead, CallRegister
<1>21. ASSUME SyncCache
      PROVE  Emptied'
  BY <1>b, <1>21 DEF SyncCache
<1>22. ASSUME SyncPrune
      PROVE  Emptied'
  BY <1>b, <1>22 DEF SyncPrune
<1>23. ASSUME Synced
      PROVE  Emptied'
  BY <1>b, <1>23 DEF Synced
<1>24. ASSUME Resync
      PROVE  Emptied'
  BY <1>b, <1>24 DEF Resync
<1>25. ASSUME Terminate
      PROVE  Emptied'
  BY <1>b, <1>25 DEF Terminate
<1>26. ASSUME StopAll
      PROVE  Emptied'
  BY <1>b, <1>26 DEF StopAll
<1>27. ASSUME Exit
      PROVE  Emptied'
  BY <1>b, <1>27 DEF Exit, EndProcess
<1>28. ASSUME Crash
      PROVE  Emptied'
  BY <1>b, <1>28 DEF Crash, EndProcess
<1>29. ASSUME Restart
      PROVE  Emptied'
  BY <1>b, <1>29 DEF Restart
<1> QED
  BY <1>1, <1>2, <1>3, <1>4, <1>5, <1>6, <1>7, <1>8, <1>9, <1>10, <1>11,
     <1>12, <1>13, <1>14, <1>15, <1>16, <1>17, <1>18, <1>19, <1>20, <1>21,
     <1>22, <1>23, <1>24, <1>25, <1>26, <1>27, <1>28, <1>29 DEF Next,
     CallerStep, YamlStep

LEMMA NextStartedHeld ==
  ASSUME TypeOK, MapInv, SoloInv, [Next]_vars
  PROVE  StartedHeld'
<1> USE DEF TypeOK, RegistryTypes, CallerTypes, Goto, registry, callers,
            SoloInv, StartedHeld, Registering, AtRest
<1>b. /\ Yaml \in Callers /\ Reaper \in Callers /\ Term \in Callers
      /\ Admins \subseteq Callers
  BY DEF Callers
<1>c. ASSUME NEW c \in Callers, pc[c] \notin AtRest
      PROVE  \A d \in Callers \ {c} : pc[d] \in AtRest
  BY <1>c, AloneAtWork
<1>d. \A c \in Callers : new[c] # None => mapped = new[c]
  BY DEF NewMapped
<1>1. CASE UNCHANGED vars
  BY <1>1, <1>b DEF vars
<1>2. ASSUME NEW c \in Callers, SwapSession(c)
      PROVE  StartedHeld'
  BY <1>b, <1>c, <1>d, <1>2 DEF SwapSession
<1>3. ASSUME NEW c \in Callers, StopSession(c)
      PROVE  StartedHeld'
  BY <1>b, <1>c, <1>d, <1>3 DEF StopSession, Stops, Replaced
<1>4. ASSUME NEW c \in Callers, StopNothing(c)
      PROVE  StartedHeld'
  BY <1>b, <1>c, <1>d, <1>4 DEF StopNothing, Stops, Replaced, AfterStop
<1>5. ASSUME NEW c \in Callers, StoreOffline(c)
      PROVE  StartedHeld'
  BY <1>b, <1>c, <1>d, <1>5 DEF StoreOffline, AfterStop
<1>6. ASSUME NEW c \in Callers, StartSession(c)
      PROVE  StartedHeld'
  BY <1>b, <1>c, <1>d, <1>6 DEF StartSession
<1>7. ASSUME NEW c \in Callers, StoreOnline(c)
      PROVE  StartedHeld'
  BY <1>b, <1>c, <1>d, <1>7 DEF StoreOnline
<1>8. ASSUME NEW c \in Callers, StoreRecord(c)
      PROVE  StartedHeld'
  BY <1>b, <1>c, <1>d, <1>8 DEF StoreRecord, Returns, Return
<1>9. ASSUME NEW c \in Callers, UnmapSession(c)
      PROVE  StartedHeld'
  BY <1>b, <1>c, <1>d, <1>9 DEF UnmapSession
<1>10. ASSUME NEW c \in Callers, StoreDeleted(c)
      PROVE  StartedHeld'
  BY <1>b, <1>c, <1>d, <1>10 DEF StoreDeleted, Returns, Return
<1>11. ASSUME NEW s \in Sessions, Connect(s)
      PROVE  StartedHeld'
  BY <1>b, <1>11 DEF Connect
<1>12. ASSUME NEW s \in Sessions, Panic(s)
      PROVE  StartedHeld'
  BY <1>b, <1>12 DEF Panic
<1>13. ASSUME NEW a \in Admins, AdminDelete(a)
      PROVE  StartedHeld'
  BY <1>b, <1>13 DEF AdminDelete
<1>14. ASSUME NEW a \in Admins, NEW r \in Records, AdminPost(a, r)
      PROVE  StartedHeld'
  BY <1>b, <1>14 DEF AdminPost, CallRegister
<1>15. ASSUME NEW w \in Webhooks, WebhookGet(w)
      PROVE  StartedHeld'
  BY <1>b, <1>15 DEF WebhookGet
<1>16. ASSUME NEW w \in Webhooks, WebhookTouch(w)
      PROVE  StartedHeld'
  BY <1>b, <1>16 DEF WebhookTouch
<1>17. ASSUME NEW f \in Records \cup {None, Broken}, EditFile(f)
      PROVE  StartedHeld'
  BY <1>b, <1>17 DEF EditFile
<1>18. ASSUME ReaperTick
      PROVE  StartedHeld'
  BY <1>b, <1>18 DEF ReaperTick, CallRegister
<1>19. ASSUME LoadFromStore
      PROVE  StartedHeld'
  BY <1>b, <1>19 DEF LoadFromStore, CallRegister
<1>20. ASSUME SyncRead
      PROVE  StartedHeld'
  BY <1>b, <1>20 DEF SyncRead, CallRegister
<1>21. ASSUME SyncCache
      PROVE  StartedHeld'
  BY <1>b, <1>21 DEF SyncCache
<1>22. ASSUME SyncPrune
      PROVE  StartedHeld'
  BY <1>b, <1>22 DEF SyncPrune
<1>23. ASSUME Synced
      PROVE  StartedHeld'
  BY <1>b, <1>23 DEF Synced
<1>24. ASSUME Resync
      PROVE  StartedHeld'
  BY <1>b, <1>24 DEF Resync
<1>25. ASSUME Terminate
      PROVE  StartedHeld'
  BY <1>b, <1>25 DEF Terminate
<1>26. ASSUME StopAll
      PROVE  StartedHeld'
  BY <1>b, <1>26 DEF StopAll
<1>27. ASSUME Exit
      PROVE  StartedHeld'
  BY <1>b, <1>27 DEF Exit, EndProcess
<1>28. ASSUME Crash
      PROVE  StartedHeld'
  BY <1>b, <1>28 DEF Crash, EndProcess
<1>29. ASSUME Restart
      PROVE  StartedHeld'
  BY <1>b, <1>29 DEF Restart
<1> QED
  BY <1>1, <1>2, <1>3, <1>4, <1>5, <1>6, <1>7, <1>8, <1>9, <1>10, <1>11,
     <1>12, <1>13, <1>14, <1>15, <1>16, <1>17, <1>18, <1>19, <1>20, <1>21,
     <1>22, <1>23, <1>24, <1>25, <1>26, <1>27, <1>28, <1>29 DEF Next,
     CallerStep, YamlStep

(* The invariants of the manager, for the theorems below. *)
LEMMA NextSoloInv ==
  TypeOK /\ MapInv /\ DownInv /\ (~contended => SoloInv) /\ [Next]_vars
    => (~contended' => SoloInv')
<1> SUFFICES ASSUME TypeOK, MapInv, DownInv, ~contended => SoloInv, [Next]_vars,
                    ~contended'
             PROVE  SoloInv'
  OBVIOUS
<1>1. CASE Restart
  BY <1>1, RestartSolo
<1>2. CASE ~contended
  <2>1. OneBusy'
    BY <1>2, NextOneBusy DEF SoloInv
  <2> QED BY <1>2, <2>1, NextNewMapped, NextEmptied, NextStartedHeld DEF SoloInv
<1> QED BY <1>1, <1>2, ContendedStays

LEMMA InitMapInv == Init => MapInv
BY DEF Init, MapInv, OldSessions, MappedStarted, Callers

LEMMA InitSolo == Init => DownInv /\ SoloInv
<1> SUFFICES ASSUME Init PROVE DownInv /\ SoloInv
  OBVIOUS
<1>1. DownInv
  BY DEF Init, DownInv
<1>2. OneBusy
  BY DEF Init, OneBusy, Busy, AtRest
<1>3. NewMapped /\ Emptied /\ StartedHeld
  BY DEF Init, NewMapped, Emptied, StartedHeld, Callers
<1> QED BY <1>1, <1>2, <1>3 DEF SoloInv

LEMMA SoloAlways ==
  Spec => [](TypeOK /\ MapInv /\ DownInv /\ (~contended => SoloInv))
BY ManagerTypes, InitMapInv, InitSolo, NextTypes, NextMapInv, NextDownInv,
   NextSoloInv, PTL DEF Spec

(* As long as callers do not overlap, Register stops the session it takes   *)
(* out before it starts its own, whoever calls it and however it panics or  *)
(* is cut off by the end of the process (manager.go:29-64).                *)
THEOREM OneSessionAtATime == Spec => []NeverTwoSessions
<1>1. TypeOK /\ (~contended => SoloInv) => NeverTwoSessions
  <2> SUFFICES ASSUME TypeOK, SoloInv, NEW s \in Sessions, NEW t \in Sessions,
                      session[s] = "started", session[t] = "started"
               PROVE  s = t
    BY DEF NeverTwoSessions
  <2>1. \A c, d \in Callers : pc[c] = "stop" /\ pc[d] = "stop" => c = d
    BY DEF SoloInv, OneBusy, Busy, AtRest
  <2>2. ASSUME NEW u \in Sessions, NEW v \in Sessions, session[u] = "started",
               session[v] = "started", v = mapped, NEW c \in Callers,
               pc[c] = "stop", old[c] = u
        PROVE  u = v
    <3>1. CASE c = Term
      BY <2>2, <3>1 DEF SoloInv, Emptied
    <3>2. CASE c # Term /\ new[c] = None
      BY <2>2, <3>2 DEF SoloInv, Emptied
    <3>3. CASE new[c] # None
      BY <2>2, <3>3 DEF SoloInv, NewMapped
    <3> QED BY <3>1, <3>2, <3>3
  <2> QED BY <2>1, <2>2 DEF SoloInv, StartedHeld
<1> QED BY <1>1, SoloAlways, PTL

-----------------------------------------------------------------------------
(* The row of the robot.                                                   *)

(* Between calls the row is active exactly if there is a session, which     *)
(* runs with the record of the row.  In between Register and Deregister it  *)
(* may say anything, also what a webhook of the old session writes; but a   *)
(* webhook can only be in flight while there is a session, so nothing makes *)
(* a row active again that was marked deleted or offline.                  *)
Settled ==
  /\ pc[Yaml] # "load" /\ pc[Term] \in {"idle", "list", "stop"}
  /\ \A c \in Callers \ {Term} : pc[c] \notin {"swap", "mark"} \cup Registering
RowSettled ==
  Settled /\ up # "down" =>
    /\ ListActiveRobots <=> mapped # None
    /\ mapped # None => session[mapped] = "started" /\ row.rec = conf[mapped]
NothingInFlight ==
  /\ mapped = None => InFlight = {}
  /\ pc[Term] \in {"stop", "offline", "exit"} => InFlight = {}
RowAtEnds ==
  /\ pc[Yaml] = "load" => mapped = None
  /\ pc[Term] = "done" => up = "down"
  /\ pc[Term] \in {"exit", "done"} => row.status # "online"
RowInv == RowSettled /\ NothingInFlight /\ RowAtEnds

LEMMA RestartRow ==
  ASSUME TypeOK, MapInv, DownInv, Restart
  PROVE  RowInv'
<1>1. pc'[Yaml] = "load" /\ pc'[Term] = "idle"
  BY DEF Restart, TypeOK, CallerTypes, Callers
<1>2. mapped' = None /\ InFlight' = {}
  BY DEF Restart, registry, MapInv, DownInv, InFlight
<1> QED BY <1>1, <1>2 DEF RowInv, RowSettled, Settled, NothingInFlight, RowAtEnds

LEMMA NextNothingInFlight ==
  ASSUME TypeOK, MapInv, SoloInv, NothingInFlight, ~contended', [Next]_vars
  PROVE  NothingInFlight'
<1> USE DEF TypeOK, RegistryTypes, CallerTypes, InputTypes, Goto, registry,
            callers, NothingInFlight, InFlight, Registering, AtRest, MapInv
<1>b. /\ Yaml \in Callers /\ Reaper \in Callers /\ Term \in Callers
      /\ Admins \subseteq Callers
  BY DEF Callers
<1>1. CASE UNCHANGED vars
  BY <1>1, <1>b DEF vars
<1>2. ASSUME NEW c \in Callers, SwapSession(c)
      PROVE  NothingInFlight'
  BY <1>b, <1>2 DEF SwapSession
<1>3. ASSUME NEW c \in Callers, StopSession(c)
      PROVE  NothingInFlight'
  BY <1>b, <1>3 DEF StopSession, Stops, Replaced
<1>4. ASSUME NEW c \in Callers, StopNothing(c)
      PROVE  NothingInFlight'
  BY <1>b, <1>4 DEF StopNothing, Stops, Replaced, AfterStop
<1>5. ASSUME NEW c \in Callers, StoreOffline(c)
      PROVE  NothingInFlight'
  BY <1>b, <1>5 DEF StoreOffline, AfterStop
<1>6. ASSUME NEW c \in Callers, StartSession(c)
      PROVE  NothingInFlight'
  BY <1>b, <1>6 DEF StartSession
<1>7. ASSUME NEW c \in Callers, StoreOnline(c)
      PROVE  NothingInFlight'
  BY <1>b, <1>7 DEF StoreOnline
<1>8. ASSUME NEW c \in Callers, StoreRecord(c)
      PROVE  NothingInFlight'
  BY <1>b, <1>8 DEF StoreRecord, Returns, Return
<1>9. ASSUME NEW c \in Callers, UnmapSession(c)
      PROVE  NothingInFlight'
  <2>1. InFlight = {}
    BY <1>9, Zenon DEF UnmapSession
  <2> QED BY <1>b, <2>1, <1>9 DEF UnmapSession
<1>10. ASSUME NEW c \in Callers, StoreDeleted(c)
      PROVE  NothingInFlight'
  BY <1>b, <1>10 DEF StoreDeleted, Returns, Return
<1>11. ASSUME NEW s \in Sessions, Connect(s)
      PROVE  NothingInFlight'
  BY <1>b, <1>11 DEF Connect
<1>12. ASSUME NEW s \in Sessions, Panic(s)
      PROVE  NothingInFlight'
  BY <1>b, <1>12 DEF Panic
<1>13. ASSUME NEW a \in Admins, AdminDelete(a)
      PROVE  NothingInFlight'
  BY <1>b, <1>13 DEF AdminDelete
<1>14. ASSUME NEW a \in Admins, NEW r \in Records, AdminPost(a, r)
      PROVE  NothingInFlight'
  BY <1>b, <1>14 DEF AdminPost, CallRegister
<1>15. ASSUME NEW w \in Webhooks, WebhookGet(w)
      PROVE  NothingInFlight'
  BY <1>b, <1>15 DEF WebhookGet
<1>16. ASSUME NEW w \in Webhooks, WebhookTouch(w)
      PROVE  NothingInFlight'
  BY <1>b, <1>16 DEF WebhookTouch
<1>17. ASSUME NEW f \in Records \cup {None, Broken}, EditFile(f)
      PROVE  NothingInFlight'
  BY <1>b, <1>17 DEF EditFile
<1>18. ASSUME ReaperTick
      PROVE  NothingInFlight'
  BY <1>b, <1>18 DEF ReaperTick, CallRegister
<1>19. ASSUME LoadFromStore
      PROVE  NothingInFlight'
  BY <1>b, <1>19 DEF LoadFromStore, CallRegister
<1>20. ASSUME SyncRead
      PROVE  NothingInFlight'
  BY <1>b, <1>20 DEF SyncRead, CallRegister
<1>21. ASSUME SyncCache
      PROVE  NothingInFlight'
  BY <1>b, <1>21 DEF SyncCache
<1>22. ASSUME SyncPrune
      PROVE  NothingInFlight'
  BY <1>b, <1>22 DEF SyncPrune
<1>23. ASSUME Synced
      PROVE  NothingInFlight'
  BY <1>b, <1>23 DEF Synced
<1>24. ASSUME Resync
      PROVE  NothingInFlight'
  BY <1>b, <1>24 DEF Resync
<1>25. ASSUME Terminate
      PROVE  NothingInFlight'
  BY <1>b, <1>25 DEF Terminate
<1>26. ASSUME StopAll
      PROVE  NothingInFlight'
  <2>1. InFlight = {}
    BY <1>26, Zenon DEF StopAll
  <2> QED BY <1>b, <2>1, <1>26 DEF StopAll
<1>27. ASSUME Exit
      PROVE  NothingInFlight'
  BY <1>b, <1>27 DEF Exit, EndProcess
<1>28. ASSUME Crash
      PROVE  NothingInFlight'
  BY <1>b, <1>28 DEF Crash, EndProcess
<1>29. ASSUME Restart
      PROVE  NothingInFlight'
  BY <1>b, <1>29 DEF Restart
<1> QED
  BY <1>1, <1>2, <1>3, <1>4, <1>5, <1>6, <1>7, <1>8, <1>9, <1>10, <1>11,
     <1>12, <1>13, <1>14, <1>15, <1>16, <1>17, <1>18, <1>19, <1>20, <1>21,
     <1>22, <1>23, <1>24, <1>25, <1>26, <1>27, <1>28, <1>29 DEF Next,
     CallerStep, YamlStep

(* The statuses a step may write. *)
LEMMA StatusKeepsActive ==
  ASSUME TypeOK, NEW status \in {"offline", "online", "errored"},
         SetRobotStatus(status)
  PROVE  /\ row' \in Rows /\ row'.rec = row.rec
         /\ row.status \notin {"absent", "deleted"} => row'.status = status
         /\ row.status = "absent" => row'.status = "absent"
BY DEF SetRobotStatus, TypeOK, RegistryTypes, Rows, NoRow

LEMMA NextRowSettled ==
  ASSUME TypeOK, MapInv, SoloInv, RowInv, ~contended', [Next]_vars
  PROVE  RowSettled'
<1> USE DEF TypeOK, RegistryTypes, CallerTypes, Goto, registry,
            callers, RowSettled, Settled, Registering, ListActiveRobots
<1>b. /\ Yaml \in Callers /\ Reaper \in Callers /\ Term \in Callers
      /\ Admins \subseteq Callers
  BY DEF Callers
<1>r. RowSettled
  BY DEF RowInv
<1>s. \A st : SetRobotStatus(st) => row'.rec = row.rec
  BY DEF SetRobotStatus, Rows, NoRow
<1>1. CASE UNCHANGED vars
  BY <1>1, <1>b, <1>r DEF vars
<1>2. ASSUME NEW c \in Callers, SwapSession(c)
      PROVE  RowSettled'
  BY <1>b, <1>r, <1>2 DEF SwapSession
<1>3. ASSUME NEW c \in Callers, StopSession(c)
      PROVE  RowSettled'
  <2>1. pc' = [pc EXCEPT ![c] = "offline"]
    BY <1>3 DEF StopSession
  <2> QED BY <2>1
<1>4. ASSUME NEW c \in Callers, StopNothing(c)
      PROVE  RowSettled'
  <2>1. c = Term => pc'[Term] = "exit"
    BY <1>4 DEF StopNothing, AfterStop
  <2>2. c # Term => pc'[c] \in {"mark"} \cup Registering
    BY <1>4 DEF StopNothing, AfterStop
  <2> QED BY <2>1, <2>2
<1>5. ASSUME NEW c \in Callers, StoreOffline(c)
      PROVE  RowSettled'
  <2>1. c = Term
        \/ \E d \in Callers \ {Term} : pc'[d] \in {"mark"} \cup Registering
    BY <1>5 DEF StoreOffline, AfterStop
  <2>2. c = Term => pc'[Term] \notin {"idle", "list", "stop"}
    BY <1>5 DEF StoreOffline, AfterStop
  <2> QED BY <2>1, <2>2
<1>6. ASSUME NEW c \in Callers, StartSession(c)
      PROVE  RowSettled'
  BY <1>b, <1>r, <1>6 DEF StartSession
<1>7. ASSUME NEW c \in Callers, StoreOnline(c)
      PROVE  RowSettled'
  BY <1>b, <1>r, <1>7 DEF StoreOnline
<1>8. ASSUME NEW c \in Callers, StoreRecord(c)
      PROVE  RowSettled'
  <2>1. /\ new[c] # None /\ mapped = new[c] /\ conf[mapped] = arg[c].rec
        /\ session[mapped] = "started" /\ arg[c] \in Args
    BY <1>8 DEF StoreRecord, Returns, SoloInv, NewMapped
  <2>2. /\ row'.rec = arg[c].rec
        /\ row'.status = storeNZ(arg[c].status, "offline")
    BY <1>8 DEF StoreRecord, UpsertRobot
  <2>3. row'.status \notin {"absent", "deleted"}
    BY <2>1, <2>2 DEF storeNZ, Args
  <2>4. UNCHANGED <<mapped, session, conf>>
    BY <1>8 DEF StoreRecord
  <2> QED BY <2>1, <2>2, <2>3, <2>4
<1>9. ASSUME NEW c \in Callers, UnmapSession(c)
      PROVE  RowSettled'
  BY <1>b, <1>r, <1>9 DEF UnmapSession
<1>10. ASSUME NEW c \in Callers, StoreDeleted(c)
      PROVE  RowSettled'
  <2>1. new[c] = None /\ c # Term /\ mapped' = mapped
    BY <1>10 DEF StoreDeleted, Returns
  <2>2. mapped = None
    BY <2>1, <1>10 DEF StoreDeleted, Returns, SoloInv, Emptied
  <2>3. row'.status \in {"absent", "deleted"}
    BY <1>10 DEF StoreDeleted, SetRobotStatus, Rows, NoRow
  <2> QED BY <2>1, <2>2, <2>3
<1>11. ASSUME NEW s \in Sessions, Connect(s)
      PROVE  RowSettled'
  BY <1>b, <1>r, <1>11 DEF Connect
<1>12. ASSUME NEW s \in Sessions, Panic(s)
      PROVE  RowSettled'
  <2>1. UNCHANGED <<up, mapped, session, conf, pc>> /\ session[s] = "started"
    BY <1>12 DEF Panic
  <2>2. SUFFICES ASSUME Settled, up # "down"
                 PROVE  /\ row'.status \notin {"absent", "deleted"} <=> mapped # None
                        /\ row'.rec = row.rec
    BY <1>r, <2>1
  <2>3. s = mapped
    BY <2>1, <2>2 DEF SoloInv, StartedHeld, Emptied
  <2>4. row.status \notin {"absent", "deleted"} /\ mapped # None
    BY <1>r, <2>2, <2>3
  <2> QED BY <1>s, <2>4, <1>12, StatusKeepsActive DEF Panic
<1>13. ASSUME NEW a \in Admins, AdminDelete(a)
      PROVE  RowSettled'
  BY <1>b, <1>r, <1>13 DEF AdminDelete
<1>14. ASSUME NEW a \in Admins, NEW r \in Records, AdminPost(a, r)
      PROVE  RowSettled'
  BY <1>b, <1>r, <1>14 DEF AdminPost, CallRegister
<1>15. ASSUME NEW w \in Webhooks, WebhookGet(w)
      PROVE  RowSettled'
  BY <1>b, <1>r, <1>15 DEF WebhookGet
<1>16. ASSUME NEW w \in Webhooks, WebhookTouch(w)
      PROVE  RowSettled'
  <2>1. UNCHANGED <<up, mapped, session, conf, pc>> /\ InFlight # {}
    BY <1>16 DEF WebhookTouch
  <2>2. SUFFICES ASSUME Settled, up # "down"
                 PROVE  /\ row'.status \notin {"absent", "deleted"} <=> mapped # None
                        /\ row'.rec = row.rec
    BY <1>r, <2>1
  <2>3. mapped # None
    BY <2>1 DEF RowInv, NothingInFlight
  <2>4. row.status \notin {"absent", "deleted"}
    BY <1>r, <2>2, <2>3
  <2> QED BY <1>s, <2>3, <2>4, <1>16, StatusKeepsActive DEF WebhookTouch
<1>17. ASSUME NEW f \in Records \cup {None, Broken}, EditFile(f)
      PROVE  RowSettled'
  BY <1>b, <1>r, <1>17 DEF EditFile
<1>18. ASSUME ReaperTick
      PROVE  RowSettled'
  BY <1>b, <1>r, <1>18 DEF ReaperTick, CallRegister
<1>19. ASSUME LoadFromStore
      PROVE  RowSettled'
  <2>1. mapped = None /\ UNCHANGED <<up, mapped, row>>
    BY <1>19 DEF LoadFromStore, RowInv, RowAtEnds, CallRegister
  <2>2. CASE ListActiveRobots
    BY <1>b, <2>2, <1>19 DEF LoadFromStore, CallRegister
  <2>3. CASE ~ListActiveRobots
    BY <2>1, <2>3
  <2> QED BY <2>2, <2>3
<1>20. ASSUME SyncRead
      PROVE  RowSettled'
  BY <1>b, <1>r, <1>20 DEF SyncRead, CallRegister
<1>21. ASSUME SyncCache
      PROVE  RowSettled'
  BY <1>b, <1>r, <1>21 DEF SyncCache
<1>22. ASSUME SyncPrune
      PROVE  RowSettled'
  BY <1>b, <1>r, <1>22 DEF SyncPrune
<1>23. ASSUME Synced
      PROVE  RowSettled'
  BY <1>b, <1>r, <1>23 DEF Synced
<1>24. ASSUME Resync
      PROVE  RowSettled'
  BY <1>b, <1>r, <1>24 DEF Resync
<1>25. ASSUME Terminate
      PROVE  RowSettled'
  BY <1>b, <1>r, <1>25 DEF Terminate
<1>26. ASSUME StopAll
      PROVE  RowSettled'
  BY <1>b, <1>r, <1>26 DEF StopAll
<1>27. ASSUME Exit
      PROVE  RowSettled'
  BY <1>b, <1>r, <1>27 DEF Exit, EndProcess
<1>28. ASSUME Crash
      PROVE  RowSettled'
  BY <1>b, <1>r, <1>28 DEF Crash, EndProcess
<1>29. ASSUME Restart
      PROVE  RowSettled'
  BY <1>b, <1>r, <1>29 DEF Restart
<1> QED
  BY <1>1, <1>2, <1>3, <1>4, <1>5, <1>6, <1>7, <1>8, <1>9, <1>10, <1>11,
     <1>12, <1>13, <1>14, <1>15, <1>16, <1>17, <1>18, <1>19, <1>20, <1>21,
     <1>22, <1>23, <1>24, <1>25, <1>26, <1>27, <1>28, <1>29 DEF Next,
     CallerStep, YamlStep

(* The store is loaded into an empty map.  Shutdown leaves the row of a     *)
(* session it stopped offline, and that of no session was not online; then  *)
(* nobody is left to write it.                                             *)
LEMMA NextRowAtEnds ==
  ASSUME TypeOK, MapInv, SoloInv, DownInv, RowInv, ~contended', [Next]_vars
  PROVE  RowAtEnds'
<1> USE DEF TypeOK, RegistryTypes, CallerTypes, Goto, registry, callers, AtRest
<1>b. /\ Yaml \in Callers /\ Reaper \in Callers /\ Term \in Callers
      /\ Admins \subseteq Callers
  BY DEF Callers
<1>r. /\ pc[Yaml] = "load" => mapped = None
      /\ pc[Term] = "done" => up = "down"
      /\ pc[Term] \in {"exit", "done"} => row.status # "online"
  BY DEF RowInv, RowAtEnds
<1>p. ASSUME pc[Term] \in {"exit", "done"}
      PROVE  /\ \A c \in Callers \ {Term} : pc[c] \in AtRest
             /\ InFlight = {} /\ up \in {"stopping", "down"}
  <2>1. CASE pc[Term] = "done"
    BY <1>r, <2>1 DEF DownInv
  <2>2. CASE pc[Term] = "exit"
    <3>1. \A c \in Callers \ {Term} : pc[c] \in AtRest
      BY <1>b, <2>2, AloneAtWork DEF SoloInv
    <3> QED BY <2>2, <3>1 DEF RowInv, NothingInFlight, MapInv
  <2> QED BY <1>p, <2>1, <2>2
<1>m. pc[Yaml] = "load" => \A c \in Callers \ {Yaml} : pc[c] \in AtRest
  BY <1>b, AloneAtWork DEF SoloInv
<1> USE <1>b, <1>r, <1>p, <1>m DEF RowAtEnds
<1>1. CASE UNCHANGED vars
  BY <1>1 DEF vars
<1>2. ASSUME NEW c \in Callers, SwapSession(c)
      PROVE  RowAtEnds'
  BY <1>2 DEF SwapSession
<1>3. ASSUME NEW c \in Callers, StopSession(c)
      PROVE  RowAtEnds'
  BY <1>3 DEF StopSession, Stops, Replaced
<1>4. ASSUME NEW c \in Callers, StopNothing(c)
      PROVE  RowAtEnds'
  <2>1. CASE c # Term
    BY <2>1, <1>4 DEF StopNothing, AfterStop
  <2>2. CASE c = Term
    <3>1. old[Term] = mapped /\ up = "stopping"
      BY <2>2, <1>4 DEF StopNothing, SoloInv, Emptied, MapInv
    <3>2. Settled
      <4>1. \A d \in Callers \ {Term} : pc[d] \in AtRest
        BY <2>2, <1>4, AloneAtWork DEF StopNothing, SoloInv
      <4> QED BY <2>2, <4>1, <1>4 DEF StopNothing, Settled, Registering
    <3>3. mapped = None
      BY <2>2, <3>1, <3>2, <1>4
         DEF StopNothing, Stops, Replaced, RowInv, RowSettled
    <3>4. row.status \in {"absent", "deleted"}
      BY <3>1, <3>2, <3>3 DEF RowInv, RowSettled, ListActiveRobots
    <3> QED BY <3>3, <3>4, <2>2, <1>4 DEF StopNothing, AfterStop
  <2> QED BY <2>1, <2>2
<1>5. ASSUME NEW c \in Callers, StoreOffline(c)
      PROVE  RowAtEnds'
  <2>1. CASE c # Term
    BY <2>1, <1>5 DEF StoreOffline, AfterStop
  <2>2. CASE c = Term
    <3>1. row'.status # "online"
      BY <1>5 DEF StoreOffline, SetRobotStatus, Rows, NoRow
    <3> QED BY <2>2, <3>1, <1>5 DEF StoreOffline, AfterStop
  <2> QED BY <2>1, <2>2
<1>6. ASSUME NEW c \in Callers, StartSession(c)
      PROVE  RowAtEnds'
  BY <1>6 DEF StartSession
<1>7. ASSUME NEW c \in Callers, StoreOnline(c)
      PROVE  RowAtEnds'
  BY <1>7 DEF StoreOnline
<1>8. ASSUME NEW c \in Callers, StoreRecord(c)
      PROVE  RowAtEnds'
  BY <1>8 DEF StoreRecord, Returns, Return
<1>9. ASSUME NEW c \in Callers, UnmapSession(c)
      PROVE  RowAtEnds'
  BY <1>9 DEF UnmapSession
<1>10. ASSUME NEW c \in Callers, StoreDeleted(c)
      PROVE  RowAtEnds'
  BY <1>10 DEF StoreDeleted, Returns, Return
<1>11. ASSUME NEW s \in Sessions, Connect(s)
      PROVE  RowAtEnds'
  BY <1>11 DEF Connect
<1>12. ASSUME NEW s \in Sessions, Panic(s)
      PROVE  RowAtEnds'
  <2>1. row'.status # "online" \/ row' = row
    BY <1>12 DEF Panic, SetRobotStatus, Rows, NoRow
  <2> QED BY <2>1, <1>12 DEF Panic
<1>13. ASSUME NEW a \in Admins, AdminDelete(a)
      PROVE  RowAtEnds'
  BY <1>13 DEF AdminDelete
<1>14. ASSUME NEW a \in Admins, NEW r \in Records, AdminPost(a, r)
      PROVE  RowAtEnds'
  BY <1>14 DEF AdminPost, CallRegister
<1>15. ASSUME NEW w \in Webhooks, WebhookGet(w)
      PROVE  RowAtEnds'
  BY <1>15 DEF WebhookGet
<1>16. ASSUME NEW w \in Webhooks, WebhookTouch(w)
      PROVE  RowAtEnds'
  BY <1>16 DEF WebhookTouch
<1>17. ASSUME NEW f \in Records \cup {None, Broken}, EditFile(f)
      PROVE  RowAtEnds'
  BY <1>17 DEF EditFile
<1>18. ASSUME ReaperTick
      PROVE  RowAtEnds'
  BY <1>18 DEF ReaperTick, CallRegister
<1>19. ASSUME LoadFromStore
      PROVE  RowAtEnds'
  BY <1>19 DEF LoadFromStore, CallRegister
<1>20. ASSUME SyncRead
      PROVE  RowAtEnds'
  BY <1>20 DEF SyncRead, CallRegister
<1>21. ASSUME SyncCache
      PROVE  RowAtEnds'
  BY <1>21 DEF SyncCache
<1>22. ASSUME SyncPrune
      PROVE  RowAtEnds'
  BY <1>22 DEF SyncPrune
<1>23. ASSUME Synced
      PROVE  RowAtEnds'
  BY <1>23 DEF Synced
<1>24. ASSUME Resync
      PROVE  RowAtEnds'
  BY <1>24 DEF Resync
<1>25. ASSUME Terminate
      PROVE  RowAtEnds'
  BY <1>25 DEF Terminate
<1>26. ASSUME StopAll
      PROVE  RowAtEnds'
  BY <1>26 DEF StopAll
<1>27. ASSUME Exit
      PROVE  RowAtEnds'
  BY <1>27 DEF Exit, EndProcess
<1>28. ASSUME Crash
      PROVE  RowAtEnds'
  BY <1>28 DEF Crash, EndProcess
<1>29. ASSUME Restart
      PROVE  RowAtEnds'
  BY <1>29, RestartRow DEF RowInv
<1> QED
  BY <1>1, <1>2, <1>3, <1>4, <1>5, <1>6, <1>7, <1>8, <1>9, <1>10, <1>11,
     <1>12, <1>13, <1>14, <1>15, <1>16, <1>17, <1>18, <1>19, <1>20, <1>21,
     <1>22, <1>23, <1>24, <1>25, <1>26, <1>27, <1>28, <1>29 DEF Next,
     CallerStep, YamlStep

LEMMA NextRowInv ==
  ASSUME TypeOK, MapInv, DownInv, ~contended => SoloInv /\ RowInv, [Next]_vars,
         ~contended'
  PROVE  RowInv'
<1>1. CASE Restart
  BY <1>1, RestartRow
<1>2. CASE ~contended
  <2>1. NothingInFlight'
    BY <1>2, NextNothingInFlight DEF RowInv
  <2> QED BY <1>2, <2>1, NextRowSettled, NextRowAtEnds DEF RowInv
<1> QED BY <1>1, <1>2, ContendedStays

LEMMA InitRow == Init => RowInv
<1> SUFFICES ASSUME Init PROVE RowInv
  OBVIOUS
<1>1. pc[Yaml] = "load" /\ pc[Term] = "idle" /\ mapped = None
  BY DEF Init, Callers
<1>2. InFlight = {}
  BY DEF Init, InFlight
<1> QED
  BY <1>1, <1>2 DEF RowInv, RowSettled, Settled, NothingInFlight, RowAtEnds

LEMMA RowAlways == Spec => [](~contended => RowInv)
<1> DEFINE Held == TypeOK /\ MapInv /\ DownInv /\ (~contended => SoloInv)
<1>1. Init => (~contended => RowInv)
  BY InitRow
<1>2. Held /\ (~contended => RowInv) /\ [Next]_vars => (~contended' => RowInv')
  BY NextRowInv
<1> QED BY <1>1, <1>2, SoloAlways, PTL DEF Spec

(* When nobody is at work and callers did not overlap, with each other or   *)
(* with a webhook, the row is active exactly if the robot has a session,    *)
(* and a shutdown does not leave it online: whatever Register, Deregister,  *)
(* the reaper, webhooks and shutdown wrote in between (manager.go:29-64,    *)
(* session.go:81-135).                                                     *)
THEOREM RowAgreesWithMap == Spec => []RowAgrees
<1>1. TypeOK /\ (~contended => RowInv) => RowAgrees
  <2> SUFFICES ASSUME TypeOK, RowInv
               PROVE  /\ Quiet => (ListActiveRobots <=> mapped # None)
                      /\ pc[Term] = "done" => row.status # "online"
    BY DEF RowAgrees
  <2>1. ASSUME Quiet PROVE ListActiveRobots <=> mapped # None
    <3>1. /\ up = "serving" /\ \A c \in Callers : pc[c] \in AtRest
      BY <2>1 DEF Quiet, Busy
    <3>2. Settled
      <4>1. pc[Term] = "idle"
        BY <3>1 DEF RowInv, RowAtEnds, TypeOK, CallerTypes, AtRest, Callers
      <4> QED BY <3>1, <4>1 DEF Settled, Registering, AtRest, Callers
    <3> QED BY <3>1, <3>2 DEF RowInv, RowSettled
  <2> QED BY <2>1 DEF RowInv, RowAtEnds
<1> QED BY <1>1, SoloAlways, RowAlways, PTL

-----------------------------------------------------------------------------
(* The file.                                                               *)

(* A caller has a record only on its way through Register; between two      *)
(* synchronisations the loader waits for the watch, which has missed        *)
(* nothing before it began; the reaper only registers.                     *)
RecordHeld ==
  /\ \A c \in Callers : arg[c] # None => pc[c] = "swap" \/ new[c] # None
  /\ pc[Yaml] \in AtRest => pc[Yaml] = "rest" \/ up = "down"
  /\ up = "booting" => ~missed
  /\ pc[Reaper] # "unmap"

LEMMA NextRecordHeld == TypeOK /\ RecordHeld /\ [Next]_vars => RecordHeld'
<1> SUFFICES ASSUME TypeOK, RecordHeld, [Next]_vars PROVE RecordHeld'
  OBVIOUS
<1> USE DEF TypeOK, RegistryTypes, CallerTypes, RecordHeld, AtRest, Goto,
            callers, yamlVars, history, Callers, Registering
<1>1. CASE UNCHANGED vars
  BY <1>1 DEF vars
<1>2. ASSUME NEW c \in Callers, SwapSession(c)
      PROVE  RecordHeld'
  BY <1>2 DEF SwapSession
<1>3. ASSUME NEW c \in Callers, StopSession(c)
      PROVE  RecordHeld'
  BY <1>3 DEF StopSession, Stops, Replaced
<1>4. ASSUME NEW c \in Callers, StopNothing(c)
      PROVE  RecordHeld'
  BY <1>4 DEF StopNothing, Stops, Replaced, AfterStop
<1>5. ASSUME NEW c \in Callers, StoreOffline(c)
      PROVE  RecordHeld'
  BY <1>5 DEF StoreOffline, AfterStop
<1>6. ASSUME NEW c \in Callers, StartSession(c)
      PROVE  RecordHeld'
  BY <1>6 DEF StartSession
<1>7. ASSUME NEW c \in Callers, StoreOnline(c)
      PROVE  RecordHeld'
  BY <1>7 DEF StoreOnline
<1>8. ASSUME NEW c \in Callers, StoreRecord(c)
      PROVE  RecordHeld'
  BY <1>8 DEF StoreRecord, Returns, Return
<1>9. ASSUME NEW c \in Callers, UnmapSession(c)
      PROVE  RecordHeld'
  BY <1>9 DEF UnmapSession
<1>10. ASSUME NEW c \in Callers, StoreDeleted(c)
      PROVE  RecordHeld'
  BY <1>10 DEF StoreDeleted, Returns, Return
<1>11. ASSUME NEW s \in Sessions, Connect(s)
      PROVE  RecordHeld'
  BY <1>11 DEF Connect
<1>12. ASSUME NEW s \in Sessions, Panic(s)
      PROVE  RecordHeld'
  BY <1>12 DEF Panic
<1>13. ASSUME NEW a \in Admins, AdminDelete(a)
      PROVE  RecordHeld'
  BY <1>13 DEF AdminDelete
<1>14. ASSUME NEW a \in Admins, NEW r \in Records, AdminPost(a, r)
      PROVE  RecordHeld'
  BY <1>14 DEF AdminPost, CallRegister
<1>15. ASSUME NEW w \in Webhooks, WebhookGet(w)
      PROVE  RecordHeld'
  BY <1>15 DEF WebhookGet
<1>16. ASSUME NEW w \in Webhooks, WebhookTouch(w)
      PROVE  RecordHeld'
  BY <1>16 DEF WebhookTouch
<1>17. ASSUME NEW f \in Records \cup {None, Broken}, EditFile(f)
      PROVE  RecordHeld'
  BY <1>17 DEF EditFile
<1>18. ASSUME ReaperTick
      PROVE  RecordHeld'
  BY <1>18 DEF ReaperTick, CallRegister
<1>19. ASSUME LoadFromStore
      PROVE  RecordHeld'
  BY <1>19 DEF LoadFromStore, CallRegister
<1>20. ASSUME SyncRead
      PROVE  RecordHeld'
  BY <1>20 DEF SyncRead, CallRegister
<1>21. ASSUME SyncCache
      PROVE  RecordHeld'
  BY <1>21 DEF SyncCache
<1>22. ASSUME SyncPrune
      PROVE  RecordHeld'
  BY <1>22 DEF SyncPrune
<1>23. ASSUME Synced
      PROVE  RecordHeld'
  BY <1>23 DEF Synced
<1>24. ASSUME Resync
      PROVE  RecordHeld'
  BY <1>24 DEF Resync
<1>25. ASSUME Terminate
      PROVE  RecordHeld'
  BY <1>25 DEF Terminate
<1>26. ASSUME StopAll
      PROVE  RecordHeld'
  BY <1>26 DEF StopAll
<1>27. ASSUME Exit
      PROVE  RecordHeld'
  BY <1>27 DEF Exit, EndProcess
<1>28. ASSUME Crash
      PROVE  RecordHeld'
  BY <1>28 DEF Crash, EndProcess
<1>29. ASSUME Restart
      PROVE  RecordHeld'
  BY <1>29 DEF Restart
<1> QED
  BY <1>1, <1>2, <1>3, <1>4, <1>5, <1>6, <1>7, <1>8, <1>9, <1>10, <1>11,
     <1>12, <1>13, <1>14, <1>15, <1>16, <1>17, <1>18, <1>19, <1>20, <1>21,
     <1>22, <1>23, <1>24, <1>25, <1>26, <1>27, <1>28, <1>29 DEF Next,
     CallerStep, YamlStep

(* Without an admin request nothing has source admin. *)
NoAdminRow ==
  /\ row.status # "absent" => row.source # "admin"
  /\ \A c \in Callers : arg[c] # None => arg[c].source # "admin"

LEMMA NextNoAdmin ==
  TypeOK /\ (~AdminActed => NoAdminRow) /\ [Next]_vars
    => (~AdminActed' => ~AdminActed /\ NoAdminRow')
<1> SUFFICES ASSUME TypeOK, ~AdminActed => NoAdminRow, [Next]_vars
             PROVE  ~AdminActed' => ~AdminActed /\ NoAdminRow'
  OBVIOUS
<1> USE DEF TypeOK, RegistryTypes, CallerTypes, AdminActed, NoAdminRow, Goto,
            callers, Callers, Args, Rows, NoRow
<1>1. CASE UNCHANGED vars
  BY <1>1 DEF vars
<1>2. ASSUME NEW c \in Callers, SwapSession(c)
      PROVE  ~AdminActed' => ~AdminActed /\ NoAdminRow'
  BY <1>2 DEF SwapSession
<1>3. ASSUME NEW c \in Callers, StopSession(c)
      PROVE  ~AdminActed' => ~AdminActed /\ NoAdminRow'
  BY <1>3 DEF StopSession, Stops, Replaced
<1>4. ASSUME NEW c \in Callers, StopNothing(c)
      PROVE  ~AdminActed' => ~AdminActed /\ NoAdminRow'
  BY <1>4 DEF StopNothing, Stops, Replaced, AfterStop
<1>5. ASSUME NEW c \in Callers, StoreOffline(c)
      PROVE  ~AdminActed' => ~AdminActed /\ NoAdminRow'
  BY <1>5 DEF StoreOffline, AfterStop, SetRobotStatus
<1>6. ASSUME NEW c \in Callers, StartSession(c)
      PROVE  ~AdminActed' => ~AdminActed /\ NoAdminRow'
  BY <1>6 DEF StartSession
<1>7. ASSUME NEW c \in Callers, StoreOnline(c)
      PROVE  ~AdminActed' => ~AdminActed /\ NoAdminRow'
  <2>1. arg[c] \in Args /\ arg[c] # None
    BY <1>7 DEF StoreOnline
  <2> QED BY <2>1, <1>7 DEF StoreOnline, UpsertRobot
<1>8. ASSUME NEW c \in Callers, StoreRecord(c)
      PROVE  ~AdminActed' => ~AdminActed /\ NoAdminRow'
  <2>1. arg[c] \in Args /\ arg[c] # None
    BY <1>8 DEF StoreRecord, Returns
  <2> QED BY <2>1, <1>8 DEF StoreRecord, Returns, Return, UpsertRobot
<1>9. ASSUME NEW c \in Callers, UnmapSession(c)
      PROVE  ~AdminActed' => ~AdminActed /\ NoAdminRow'
  BY <1>9 DEF UnmapSession
<1>10. ASSUME NEW c \in Callers, StoreDeleted(c)
      PROVE  ~AdminActed' => ~AdminActed /\ NoAdminRow'
  BY <1>10 DEF StoreDeleted, Returns, Return, SetRobotStatus
<1>11. ASSUME NEW s \in Sessions, Connect(s)
      PROVE  ~AdminActed' => ~AdminActed /\ NoAdminRow'
  BY <1>11 DEF Connect
<1>12. ASSUME NEW s \in Sessions, Panic(s)
      PROVE  ~AdminActed' => ~AdminActed /\ NoAdminRow'
  BY <1>12 DEF Panic, SetRobotStatus
<1>13. ASSUME NEW a \in Admins, AdminDelete(a)
      PROVE  ~AdminActed' => ~AdminActed /\ NoAdminRow'
  BY <1>13 DEF AdminDelete
<1>14. ASSUME NEW a \in Admins, NEW r \in Records, AdminPost(a, r)
      PROVE  ~AdminActed' => ~AdminActed /\ NoAdminRow'
  BY <1>14 DEF AdminPost, CallRegister, Arg
<1>15. ASSUME NEW w \in Webhooks, WebhookGet(w)
      PROVE  ~AdminActed' => ~AdminActed /\ NoAdminRow'
  BY <1>15 DEF WebhookGet
<1>16. ASSUME NEW w \in Webhooks, WebhookTouch(w)
      PROVE  ~AdminActed' => ~AdminActed /\ NoAdminRow'
  BY <1>16 DEF WebhookTouch, SetRobotStatus
<1>17. ASSUME NEW f \in Records \cup {None, Broken}, EditFile(f)
      PROVE  ~AdminActed' => ~AdminActed /\ NoAdminRow'
  BY <1>17 DEF EditFile
<1>18. ASSUME ReaperTick
      PROVE  ~AdminActed' => ~AdminActed /\ NoAdminRow'
  BY <1>18 DEF ReaperTick, CallRegister, Arg
<1>19. ASSUME LoadFromStore
      PROVE  ~AdminActed' => ~AdminActed /\ NoAdminRow'
  BY <1>19 DEF LoadFromStore, CallRegister, Arg, ListActiveRobots
<1>20. ASSUME SyncRead
      PROVE  ~AdminActed' => ~AdminActed /\ NoAdminRow'
  <2>1. CASE Unapplied
    BY <2>1, <1>20 DEF SyncRead, CallRegister, Arg
  <2>2. CASE ~Unapplied
    BY <2>2, <1>20 DEF SyncRead
  <2> QED BY <2>1, <2>2
<1>21. ASSUME SyncCache
      PROVE  ~AdminActed' => ~AdminActed /\ NoAdminRow'
  BY <1>21 DEF SyncCache
<1>22. ASSUME SyncPrune
      PROVE  ~AdminActed' => ~AdminActed /\ NoAdminRow'
  BY <1>22 DEF SyncPrune
<1>23. ASSUME Synced
      PROVE  ~AdminActed' => ~AdminActed /\ NoAdminRow'
  BY <1>23 DEF Synced
<1>24. ASSUME Resync
      PROVE  ~AdminActed' => ~AdminActed /\ NoAdminRow'
  BY <1>24 DEF Resync
<1>25. ASSUME Terminate
      PROVE  ~AdminActed' => ~AdminActed /\ NoAdminRow'
  BY <1>25 DEF Terminate
<1>26. ASSUME StopAll
      PROVE  ~AdminActed' => ~AdminActed /\ NoAdminRow'
  BY <1>26 DEF StopAll
<1>27. ASSUME Exit
      PROVE  ~AdminActed' => ~AdminActed /\ NoAdminRow'
  BY <1>27 DEF Exit, EndProcess
<1>28. ASSUME Crash
      PROVE  ~AdminActed' => ~AdminActed /\ NoAdminRow'
  BY <1>28 DEF Crash, EndProcess
<1>29. ASSUME Restart
      PROVE  ~AdminActed' => ~AdminActed /\ NoAdminRow'
  BY <1>29 DEF Restart
<1> QED
  BY <1>1, <1>2, <1>3, <1>4, <1>5, <1>6, <1>7, <1>8, <1>9, <1>10, <1>11,
     <1>12, <1>13, <1>14, <1>15, <1>16, <1>17, <1>18, <1>19, <1>20, <1>21,
     <1>22, <1>23, <1>24, <1>25, <1>26, <1>27, <1>28, <1>29 DEF Next,
     CallerStep, YamlStep

(* What the loader knows of the file and the map at each stage of a         *)
(* synchronisation, as long as it is alone with the reaper and a shutdown:  *)
(* the cache holds the record the session in the map runs with, which the   *)
(* reaper registers once more from the row.                                *)
CacheInv ==
  /\ pc[Yaml] = "load" => cache = None /\ want = None
  /\ pc[Yaml] \in {"swap"} \cup Registering /\ arg[Yaml] # None =>
       want = arg[Yaml].rec \/ (want = None /\ cache = None)
  /\ pc[Yaml] \in {"unmap", "mark"} => cache = None
  /\ pc[Yaml] \in Registering /\ arg[Yaml] = None => cache = None
  /\ pc[Yaml] = "prune" => want = cache
  /\ pc[Yaml] = "cache" /\ want # None => mapped # None /\ conf[mapped] = want
  /\ pc[Yaml] \in {"sync", "prune", "synced"} \cup AtRest /\ cache # None =>
       mapped # None /\ conf[mapped] = cache
  /\ pc[Reaper] = "swap" =>
       mapped # None /\ (cache # None => arg[Reaper].rec = cache)

(* A file that was not edited since it was read is what the synchronisation *)
(* wants, and what the cache holds from its last stages on.                *)
FileInv ==
  ~changed /\ ~missed /\ file # Broken =>
    /\ pc[Yaml] = "cache" => want = file
    /\ pc[Yaml] \in {"swap"} \cup Registering /\ arg[Yaml] # None /\ want # None =>
         want = file
    /\ pc[Yaml] \in Registering /\ arg[Yaml] = None => cache = file
    /\ pc[Yaml] \in {"prune", "synced", "rest", "unmap", "mark"} => cache = file
    /\ pc[Yaml] \in {"synced", "rest"} /\ file = None => mapped = None

(* Without admin requests, the loader, the reaper and a shutdown are all    *)
(* the callers that can be at work, one of them at a time.                 *)
LEMMA CallersAtWork ==
  ASSUME TypeOK, ~AdminActed, NEW c \in Callers, pc[c] \notin AtRest
  PROVE  c \in {Yaml, Reaper, Term}
BY DEF Callers, AdminActed, AtRest

LEMMA NextCacheInv ==
  ASSUME TypeOK, MapInv, DownInv, SoloInv, RowInv, RecordHeld, CacheInv,
         ~contended', ~AdminActed, ~AdminActed', [Next]_vars
  PROVE  CacheInv'
<1> USE DEF TypeOK, RegistryTypes, CallerTypes, InputTypes, Goto, registry,
            callers, yamlVars, history, Registering, AtRest
<1>b. /\ Yaml \in Callers /\ Reaper \in Callers /\ Term \in Callers
      /\ Admins \subseteq Callers
  BY DEF Callers
<1>c. ASSUME NEW c \in Callers, pc[c] \notin AtRest
      PROVE  /\ \A d \in Callers \ {c} : pc[d] \in AtRest
             /\ c \in {Yaml, Reaper, Term}
  BY <1>c, AloneAtWork, CallersAtWork DEF SoloInv
<1>n. /\ \A c \in Callers : arg[c] # None => pc[c] = "swap" \/ new[c] # None
      /\ pc[Yaml] \in AtRest => pc[Yaml] = "rest" \/ up = "down"
      /\ up = "booting" => ~missed
      /\ pc[Reaper] # "unmap"
  BY DEF RecordHeld
<1> USE <1>b DEF CacheInv
<1>1. CASE UNCHANGED vars
  BY <1>1, <1>c DEF vars
<1>2. ASSUME NEW c \in Callers, SwapSession(c)
      PROVE  CacheInv'
  <2>1. PICK s \in Sessions :
          /\ mapped' = s /\ new' = [new EXCEPT ![c] = s]
          /\ conf' = [conf EXCEPT ![s] = arg[c].rec]
    BY <1>2 DEF SwapSession
  <2>2. c \in {Yaml, Reaper} /\ UNCHANGED <<arg, cache, want>>
    BY <1>c, <1>2 DEF SwapSession
  <2>3. conf'[mapped'] = arg[c].rec /\ mapped' # None
    BY <2>1
  <2>4. CASE c = Yaml
    <3>1. /\ pc[Yaml] = "swap" /\ pc'[Yaml] = "stop" /\ pc'[Reaper] # "swap"
      BY <1>c, <2>4, <1>2 DEF SwapSession
    <3>2. arg[Yaml] # None
      BY <3>1
    <3> QED BY <2>2, <3>1, <3>2
  <2>5. CASE c = Reaper
    <3>1. /\ pc[Reaper] = "swap" /\ pc'[Reaper] = "stop" /\ pc'[Yaml] = pc[Yaml]
          /\ pc[Yaml] \in AtRest
      BY <1>c, <2>5, <1>2 DEF SwapSession
    <3> QED BY <2>2, <2>3, <2>5, <3>1
  <2> QED BY <2>2, <2>4, <2>5
<1>3. ASSUME NEW c \in Callers, StopSession(c)
      PROVE  CacheInv'
  BY <1>c, <1>3 DEF StopSession, Stops, Replaced
<1>4. ASSUME NEW c \in Callers, StopNothing(c)
      PROVE  CacheInv'
  <2>1. c = Yaml /\ new[c] = None => arg[c] = None
    BY <1>n, <1>4 DEF StopNothing
  <2> QED BY <1>c, <2>1, <1>4 DEF StopNothing, AfterStop
<1>5. ASSUME NEW c \in Callers, StoreOffline(c)
      PROVE  CacheInv'
  <2>1. c = Yaml /\ new[c] = None => arg[c] = None
    BY <1>n, <1>5 DEF StoreOffline
  <2> QED BY <1>c, <2>1, <1>5 DEF StoreOffline, AfterStop
<1>6. ASSUME NEW c \in Callers, StartSession(c)
      PROVE  CacheInv'
  BY <1>c, <1>6 DEF StartSession
<1>7. ASSUME NEW c \in Callers, StoreOnline(c)
      PROVE  CacheInv'
  BY <1>c, <1>7 DEF StoreOnline
<1>8. ASSUME NEW c \in Callers, StoreRecord(c)
      PROVE  CacheInv'
  <2>1. /\ new[c] # None /\ mapped = new[c] /\ conf[mapped] = arg[c].rec
        /\ arg[c] \in Args /\ arg[c] # None
    BY <1>8 DEF StoreRecord, Returns, SoloInv, NewMapped
  <2>2. UNCHANGED <<mapped, conf, cache, want>> /\ pc[c] = "upsert"
        /\ pc' = [pc EXCEPT ![c] = Return(c)]
        /\ arg' = [arg EXCEPT ![c] = None]
    BY <1>8 DEF StoreRecord, Returns
  <2>3. CASE c = Yaml
    BY <1>c, <2>1, <2>2, <2>3 DEF Return
  <2>4. CASE c # Yaml
    BY <1>c, <2>1, <2>2, <2>4 DEF Return
  <2> QED BY <2>3, <2>4
<1>9. ASSUME NEW c \in Callers, UnmapSession(c)
      PROVE  CacheInv'
  <2>1. c = Yaml => arg[c] = None
    BY <1>n, <1>9 DEF UnmapSession
  <2> QED BY <1>c, <1>n, <2>1, <1>9 DEF UnmapSession
<1>10. ASSUME NEW c \in Callers, StoreDeleted(c)
      PROVE  CacheInv'
  <2>1. c = Yaml => arg[c] = None
    BY <1>n, <1>10 DEF StoreDeleted, Returns
  <2> QED BY <1>c, <2>1, <1>10 DEF StoreDeleted, Returns, Return
<1>11. ASSUME NEW s \in Sessions, Connect(s)
      PROVE  CacheInv'
  BY <1>c, <1>11 DEF Connect
<1>12. ASSUME NEW s \in Sessions, Panic(s)
      PROVE  CacheInv'
  BY <1>c, <1>12 DEF Panic
<1>13. ASSUME NEW a \in Admins, AdminDelete(a)
      PROVE  CacheInv'
  <2>1. AdminActed'
    BY <1>13 DEF AdminDelete, AdminActed
  <2> QED BY <2>1
<1>14. ASSUME NEW a \in Admins, NEW r \in Records, AdminPost(a, r)
      PROVE  CacheInv'
  <2>1. AdminActed'
    BY <1>14 DEF AdminPost, CallRegister, AdminActed
  <2> QED BY <2>1
<1>15. ASSUME NEW w \in Webhooks, WebhookGet(w)
      PROVE  CacheInv'
  BY <1>c, <1>15 DEF WebhookGet
<1>16. ASSUME NEW w \in Webhooks, WebhookTouch(w)
      PROVE  CacheInv'
  BY <1>c, <1>16 DEF WebhookTouch
<1>17. ASSUME NEW f \in Records \cup {None, Broken}, EditFile(f)
      PROVE  CacheInv'
  BY <1>c, <1>17 DEF EditFile
<1>18. ASSUME ReaperTick
      PROVE  CacheInv'
  <2>1. \A d \in Callers : pc[d] \in AtRest
    BY <1>18, BeginsAlone DEF ReaperTick
  <2>2. Settled
    <3>1. pc[Term] # "done"
      BY <1>18 DEF ReaperTick, RowInv, RowAtEnds
    <3> QED BY <2>1, <3>1 DEF Settled
  <2>3. mapped # None /\ row.rec = conf[mapped]
    BY <2>2, <1>18 DEF ReaperTick, RowInv, RowSettled, ListActiveRobots
  <2>4. arg' = [arg EXCEPT ![Reaper] = Arg(row.rec, row.source, "online")]
        /\ pc' = [pc EXCEPT ![Reaper] = "swap"]
        /\ UNCHANGED <<mapped, conf, cache, want>>
    BY <1>18 DEF ReaperTick, CallRegister
  <2>5. arg'[Reaper].rec = row.rec
    BY <2>4 DEF Arg
  <2>6. pc'[Yaml] = pc[Yaml] /\ arg'[Yaml] = arg[Yaml] /\ pc[Yaml] \in AtRest
    BY <2>1, <2>4
  <2> QED BY <2>3, <2>4, <2>5, <2>6
<1>19. ASSUME LoadFromStore
      PROVE  CacheInv'
  BY <1>c, <1>19 DEF LoadFromStore, CallRegister
<1>20. ASSUME SyncRead
      PROVE  CacheInv'
  <2>1. pc'[Reaper] # "swap" /\ UNCHANGED <<mapped, conf, cache>>
    BY <1>c, <1>20 DEF SyncRead, CallRegister
  <2>2. CASE Unapplied
    <3>1. /\ pc'[Yaml] = "swap" /\ want' = file
          /\ arg'[Yaml] = Arg(file, "yaml", "unset")
      BY <2>2, <1>20 DEF SyncRead, CallRegister, Unapplied
    <3> QED BY <2>1, <3>1 DEF Arg
  <2>3. CASE ~Unapplied
    BY <2>1, <2>3, <1>20 DEF SyncRead, Unapplied
  <2> QED BY <2>2, <2>3
<1>21. ASSUME SyncCache
      PROVE  CacheInv'
  BY <1>c, <1>21 DEF SyncCache
<1>22. ASSUME SyncPrune
      PROVE  CacheInv'
  BY <1>c, <1>22 DEF SyncPrune
<1>23. ASSUME Synced
      PROVE  CacheInv'
  BY <1>c, <1>23 DEF Synced
<1>24. ASSUME Resync
      PROVE  CacheInv'
  BY <1>c, BeginsAlone, <1>24 DEF Resync
<1>25. ASSUME Terminate
      PROVE  CacheInv'
  BY <1>c, BeginsAlone, <1>25 DEF Terminate
<1>26. ASSUME StopAll
      PROVE  CacheInv'
  BY <1>c, <1>26 DEF StopAll
<1>27. ASSUME Exit
      PROVE  CacheInv'
  BY <1>c, <1>27 DEF Exit, EndProcess
<1>28. ASSUME Crash
      PROVE  CacheInv'
  BY <1>c, <1>28 DEF Crash, EndProcess
<1>29. ASSUME Restart
      PROVE  CacheInv'
  <2>1. /\ pc'[Yaml] = "load" /\ pc'[Reaper] # "swap"
        /\ cache' = None /\ want' = None
    BY <1>29 DEF Restart, DownInv
  <2> QED BY <2>1
<1> QED
  BY <1>1, <1>2, <1>3, <1>4, <1>5, <1>6, <1>7, <1>8, <1>9, <1>10, <1>11,
     <1>12, <1>13, <1>14, <1>15, <1>16, <1>17, <1>18, <1>19, <1>20, <1>21,
     <1>22, <1>23, <1>24, <1>25, <1>26, <1>27, <1>28, <1>29 DEF Next,
     CallerStep, YamlStep

LEMMA NextFileInv ==
  ASSUME TypeOK, MapInv, DownInv, SoloInv, RowInv, RecordHeld, CacheInv, FileInv,
         NoAdminRow, ~contended', ~AdminActed, ~AdminActed', [Next]_vars
  PROVE  FileInv'
<1> USE DEF TypeOK, RegistryTypes, CallerTypes, InputTypes, Goto, registry,
            callers, yamlVars, history, Registering, AtRest
<1>b. /\ Yaml \in Callers /\ Reaper \in Callers /\ Term \in Callers
      /\ Admins \subseteq Callers
  BY DEF Callers
<1>c. ASSUME NEW c \in Callers, pc[c] \notin AtRest
      PROVE  /\ \A d \in Callers \ {c} : pc[d] \in AtRest
             /\ c \in {Yaml, Reaper, Term}
  BY <1>c, AloneAtWork, CallersAtWork DEF SoloInv
<1>n. /\ \A c \in Callers : arg[c] # None => pc[c] = "swap" \/ new[c] # None
      /\ pc[Yaml] \in AtRest => pc[Yaml] = "rest" \/ up = "down"
      /\ up = "booting" => ~missed
      /\ pc[Reaper] # "unmap"
  BY DEF RecordHeld
<1> USE <1>b DEF FileInv
<1>1. CASE UNCHANGED vars
  BY <1>1, <1>c DEF vars
<1>2. ASSUME NEW c \in Callers, SwapSession(c)
      PROVE  FileInv'
  <2>1. CASE c = Yaml
    BY <2>1, <1>c, <1>2 DEF SwapSession
  <2>2. CASE c = Reaper
    <3>1. pc[Yaml] \in AtRest /\ mapped # None
      BY <2>2, <1>c, <1>2 DEF SwapSession, CacheInv
    <3> QED BY <2>2, <3>1, <1>2 DEF SwapSession
  <2>3. c # Term
    BY <1>2 DEF SwapSession
  <2> QED BY <1>c, <2>1, <2>2, <2>3, <1>2 DEF SwapSession
<1>3. ASSUME NEW c \in Callers, StopSession(c)
      PROVE  FileInv'
  BY <1>c, <1>3 DEF StopSession, Stops, Replaced
<1>4. ASSUME NEW c \in Callers, StopNothing(c)
      PROVE  FileInv'
  <2>1. c = Yaml /\ new[c] = None => arg[c] = None
    BY <1>n, <1>4 DEF StopNothing
  <2> QED BY <1>c, <2>1, <1>4 DEF StopNothing, AfterStop
<1>5. ASSUME NEW c \in Callers, StoreOffline(c)
      PROVE  FileInv'
  <2>1. c = Yaml /\ new[c] = None => arg[c] = None
    BY <1>n, <1>5 DEF StoreOffline
  <2> QED BY <1>c, <2>1, <1>5 DEF StoreOffline, AfterStop
<1>6. ASSUME NEW c \in Callers, StartSession(c)
      PROVE  FileInv'
  BY <1>c, <1>6 DEF StartSession
<1>7. ASSUME NEW c \in Callers, StoreOnline(c)
      PROVE  FileInv'
  BY <1>c, <1>7 DEF StoreOnline
<1>8. ASSUME NEW c \in Callers, StoreRecord(c)
      PROVE  FileInv'
  <2>1. arg[c] \in Args /\ arg[c] # None /\ arg[c].rec # None
    BY <1>8 DEF StoreRecord, Returns, Args
  <2>2. UNCHANGED <<mapped, conf, cache, want, file, changed, missed>>
        /\ pc[c] = "upsert" /\ pc' = [pc EXCEPT ![c] = Return(c)]
        /\ arg' = [arg EXCEPT ![c] = None]
    BY <1>8 DEF StoreRecord, Returns
  <2>3. CASE c = Yaml
    BY <1>c, <2>1, <2>2, <2>3 DEF Return
  <2>4. CASE c # Yaml
    BY <1>c, <2>1, <2>2, <2>4 DEF Return
  <2> QED BY <2>3, <2>4
<1>9. ASSUME NEW c \in Callers, UnmapSession(c)
      PROVE  FileInv'
  <2>1. c = Yaml => arg[c] = None
    BY <1>n, <1>9 DEF UnmapSession
  <2> QED BY <1>c, <1>n, <2>1, <1>9 DEF UnmapSession
<1>10. ASSUME NEW c \in Callers, StoreDeleted(c)
      PROVE  FileInv'
  <2>1. new[c] = None /\ c # Term
    BY <1>10 DEF StoreDeleted, Returns
  <2>2. arg[c] = None /\ mapped = None
    BY <1>n, <2>1, <1>10 DEF StoreDeleted, Returns, SoloInv, Emptied
  <2> QED BY <1>c, <2>1, <2>2, <1>10 DEF StoreDeleted, Returns, Return
<1>11. ASSUME NEW s \in Sessions, Connect(s)
      PROVE  FileInv'
  BY <1>c, <1>11 DEF Connect
<1>12. ASSUME NEW s \in Sessions, Panic(s)
      PROVE  FileInv'
  BY <1>c, <1>12 DEF Panic
<1>13. ASSUME NEW a \in Admins, AdminDelete(a)
      PROVE  FileInv'
  <2>1. AdminActed'
    BY <1>13 DEF AdminDelete, AdminActed
  <2> QED BY <2>1
<1>14. ASSUME NEW a \in Admins, NEW r \in Records, AdminPost(a, r)
      PROVE  FileInv'
  <2>1. AdminActed'
    BY <1>14 DEF AdminPost, CallRegister, AdminActed
  <2> QED BY <2>1
<1>15. ASSUME NEW w \in Webhooks, WebhookGet(w)
      PROVE  FileInv'
  BY <1>c, <1>15 DEF WebhookGet
<1>16. ASSUME NEW w \in Webhooks, WebhookTouch(w)
      PROVE  FileInv'
  BY <1>c, <1>16 DEF WebhookTouch
<1>17. ASSUME NEW f \in Records \cup {None, Broken}, EditFile(f)
      PROVE  FileInv'
  BY <1>17 DEF EditFile
<1>18. ASSUME ReaperTick
      PROVE  FileInv'
  <2>1. \A d \in Callers : pc[d] \in AtRest
    BY <1>18, BeginsAlone DEF ReaperTick
  <2>2. /\ pc' = [pc EXCEPT ![Reaper] = "swap"]
        /\ UNCHANGED <<mapped, cache, want, file, changed, missed>>
    BY <1>18 DEF ReaperTick, CallRegister
  <2>3. pc'[Yaml] = pc[Yaml] /\ pc[Yaml] \in AtRest
    BY <2>1, <2>2
  <2> QED BY <2>2, <2>3
<1>19. ASSUME LoadFromStore
      PROVE  FileInv'
  BY <1>c, <1>19 DEF LoadFromStore, CallRegister, CacheInv
<1>20. ASSUME SyncRead
      PROVE  FileInv'
  <2>1. CASE Unapplied
    BY <2>1, <1>20 DEF SyncRead, CallRegister, Unapplied
  <2>2. CASE ~Unapplied
    BY <2>2, <1>20 DEF SyncRead
  <2> QED BY <2>1, <2>2
<1>21. ASSUME SyncCache
      PROVE  FileInv'
  BY <1>c, <1>21 DEF SyncCache
<1>22. ASSUME SyncPrune
      PROVE  FileInv'
  <2>1. want = cache
    BY <1>22 DEF SyncPrune, CacheInv
  <2>2. ASSUME want = None, ~(ListActiveRobots /\ row.source = "yaml")
        PROVE  mapped = None
    <3>1. \A d \in Callers \ {Yaml} : pc[d] \in AtRest
      BY <1>c, <1>22 DEF SyncPrune
    <3>2. up # "down"
      BY <1>22 DEF SyncPrune
    <3>3. Settled
      BY <3>1, <3>2, <1>22 DEF SyncPrune, Settled, RowInv, RowAtEnds
    <3>4. row.source \in {"admin", "yaml"} \/ ~ListActiveRobots
      BY DEF Rows, NoRow, ListActiveRobots
    <3> QED
      BY <2>2, <3>2, <3>3, <3>4
         DEF NoAdminRow, RowInv, RowSettled, ListActiveRobots
  <2> QED BY <2>1, <2>2, <1>22 DEF SyncPrune
<1>23. ASSUME Synced
      PROVE  FileInv'
  <2>1. /\ pc[Yaml] = "synced" /\ pc' = [pc EXCEPT ![Yaml] = "rest"]
        /\ UNCHANGED <<file, cache, mapped>>
    BY <1>23 DEF Synced
  <2>2. ~changed' /\ ~missed' => ~changed /\ ~missed
    BY <1>n, <1>23 DEF Synced
  <2> QED BY <2>1, <2>2
<1>24. ASSUME Resync
      PROVE  FileInv'
  BY <1>c, BeginsAlone, <1>24 DEF Resync
<1>25. ASSUME Terminate
      PROVE  FileInv'
  BY <1>c, BeginsAlone, <1>25 DEF Terminate
<1>26. ASSUME StopAll
      PROVE  FileInv'
  BY <1>c, <1>26 DEF StopAll
<1>27. ASSUME Exit
      PROVE  FileInv'
  BY <1>c, <1>27 DEF Exit, EndProcess
<1>28. ASSUME Crash
      PROVE  FileInv'
  BY <1>c, <1>28 DEF Crash, EndProcess
<1>29. ASSUME Restart
      PROVE  FileInv'
  <2>1. pc'[Yaml] = "load"
    BY <1>29 DEF Restart
  <2> QED BY <2>1
<1> QED
  BY <1>1, <1>2, <1>3, <1>4, <1>5, <1>6, <1>7, <1>8, <1>9, <1>10, <1>11,
     <1>12, <1>13, <1>14, <1>15, <1>16, <1>17, <1>18, <1>19, <1>20, <1>21,
     <1>22, <1>23, <1>24, <1>25, <1>26, <1>27, <1>28, <1>29 DEF Next,
     CallerStep, YamlStep

(* A restart of a process forgets the cache and begins with the store. *)
LEMMA RestartSync ==
  ASSUME TypeOK, DownInv, Restart
  PROVE  CacheInv' /\ FileInv'
<1>1. /\ pc'[Yaml] = "load" /\ pc'[Reaper] # "swap"
      /\ cache' = None /\ want' = None
  BY DEF Restart, DownInv, TypeOK, CallerTypes, Callers, AtRest, yamlVars
<1> QED BY <1>1 DEF CacheInv, FileInv, Registering, AtRest

LEMMA NextSyncInv ==
  TypeOK /\ MapInv /\ DownInv /\ RecordHeld /\ (~contended => SoloInv /\ RowInv)
  /\ (~AdminActed => NoAdminRow)
  /\ (~contended /\ ~AdminActed => CacheInv /\ FileInv) /\ [Next]_vars
    => (~contended' /\ ~AdminActed' => CacheInv' /\ FileInv')
<1> SUFFICES ASSUME TypeOK, MapInv, DownInv, RecordHeld,
                    ~contended => SoloInv /\ RowInv,
                    ~AdminActed => NoAdminRow,
                    ~contended /\ ~AdminActed => CacheInv /\ FileInv,
                    [Next]_vars, ~contended', ~AdminActed'
             PROVE  CacheInv' /\ FileInv'
  OBVIOUS
<1>1. ~AdminActed /\ NoAdminRow
  BY NextNoAdmin
<1>2. CASE Restart
  BY <1>2, RestartSync
<1>3. CASE ~contended
  BY <1>1, <1>3, NextCacheInv, NextFileInv
<1> QED BY <1>2, <1>3, ContendedStays

LEMMA InitSync == Init => RecordHeld /\ NoAdminRow /\ CacheInv /\ FileInv
<1> SUFFICES ASSUME Init PROVE RecordHeld /\ NoAdminRow /\ CacheInv /\ FileInv
  OBVIOUS
<1>1. /\ pc[Yaml] = "load" /\ pc[Reaper] = "idle" /\ cache = None /\ want = None
      /\ \A c \in Callers : arg[c] = None
  BY DEF Init, Callers
<1>2. CacheInv /\ FileInv
  BY <1>1 DEF CacheInv, FileInv, Registering, AtRest
<1>3. NoAdminRow
  <2>1. row.status = "absent"
    BY DEF Init, NoRow
  <2> QED BY <1>1, <2>1 DEF NoAdminRow
<1>4. RecordHeld
  BY <1>1 DEF Init, RecordHeld, AtRest
<1> QED BY <1>2, <1>3, <1>4

LEMMA SyncAlways ==
  Spec => []/\ RecordHeld
            /\ ~AdminActed => NoAdminRow
            /\ ~contended /\ ~AdminActed => CacheInv /\ FileInv
<1> DEFINE Held == /\ TypeOK /\ MapInv /\ DownInv
                   /\ ~contended => SoloInv
           Sync == /\ RecordHeld
                   /\ ~AdminActed => NoAdminRow
                   /\ ~contended /\ ~AdminActed => CacheInv /\ FileInv
<1>1. Init => Sync
  BY InitSync
<1>2. Held /\ (~contended => RowInv) /\ Sync /\ [Next]_vars => Sync'
  BY NextRecordHeld, NextNoAdmin, NextSyncInv
<1> QED BY <1>1, <1>2, SoloAlways, RowAlways, PTL DEF Spec

(* A file that was read completely and not edited since, and that no admin  *)
(* request and no overlap of callers interfered with, is what runs: the     *)
(* robot in it has a session with its record, whoever registered it last,   *)
(* and one that came from it and is gone has none (robots_yaml.go:27-135).  *)
THEOREM UneditedFileRuns == Spec => []YamlApplied
<1>1. TypeOK /\ RecordHeld /\ CacheInv /\ FileInv /\ Quiet /\ ~missed /\ ~changed
        => /\ file \in Records => mapped # None /\ conf[mapped] = file
           /\ file = None /\ row.source = "yaml" => mapped = None
  <2> SUFFICES ASSUME TypeOK, RecordHeld, CacheInv, FileInv, Quiet, ~missed,
                      ~changed, file # Broken
               PROVE  /\ file \in Records => mapped # None /\ conf[mapped] = file
                      /\ file = None => mapped = None
    OBVIOUS
  <2>1. pc[Yaml] = "rest"
    BY DEF Quiet, Busy, RecordHeld, AtRest, Callers
  <2>2. cache = file
    BY <2>1 DEF FileInv
  <2> QED BY <2>1, <2>2 DEF FileInv, CacheInv, AtRest
<1>2. (~contended /\ ~AdminActed => CacheInv /\ FileInv) /\ TypeOK /\ RecordHeld
        => YamlApplied
  BY <1>1 DEF YamlApplied
<1> QED BY <1>2, SoloAlways, SyncAlways, PTL
=============================================================================
