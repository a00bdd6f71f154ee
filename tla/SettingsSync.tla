---------------------------- MODULE SettingsSync ----------------------------
(***************************************************************************)
(* fmd/runtime.py: how a settings save of the sandboxed UI reaches the     *)
(* daemons, and how their heartbeats tell the UI that it has.              *)
(*                                                                         *)
(* The UI writes the settings, then a thread per save bumps the settings   *)
(* generation.  A daemon reads the generation, then the settings, and      *)
(* echoes the generation in its heartbeats; the Settings page compares it  *)
(* with the current one.  Every write is a transaction of its own in the   *)
(* shared SQLite file; nothing else orders the three processes.            *)
(***************************************************************************)
EXTENDS Naturals, FiniteSets

CONSTANTS
  Daemons,      \* the daemons there can be: "gps", "cmd"
  MaxRunning,   \* bound: how many of them run in a behaviour
  MaxWrites,    \* bound: settings transactions of the UI
  MaxExits,     \* bound: times the UI process ends
  MaxCrashes    \* bound: times a daemon process ends

ASSUME BoundsAssumption ==
  /\ Daemons \subseteq {"gps", "cmd"}
  /\ MaxRunning \in Nat /\ MaxWrites \in Nat
  /\ MaxExits \in Nat /\ MaxCrashes \in Nat

Versions == 1 .. MaxWrites

VARIABLES
  (* the UI *)
  version,     \* settings transactions so far: the content of the table
  features,    \* are the background features switched on by the settings?
  saving,      \* is save_settings between its first write and its end?
  apply,       \* the side-effect thread of the save that wrote version v
  seen,        \* the generation that thread read
  applyLock,   \* the thread holding _settings_apply_lock, or 0
  exits,
  (* the database *)
  generation,  \* runtime.settings_generation
  landed,      \* history: the newest version whose save bumped it
  beat,        \* the heartbeat rows of a daemon
  fresh,       \* is the heartbeat younger than HEARTBEAT_FRESH_S?
  (* the daemons *)
  pc,          \* where the main loop of a daemon is
  now,         \* what that loop runs on: state, generation, version read
  mem,         \* what the GPS daemon's _Heartbeat object holds
  copy,        \* what its thread has copied and not yet written
  crashes

uiVars == <<version, features, saving, apply, seen, applyLock, exits>>
dbVars == <<generation, landed, beat, fresh>>
daemonVars == <<pc, now, mem, copy, crashes>>
vars == <<uiVars, dbVars, daemonVars>>

(* A report: what a daemon says of itself, and the version it read. *)
Reports == [state : {"none", "active", "idle"}, gen : Nat, built : Nat]
NoReport == [state |-> "none", gen |-> 0, built |-> 0]

Init ==
  /\ version = 0 /\ features \in BOOLEAN /\ saving = FALSE
  /\ apply = [v \in Versions |-> "none"]
  /\ seen = [v \in Versions |-> 0]
  /\ applyLock = 0 /\ exits = 0
  /\ generation = 0 /\ landed = 0
  /\ beat = [d \in Daemons |-> NoReport]
  /\ fresh = [d \in Daemons |-> FALSE]
  /\ pc \in [Daemons -> {"down", "absent"}]
  /\ Cardinality({d \in Daemons : pc[d] = "down"}) <= MaxRunning
  /\ now = [d \in Daemons |-> NoReport]
  /\ mem = NoReport /\ copy = NoReport
  /\ crashes = 0

-----------------------------------------------------------------------------
(* The UI: api.save_settings and its thread *)

(* One of the transactions of save_settings: settings.set_many, then the   *)
(* own device's PIN and label.                                             *)
SaveWrite ==
  /\ version < MaxWrites
  /\ version' = version + 1
  /\ saving' = TRUE
  /\ features' \in BOOLEAN
  /\ UNCHANGED <<apply, seen, applyLock, exits, dbVars, daemonVars>>

SaveReturn ==
  /\ saving
  /\ saving' = FALSE
  /\ apply' = [apply EXCEPT ![version] = "waiting"]
  /\ UNCHANGED <<version, features, seen, applyLock, exits, dbVars, daemonVars>>

(* Mutant: the threads of two saves are not serialised. *)
BumpReadUnlocked(v) ==
  /\ apply[v] = "waiting"
  /\ applyLock' = v
  /\ apply' = [apply EXCEPT ![v] = "bumping"]
  /\ seen' = [seen EXCEPT ![v] = generation]
  /\ UNCHANGED <<version, features, saving, exits, dbVars, daemonVars>>

(* _settings_apply_lock taken; bump_generation reads ... *)
BumpRead(v) ==
  /\ apply[v] = "waiting"
  /\ applyLock = 0
  /\ applyLock' = v
  /\ apply' = [apply EXCEPT ![v] = "bumping"]
  /\ seen' = [seen EXCEPT ![v] = generation]
  /\ UNCHANGED <<version, features, saving, exits, dbVars, daemonVars>>

(* ... and writes in a transaction of its own *)
BumpWrite(v) ==
  /\ apply[v] = "bumping"
  /\ generation' = seen[v] + 1
  /\ seen' = [seen EXCEPT ![v] = 0]
  /\ landed' = IF v > landed THEN v ELSE landed
  /\ apply' = [apply EXCEPT ![v] = "restarting"]
  /\ UNCHANGED <<version, features, saving, applyLock, exits, beat, fresh,
                 daemonVars>>

(* _start_ui_mqtt and _apply_foreground_gps are done; lock released *)
ApplyDone(v) ==
  /\ apply[v] = "restarting"
  /\ apply' = [apply EXCEPT ![v] = "done"]
  /\ applyLock' = 0
  /\ UNCHANGED <<version, features, saving, seen, exits, dbVars, daemonVars>>

(* The app is closed or killed: its daemon threads end with it. *)
UiExit ==
  /\ exits < MaxExits
  /\ exits' = exits + 1
  /\ saving' = FALSE
  /\ apply' = [v \in Versions |->
                 IF apply[v] \in {"waiting", "bumping"} THEN "lost"
                 ELSE IF apply[v] = "restarting" THEN "done" ELSE apply[v]]
  /\ applyLock' = 0
  /\ seen' = [v \in Versions |-> 0]
  /\ UNCHANGED <<version, features, dbVars, daemonVars>>

-----------------------------------------------------------------------------
(* The main loop of a daemon *)

Start(d) ==
  /\ pc[d] = "down"
  /\ pc' = [pc EXCEPT ![d] = "readGen"]
  /\ UNCHANGED <<uiVars, dbVars, now, mem, copy, crashes>>

ReadGen(d) ==
  /\ pc[d] = "readGen"
  /\ now' = [now EXCEPT ![d].gen = generation]
  /\ pc' = [pc EXCEPT ![d] = "readSettings"]
  /\ UNCHANGED <<uiVars, dbVars, mem, copy, crashes>>

ReadSettings(d) ==
  /\ pc[d] = "readSettings"
  /\ now' = [now EXCEPT ![d].built = version,
                        ![d].state = IF features THEN "active" ELSE "idle"]
  /\ pc' = [pc EXCEPT ![d] = "beat"]
  /\ UNCHANGED <<uiVars, dbVars, mem, copy, crashes>>

WriteHeartbeat(d, report) ==
  /\ beat' = [beat EXCEPT ![d] = report]
  /\ fresh' = [fresh EXCEPT ![d] = TRUE]

(* cmd: runtime.write_heartbeat; gps: _Heartbeat.set, which records and    *)
(* writes (nobody else changes what it recorded).                          *)
Beat(d) ==
  /\ pc[d] = "beat"
  /\ WriteHeartbeat(d, now[d])
  /\ mem' = IF d = "gps" THEN now[d] ELSE mem
  /\ pc' = [pc EXCEPT ![d] = "serve"]
  /\ UNCHANGED <<uiVars, generation, landed, now, copy, crashes>>

(* The cmd daemon's watchdog beats again while it serves. *)
BeatAgain ==
  /\ "cmd" \in Daemons
  /\ pc["cmd"] = "serve"
  /\ now["cmd"].state = "active"
  /\ WriteHeartbeat("cmd", now["cmd"])
  /\ UNCHANGED <<uiVars, generation, landed, daemonVars>>

(* Mutant: the watchdog does not look at the generation. *)
LeaveServeDeaf(d) ==
  /\ pc[d] = "serve"
  /\ d = "gps" \/ now[d].state = "idle" \/ ~features
  /\ pc' = [pc EXCEPT ![d] = "readGen"]
  /\ now' = [now EXCEPT ![d] = NoReport]
  /\ UNCHANGED <<uiVars, dbVars, mem, copy, crashes>>

(* The tick or the nap of the GPS daemon and the nap of an idle cmd daemon *)
(* end by themselves (or by an exception); a serving cmd daemon leaves its *)
(* phase when the generation changed or the features are off.              *)
LeaveServe(d) ==
  /\ pc[d] = "serve"
  /\ \/ d = "gps"
     \/ now[d].state = "idle"
     \/ generation # now[d].gen
     \/ ~features
  /\ pc' = [pc EXCEPT ![d] = "readGen"]
  /\ now' = [now EXCEPT ![d] = NoReport]
  /\ UNCHANGED <<uiVars, dbVars, mem, copy, crashes>>

(* _Heartbeat._write on the GPS daemon's thread: it copies under the lock  *)
(* and writes without it.  Its first turn is 30 s after the start, when    *)
(* the loop has called set().                                              *)
ThreadCopy ==
  /\ "gps" \in Daemons
  /\ pc["gps"] \notin {"down", "absent"}
  /\ mem # NoReport
  /\ copy' = mem
  /\ UNCHANGED <<uiVars, dbVars, pc, now, mem, crashes>>

ThreadWrite ==
  /\ copy # NoReport
  /\ WriteHeartbeat("gps", copy)
  /\ copy' = NoReport
  /\ UNCHANGED <<uiVars, generation, landed, pc, now, mem, crashes>>

Crash(d) ==
  /\ crashes < MaxCrashes
  /\ pc[d] \notin {"down", "absent"}
  /\ crashes' = crashes + 1
  /\ pc' = [pc EXCEPT ![d] = "down"]
  /\ now' = [now EXCEPT ![d] = NoReport]
  /\ IF d = "gps" THEN mem' = NoReport /\ copy' = NoReport
                  ELSE UNCHANGED <<mem, copy>>
  /\ UNCHANGED <<uiVars, dbVars>>

(* 90 s without a beat: the daemon is down, or the cmd daemon publishes a  *)
(* fix for the UI inline, before it reads the settings (daemon_cmd.py:210).*)
Expire(d) ==
  /\ pc[d] = "down" \/ (d = "cmd" /\ pc[d] = "readSettings")
  /\ fresh[d]
  /\ fresh' = [fresh EXCEPT ![d] = FALSE]
  /\ UNCHANGED <<uiVars, generation, landed, beat, daemonVars>>

-----------------------------------------------------------------------------
(* Mutant: the settings are read first, then the generation: a save        *)
(* between the two is reported as applied.                                 *)
LoopStepSwapped(d) ==
  \/ /\ pc[d] = "readGen"
     /\ now' = [now EXCEPT ![d].built = version]
     /\ pc' = [pc EXCEPT ![d] = "readSettings"]
     /\ UNCHANGED <<uiVars, dbVars, mem, copy, crashes>>
  \/ /\ pc[d] = "readSettings"
     /\ now' = [now EXCEPT ![d].gen = generation]
     /\ pc' = [pc EXCEPT ![d] = "beat"]
     /\ UNCHANGED <<uiVars, dbVars, mem, copy, crashes>>
  \/ Beat(d) \/ LeaveServe(d)

ApplyStep(v) == BumpRead(v) \/ BumpWrite(v) \/ ApplyDone(v)
LoopStep(d) == ReadGen(d) \/ ReadSettings(d) \/ Beat(d) \/ LeaveServe(d)

Next ==
  \/ SaveWrite \/ SaveReturn \/ UiExit
  \/ \E v \in Versions : ApplyStep(v)
  \/ \E d \in Daemons : Start(d) \/ LoopStep(d) \/ Crash(d) \/ Expire(d)
  \/ BeatAgain \/ ThreadCopy \/ ThreadWrite

Spec == Init /\ [][Next]_vars

(* The UI's threads and the daemons' loops and threads run; systemd starts *)
(* the daemons again.                                                      *)
FairSpec ==
  /\ Spec
  /\ WF_vars(SaveReturn)
  /\ \A v \in Versions : WF_vars(ApplyStep(v))
  /\ \A d \in Daemons : WF_vars(Start(d)) /\ WF_vars(LoopStep(d))
  /\ WF_vars(ThreadWrite)
-----------------------------------------------------------------------------
(* Properties *)

(* Types of the state. *)
TypeOK ==
  /\ version \in 0 .. MaxWrites
  /\ features \in BOOLEAN /\ saving \in BOOLEAN
  /\ apply \in [Versions -> {"none", "waiting", "bumping", "restarting",
                             "done", "lost"}]
  /\ seen \in [Versions -> Nat]
  /\ applyLock \in 0 .. MaxWrites
  /\ generation \in Nat /\ landed \in 0 .. MaxWrites
  /\ beat \in [Daemons -> Reports]
  /\ fresh \in [Daemons -> BOOLEAN]
  /\ pc \in [Daemons -> {"absent", "down", "readGen", "readSettings",
                        "beat", "serve"}]
  /\ now \in [Daemons -> Reports]
  /\ mem \in Reports /\ copy \in Reports
  /\ exits \in 0 .. MaxExits /\ crashes \in 0 .. MaxCrashes

(* runtime._status_from, as the Settings page shows it *)
Status(d) ==
  IF ~fresh[d] THEN "not_installed_or_stopped"
  ELSE IF beat[d].gen # generation THEN "applying"
  ELSE IF beat[d].state = "active" THEN "running" ELSE "deactivated"

ShowsApplied(d) == Status(d) \in {"running", "deactivated"}

(* "Running" or "deactivated" is never shown for a state built from        *)
(* settings older than the newest announced save, whatever the order of    *)
(* saves, bumps, reads and late heartbeat writes (runtime.py:125-128).     *)
NoFalseConfirmation ==
  \A d \in Daemons : ShowsApplied(d) => beat[d].built >= landed

SaveUnderway ==
  saving \/ \E v \in Versions : apply[v] \in {"waiting", "bumping"}

(* When no save is on its way, a daemon shown as running or deactivated    *)
(* runs on what the settings table holds.  Not so, though "the UI bumps a  *)
(* counter after every settings save" (runtime.py:8): an app that is       *)
(* closed in between never announces it.                                   *)
EverySaveShown ==
  \A d \in Daemons :
    ShowsApplied(d) /\ ~SaveUnderway => beat[d].built = version

(* It is so unless the app was closed (runtime.py:78-81).                  *)
ShownIsSaved == exits = 0 => EverySaveShown

(* Every bump makes a generation that was never there before: a heartbeat  *)
(* from before a save can never look current after it (runtime.py:65-70).  *)
EveryBumpCounts ==
  [][\A v \in Versions : BumpWrite(v) => generation' > generation]_vars

(* Every announced save is applied: when the saves stop, no running daemon *)
(* stays on "applying" or on an older generation for good.                 *)
SavesGetApplied ==
  \A d \in Daemons :
    pc[d] # "absent" => <>[](beat[d].gen = generation) /\ []<>ShowsApplied(d)

=============================================================================
