---------------------------- MODULE ForegroundGps ----------------------------
(***************************************************************************)
(* api.py: the GPS polling of the running app, for when no GPS daemon does *)
(* it.                                                                     *)
(*                                                                         *)
(* A chain of one-shot timers: a tick takes a fix, for up to 100 s, and    *)
(* arms the next timer.  The init call and the side-effect threads of the  *)
(* settings saves, one at a time (_settings_apply_lock), start or stop the *)
(* chain; a tick stops it too when it finds that the daemon has taken      *)
(* over.  A timer that is cancelled may already have fired.                *)
(***************************************************************************)
EXTENDS Naturals, FiniteSets

CONSTANTS
  Ticks,       \* threading.Timer objects alive at once (reused when ended)
  NoTimer,        \* no timer
  MaxSaves,    \* bound: settings saves that change "Background activity"
  MaxTurns,    \* bound: times the GPS daemon appears or disappears
  Faults       \* may a read of the database raise an exception?

ASSUME TicksAssumption == NoTimer \notin Ticks
ASSUME PollAssumption ==
  MaxSaves \in Nat /\ MaxTurns \in Nat /\ Faults \in BOOLEAN

VARIABLES
  background,  \* settings: "Background activity"
  daemonUp,    \* does the GPS daemon's heartbeat look alive?
  timer,       \* _fg_gps_timer
  gen,         \* _fg_gps_gen
  stage,       \* where a timer is: "none", armed, or a place in its tick
  tickGen,     \* the generation a timer was armed under
  announce,    \* notify_fail of the fix a tick takes
  fixOk,       \* the result of that fix
  inFailure,   \* _fg_in_failure
  banner,      \* is the "no fix" banner of a tick up?
  applying,    \* _apply_foreground_gps: "idle", "read", "start", "stop", "clear"
  pending,     \* apply threads waiting for _settings_apply_lock
  saves, turns,
  raised       \* history: has a read of the database raised in a tick?

world == <<background, daemonUp, saves, turns>>
env == <<world, raised>>
chain == <<timer, gen, stage, tickGen>>
notices == <<announce, fixOk, inFailure, banner>>
pollVars == <<env, chain, notices, applying, pending>>

Owns == background /\ daemonUp

PollInit ==
  /\ background \in BOOLEAN /\ daemonUp \in BOOLEAN
  /\ timer = NoTimer /\ gen = 0
  /\ stage = [i \in Ticks |-> "none"]
  /\ tickGen = [i \in Ticks |-> 0]
  /\ announce = [i \in Ticks |-> FALSE]
  /\ fixOk = [i \in Ticks |-> FALSE]
  /\ inFailure = FALSE /\ banner = FALSE
  /\ applying = "read"              \* init_app's own call
  /\ pending = 0
  /\ saves = 0 /\ turns = 0 /\ raised = FALSE

-----------------------------------------------------------------------------
(* The surroundings *)

(* save_settings with "Background activity" changed *)
Save ==
  /\ saves < MaxSaves
  /\ saves' = saves + 1
  /\ background' = ~background
  /\ pending' = pending + 1
  /\ UNCHANGED <<daemonUp, turns, raised, chain, notices, applying>>

(* The GPS daemon comes up, or its heartbeat runs out. *)
DaemonTurn ==
  /\ turns < MaxTurns
  /\ turns' = turns + 1
  /\ daemonUp' = ~daemonUp
  /\ UNCHANGED <<background, saves, raised, chain, notices, applying, pending>>

-----------------------------------------------------------------------------
(* The chain: arming, retiring *)

(* _schedule_foreground_tick_locked: a timer i under generation g, with st *)
(* the stages of the others                                                *)
Arm(i, g, st) ==
  /\ stage[i] = "none"
  /\ timer' = i
  /\ stage' = [st EXCEPT ![i] = "armed"]
  /\ tickGen' = [tickGen EXCEPT ![i] = g]

(* The locked part of _stop_foreground_gps, with `st` the stages: cancel() *)
(* reaches a timer that has not fired.                                     *)
RetireTimer(st) ==
  IF timer = NoTimer
  THEN stage' = st /\ UNCHANGED <<timer, gen, tickGen>>
  ELSE /\ stage' = IF stage[timer] = "armed" THEN [st EXCEPT ![timer] = "none"]
                                             ELSE st
       /\ timer' = NoTimer
       /\ gen' = gen + 1
       /\ UNCHANGED tickGen

-----------------------------------------------------------------------------
(* init_app and the side-effect threads of the settings saves *)

ApplyBegin ==
  /\ applying = "idle" /\ pending > 0
  /\ applying' = "read" /\ pending' = pending - 1
  /\ UNCHANGED <<env, chain, notices>>

(* _apply_foreground_gps: the decision, read outside _fg_gps_lock *)
ApplyRead ==
  /\ applying = "read"
  /\ \/ applying' = IF Owns THEN "stop" ELSE "start"
     \/ Faults /\ applying' = "idle"
  /\ UNCHANGED <<env, chain, notices, pending>>

ApplyStart ==
  /\ applying = "start"
  /\ applying' = "idle"
  /\ IF timer # NoTimer
     THEN UNCHANGED chain
     ELSE gen' = gen + 1 /\ \E i \in Ticks : Arm(i, gen + 1, stage)
  /\ UNCHANGED <<env, notices, pending>>

ApplyStop ==
  /\ applying = "stop"
  /\ applying' = IF timer = NoTimer THEN "idle" ELSE "clear"
  /\ RetireTimer(stage)
  /\ UNCHANGED <<env, notices, pending>>

(* The rest of _stop_foreground_gps, after the lock *)
ClearBanner ==
  /\ inFailure' = FALSE
  /\ banner' = (banner /\ ~inFailure)
  /\ UNCHANGED <<announce, fixOk>>

ApplyClear ==
  /\ applying = "clear"
  /\ applying' = "idle"
  /\ ClearBanner
  /\ UNCHANGED <<env, chain, pending>>

-----------------------------------------------------------------------------
(* A tick *)

(* An exception of a database read that nobody catches ends the thread.    *)
Raise(i) ==
  /\ Faults
  /\ raised' = TRUE
  /\ stage' = [stage EXCEPT ![i] = "none"]
  /\ UNCHANGED <<timer, gen, tickGen>>

GoOn(i, where) ==
  /\ stage' = [stage EXCEPT ![i] = where]
  /\ UNCHANGED <<timer, gen, tickGen>>

(* The timer runs out: from here on cancel() comes too late. *)
Fire(i) ==
  /\ stage[i] = "armed"
  /\ GoOn(i, "check")
  /\ UNCHANGED <<env, notices, applying, pending>>

Check(i) ==
  /\ stage[i] = "check"
  /\ GoOn(i, IF tickGen[i] = gen THEN "owns" ELSE "none")
  /\ UNCHANGED <<env, notices, applying, pending>>

(* Mutant: a tick goes on although the daemon has taken over. *)
TickOwnsIgnored(i) ==
  /\ stage[i] = "owns"
  /\ (GoOn(i, "wait") /\ UNCHANGED raised) \/ Raise(i)
  /\ UNCHANGED <<world, notices, applying, pending>>

(* _background_daemon_owns_gps, outside every lock and outside the try: an *)
(* exception ends the timer's thread.                                      *)
TickOwns(i) ==
  /\ stage[i] = "owns"
  /\ \/ GoOn(i, IF Owns THEN "stop" ELSE "wait") /\ UNCHANGED raised
     \/ Raise(i)
  /\ UNCHANGED <<world, notices, applying, pending>>

TickStop(i) ==
  /\ stage[i] = "stop"
  /\ RetireTimer([stage EXCEPT ![i] = IF timer = NoTimer THEN "none" ELSE "clear"])
  /\ UNCHANGED <<env, notices, applying, pending>>

TickClear(i) ==
  /\ stage[i] = "clear"
  /\ GoOn(i, "none")
  /\ ClearBanner
  /\ UNCHANGED <<env, applying, pending>>

(* with _fix_lock: a manual refresh that holds it only delays a tick *)
FixBegin(i) ==
  /\ stage[i] = "wait"
  /\ \A j \in Ticks : stage[j] # "fix"
  /\ announce' = [announce EXCEPT ![i] = ~inFailure]
  /\ GoOn(i, "fix")
  /\ UNCHANGED <<env, fixOk, inFailure, banner, applying, pending>>

(* _do_refresh_location returns, or raises inside the tick's try *)
FixEnd(i) ==
  /\ stage[i] = "fix"
  /\ \/ \E ok \in BOOLEAN :
          /\ fixOk' = [fixOk EXCEPT ![i] = ok]
          /\ banner' = (banner \/ (~ok /\ announce[i]))
          /\ GoOn(i, "note")
     \/ /\ Faults
        /\ UNCHANGED <<fixOk, banner>>
        /\ GoOn(i, "rearm")
  /\ announce' = [announce EXCEPT ![i] = FALSE]
  /\ UNCHANGED <<env, inFailure, applying, pending>>

Note(i) ==
  /\ stage[i] = "note"
  /\ banner' = (banner /\ ~(fixOk[i] /\ inFailure))
  /\ inFailure' = ~fixOk[i]
  /\ fixOk' = [fixOk EXCEPT ![i] = FALSE]
  /\ GoOn(i, "rearm")
  /\ UNCHANGED <<env, announce, applying, pending>>

(* Mutant: the tick only asks whether there is a timer at all. *)
RearmAnyChain(i) ==
  /\ stage[i] = "rearm"
  /\ \/ /\ timer # NoTimer
        /\ \E j \in Ticks : Arm(j, gen, [stage EXCEPT ![i] = "none"])
        /\ UNCHANGED <<gen, raised>>
     \/ /\ timer = NoTimer
        /\ GoOn(i, "none") /\ UNCHANGED raised
     \/ timer # NoTimer /\ Raise(i)
  /\ UNCHANGED <<world, notices, applying, pending>>

(* Mutant: the tick ends without a successor. *)
RearmNever(i) ==
  /\ stage[i] = "rearm"
  /\ GoOn(i, "none")
  /\ UNCHANGED <<env, notices, applying, pending>>

(* The next timer, unless the chain is retired.  Reading the interval may  *)
(* raise: the thread ends and _fg_gps_timer keeps the timer that has fired.*)
Rearm(i) ==
  /\ stage[i] = "rearm"
  /\ \/ /\ timer # NoTimer /\ tickGen[i] = gen
        /\ \E j \in Ticks : Arm(j, gen, [stage EXCEPT ![i] = "none"])
        /\ UNCHANGED <<gen, raised>>
     \/ /\ timer = NoTimer \/ tickGen[i] # gen
        /\ GoOn(i, "none") /\ UNCHANGED raised
     \/ timer # NoTimer /\ tickGen[i] = gen /\ Raise(i)
  /\ UNCHANGED <<world, notices, applying, pending>>

-----------------------------------------------------------------------------
ApplyStep == ApplyBegin \/ ApplyRead \/ ApplyStart \/ ApplyStop \/ ApplyClear

TickStep(i) ==
  \/ Fire(i) \/ Check(i) \/ TickOwns(i) \/ TickStop(i) \/ TickClear(i)
  \/ FixBegin(i) \/ FixEnd(i) \/ Note(i) \/ Rearm(i)

PollNext == Save \/ DaemonTurn \/ ApplyStep \/ \E i \in Ticks : TickStep(i)

PollSpec == PollInit /\ [][PollNext]_pollVars

(* The threads of the app run and its timers run out. *)
FairPollSpec ==
  PollSpec /\ WF_pollVars(ApplyStep) /\ \A i \in Ticks : WF_pollVars(TickStep(i))

-----------------------------------------------------------------------------
(* Properties *)

Stages == {"none", "armed", "check", "owns", "stop", "clear", "wait", "fix",
           "note", "rearm"}

(* Types of the state. *)
PollTypeOK ==
  /\ background \in BOOLEAN /\ daemonUp \in BOOLEAN
  /\ saves \in 0 .. MaxSaves /\ turns \in 0 .. MaxTurns /\ raised \in BOOLEAN
  /\ timer \in Ticks \cup {NoTimer} /\ gen \in Nat
  /\ stage \in [Ticks -> Stages]
  /\ tickGen \in [Ticks -> Nat]
  /\ announce \in [Ticks -> BOOLEAN] /\ fixOk \in [Ticks -> BOOLEAN]
  /\ inFailure \in BOOLEAN /\ banner \in BOOLEAN
  /\ applying \in {"idle", "read", "start", "stop", "clear"}
  /\ pending \in Nat

(* A timer or tick of the current chain. *)
Live(i) == stage[i] # "none" /\ tickGen[i] = gen

(* However stops and starts fall into a running fix, there is never a      *)
(* second chain: one timer or tick at most can still go on, and it is the  *)
(* one _fg_gps_timer names (api.py:84-88, 886-889).                        *)
OneChain == \A i, j \in Ticks : Live(i) /\ Live(j) => i = j

(* After a stop nothing is left that would take another fix on its own:    *)
(* no timer is armed and no tick is of the current chain (api.py:830-833). *)
StoppedIsQuiet ==
  timer = NoTimer => \A i \in Ticks : stage[i] # "armed" /\ ~Live(i)

(* While _fg_gps_timer is set - which makes every start a no-op - there is *)
(* a timer or a tick that keeps the polling going (api.py:78-80), unless a *)
(* read of the database has raised on a timer's thread.                    *)
TimerIsAlive == timer # NoTimer /\ ~raised => Live(timer)

(* A chain that is not stopped takes fix after fix.                        *)
PollingGoesOn ==
  <>[](timer # NoTimer) /\ []~raised => []<>(\E i \in Ticks : stage[i] = "fix")

(* Not so: that when no daemon owns it "the running app polls GPS itself   *)
(* so the location keeps being published until the user closes it"         *)
(* (_apply_foreground_gps).  A tick that a save has overtaken stops it.    *)
PollsWhenAlone == <>[](~Owns) /\ []~raised => <>[](timer # NoTimer)

(* Not so: that once the polling was stopped "a stale foreground "no fix"  *)
(* banner no longer applies", and is cleared (_stop_foreground_gps).  A    *)
(* fix that was under way puts up another.                                 *)
NoStaleBanner ==
  timer = NoTimer /\ applying = "idle" /\ (\A i \in Ticks : stage[i] = "none") => ~banner

(* Once the daemon owns the polling for good, the app stops its own.       *)
HandsOver == <>[]Owns /\ []~raised => <>[](timer = NoTimer)

=============================================================================
