----------------------------- MODULE RingControl -----------------------------
(***************************************************************************)
(* Ringing: daemon-rpm/src/ring_control.py.                                *)
(*                                                                         *)
(* A ring has a player that loops, a timer that ends it after a minute and *)
(* a state file from which the app knows that there is a STOP button to    *)
(* show.  The two slots of _active and the file are shared, without a      *)
(* lock, by the command workers, which run ring() and stop_current(), and  *)
(* by the threads of the timers, which run stop_current().                 *)
(***************************************************************************)
EXTENDS Naturals

CONSTANTS
    Workers,      \* command workers: one may be left from an earlier phase
    MaxRings,     \* bound: rings that are started
    None

Rings == 1 .. MaxRings
Threads == Workers \cup Rings   \* a timer's thread is known by its ring

ASSUME RingAssumption == MaxRings \in Nat /\ Workers \cap Rings = {} /\ None \notin Threads

VARIABLES
    (* the device *)
    rings,        \* rings started so far
    playing,      \* rings whose player plays
    lapsed,       \* rings whose minute is over
    (* the shared state *)
    stop, timer,  \* _active
    file,         \* the ring whose expiry the state file holds
    (* the threads *)
    alarm,        \* state of a ring's timer
    at, within,   \* where a thread is, in stop_current or ring
    hold,         \* its local variable stop
    (* histories *)
    target,       \* the player in the slot when a STOP_RING began
    unshown,      \* rings whose state file could not be written
    entangled     \* were two rings started at once, or was the slot emptied
                  \* of a player that had not been stopped?

ringVars == <<rings, playing, lapsed, stop, timer, file, alarm, at, within, hold,
              target, unshown, entangled>>
deviceVars == <<rings, lapsed, unshown>>

Places == {"idle", "clear", "cancel", "forget", "silence", "drop", "play", "publish", "write", "arm"}

RingTypeOK ==
    /\ rings \in 0 .. MaxRings
    /\ playing \subseteq Rings /\ lapsed \subseteq Rings /\ unshown \subseteq Rings
    /\ stop \in Rings \cup {None} /\ timer \in Rings \cup {None} /\ file \in Rings \cup {None}
    /\ alarm \in [Rings -> {"none", "armed", "cancelled", "fired"}]
    /\ at \in [Threads -> Places]
    /\ within \in [Threads -> {"stop_current", "ring"}]
    /\ hold \in [Threads -> Rings \cup {None}]
    /\ target \in [Workers -> Rings \cup {None}]
    /\ entangled \in BOOLEAN

RingInit ==
    /\ rings = 0 /\ playing = {} /\ lapsed = {}
    /\ stop = None /\ timer = None /\ file = None
    /\ alarm = [r \in Rings |-> "none"]
    /\ at = [t \in Threads |-> "idle"] /\ within = [t \in Threads |-> "stop_current"]
    /\ hold = [t \in Threads |-> None]
    /\ target = [w \in Workers |-> None] /\ unshown = {} /\ entangled = FALSE

Goto(t, place) == at' = [at EXCEPT ![t] = place]

-----------------------------------------------------------------------------
(* stop_current, the whole of a STOP_RING and the beginning of a ring.      *)

Enter(w, function) ==
    /\ at[w] = "idle"
    /\ Goto(w, "clear") /\ within' = [within EXCEPT ![w] = function]
    /\ target' = [target EXCEPT ![w] = IF function = "ring" THEN None ELSE stop]
    /\ entangled' = (entangled \/ (function = "ring" /\ \E v \in Workers :
                                        at[v] # "idle" /\ within[v] = "ring"))
    /\ UNCHANGED <<deviceVars, playing, stop, timer, file, alarm, hold>>

(* Back to the caller. *)
Leave(t) ==
    /\ Goto(t, "idle")
    /\ hold' = [hold EXCEPT ![t] = None]
    /\ within' = [within EXCEPT ![t] = "stop_current"]
    /\ target' = [w \in Workers |-> IF w = t THEN None ELSE target[w]]

(* The end of stop_current; ring() goes on. *)
Stopped(t) ==
    IF within[t] = "ring"
    THEN /\ Goto(t, "play")
         /\ hold' = [hold EXCEPT ![t] = None]
         /\ UNCHANGED <<within, target>>
    ELSE Leave(t)

ClearState(t) ==
    /\ at[t] = "clear"
    /\ file' = None
    /\ Goto(t, "cancel")
    /\ UNCHANGED <<deviceVars, playing, stop, timer, alarm, within, hold, target, entangled>>

(* Mutant: without a timer there is nothing to stop. *)
CancelOrLeave(t) ==
    /\ at[t] = "cancel"
    /\ IF timer = None THEN Stopped(t) /\ UNCHANGED alarm
       ELSE /\ alarm' = [alarm EXCEPT ![timer] = IF @ = "armed" THEN "cancelled" ELSE @]
            /\ Goto(t, "forget") /\ UNCHANGED <<hold, within, target>>
    /\ UNCHANGED <<deviceVars, playing, stop, timer, file, entangled>>

(* cancel() comes too late for a timer that has fired. *)
CancelTimer(t) ==
    /\ at[t] = "cancel"
    /\ IF timer = None THEN Goto(t, "silence") /\ UNCHANGED alarm
       ELSE /\ alarm' = [alarm EXCEPT ![timer] = IF @ = "armed" THEN "cancelled" ELSE @]
            /\ Goto(t, "forget")
    /\ UNCHANGED <<deviceVars, playing, stop, timer, file, within, hold, target, entangled>>

ForgetTimer(t) ==
    /\ at[t] = "forget"
    /\ timer' = None
    /\ Goto(t, "silence")
    /\ UNCHANGED <<deviceVars, playing, stop, file, alarm, within, hold, target, entangled>>

(* The player goes to NULL, which takes its time ...                        *)
Silence(t) ==
    /\ at[t] = "silence"
    /\ IF stop = None THEN Stopped(t) /\ UNCHANGED playing
       ELSE /\ playing' = playing \ {stop}
            /\ hold' = [hold EXCEPT ![t] = stop]
            /\ Goto(t, "drop") /\ UNCHANGED <<within, target>>
    /\ UNCHANGED <<deviceVars, stop, timer, file, alarm, entangled>>

(* ... and the slot is emptied, whatever is in it by then.                  *)
DropPlayer(t) ==
    /\ at[t] = "drop"
    /\ stop' = None
    /\ entangled' = (entangled \/ stop \notin {None, hold[t]})
    /\ Stopped(t)
    /\ UNCHANGED <<deviceVars, playing, timer, file, alarm>>

-----------------------------------------------------------------------------
(* ring, after its stop_current. *)

(* The tone, else a sine; neither may work. *)
Play(t) ==
    /\ at[t] = "play"
    /\ \/ /\ rings < MaxRings
          /\ rings' = rings + 1
          /\ playing' = playing \cup {rings + 1}
          /\ hold' = [hold EXCEPT ![t] = rings + 1]
          /\ Goto(t, "publish")
          /\ UNCHANGED <<within, target>>
       \/ Leave(t) /\ UNCHANGED <<rings, playing>>
    /\ UNCHANGED <<lapsed, unshown, stop, timer, file, alarm, entangled>>

Publish(t) ==
    /\ at[t] = "publish"
    /\ stop' = hold[t]
    /\ Goto(t, "write")
    /\ UNCHANGED <<deviceVars, playing, timer, file, alarm, within, hold, target, entangled>>

(* Mutant: a ring that cannot be shown is given up. *)
WriteStateOrGiveUp(t) ==
    /\ at[t] = "write"
    /\ \/ file' = hold[t] /\ Goto(t, "arm") /\ UNCHANGED <<unshown, within, hold, target>>
       \/ unshown' = unshown \cup {hold[t]} /\ Leave(t) /\ UNCHANGED file
    /\ UNCHANGED <<rings, lapsed, playing, stop, timer, alarm, entangled>>

WriteState(t) ==
    /\ at[t] = "write"
    /\ \/ file' = hold[t] /\ UNCHANGED unshown
       \/ unshown' = unshown \cup {hold[t]} /\ UNCHANGED file
    /\ Goto(t, "arm")
    /\ UNCHANGED <<rings, lapsed, playing, stop, timer, alarm, within, hold, target, entangled>>

Arm(t) ==
    /\ at[t] = "arm"
    /\ timer' = hold[t]
    /\ alarm' = [alarm EXCEPT ![hold[t]] = "armed"]
    /\ Leave(t)
    /\ UNCHANGED <<deviceVars, playing, stop, file, entangled>>

-----------------------------------------------------------------------------
(* The minute is over, for the app that reads the file and then for the     *)
(* timer.                                                                   *)
Lapse(r) ==
    /\ alarm[r] # "none" /\ r \notin lapsed
    /\ lapsed' = lapsed \cup {r}
    /\ UNCHANGED <<rings, unshown, playing, stop, timer, file, alarm, at, within, hold, target,
                   entangled>>

Fire(r) ==
    /\ alarm[r] = "armed" /\ r \in lapsed
    /\ alarm' = [alarm EXCEPT ![r] = "fired"]
    /\ Goto(r, "clear")
    /\ UNCHANGED <<deviceVars, playing, stop, timer, file, within, hold, target, entangled>>

(* The player's watch thread sees an error and ends. *)
PlaybackFails(r) ==
    /\ r \in playing
    /\ playing' = playing \ {r}
    /\ UNCHANGED <<deviceVars, stop, timer, file, alarm, at, within, hold, target, entangled>>

StopCurrentStep(t) ==
    ClearState(t) \/ CancelTimer(t) \/ ForgetTimer(t) \/ Silence(t) \/ DropPlayer(t)

(* Mutant: the file is written before the player is in its slot. *)
WriteFirst(t) ==
    /\ at[t] = "publish"
    /\ file' = hold[t]
    /\ Goto(t, "write")
    /\ UNCHANGED <<deviceVars, playing, stop, timer, alarm, within, hold, target, entangled>>
PublishAfter(t) ==
    /\ at[t] = "write"
    /\ stop' = hold[t]
    /\ Goto(t, "arm")
    /\ UNCHANGED <<deviceVars, playing, timer, file, alarm, within, hold, target, entangled>>
RingStepWriteFirst(t) == Play(t) \/ WriteFirst(t) \/ PublishAfter(t) \/ Arm(t)

RingStep(t) == Play(t) \/ Publish(t) \/ WriteState(t) \/ Arm(t)
ThreadStep(t) == StopCurrentStep(t) \/ RingStep(t)

(* What the app shows (_own_ringing). *)
OwnRinging == file # None /\ file \notin lapsed

-----------------------------------------------------------------------------
(* Properties. *)

(* A ring ends by itself (ring_control: "bounded to ~60 seconds and stopped *)
(* cleanly"), whatever commands come meanwhile, unless rings got entangled: *)
(* nobody can stop a player that is in no slot.                             *)
RingEnds == \A r \in Rings : r \in playing ~> r \notin playing \/ entangled

(* Not so: that this holds of every ring, "bounded to ~60 seconds and       *)
(* stopped cleanly".                                                        *)
EveryRingEnds == \A r \in Rings : r \in playing ~> r \notin playing

(* When a STOP_RING is done, the ring it found is silent, although a timer  *)
(* may have been stopping the same one, or a new one have begun.            *)
StopStops ==
    [][\A w \in Workers : within[w] = "stop_current" /\ at[w] # "idle" /\ at'[w] = "idle"
         => target[w] \notin playing' \/ entangled]_ringVars

(* When nobody is at it, a device that rings is shown as ringing for as     *)
(* long as the ring is to last: the STOP button is there, in whatever order *)
(* commands and timers wrote and removed the file, unless the file could    *)
(* not be written or rings got entangled: two were started at once, or a    *)
(* timer emptied the slot of a player it had not stopped.                   *)
RingIsShown ==
    (\A t \in Threads : at[t] = "idle") /\ stop \in playing \ (lapsed \cup unshown)
        => OwnRinging \/ entangled
=============================================================================
