----------------------------- MODULE MobileData -----------------------------
(***************************************************************************)
(* mobiledata_control.py: mobile data that is off is switched on around a  *)
(* network action of a daemon and off again afterwards.                    *)
(*                                                                         *)
(* Both daemons use it.  The cmd daemon can hold two threads that do (its  *)
(* worker and an abandoned worker of the phase before), the GPS daemon one.*)
(* A Thread opens windows (`temporarily_enabled`); a Daemon is the main    *)
(* thread that runs `recover_interrupted` at start.  A crash takes a       *)
(* daemon and its threads between any two steps.                           *)
(*                                                                         *)
(* ConnMan's AutoConnect and the ownership record survive crash and        *)
(* reboot; the flock does not.                                             *)
(***************************************************************************)
EXTENDS Naturals, FiniteSets

CONSTANTS
  Daemons,     \* the daemon processes
  Threads,     \* the threads that open windows
  DaemonOf,    \* the daemon a thread lives in
  Services,    \* ConnMan cellular services (one per SIM)
  None,        \* no lock holder, no service
  BusFaults,   \* may a D-Bus call fail (possibly after it took effect)?
  DiskFaults,  \* may writing or removing the record fail?
  UserActs,    \* does the user operate the mobile data switch?
  MaxCrashes   \* bound: daemon crashes, kills and reboots in a behaviour

Actors == Daemons \cup Threads

ASSUME ActorsAssumption ==
  /\ Daemons \cap Threads = {}
  /\ DaemonOf \in [Threads -> Daemons]
  /\ None \notin Actors \cup Services

ASSUME BoundsAssumption ==
  /\ {BusFaults, DiskFaults, UserActs} \subseteq BOOLEAN
  /\ MaxCrashes \in Nat

VARIABLES
  autoConnect,  \* ConnMan: is the switch of a service on?
  byFmd,        \* history: is it on because a daemon switched it on?
  owned,        \* the ownership record: a service, or None
  lock,         \* who holds the flock, or None
  pc,           \* where an actor is in the code
  enabled,      \* Session.enabled_by_us of a thread
  service,      \* Session.service of a thread
  crashes       \* crashes so far

vars == <<autoConnect, byFmd, owned, lock, pc, enabled, service, crashes>>

DaemonPcs == {"down", "lock", "recover", "clearOld", "unlock", "up"}
ThreadPcs == {"idle", "lock", "recover", "clearOld", "enable", "mark", "set",
              "window", "clear", "unlock", "plain"}

ActorsOf(d) == {d} \cup {t \in Threads : DaemonOf[t] = d}

Goto(a, where) == pc' = [pc EXCEPT ![a] = where]

(***************************************************************************)
(* Switching a service off.  A failing D-Bus call may still have taken     *)
(* effect (a lost reply).                                                  *)
(***************************************************************************)
SwitchOff(s) ==
  /\ autoConnect' = [autoConnect EXCEPT ![s] = FALSE]
  /\ byFmd' = [byFmd EXCEPT ![s] = FALSE]

SwitchOffFails(s) ==
  /\ BusFaults
  /\ SwitchOff(s) \/ UNCHANGED <<autoConnect, byFmd>>

Init ==
  /\ autoConnect \in [Services -> BOOLEAN]
  /\ byFmd = [s \in Services |-> FALSE]
  /\ owned = None
  /\ lock = None
  /\ pc = [a \in Actors |-> IF a \in Daemons THEN "down" ELSE "idle"]
  /\ enabled = [t \in Threads |-> FALSE]
  /\ service = [t \in Threads |-> None]
  /\ crashes = 0

-----------------------------------------------------------------------------
(* The lock and the recovery, shared by both entry points *)

(* Mutant: no cross-process lock. *)
AcquireLockNoFlock(a) ==
  /\ pc[a] = "lock"
  /\ lock' = a
  /\ Goto(a, "recover")
  /\ UNCHANGED <<autoConnect, byFmd, owned, enabled, service, crashes>>

AcquireLock(a) ==
  /\ pc[a] = "lock"
  /\ lock = None
  /\ lock' = a
  /\ Goto(a, "recover")
  /\ UNCHANGED <<autoConnect, byFmd, owned, enabled, service, crashes>>

(* Lock busy until the deadline, or its file cannot be opened: a booting   *)
(* daemon skips the recovery, a thread runs its action without touching    *)
(* mobile data.                                                            *)
LockBusy(a) ==
  /\ pc[a] = "lock"
  /\ lock # None \/ DiskFaults
  /\ Goto(a, IF a \in Daemons THEN "up" ELSE "plain")
  /\ UNCHANGED <<autoConnect, byFmd, owned, lock, enabled, service, crashes>>

Recovered(a) == IF a \in Daemons THEN "unlock" ELSE "enable"

(* Mutant: the record of an interrupted session is not looked at. *)
RecoverNothing(a) ==
  /\ pc[a] = "recover"
  /\ Goto(a, Recovered(a))
  /\ UNCHANGED <<autoConnect, byFmd, owned, lock, enabled, service, crashes>>

(* _recover up to the removal of the record *)
Recover(a) ==
  /\ pc[a] = "recover"
  /\ \/ /\ owned = None
        /\ Goto(a, Recovered(a))
        /\ UNCHANGED <<autoConnect, byFmd>>
     \/ /\ owned # None
        /\ IF autoConnect[owned] THEN SwitchOff(owned)
                                 ELSE UNCHANGED <<autoConnect, byFmd>>
        /\ Goto(a, "clearOld")
     \/ /\ owned # None
        /\ SwitchOffFails(owned)
        /\ Goto(a, Recovered(a))
  /\ UNCHANGED <<owned, lock, enabled, service, crashes>>

ClearOwned == owned' = None \/ (DiskFaults /\ owned' = owned)

RecoverClear(a) ==
  /\ pc[a] = "clearOld"
  /\ ClearOwned
  /\ Goto(a, Recovered(a))
  /\ UNCHANGED <<autoConnect, byFmd, lock, enabled, service, crashes>>

(* fh.close(): a daemon's boot is over, a thread returns to its caller *)
Unlock(a) ==
  /\ pc[a] = "unlock"
  /\ lock' = None
  /\ Goto(a, IF a \in Daemons THEN "up" ELSE "idle")
  /\ UNCHANGED <<autoConnect, byFmd, owned, enabled, service, crashes>>

-----------------------------------------------------------------------------
(* A window of a thread *)

(* temporarily_enabled: with the option off nothing is locked or switched  *)
OpenWindow(t) ==
  /\ pc[t] = "idle"
  /\ pc[DaemonOf[t]] = "up"
  /\ \/ Goto(t, "lock")
     \/ Goto(t, "plain")
  /\ enabled' = [enabled EXCEPT ![t] = FALSE]
  /\ service' = [service EXCEPT ![t] = None]
  /\ UNCHANGED <<autoConnect, byFmd, owned, lock, crashes>>

(* WLAN connected, no data service, roaming, or a failing D-Bus call: the  *)
(* action runs with mobile data as it is.                                  *)
EnableSkipped(t) ==
  /\ pc[t] = "enable"
  /\ Goto(t, "window")
  /\ UNCHANGED <<autoConnect, byFmd, owned, lock, enabled, service, crashes>>

(* s is the service of the data SIM.  Already on: the user's. *)
EnableChecked(t, s) ==
  /\ pc[t] = "enable"
  /\ service' = [service EXCEPT ![t] = s]
  /\ Goto(t, IF autoConnect[s] THEN "window" ELSE "mark")
  /\ UNCHANGED <<autoConnect, byFmd, owned, lock, enabled, crashes>>

(* Mutant: the switch is operated without a record of it. *)
MarkSkipped(t) ==
  /\ pc[t] = "mark"
  /\ Goto(t, "set")
  /\ UNCHANGED <<autoConnect, byFmd, owned, lock, enabled, service, crashes>>

(* open(..., "w") truncates an older record; when the write then fails, or *)
(* opening fails, the error is only logged.                                *)
MarkOwned(t) ==
  /\ pc[t] = "mark"
  /\ \/ owned' = service[t]
     \/ DiskFaults /\ owned' \in {None, owned}
  /\ Goto(t, "set")
  /\ UNCHANGED <<autoConnect, byFmd, lock, enabled, service, crashes>>

SwitchOn(s) ==
  /\ autoConnect' = [autoConnect EXCEPT ![s] = TRUE]
  /\ byFmd' = [byFmd EXCEPT ![s] = byFmd[s] \/ ~autoConnect[s]]

SetOn(t) ==
  /\ pc[t] = "set"
  /\ \/ /\ SwitchOn(service[t])
        /\ enabled' = [enabled EXCEPT ![t] = TRUE]
     \/ /\ BusFaults
        /\ SwitchOn(service[t]) \/ UNCHANGED <<autoConnect, byFmd>>
        /\ UNCHANGED enabled
  /\ Goto(t, "window")
  /\ UNCHANGED <<owned, lock, service, crashes>>

(* restore, at the end of the action or at its exception *)
Restore(t) ==
  /\ pc[t] = "window"
  /\ \/ /\ ~enabled[t]
        /\ Goto(t, "unlock")
        /\ UNCHANGED <<autoConnect, byFmd, enabled>>
     \/ /\ enabled[t]
        /\ SwitchOff(service[t])
        /\ enabled' = [enabled EXCEPT ![t] = FALSE]
        /\ Goto(t, "clear")
     \/ /\ enabled[t]
        /\ SwitchOffFails(service[t])
        /\ Goto(t, "unlock")
        /\ UNCHANGED enabled
  /\ UNCHANGED <<owned, lock, service, crashes>>

RestoreClear(t) ==
  /\ pc[t] = "clear"
  /\ ClearOwned
  /\ Goto(t, "unlock")
  /\ UNCHANGED <<autoConnect, byFmd, lock, enabled, service, crashes>>

PlainDone(t) ==
  /\ pc[t] = "plain"
  /\ Goto(t, "idle")
  /\ UNCHANGED <<autoConnect, byFmd, owned, lock, enabled, service, crashes>>

-----------------------------------------------------------------------------
(* Processes and the user *)

Start(d) ==
  /\ pc[d] = "down"
  /\ Goto(d, "lock")
  /\ UNCHANGED <<autoConnect, byFmd, owned, lock, enabled, service, crashes>>

(* The processes D end between two steps of theirs; the kernel closes      *)
(* their lock file.                                                        *)
Die(D) ==
  LET dead == UNION {ActorsOf(d) : d \in D} IN
  /\ crashes < MaxCrashes
  /\ crashes' = crashes + 1
  /\ pc' = [a \in Actors |-> IF a \in D THEN "down"
                             ELSE IF a \in dead THEN "idle" ELSE pc[a]]
  /\ lock' = IF lock \in dead THEN None ELSE lock
  /\ UNCHANGED <<autoConnect, byFmd, owned, enabled, service>>

Crash(d) == pc[d] # "down" /\ Die({d})
Reboot == Die(Daemons)

UserSwitch(s) ==
  /\ UserActs
  /\ autoConnect' = [autoConnect EXCEPT ![s] = ~autoConnect[s]]
  /\ byFmd' = [byFmd EXCEPT ![s] = FALSE]
  /\ UNCHANGED <<owned, lock, pc, enabled, service, crashes>>

-----------------------------------------------------------------------------
LockStep(a) ==
  \/ AcquireLock(a) \/ LockBusy(a) \/ Recover(a) \/ RecoverClear(a)
  \/ Unlock(a)

WindowStep(t) ==
  \/ EnableSkipped(t) \/ (\E s \in Services : EnableChecked(t, s))
  \/ MarkOwned(t) \/ SetOn(t) \/ Restore(t) \/ RestoreClear(t)
  \/ PlainDone(t)

Next ==
  \/ \E a \in Actors : LockStep(a)
  \/ \E t \in Threads : OpenWindow(t) \/ WindowStep(t)
  \/ \E d \in Daemons : Start(d) \/ Crash(d)
  \/ Reboot
  \/ \E s \in Services : UserSwitch(s)

Spec == Init /\ [][Next]_vars

(***************************************************************************)
(* Fairness: the threads run, the lock waits and D-Bus calls have          *)
(* timeouts, and systemd (Restart=on-failure) or the boot brings a daemon  *)
(* back up.  Nothing obliges a window to be opened.                        *)
(***************************************************************************)
FairSpec ==
  /\ Spec
  /\ \A a \in Actors : WF_vars(LockStep(a))
  /\ \A t \in Threads : WF_vars(WindowStep(t))
  /\ \A d \in Daemons : WF_vars(Start(d))

-----------------------------------------------------------------------------
(* Properties *)

(* Types of the state, and the pcs each kind of actor can be at. *)
TypeOK ==
  /\ autoConnect \in [Services -> BOOLEAN]
  /\ byFmd \in [Services -> BOOLEAN]
  /\ owned \in Services \cup {None}
  /\ lock \in Actors \cup {None}
  /\ pc \in [Actors -> DaemonPcs \cup ThreadPcs]
  /\ \A d \in Daemons : pc[d] \in DaemonPcs
  /\ \A t \in Threads : pc[t] \in ThreadPcs
  /\ enabled \in [Threads -> BOOLEAN]
  /\ service \in [Threads -> Services \cup {None}]
  /\ crashes \in 0 .. MaxCrashes

(* The places between the return of lock.__enter__ and fh.close(). *)
LockedPcs == {"recover", "clearOld", "enable", "mark", "set", "window",
              "clear", "unlock"}

(* Whoever is between acquiring and releasing the flock is its holder: the *)
(* record and the enable..restore window are never touched by two actors   *)
(* (of two daemons, or of one daemon with an abandoned worker) at once.    *)
WindowsExclusive ==
  \A a \in Actors : pc[a] \in LockedPcs <=> lock = a

(* A connection a daemon switched on and that is still on is named by the  *)
(* ownership record, at every crash point: the next holder of the lock can *)
(* find it (mobiledata_control.py:63-68).                                  *)
LeftOnIsRecorded == \A s \in Services : byFmd[s] => owned = s

(* Not so: that "a connection the user turned on is never touched"         *)
(* (mobiledata_control.py:21-22).  It may be turned on after the look.     *)
UsersIsLeftOn ==
  [][\A s \in Services :
       autoConnect[s] /\ ~autoConnect'[s] => byFmd[s] \/ UserSwitch(s)]_vars

(* A session that leaves mobile data alone because it found it on does so  *)
(* about the user's connection: no session mistakes one that an            *)
(* interrupted session left behind for it (mobiledata_control.py:65-66).   *)
NotMistaken ==
  \A t \in Threads :
    pc[t] = "window" /\ ~enabled[t] => \A s \in Services : ~byFmd[s]

(* While a thread uses a connection it switched on, no step of another     *)
(* actor switches it off: only the user does (mobiledata_control.py:60).   *)
NotUnderFeet ==
  [][\A t \in Threads :
       /\ pc[t] = "window" /\ enabled[t] /\ autoConnect[service[t]]
       /\ pc'[t] = "window" /\ ~autoConnect'[service[t]]
       => UserSwitch(service[t])]_vars

(* A connection a daemon switched on does not stay on for ever: its own    *)
(* session, a later one or the restarted daemon switches it off.           *)
LeftOnEndsOff == \A s \in Services : byFmd[s] ~> ~byFmd[s]

(* The abstract loan: what is switched on for our sake, and who holds the  *)
(* right to do so.                                                         *)
Lent == {s \in Services : byFmd[s]}
Loan == INSTANCE MobileDataLoan WITH loan <- Lent, holder <- lock

(* Every step lends, returns or passes on the one connection by the rules. *)
ImplementsLoan == Loan!Spec

=============================================================================
