-------------------------- MODULE MobileDataProofs --------------------------
(***************************************************************************)
(* Proofs about MobileData, for any daemons, threads and cellular services *)
(* and any number of crashes.                                              *)
(***************************************************************************)
EXTENDS MobileData, TLAPS

USE ActorsAssumption, BoundsAssumption

NothingLent == \A s \in Services : ~byFmd[s]

(***************************************************************************)
(* When the record can be trusted: the disk does not fail, and a failed    *)
(* recovery cannot be followed by a session on another SIM.                *)
(***************************************************************************)
RecordReliable ==
  /\ ~DiskFaults
  /\ ~BusFaults \/ \A s, u \in Services : s = u

(***************************************************************************)
(* The inductive invariant: beside the record naming what is lent, what    *)
(* the holder of the lock knows at each of its steps.                      *)
(***************************************************************************)
LentIsRecorded ==
  \A s \in Services : byFmd[s] => owned = s /\ autoConnect[s]

HolderKnows ==
  /\ \A a \in Actors : pc[a] \in {"clearOld", "clear"} => NothingLent
  /\ \A t \in Threads :
       /\ pc[t] \in {"lock", "recover", "clearOld", "enable", "mark", "set"}
            => ~enabled[t]
       /\ pc[t] \in {"mark", "set"} =>
            service[t] \in Services /\ NothingLent
       /\ pc[t] = "set" => owned = service[t]
       /\ pc[t] = "window" /\ enabled[t] =>
            service[t] \in Services /\ owned = service[t]

(* Without D-Bus errors a recovery leaves nothing lent. *)
RecoveryWorks ==
  ~BusFaults =>
    \A t \in Threads :
      pc[t] = "enable" \/ (pc[t] = "window" /\ ~enabled[t]) => NothingLent

RecordInv == LentIsRecorded /\ HolderKnows /\ RecoveryWorks

-----------------------------------------------------------------------------
LEMMA SwitchOffTyped ==
  ASSUME TypeOK, NEW s, SwitchOff(s) \/ SwitchOffFails(s)
  PROVE  autoConnect' \in [Services -> BOOLEAN]
         /\ byFmd' \in [Services -> BOOLEAN]
<1>1. CASE SwitchOff(s)
  BY <1>1 DEF TypeOK, SwitchOff
<1>2. CASE UNCHANGED <<autoConnect, byFmd>>
  BY <1>2 DEF TypeOK
<1>3. QED
  BY <1>1, <1>2 DEF SwitchOffFails

(* Type correctness, for every combination of faults. *)
THEOREM TypeCorrect == Spec => []TypeOK
<1> USE DEF TypeOK, DaemonPcs, ThreadPcs, Actors
<1>1. Init => TypeOK
  BY DEF Init
<1>2. TypeOK /\ [Next]_vars => TypeOK'
  <2> SUFFICES ASSUME TypeOK, [Next]_vars
               PROVE  TypeOK'
    OBVIOUS
  <2>1. ASSUME NEW a \in Actors, LockStep(a)
        PROVE  TypeOK'
    <3>1. CASE AcquireLock(a)
      BY <3>1 DEF AcquireLock, Goto
    <3>2. CASE LockBusy(a)
      BY <3>2 DEF LockBusy, Goto
    <3>3. CASE Recover(a)
      <4>1. autoConnect' \in [Services -> BOOLEAN]
            /\ byFmd' \in [Services -> BOOLEAN]
        BY <3>3, SwitchOffTyped DEF Recover
      <4>2. pc' \in {[pc EXCEPT ![a] = Recovered(a)],
                    [pc EXCEPT ![a] = "clearOld"]}
        BY <3>3 DEF Recover, Goto
      <4>3. UNCHANGED <<owned, lock, enabled, service, crashes>>
        BY <3>3 DEF Recover
      <4>4. QED
        BY <4>1, <4>2, <4>3 DEF Recovered
    <3>4. CASE RecoverClear(a)
      BY <3>4 DEF RecoverClear, Goto, Recovered, ClearOwned
    <3>5. CASE Unlock(a)
      BY <3>5 DEF Unlock, Goto
    <3>6. QED
      BY <2>1, <3>1, <3>2, <3>3, <3>4, <3>5 DEF LockStep
  <2>2. ASSUME NEW t \in Threads, OpenWindow(t) \/ WindowStep(t)
        PROVE  TypeOK'
    <3>1. CASE OpenWindow(t)
      BY <3>1 DEF OpenWindow, Goto
    <3>2. CASE EnableSkipped(t)
      BY <3>2 DEF EnableSkipped, Goto
    <3>3. ASSUME NEW s \in Services, EnableChecked(t, s)
          PROVE  TypeOK'
      BY <3>3 DEF EnableChecked, Goto
    <3>4. CASE MarkOwned(t)
      BY <3>4 DEF MarkOwned, Goto
    <3>5. CASE SetOn(t)
      BY <3>5 DEF SetOn, SwitchOn, Goto
    <3>6. CASE Restore(t)
      <4>1. autoConnect' \in [Services -> BOOLEAN]
            /\ byFmd' \in [Services -> BOOLEAN]
        BY <3>6, SwitchOffTyped DEF Restore
      <4>a. enabled' \in [Threads -> BOOLEAN]
        <5>1. enabled' = enabled \/ enabled' = [enabled EXCEPT ![t] = FALSE]
          BY <3>6 DEF Restore
        <5>2. enabled \in [Threads -> BOOLEAN]
          OBVIOUS
        <5>3. QED
          BY <5>1, <5>2, Zenon
      <4>2. pc' \in {[pc EXCEPT ![t] = "unlock"], [pc EXCEPT ![t] = "clear"]}
        BY <3>6 DEF Restore, Goto
      <4>3. UNCHANGED <<owned, lock, service, crashes>>
        BY <3>6 DEF Restore
      <4>4. QED
        BY <4>1, <4>a, <4>2, <4>3
    <3>7. CASE RestoreClear(t)
      BY <3>7 DEF RestoreClear, ClearOwned, Goto
    <3>8. CASE PlainDone(t)
      BY <3>8 DEF PlainDone, Goto
    <3>9. QED
      BY <2>2, <3>1, <3>2, <3>3, <3>4, <3>5, <3>6, <3>7, <3>8
      DEF WindowStep
  <2>3. ASSUME NEW d \in Daemons, Start(d)
        PROVE  TypeOK'
    BY <2>3 DEF Start, Goto
  <2>4. ASSUME NEW D \in SUBSET Daemons, Die(D)
        PROVE  TypeOK'
    <3> DEFINE dead == UNION {ActorsOf(d) : d \in D}
    <3>1. pc' = [a \in Actors |-> IF a \in D THEN "down"
                                ELSE IF a \in dead THEN "idle" ELSE pc[a]]
      BY <2>4 DEF Die
    <3>2. \A d \in Daemons : d \in dead => d \in D
      BY DEF ActorsOf
    <3>3. lock' \in {lock, None} /\ crashes' \in 0 .. MaxCrashes
      BY <2>4 DEF Die
    <3>4. UNCHANGED <<autoConnect, byFmd, owned, enabled, service>>
      BY <2>4 DEF Die
    <3> HIDE DEF dead
    <3>5. QED
      BY <3>1, <3>2, <3>3, <3>4
  <2>5. ASSUME NEW s \in Services, UserSwitch(s)
        PROVE  TypeOK'
    BY <2>5 DEF UserSwitch
  <2>6. CASE UNCHANGED vars
    BY <2>6 DEF vars
  <2>7. QED
    BY <2>1, <2>2, <2>3, <2>4, <2>5, <2>6 DEF Next, Crash, Reboot
<1>3. QED
  BY <1>1, <1>2, PTL DEF Spec

-----------------------------------------------------------------------------
(***************************************************************************)
(* Mutual exclusion: an actor is between lock.__enter__ and fh.close()     *)
(* exactly when it holds the flock, whatever crashes or fails.             *)
(***************************************************************************)
THEOREM Exclusion == Spec => []WindowsExclusive
<1> USE DEF TypeOK, WindowsExclusive, LockedPcs, Actors
<1>1. Init => WindowsExclusive
  BY DEF Init
<1>2. TypeOK /\ WindowsExclusive /\ [Next]_vars => WindowsExclusive'
  <2> SUFFICES ASSUME TypeOK, WindowsExclusive, [Next]_vars
               PROVE  WindowsExclusive'
    OBVIOUS
  <2>1. ASSUME NEW a \in Actors, LockStep(a)
        PROVE  WindowsExclusive'
    <3>1. CASE AcquireLock(a)
      BY <3>1 DEF AcquireLock, Goto
    <3>2. CASE LockBusy(a)
      BY <3>2 DEF LockBusy, Goto
    <3>3. CASE Recover(a)
      BY <3>3 DEF Recover, Goto, Recovered
    <3>4. CASE RecoverClear(a)
      BY <3>4 DEF RecoverClear, Goto, Recovered
    <3>5. CASE Unlock(a)
      BY <3>5 DEF Unlock, Goto
    <3>6. QED
      BY <2>1, <3>1, <3>2, <3>3, <3>4, <3>5 DEF LockStep
  <2>2. ASSUME NEW t \in Threads, OpenWindow(t) \/ WindowStep(t)
        PROVE  WindowsExclusive'
    <3>1. CASE OpenWindow(t)
      BY <3>1 DEF OpenWindow, Goto
    <3>2. CASE EnableSkipped(t)
      BY <3>2 DEF EnableSkipped, Goto
    <3>3. ASSUME NEW s \in Services, EnableChecked(t, s)
          PROVE  WindowsExclusive'
      BY <3>3 DEF EnableChecked, Goto
    <3>4. CASE MarkOwned(t)
      BY <3>4 DEF MarkOwned, Goto
    <3>5. CASE SetOn(t)
      BY <3>5 DEF SetOn, Goto
    <3>6. CASE Restore(t)
      BY <3>6 DEF Restore, Goto
    <3>7. CASE RestoreClear(t)
      BY <3>7 DEF RestoreClear, Goto
    <3>8. CASE PlainDone(t)
      BY <3>8 DEF PlainDone, Goto
    <3>9. QED
      BY <2>2, <3>1, <3>2, <3>3, <3>4, <3>5, <3>6, <3>7, <3>8
      DEF WindowStep
  <2>3. ASSUME NEW d \in Daemons, Start(d)
        PROVE  WindowsExclusive'
    BY <2>3 DEF Start, Goto
  <2>4. ASSUME NEW D \in SUBSET Daemons, Die(D)
        PROVE  WindowsExclusive'
    <3> DEFINE dead == UNION {ActorsOf(d) : d \in D}
    <3>1. D \subseteq dead /\ dead \subseteq Actors
      BY DEF ActorsOf
    <3>2. \A a \in Actors :
            pc'[a] = IF a \in D THEN "down"
                     ELSE IF a \in dead THEN "idle" ELSE pc[a]
      BY <2>4 DEF Die
    <3>3. lock' = IF lock \in dead THEN None ELSE lock
      BY <2>4 DEF Die
    <3> HIDE DEF dead
    <3>4. QED
      BY <3>1, <3>2, <3>3
  <2>5. ASSUME NEW s \in Services, UserSwitch(s)
        PROVE  WindowsExclusive'
    BY <2>5 DEF UserSwitch
  <2>6. CASE UNCHANGED vars
    BY <2>6 DEF vars
  <2>7. QED
    BY <2>1, <2>2, <2>3, <2>4, <2>5, <2>6 DEF Next, Crash, Reboot
<1>3. QED
  BY <1>1, <1>2, TypeCorrect, PTL DEF Spec

-----------------------------------------------------------------------------
(* The steps under the lock preserve the record invariant. *)
LEMMA LockStepKeepsRecord ==
  ASSUME RecordReliable, TypeOK, WindowsExclusive, RecordInv,
         NEW a \in Actors, LockStep(a)
  PROVE  RecordInv'
<1> USE DEF RecordReliable, TypeOK, WindowsExclusive, LockedPcs, Actors,
            RecordInv, LentIsRecorded, HolderKnows, RecoveryWorks,
            NothingLent
<1>1. CASE AcquireLock(a)
  BY <1>1 DEF AcquireLock, Goto
<1>2. CASE LockBusy(a)
  BY <1>2 DEF LockBusy, Goto
<1>3. CASE Recover(a)
  <2>1. lock = a /\ \A b \in Actors : b # a => pc[b] \notin LockedPcs
    BY <1>3 DEF Recover
  <2>a. a \in Threads => ~enabled[a]
    BY <1>3 DEF Recover
  <2>2. CASE owned = None
    <3>1. NothingLent /\ UNCHANGED <<autoConnect, byFmd, owned>>
      BY <1>3, <2>2 DEF Recover
    <3>2. /\ pc' = [pc EXCEPT ![a] = Recovered(a)]
          /\ UNCHANGED <<enabled, service>>
      BY <1>3, <2>2 DEF Recover, Goto
    <3>3. HolderKnows'
      <4>1. \A b \in Actors : pc'[b] \notin {"clearOld", "clear"}
        BY <3>2, <2>1 DEF Recovered
      <4>2. \A t \in Threads : pc'[t] \notin {"mark", "set", "window"}
        BY <3>2, <2>1 DEF Recovered
      <4>3. ASSUME NEW t \in Threads,
                   pc'[t] \in {"lock", "recover", "clearOld", "enable"}
            PROVE  ~enabled'[t]
        <5>1. CASE t = a
          BY <5>1, <3>2, <2>a
        <5>2. CASE t # a
          <6>1. pc'[t] = pc[t]
            BY <5>2, <3>2
          <6>2. QED
            BY <6>1, <4>3, <3>2
        <5>3. QED
          BY <5>1, <5>2
      <4>4. QED
        BY <4>1, <4>2, <4>3
    <3>4. QED
      BY <3>1, <3>2, <3>3, <2>1 DEF Recovered
  <2>3. CASE /\ owned # None
             /\ IF autoConnect[owned] THEN SwitchOff(owned)
                                      ELSE UNCHANGED <<autoConnect, byFmd>>
             /\ Goto(a, "clearOld")
    <3>1. \A s \in Services : ~byFmd'[s]
      BY <2>3 DEF SwitchOff
    <3>2. owned' = owned /\ UNCHANGED <<enabled, service>>
      BY <1>3 DEF Recover
    <3>3. pc' = [pc EXCEPT ![a] = "clearOld"]
      BY <2>3 DEF Goto
    <3>4. LentIsRecorded' /\ RecoveryWorks'
      BY <3>1
    <3>5. HolderKnows'
      BY <3>1, <3>2, <3>3, <2>1, <2>a
    <3>6. QED
      BY <3>4, <3>5
  <2>4. CASE /\ owned # None
             /\ SwitchOffFails(owned)
             /\ Goto(a, Recovered(a))
    <3>1. BusFaults /\ owned' = owned /\ UNCHANGED <<enabled, service>>
      BY <1>3, <2>4 DEF Recover, SwitchOffFails
    <3>2. \A s \in Services : byFmd'[s] => byFmd[s] /\ autoConnect'[s]
      BY <2>4 DEF SwitchOffFails, SwitchOff
    <3>3. pc' = [pc EXCEPT ![a] = Recovered(a)]
      BY <2>4 DEF Goto
    <3>4. LentIsRecorded' /\ RecoveryWorks'
      BY <3>1, <3>2
    <3>5. HolderKnows'
      BY <3>1, <3>3, <2>1, <2>a DEF Recovered
    <3>6. QED
      BY <3>4, <3>5
  <2>5. QED
    BY <1>3, <2>2, <2>3, <2>4 DEF Recover
<1>4. CASE RecoverClear(a)
  <2>1. lock = a /\ NothingLent
    BY <1>4 DEF RecoverClear
  <2>2. QED
    BY <1>4, <2>1 DEF RecoverClear, ClearOwned, Goto, Recovered
<1>5. CASE Unlock(a)
  BY <1>5 DEF Unlock, Goto
<1>6. QED
  BY <1>1, <1>2, <1>3, <1>4, <1>5 DEF LockStep

(* So do the steps of a window. *)
LEMMA WindowStepKeepsRecord ==
  ASSUME RecordReliable, TypeOK, WindowsExclusive, RecordInv,
         NEW t \in Threads, OpenWindow(t) \/ WindowStep(t)
  PROVE  RecordInv'
<1> USE DEF RecordReliable, TypeOK, WindowsExclusive, LockedPcs, Actors,
            RecordInv, LentIsRecorded, HolderKnows, RecoveryWorks,
            NothingLent
<1>1. CASE OpenWindow(t)
  <2>1. \A a \in Actors : a # t => pc'[a] = pc[a]
    BY <1>1 DEF OpenWindow, Goto
  <2>2. pc'[t] \in {"lock", "plain"}
    BY <1>1 DEF OpenWindow, Goto
  <2>3. /\ enabled' = [enabled EXCEPT ![t] = FALSE]
        /\ service' = [service EXCEPT ![t] = None]
    BY <1>1 DEF OpenWindow
  <2>4. UNCHANGED <<autoConnect, byFmd, owned>>
    BY <1>1 DEF OpenWindow
  <2>5. QED
    BY <2>1, <2>2, <2>3, <2>4
<1>2. CASE EnableSkipped(t)
  <2>1. UNCHANGED <<autoConnect, byFmd, owned, lock, enabled, service>>
    BY <1>2 DEF EnableSkipped
  <2>2. pc[t] = "enable" /\ pc' = [pc EXCEPT ![t] = "window"]
    BY <1>2 DEF EnableSkipped, Goto
  <2>3. lock = t
    BY <2>2
  <2>4. ~enabled[t]
    BY <2>2
  <2>5. QED
    BY <2>1, <2>2, <2>3, <2>4
<1>3. ASSUME NEW s \in Services, EnableChecked(t, s)
      PROVE  RecordInv'
  <2>1. ~autoConnect[s] => NothingLent
    BY <1>3 DEF EnableChecked
  <2>2. QED
    BY <1>3, <2>1 DEF EnableChecked, Goto
<1>4. CASE MarkOwned(t)
  BY <1>4 DEF MarkOwned, Goto
<1>5. CASE SetOn(t)
  <2>1. /\ lock = t /\ service[t] \in Services /\ NothingLent
        /\ owned = service[t]
    BY <1>5 DEF SetOn
  <2>2. \A s \in Services : byFmd'[s] => s = service[t] /\ autoConnect'[s]
    BY <1>5, <2>1 DEF SetOn, SwitchOn
  <2>3. enabled'[t] \/ BusFaults
    BY <1>5 DEF SetOn
  <2>4. /\ \A u \in Threads \ {t} : enabled'[u] = enabled[u]
        /\ UNCHANGED <<owned, lock, service>>
        /\ pc' = [pc EXCEPT ![t] = "window"]
    BY <1>5 DEF SetOn, Goto
  <2>5. QED
    BY <2>1, <2>2, <2>3, <2>4
<1>6. CASE Restore(t)
  <2>1. lock = t /\ UNCHANGED <<owned, lock, service>>
    BY <1>6 DEF Restore
  <2>2. CASE ~enabled[t]
    BY <1>6, <2>1, <2>2 DEF Restore, Goto
  <2>3. CASE enabled[t] /\ SwitchOff(service[t]) /\ Goto(t, "clear")
             /\ enabled' = [enabled EXCEPT ![t] = FALSE]
    <3>1. \A s \in Services : ~byFmd'[s]
      BY <1>6, <2>3 DEF SwitchOff, Restore
    <3>2. QED
      BY <2>1, <2>3, <3>1 DEF Goto
  <2>4. CASE /\ enabled[t] /\ SwitchOffFails(service[t])
             /\ Goto(t, "unlock") /\ UNCHANGED enabled
    <3>1. \A s \in Services : byFmd'[s] => byFmd[s] /\ autoConnect'[s]
      BY <1>6, <2>4 DEF SwitchOffFails, SwitchOff, Restore
    <3>2. QED
      BY <2>1, <2>4, <3>1 DEF Goto
  <2>5. QED
    BY <1>6, <2>2, <2>3, <2>4 DEF Restore
<1>7. CASE RestoreClear(t)
  <2>1. lock = t /\ NothingLent
    BY <1>7 DEF RestoreClear
  <2>2. QED
    BY <1>7, <2>1 DEF RestoreClear, ClearOwned, Goto
<1>8. CASE PlainDone(t)
  BY <1>8 DEF PlainDone, Goto
<1>9. QED
  BY <1>1, <1>2, <1>3, <1>4, <1>5, <1>6, <1>7, <1>8 DEF WindowStep

(* So do crashes and reboots, at every point: this is what the order       *)
(* "record, switch on, ..., switch off, clear" is for.                     *)
LEMMA DeathKeepsRecord ==
  ASSUME TypeOK, RecordInv, NEW D \in SUBSET Daemons, Die(D)
  PROVE  RecordInv'
<1>1. \A a \in Actors : pc'[a] \in {"down", "idle"} \/ pc'[a] = pc[a]
  BY DEF Die
<1>2. UNCHANGED <<autoConnect, byFmd, owned, enabled, service>>
  BY DEF Die
<1>3. QED
  BY <1>1, <1>2 DEF RecordInv, LentIsRecorded, HolderKnows, RecoveryWorks,
     NothingLent, TypeOK, Actors

(* And the user at the switch. *)
LEMMA UserKeepsRecord ==
  ASSUME TypeOK, RecordInv, NEW s \in Services, UserSwitch(s)
  PROVE  RecordInv'
<1>1. \A u \in Services : byFmd'[u] => byFmd[u] /\ u # s
  BY DEF UserSwitch, TypeOK
<1>2. \A u \in Services \ {s} : autoConnect'[u] = autoConnect[u]
  BY DEF UserSwitch, TypeOK
<1>3. UNCHANGED <<owned, pc, enabled, service>>
  BY DEF UserSwitch
<1>4. QED
  BY <1>1, <1>2, <1>3 DEF RecordInv, LentIsRecorded, HolderKnows,
     RecoveryWorks, NothingLent

(* The record invariant holds in every reachable state. *)
LEMMA RecordInvariant ==
  ASSUME RecordReliable
  PROVE  Spec => []RecordInv
<1>1. Init => RecordInv
  BY DEF Init, RecordInv, LentIsRecorded, HolderKnows, RecoveryWorks,
     NothingLent, Actors
<1>2. TypeOK /\ WindowsExclusive /\ RecordInv /\ [Next]_vars => RecordInv'
  <2> SUFFICES ASSUME TypeOK, WindowsExclusive, RecordInv, [Next]_vars
               PROVE  RecordInv'
    OBVIOUS
  <2>1. ASSUME NEW a \in Actors, LockStep(a)
        PROVE  RecordInv'
    BY <2>1, LockStepKeepsRecord, RecordReliable
  <2>2. ASSUME NEW t \in Threads, OpenWindow(t) \/ WindowStep(t)
        PROVE  RecordInv'
    BY <2>2, WindowStepKeepsRecord, RecordReliable
  <2>3. ASSUME NEW d \in Daemons, Start(d)
        PROVE  RecordInv'
    BY <2>3 DEF Start, Goto, RecordInv, LentIsRecorded, HolderKnows,
       RecoveryWorks, NothingLent, Actors, TypeOK
  <2>4. ASSUME NEW D \in SUBSET Daemons, Die(D)
        PROVE  RecordInv'
    BY <2>4, DeathKeepsRecord
  <2>5. ASSUME NEW s \in Services, UserSwitch(s)
        PROVE  RecordInv'
    BY <2>5, UserKeepsRecord
  <2>6. CASE UNCHANGED vars
    BY <2>6 DEF vars, RecordInv, LentIsRecorded, HolderKnows,
       RecoveryWorks, NothingLent
  <2>7. QED
    BY <2>1, <2>2, <2>3, <2>4, <2>5, <2>6 DEF Next, Crash, Reboot
<1>3. QED
  BY <1>1, <1>2, TypeCorrect, Exclusion, PTL DEF Spec

(***************************************************************************)
(* Whatever a daemon switched on and is still on is named by the record,   *)
(* provided the disk works and D-Bus errors do not meet two SIMs.          *)
(***************************************************************************)
THEOREM RecordComplete ==
  ASSUME RecordReliable
  PROVE  Spec => []LeftOnIsRecorded
<1>1. RecordInv => LeftOnIsRecorded
  BY DEF RecordInv, LentIsRecorded, LeftOnIsRecorded
<1>2. QED
  BY <1>1, RecordInvariant, PTL

(***************************************************************************)
(* With a working disk and bus no session mistakes a connection left on by *)
(* an interrupted session for the user's.                                  *)
(***************************************************************************)
THEOREM NeverMistaken ==
  ASSUME ~DiskFaults, ~BusFaults
  PROVE  Spec => []NotMistaken
<1>1. RecordReliable
  BY DEF RecordReliable
<1>2. RecordInv => NotMistaken
  BY DEF RecordInv, RecoveryWorks, NothingLent, NotMistaken
<1>3. QED
  BY <1>1, <1>2, RecordInvariant, PTL

-----------------------------------------------------------------------------
(* How the steps that change what is lent look from outside. *)
LEMMA LentSteps ==
  ASSUME TypeOK, RecordInv
  PROVE  /\ \A s \in Services :
              SwitchOff(s) /\ owned = s => Lent' = {}
         /\ \A s \in Services :
              SwitchOn(s) /\ NothingLent => Lent = {} /\ Lent' \in {{}, {s}}
         /\ byFmd' = byFmd => Lent' = Lent
<1>1. ASSUME NEW s \in Services, SwitchOff(s), owned = s
      PROVE  Lent' = {}
  BY <1>1 DEF SwitchOff, Lent, RecordInv, LentIsRecorded, TypeOK
<1>2. ASSUME NEW s \in Services, SwitchOn(s), NothingLent
      PROVE  Lent = {} /\ Lent' \in {{}, {s}}
  <2>1. \A u \in Services \ {s} : ~byFmd'[u]
    BY <1>2 DEF SwitchOn, NothingLent, TypeOK
  <2>2. Lent' \subseteq {s}
    BY <2>1 DEF Lent
  <2>3. Lent = {}
    BY <1>2 DEF Lent, NothingLent
  <2>4. QED
    BY <2>2, <2>3
<1>3. byFmd' = byFmd => Lent' = Lent
  BY DEF Lent
<1>4. QED
  BY <1>1, <1>2, <1>3

(***************************************************************************)
(* mobiledata_control.py implements the loan: one connection at a time is  *)
(* on for the daemons' sake, lent and returned only by the lock's holder.  *)
(***************************************************************************)
THEOREM Refinement ==
  ASSUME RecordReliable
  PROVE  Spec => ImplementsLoan
<1>1. Init => Loan!Init
  BY DEF Init, Loan!Init, Lent
<1>2. TypeOK /\ WindowsExclusive /\ RecordInv /\ [Next]_vars
        => [Loan!Next]_(Loan!loanVars)
  <2> SUFFICES ASSUME TypeOK, WindowsExclusive, RecordInv, [Next]_vars
               PROVE  Loan!Next \/ UNCHANGED <<Lent, lock>>
    BY DEF Loan!loanVars
  <2> USE DEF LockedPcs, WindowsExclusive, Actors
  <2>1. ASSUME NEW a \in Actors, LockStep(a)
        PROVE  Loan!Next \/ UNCHANGED <<Lent, lock>>
    <3>1. CASE AcquireLock(a)
      <4>1. Loan!Take(a)
        BY <3>1, LentSteps DEF AcquireLock, Loan!Take
      <4>2. QED
        BY <4>1 DEF Loan!Next
    <3>2. CASE LockBusy(a)
      BY <3>2, LentSteps DEF LockBusy
    <3>3. CASE Recover(a)
      <4>1. lock = a /\ lock' = lock
        BY <3>3 DEF Recover
      <4>2. CASE byFmd' = byFmd
        BY <4>1, <4>2, LentSteps
      <4>3. CASE owned \in Services /\ SwitchOff(owned)
        <5>1. Lent' = {}
          BY <4>3, LentSteps
        <5>2. Lent # {} => Loan!Return(a)
          BY <4>1, <5>1 DEF Loan!Return
        <5>3. QED
          BY <4>1, <5>1, <5>2 DEF Loan!Next
      <4>4. QED
        BY <3>3, <4>2, <4>3 DEF Recover, SwitchOffFails, TypeOK
    <3>4. CASE RecoverClear(a)
      BY <3>4, LentSteps DEF RecoverClear
    <3>5. CASE Unlock(a)
      <4>1. Loan!GiveUp(a)
        BY <3>5, LentSteps DEF Unlock, Loan!GiveUp
      <4>2. QED
        BY <4>1 DEF Loan!Next
    <3>6. QED
      BY <2>1, <3>1, <3>2, <3>3, <3>4, <3>5 DEF LockStep
  <2>2. ASSUME NEW t \in Threads, OpenWindow(t) \/ WindowStep(t)
        PROVE  Loan!Next \/ UNCHANGED <<Lent, lock>>
    <3>1. CASE SetOn(t)
      <4>1. lock = t /\ lock' = lock /\ service[t] \in Services /\ NothingLent
        BY <3>1 DEF SetOn, RecordInv, HolderKnows
      <4>2. CASE byFmd' = byFmd
        BY <4>1, <4>2, LentSteps
      <4>3. CASE SwitchOn(service[t])
        <5>1. Lent = {} /\ Lent' \in {{}, {service[t]}}
          BY <4>1, <4>3, LentSteps
        <5>2. Lent' # {} => Loan!Lend(t, service[t])
          BY <4>1, <5>1 DEF Loan!Lend
        <5>3. QED
          BY <4>1, <5>1, <5>2 DEF Loan!Next
      <4>4. QED
        BY <3>1, <4>2, <4>3 DEF SetOn
    <3>2. CASE Restore(t)
      <4>1. lock = t /\ lock' = lock
        BY <3>2 DEF Restore
      <4>2. CASE byFmd' = byFmd
        BY <4>1, <4>2, LentSteps
      <4>3. CASE enabled[t] /\ SwitchOff(service[t])
        <5>1. service[t] \in Services /\ owned = service[t]
          BY <3>2, <4>3 DEF Restore, RecordInv, HolderKnows
        <5>2. Lent' = {}
          BY <4>3, <5>1, LentSteps
        <5>3. Lent # {} => Loan!Return(t)
          BY <4>1, <5>2 DEF Loan!Return
        <5>4. QED
          BY <4>1, <5>2, <5>3 DEF Loan!Next
      <4>4. QED
        BY <3>2, <4>2, <4>3 DEF Restore, SwitchOffFails
    <3>3. CASE UNCHANGED <<byFmd, lock>>
      BY <3>3, LentSteps
    <3>4. QED
      BY <2>2, <3>1, <3>2, <3>3
      DEF WindowStep, OpenWindow, EnableSkipped, EnableChecked, MarkOwned,
          RestoreClear, PlainDone
  <2>3. ASSUME NEW d \in Daemons, Start(d)
        PROVE  Loan!Next \/ UNCHANGED <<Lent, lock>>
    BY <2>3, LentSteps DEF Start
  <2>4. ASSUME NEW D \in SUBSET Daemons, Die(D)
        PROVE  Loan!Next \/ UNCHANGED <<Lent, lock>>
    <3>1. Lent' = Lent /\ lock' \in {None, lock}
      BY <2>4, LentSteps DEF Die
    <3>2. lock' # lock => Loan!GiveUp(lock) /\ lock \in Actors
      BY <3>1 DEF Loan!GiveUp, TypeOK
    <3>3. QED
      BY <3>1, <3>2 DEF Loan!Next
  <2>5. ASSUME NEW s \in Services, UserSwitch(s)
        PROVE  Loan!Next \/ UNCHANGED <<Lent, lock>>
    <3>1. Lent' = Lent \ {s} /\ lock' = lock
      BY <2>5 DEF UserSwitch, Lent, TypeOK
    <3>2. s \in Lent => Loan!UserTakes(s)
      BY <3>1 DEF Loan!UserTakes
    <3>3. QED
      BY <3>1, <3>2 DEF Loan!Next
  <2>6. CASE UNCHANGED vars
    BY <2>6, LentSteps DEF vars
  <2>7. QED
    BY <2>1, <2>2, <2>3, <2>4, <2>5, <2>6 DEF Next, Crash, Reboot
<1>3. QED
  BY <1>1, <1>2, TypeCorrect, Exclusion, RecordInvariant, PTL
  DEF Spec, ImplementsLoan, Loan!Spec

-----------------------------------------------------------------------------
(***************************************************************************)
(* Whatever fails, only the user can take a connection away from the       *)
(* thread that switched it on and is using it.                             *)
(***************************************************************************)
THEOREM WindowKeepsItsData == Spec => NotUnderFeet
<1> DEFINE Taken(t) ==
      /\ pc[t] = "window" /\ enabled[t] /\ autoConnect[service[t]]
      /\ pc'[t] = "window" /\ ~autoConnect'[service[t]]
<1>1. TypeOK /\ WindowsExclusive /\ [Next]_vars
        => [\A t \in Threads : Taken(t) => UserSwitch(service[t])]_vars
  <2> SUFFICES ASSUME TypeOK, WindowsExclusive, [Next]_vars,
                      NEW t \in Threads, Taken(t)
               PROVE  UserSwitch(service[t])
    OBVIOUS
  <2>1. lock = t
    BY DEF WindowsExclusive, LockedPcs, Actors
  <2>2. ASSUME NEW a \in Actors, LockStep(a)
        PROVE  autoConnect' = autoConnect
    <3>1. ~Recover(a)
      <4>1. SUFFICES ASSUME Recover(a) PROVE FALSE
        OBVIOUS
      <4>2. lock = a
        BY <4>1 DEF Recover, WindowsExclusive, LockedPcs
      <4>3. QED
        BY <4>1, <4>2, <2>1 DEF Recover
    <3>2. QED
      BY <2>2, <3>1 DEF LockStep, AcquireLock, LockBusy, RecoverClear, Unlock
  <2>3. ASSUME NEW u \in Threads, OpenWindow(u) \/ WindowStep(u)
        PROVE  ~Taken(t)
    <3>1. CASE SetOn(u) \/ Restore(u)
      <4>1. lock = u
        BY <3>1 DEF SetOn, Restore, WindowsExclusive, LockedPcs, Actors
      <4>2. ~SetOn(t)
        BY DEF SetOn
      <4>3. Restore(t) => pc'[t] # "window"
        BY DEF Restore, Goto, TypeOK, Actors
      <4>4. QED
        BY <3>1, <4>1, <4>2, <4>3, <2>1
    <3>2. CASE autoConnect' = autoConnect
      BY <3>2
    <3>3. QED
      BY <2>3, <3>1, <3>2
      DEF WindowStep, OpenWindow, EnableSkipped, EnableChecked, MarkOwned,
          RestoreClear, PlainDone
  <2>4. ASSUME NEW s \in Services, UserSwitch(s)
        PROVE  UserSwitch(service[t])
    <3>1. CASE s = service[t]
      BY <2>4, <3>1
    <3>2. CASE s # service[t]
      BY <2>4, <3>2 DEF UserSwitch, TypeOK
    <3>3. QED
      BY <3>1, <3>2
  <2>5. QED
    BY <2>2, <2>3, <2>4
    DEF Next, Start, Crash, Reboot, Die, vars
<1>2. QED
  BY <1>1, TypeCorrect, Exclusion, PTL DEF NotUnderFeet, Spec

=============================================================================
