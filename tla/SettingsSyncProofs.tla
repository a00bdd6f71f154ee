------------------------- MODULE SettingsSyncProofs -------------------------
(***************************************************************************)
(* Proofs about SettingsSync, for any number of saves, crashes and exits   *)
(* and either set of daemons.                                              *)
(***************************************************************************)
EXTENDS SettingsSync, TLAPS

USE BoundsAssumption

(***************************************************************************)
(* The inductive invariant.  The lock makes bump_generation's read and     *)
(* write one step for the other threads; a report never claims a           *)
(* generation from the future, and one that claims the current generation  *)
(* was built after the newest announced save.                              *)
(***************************************************************************)
BumpsSerialised ==
  \A v \in Versions :
    /\ apply[v] \in {"bumping", "restarting"} <=> applyLock = v
    /\ apply[v] = "bumping" => seen[v] = generation

Honest(report) ==
  /\ report.gen <= generation
  /\ report.gen = generation => report.built >= landed
  /\ report.built <= version

ReportsHonest ==
  /\ Honest(mem) /\ Honest(copy)
  /\ \A d \in Daemons :
       /\ Honest(beat[d])
       /\ pc[d] = "readSettings" => now[d].gen <= generation
       /\ pc[d] \in {"beat", "serve"} => Honest(now[d])

Announced ==
  /\ landed <= version
  /\ generation = 0 => landed = 0
  /\ \A v \in Versions :
       /\ apply[v] # "none" => v <= version
       /\ apply[v] \in {"restarting", "done"} => v <= landed
  /\ saving => version \in Versions /\ apply[version] = "none"

(* Only the end of the UI process loses the announcement of a save. *)
NoneLost ==
  exits = 0 =>
    /\ \A v \in Versions : apply[v] # "lost"
    /\ version \in Versions /\ ~saving => apply[version] # "none"

Inv == TypeOK /\ BumpsSerialised /\ ReportsHonest /\ Announced /\ NoneLost

-----------------------------------------------------------------------------
(* The steps of the UI: saves, side-effect threads, the end of the process *)
LEMMA UiKeepsTypes ==
  ASSUME Inv,
         SaveWrite \/ SaveReturn \/ UiExit \/ \E v \in Versions : ApplyStep(v)
  PROVE  TypeOK'
<1> USE DEF TypeOK, Versions, dbVars, daemonVars
<1> TypeOK
  BY DEF Inv
<1>1. CASE SaveWrite
  BY <1>1 DEF SaveWrite
<1>2. CASE SaveReturn
  BY <1>2 DEF SaveReturn
<1>3. ASSUME NEW v \in Versions, BumpRead(v)
      PROVE  TypeOK'
  BY <1>3 DEF BumpRead
<1>4. ASSUME NEW v \in Versions, BumpWrite(v)
      PROVE  TypeOK'
  <2>1. generation' \in Nat /\ landed' \in 0 .. MaxWrites
    BY <1>4 DEF BumpWrite
  <2>2. /\ apply' = [apply EXCEPT ![v] = "restarting"]
        /\ seen' = [seen EXCEPT ![v] = 0]
        /\ UNCHANGED <<version, features, saving, applyLock, exits, beat,
                       fresh, daemonVars>>
    BY <1>4 DEF BumpWrite
  <2>3. QED
    BY <2>1, <2>2
<1>5. ASSUME NEW v \in Versions, ApplyDone(v)
      PROVE  TypeOK'
  BY <1>5 DEF ApplyDone
<1>6. CASE UiExit
  <2>1. apply' \in [Versions -> {"none", "waiting", "bumping", "restarting",
                                "done", "lost"}]
    BY <1>6 DEF UiExit
  <2>2. seen' \in [Versions -> Nat]
    BY <1>6 DEF UiExit
  <2>3. applyLock' \in 0 .. MaxWrites
    BY <1>6 DEF UiExit
  <2>4. exits' \in 0 .. MaxExits
    BY <1>6 DEF UiExit
  <2>5. saving' \in BOOLEAN /\ UNCHANGED <<version, features, dbVars, daemonVars>>
    BY <1>6 DEF UiExit
  <2>6. QED
    BY <2>1, <2>2, <2>3, <2>4, <2>5
<1>7. QED
  BY <1>1, <1>2, <1>3, <1>4, <1>5, <1>6 DEF ApplyStep

LEMMA UiKeepsInv ==
  ASSUME Inv,
         SaveWrite \/ SaveReturn \/ UiExit \/ \E v \in Versions : ApplyStep(v)
  PROVE  Inv'
<1> USE DEF Inv
<1> TypeOK'
  BY UiKeepsTypes
<1>1. ASSUME UNCHANGED <<generation, landed, beat, pc, now, mem, copy>>,
             version' >= version
      PROVE  ReportsHonest'
  BY <1>1 DEF ReportsHonest, Honest, TypeOK, Reports
<1>2. CASE SaveWrite
  <2>1. /\ version' = version + 1 /\ saving' /\ version' \in Versions
        /\ UNCHANGED <<apply, seen, applyLock, exits, dbVars, daemonVars>>
    BY <1>2 DEF SaveWrite, TypeOK, Versions
  <2>2. BumpsSerialised'
    BY <2>1 DEF BumpsSerialised, dbVars
  <2>3. ReportsHonest'
    BY <2>1, <1>1 DEF TypeOK, dbVars, daemonVars
  <2>4. Announced'
    BY <2>1 DEF Announced, TypeOK, dbVars, Versions
  <2>5. NoneLost'
    BY <2>1 DEF NoneLost
  <2>6. QED
    BY <2>2, <2>3, <2>4, <2>5
<1>3. CASE SaveReturn
  <2>1. /\ ~saving' /\ apply' = [apply EXCEPT ![version] = "waiting"]
        /\ UNCHANGED <<version, seen, applyLock, exits, dbVars, daemonVars>>
        /\ version \in Versions /\ apply[version] = "none"
    BY <1>3 DEF SaveReturn, Announced
  <2>2. BumpsSerialised'
    BY <2>1 DEF BumpsSerialised, dbVars, TypeOK
  <2>3. ReportsHonest'
    BY <2>1, <1>1 DEF TypeOK, dbVars, daemonVars
  <2>4. Announced'
    BY <2>1 DEF Announced, TypeOK, dbVars, Versions
  <2>5. NoneLost'
    BY <2>1 DEF NoneLost, TypeOK
  <2>6. QED
    BY <2>2, <2>3, <2>4, <2>5
<1>4. ASSUME NEW v \in Versions, BumpRead(v)
      PROVE  Inv'
  <2>1. /\ applyLock = 0 /\ applyLock' = v /\ apply[v] = "waiting"
        /\ apply' = [apply EXCEPT ![v] = "bumping"]
        /\ seen' = [seen EXCEPT ![v] = generation]
        /\ UNCHANGED <<version, saving, exits, dbVars, daemonVars>>
    BY <1>4 DEF BumpRead
  <2>2. BumpsSerialised'
    BY <2>1 DEF BumpsSerialised, dbVars, TypeOK, Versions
  <2>3. ReportsHonest'
    BY <2>1, <1>1 DEF TypeOK, dbVars, daemonVars
  <2>4. Announced'
    BY <2>1 DEF Announced, TypeOK, dbVars, Versions
  <2>5. NoneLost'
    BY <2>1 DEF NoneLost, TypeOK
  <2>6. QED
    BY <2>2, <2>3, <2>4, <2>5
<1>5. ASSUME NEW v \in Versions, BumpWrite(v)
      PROVE  Inv'
  <2>1. /\ apply[v] = "bumping" /\ applyLock = v
        /\ generation' = generation + 1
        /\ landed' \in {v, landed} /\ landed' >= v /\ landed' >= landed
        /\ apply' = [apply EXCEPT ![v] = "restarting"]
        /\ UNCHANGED <<version, saving, applyLock, exits, beat, daemonVars>>
    BY <1>5 DEF BumpWrite, BumpsSerialised, TypeOK, Versions
  <2>2. BumpsSerialised'
    BY <2>1 DEF BumpsSerialised, TypeOK, Versions
  <2>3. ReportsHonest'
    BY <2>1 DEF ReportsHonest, Honest, TypeOK, Reports, daemonVars
  <2>4. Announced'
    <3>1. landed <= version /\ v <= version /\ landed \in Nat /\ version \in Nat
      BY <1>5 DEF BumpWrite, Announced, TypeOK
    <3>2. landed' <= version' /\ generation' # 0
      BY <2>1, <3>1, <1>5 DEF BumpWrite, TypeOK, Versions
    <3>3. ASSUME NEW u \in Versions
          PROVE  /\ apply'[u] # "none" => u <= version
                 /\ apply'[u] \in {"restarting", "done"} => u <= landed'
      <4>1. CASE u = v
        BY <2>1, <3>1, <4>1
      <4>2. CASE u # v
        <5>1. apply'[u] = apply[u]
          BY <2>1, <4>2 DEF TypeOK
        <5>2. u \in Nat /\ landed' \in Nat /\ landed <= landed'
          BY <2>1, <3>1 DEF Versions
        <5>3. QED
          BY <3>1, <5>1, <5>2 DEF Announced
      <4>3. QED
        BY <4>1, <4>2
    <3>4. saving => version \in Versions /\ apply'[version] = "none"
      BY <2>1 DEF Announced, TypeOK
    <3>5. saving' = saving /\ version' = version
      BY <2>1
    <3>6. QED
      BY <3>2, <3>3, <3>4, <3>5 DEF Announced
  <2>5. NoneLost'
    BY <2>1 DEF NoneLost, TypeOK
  <2>6. QED
    BY <2>2, <2>3, <2>4, <2>5
<1>6. ASSUME NEW v \in Versions, ApplyDone(v)
      PROVE  Inv'
  <2>1. /\ apply[v] = "restarting" /\ applyLock = v /\ applyLock' = 0
        /\ apply' = [apply EXCEPT ![v] = "done"]
        /\ UNCHANGED <<version, saving, seen, exits, dbVars, daemonVars>>
    BY <1>6 DEF ApplyDone, BumpsSerialised
  <2>2. BumpsSerialised'
    BY <2>1 DEF BumpsSerialised, dbVars, TypeOK, Versions
  <2>3. ReportsHonest'
    BY <2>1, <1>1 DEF TypeOK, dbVars, daemonVars
  <2>4. Announced'
    BY <2>1 DEF Announced, TypeOK, dbVars, Versions
  <2>5. NoneLost'
    BY <2>1 DEF NoneLost, TypeOK
  <2>6. QED
    BY <2>2, <2>3, <2>4, <2>5
<1>7. CASE UiExit
  <2>1. /\ exits' # 0 /\ ~saving' /\ applyLock' = 0
        /\ UNCHANGED <<version, dbVars, daemonVars>>
    BY <1>7 DEF UiExit, TypeOK
  <2>2. \A v \in Versions :
          /\ apply'[v] \notin {"bumping", "restarting"}
          /\ apply'[v] # "none" => apply[v] # "none"
          /\ apply'[v] = "done" => apply[v] \in {"restarting", "done"}
    BY <1>7 DEF UiExit, TypeOK
  <2>3. BumpsSerialised'
    BY <2>1, <2>2 DEF BumpsSerialised, Versions
  <2>4. ReportsHonest'
    BY <2>1, <1>1 DEF TypeOK, dbVars, daemonVars
  <2>5. Announced' /\ NoneLost'
    BY <2>1, <2>2 DEF Announced, NoneLost, dbVars
  <2>6. QED
    BY <2>3, <2>4, <2>5
<1>8. QED
  BY <1>2, <1>3, <1>4, <1>5, <1>6, <1>7 DEF ApplyStep

(* The steps of the daemons: they touch neither the saves nor the bumps.   *)
LEMMA DaemonKeepsInv ==
  ASSUME Inv,
         \/ \E d \in Daemons : Start(d) \/ LoopStep(d) \/ Crash(d) \/ Expire(d)
         \/ BeatAgain \/ ThreadCopy \/ ThreadWrite
  PROVE  Inv'
<1> USE DEF Inv, uiVars, dbVars, daemonVars
<1>1. ASSUME UNCHANGED <<uiVars, generation, landed>>
      PROVE  BumpsSerialised' /\ Announced' /\ NoneLost'
  BY <1>1 DEF BumpsSerialised, Announced, NoneLost
<1>2. ASSUME NEW d \in Daemons, Start(d)
      PROVE  Inv'
  <2>1. TypeOK' /\ ReportsHonest'
    BY <1>2 DEF Start, TypeOK, ReportsHonest, Honest
  <2>2. QED
    BY <2>1, <1>1, <1>2 DEF Start
<1>3. ASSUME NEW d \in Daemons, ReadGen(d)
      PROVE  Inv'
  <2>1. /\ now' = [now EXCEPT ![d] = [now[d] EXCEPT !.gen = generation]]
        /\ pc' = [pc EXCEPT ![d] = "readSettings"]
        /\ UNCHANGED <<uiVars, dbVars, mem, copy, crashes>>
    BY <1>3 DEF ReadGen, TypeOK
  <2>2. TypeOK'
    BY <2>1 DEF TypeOK, Reports
  <2>3. ReportsHonest'
    BY <2>1 DEF TypeOK, ReportsHonest, Honest, Reports
  <2>4. QED
    BY <2>1, <2>2, <2>3, <1>1
<1>4. ASSUME NEW d \in Daemons, ReadSettings(d)
      PROVE  Inv'
  <2>1. PICK st \in {"active", "idle"} :
          now' = [now EXCEPT ![d] = [now[d] EXCEPT !.built = version,
                                                   !.state = st]]
    BY <1>4 DEF ReadSettings, TypeOK
  <2>2. /\ pc[d] = "readSettings" /\ pc' = [pc EXCEPT ![d] = "beat"]
        /\ UNCHANGED <<uiVars, dbVars, mem, copy, crashes>>
    BY <1>4 DEF ReadSettings
  <2>a. now' \in [Daemons -> Reports]
    <3>1. now \in [Daemons -> Reports] /\ version \in Nat
      BY DEF TypeOK
    <3>2. [now[d] EXCEPT !.built = version, !.state = st] \in Reports
      BY <3>1 DEF Reports
    <3>3. QED
      BY <3>1, <3>2, <2>1
  <2>3. TypeOK'
    BY <2>a, <2>2 DEF TypeOK
  <2>4. Honest(now'[d])
    BY <2>1, <2>2 DEF TypeOK, Reports, ReportsHonest, Honest, Announced
  <2>5. ReportsHonest'
    BY <2>1, <2>2, <2>4 DEF TypeOK, ReportsHonest, Honest
  <2>6. QED
    BY <2>2, <2>3, <2>5, <1>1
<1>5. ASSUME NEW d \in Daemons, Beat(d)
      PROVE  Inv'
  <2>1. TypeOK' /\ ReportsHonest'
    BY <1>5 DEF Beat, WriteHeartbeat, TypeOK, ReportsHonest, Honest, Reports
  <2>2. QED
    BY <2>1, <1>1, <1>5 DEF Beat
<1>6. ASSUME NEW d \in Daemons, LeaveServe(d)
      PROVE  Inv'
  <2>1. TypeOK' /\ ReportsHonest'
    BY <1>6 DEF LeaveServe, NoReport, TypeOK, ReportsHonest, Honest, Reports
  <2>2. QED
    BY <2>1, <1>1, <1>6 DEF LeaveServe
<1>7. ASSUME NEW d \in Daemons, Crash(d)
      PROVE  Inv'
  <2>1. Honest(NoReport)
    BY DEF Honest, NoReport, TypeOK, Announced
  <2>2. TypeOK'
    BY <1>7 DEF Crash, NoReport, TypeOK, Reports
  <2>3. ReportsHonest'
    BY <1>7, <2>1 DEF Crash, ReportsHonest, Honest, TypeOK
  <2>4. QED
    BY <2>2, <2>3, <1>1, <1>7 DEF Crash
<1>8. ASSUME NEW d \in Daemons, Expire(d)
      PROVE  Inv'
  <2>1. TypeOK' /\ ReportsHonest'
    BY <1>8 DEF Expire, TypeOK, ReportsHonest, Honest
  <2>2. QED
    BY <2>1, <1>1, <1>8 DEF Expire
<1>9. CASE BeatAgain
  <2>1. TypeOK' /\ ReportsHonest'
    BY <1>9 DEF BeatAgain, WriteHeartbeat, TypeOK, ReportsHonest, Honest
  <2>2. QED
    BY <2>1, <1>1, <1>9 DEF BeatAgain
<1>10. CASE ThreadCopy
  <2>1. TypeOK' /\ ReportsHonest'
    BY <1>10 DEF ThreadCopy, TypeOK, ReportsHonest, Honest
  <2>2. QED
    BY <2>1, <1>1, <1>10 DEF ThreadCopy
<1>11. CASE ThreadWrite
  <2>1. Honest(NoReport)
    BY DEF Honest, NoReport, TypeOK, Announced
  <2>2. TypeOK'
    BY <1>11 DEF ThreadWrite, WriteHeartbeat, NoReport, TypeOK, Reports
  <2>3. ReportsHonest'
    BY <1>11, <2>1 DEF ThreadWrite, WriteHeartbeat, ReportsHonest, Honest, TypeOK
  <2>4. QED
    BY <2>2, <2>3, <1>1, <1>11 DEF ThreadWrite
<1>12. QED
  BY <1>2, <1>3, <1>4, <1>5, <1>6, <1>7, <1>8, <1>9, <1>10, <1>11 DEF LoopStep

LEMMA Invariant == Spec => []Inv
<1>1. Init => Inv
  <2> SUFFICES ASSUME Init PROVE Inv
    OBVIOUS
  <2>1. TypeOK
    <3>1. NoReport \in Reports
      BY DEF NoReport, Reports
    <3>2. /\ beat \in [Daemons -> Reports] /\ now \in [Daemons -> Reports]
          /\ mem \in Reports /\ copy \in Reports
      BY <3>1 DEF Init
    <3>3. /\ apply \in [Versions -> {"none", "waiting", "bumping",
                                    "restarting", "done", "lost"}]
          /\ seen \in [Versions -> Nat]
      BY DEF Init
    <3>4. /\ pc \in [Daemons -> {"absent", "down", "readGen", "readSettings",
                              "beat", "serve"}]
          /\ fresh \in [Daemons -> BOOLEAN]
      BY DEF Init
    <3>5. features \in BOOLEAN /\ saving \in BOOLEAN
      BY DEF Init
    <3>6. /\ version \in 0 .. MaxWrites /\ applyLock \in 0 .. MaxWrites
          /\ landed \in 0 .. MaxWrites /\ generation \in Nat
          /\ exits \in 0 .. MaxExits /\ crashes \in 0 .. MaxCrashes
      BY DEF Init
    <3>7. QED
      BY <3>2, <3>3, <3>4, <3>5, <3>6 DEF TypeOK
  <2>2. BumpsSerialised
    BY DEF Init, BumpsSerialised, Versions
  <2>3. ReportsHonest
    <3>1. Honest(NoReport)
      BY DEF Init, Honest, NoReport
    <3>2. QED
      BY <3>1 DEF Init, ReportsHonest
  <2>4. Announced /\ NoneLost
    BY DEF Init, Announced, NoneLost, Versions
  <2>5. QED
    BY <2>1, <2>2, <2>3, <2>4 DEF Inv
<1>2. Inv /\ [Next]_vars => Inv'
  <2> SUFFICES ASSUME Inv, [Next]_vars
               PROVE  Inv'
    OBVIOUS
  <2>1. CASE UNCHANGED vars
    BY <2>1 DEF vars, uiVars, dbVars, daemonVars, Inv, TypeOK,
       BumpsSerialised, ReportsHonest, Honest, Announced, NoneLost
  <2>2. QED
    BY <2>1, UiKeepsInv, DaemonKeepsInv DEF Next
<1>3. QED
  BY <1>1, <1>2, PTL DEF Spec

(***************************************************************************)
(* A daemon is never shown as running (or deactivated) on settings older   *)
(* than the newest announced save.                                         *)
(***************************************************************************)
THEOREM Confirmation == Spec => []NoFalseConfirmation
<1>1. Inv => NoFalseConfirmation
  BY DEF Inv, ReportsHonest, Honest, NoFalseConfirmation, ShowsApplied, Status
<1>2. QED
  BY <1>1, Invariant, PTL

(***************************************************************************)
(* As long as the app has not been closed, what is shown as applied is     *)
(* what is saved.                                                          *)
(***************************************************************************)
THEOREM ShownSaved == Spec => []ShownIsSaved
<1>1. Inv => ShownIsSaved
  <2> SUFFICES ASSUME Inv, exits = 0, NEW d \in Daemons, ShowsApplied(d),
                      ~SaveUnderway
               PROVE  beat[d].built = version
    BY DEF ShownIsSaved, EverySaveShown
  <2>1. beat[d].built >= landed /\ beat[d].built <= version
    BY DEF Inv, ReportsHonest, Honest, ShowsApplied, Status
  <2>2. version \in Versions => version <= landed
    BY DEF Inv, Announced, NoneLost, SaveUnderway, TypeOK
  <2>3. landed <= version
    BY DEF Inv, Announced
  <2>4. QED
    BY <2>1, <2>2, <2>3 DEF Inv, TypeOK, Versions, Reports
<1>2. QED
  BY <1>1, Invariant, PTL

(***************************************************************************)
(* Generations are never reused: a bump is read and written under the lock.*)
(***************************************************************************)
THEOREM BumpsCount == Spec => EveryBumpCounts
<1>1. Inv => (\A v \in Versions : BumpWrite(v) => generation' > generation)
  BY DEF Inv, TypeOK, BumpsSerialised, BumpWrite
<1>2. QED
  BY <1>1, Invariant, PTL DEF EveryBumpCounts, Spec

=============================================================================
