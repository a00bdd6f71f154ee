-------------------------------- MODULE AppProofs --------------------------------
(***************************************************************************)
(* The app's threads beside its commands: the listener and the device       *)
(* tables it fills (UiListener, DeviceStore), and the timers of the         *)
(* foreground GPS (ForegroundGps).  The two share no state.                 *)
(***************************************************************************)
EXTENDS ForegroundGps, UiListener, TLAPS

-----------------------------------------------------------------------------
(***************************************************************************)
(* DeviceStore: its types, and what its transactions do to positions that   *)
(* no device belongs to.                                                    *)
(***************************************************************************)

LEMMA EditsTyped ==
  ASSUME StoreTypeOK, NEW d \in Ids, AddRemote(d) \/ RemoveDevice(d) \/ StoreFix(d)
  PROVE  StoreTypeOK'
BY DEF StoreTypeOK, AddRemote, RemoveDevice, StoreFix

LEMMA RenameTyped ==
  ASSUME StoreTypeOK, NEW d \in Ids, NEW e \in Ids, RenameDevice(d, e)
  PROVE  StoreTypeOK'
<1>1. rows[e] + rows[d] \in Nat
  BY DEF StoreTypeOK
<1>2. rows' \in [Ids -> Nat]
  BY <1>1 DEF StoreTypeOK, RenameDevice
<1>3. QED
  BY <1>2 DEF StoreTypeOK, RenameDevice, Renamed

LEMMA FlagsTyped ==
  ASSUME StoreTypeOK, NEW d, NEW b, SetAuthResult(d, b) \/ SetDeleted(d, b)
  PROVE  StoreTypeOK'
BY DEF StoreTypeOK, SetAuthResult, SetDeleted

(* No edit makes positions ownerless: a device takes them along, to its new *)
(* id or out of the table.                                                  *)
LEMMA EditsKeepOwners ==
  ASSUME StoreTypeOK, NEW d \in Ids, AddRemote(d) \/ RemoveDevice(d),
         NEW x \in Ids, Ownerless(x)'
  PROVE  Ownerless(x)
<1>1. CASE AddRemote(d)
  BY <1>1 DEF Ownerless, AddRemote
<1>2. CASE RemoveDevice(d)
  <2>1. rows'[d] = 0 /\ (x # d => rows'[x] = rows[x])
    BY <1>2 DEF StoreTypeOK, RemoveDevice
  <2>2. QED
    BY <1>2, <2>1 DEF Ownerless, RemoveDevice
<1>3. QED
  BY <1>1, <1>2

LEMMA RenameKeepsOwners ==
  ASSUME StoreTypeOK, NEW d \in Ids, NEW e \in Ids, RenameDevice(d, e),
         NEW x \in Ids, Ownerless(x)'
  PROVE  Ownerless(x)
<1>1. d # e /\ e \in devs' /\ (x # d => (x \in devs => x \in devs'))
  BY DEF RenameDevice
<1>2. rows'[d] = 0 /\ (x \notin {d, e} => rows'[x] = rows[x])
  BY <1>1 DEF StoreTypeOK, RenameDevice
<1>3. QED
  BY <1>1, <1>2 DEF Ownerless

LEMMA FlagsKeepOwners ==
  ASSUME NEW d, NEW b, SetAuthResult(d, b) \/ SetDeleted(d, b), NEW x \in Ids
  PROVE  Ownerless(x)' <=> Ownerless(x)
BY DEF Ownerless, SetAuthResult, SetDeleted

(* A stored position is the one position of its id, and of no other.        *)
LEMMA StoreFixOwns ==
  ASSUME StoreTypeOK, NEW d \in Ids, StoreFix(d), NEW x \in Ids, Ownerless(x)', ~Ownerless(x)
  PROVE  x = d /\ d \notin devs
BY DEF StoreTypeOK, Ownerless, StoreFix

-----------------------------------------------------------------------------
(***************************************************************************)
(* UiListener: types.                                                      *)
(***************************************************************************)

OwnTypeOK == owns \in 0 .. 2 /\ maker \in [Processes -> {"down", "absent", "done"}]
WorkerTypeOK ==
    /\ worker \in {"init", "starting", "free", "update", "auth", "deleted", "restart"}
    /\ edit \in Ids \cup {None} /\ edits \in 0 .. MaxEdits
Places == {"idle", "wait", "retire", "close", "connect", "list", "subscribe"}
ListenerTypeOK ==
    /\ mqttOn \in BOOLEAN
    /\ client \in Clients \cup {None}
    /\ lock \in Restarts \cup {None}
    /\ pc \in [Restarts -> Places]
    /\ mine \in [Restarts -> Clients \cup {None}]
    /\ list \in [Restarts -> SUBSET Ids]
    /\ alive \subseteq Clients /\ revived \subseteq Clients
    /\ stranded \subseteq Clients /\ failed \subseteq Clients
    /\ subs \in [Clients -> SUBSET Ids]
MessageTypeOK ==
    /\ message \in [Clients -> Messages \cup {NoMessage}]
    /\ faults \in 0 .. MaxFaults /\ bad \subseteq Ids

ListenerTypeInv == StoreTypeOK /\ OwnTypeOK /\ WorkerTypeOK /\ ListenerTypeOK /\ MessageTypeOK

LEMMA ListenerTypeInit == Init => ListenerTypeInv
<1> SUFFICES ASSUME Init PROVE ListenerTypeInv
  OBVIOUS
<1>1. StoreTypeOK
  BY DEF Init, StoreInit, StoreTypeOK
<1>2. OwnTypeOK /\ WorkerTypeOK
  BY BoundsAssumption DEF Init, OwnTypeOK, WorkerTypeOK
<1>3. ListenerTypeOK
  BY DEF Init, ListenerTypeOK, Places
<1>4. MessageTypeOK
  BY BoundsAssumption DEF Init, MessageTypeOK
<1>5. QED
  BY <1>1, <1>2, <1>3, <1>4 DEF ListenerTypeInv

LEMMA GotoTypes ==
  ASSUME ListenerTypeOK, NEW r \in Restarts, NEW place \in Places, Goto(r, place)
  PROVE  /\ pc' \in [Restarts -> Places]
         /\ pc'[r] = place /\ \A x \in Restarts : x # r => pc'[x] = pc[x]
BY DEF ListenerTypeOK, Goto

LEMMA SpawnTypes ==
  ASSUME ListenerTypeOK, Spawn
  PROVE  pc' \in [Restarts -> Places]
BY DEF ListenerTypeOK, Spawn, Places

LEMMA RestartTypes ==
  ASSUME ListenerTypeInv, NEW r \in Restarts, RestartStep(r)
  PROVE  ListenerTypeInv'
<1> DEFINE KeepsRest == UNCHANGED <<storeVars, ownVars, workerVars, message, bad>>
<1>1. ASSUME KeepsRest, faults' \in 0 .. MaxFaults, ListenerTypeOK'
      PROVE  ListenerTypeInv'
  BY <1>1 DEF storeVars, ownVars, workerVars, StoreTypeOK, OwnTypeOK,
     WorkerTypeOK, MessageTypeOK, ListenerTypeInv
<1>2. ListenerTypeOK /\ faults \in 0 .. MaxFaults
  BY DEF ListenerTypeInv, MessageTypeOK
<1>3. Fault => faults' \in 0 .. MaxFaults
  BY <1>2, BoundsAssumption DEF Fault
<1>4. CASE Begin(r)
  <2>1. pc' \in [Restarts -> Places]
    BY <1>2, <1>4, GotoTypes DEF Begin, Places
  <2>2. ListenerTypeOK'
    BY <1>2, <1>4, <2>1 DEF Begin, ListenerTypeOK
  <2>3. QED
    BY <1>1, <1>2, <1>4, <2>2 DEF Begin
<1>5. CASE Retire(r)
  <2>1. pc' \in [Restarts -> Places] /\ lock' \in Restarts \cup {None}
    BY <1>2, <1>5, GotoTypes DEF Retire, End, Places, ListenerTypeOK
  <2>2. /\ faults' \in 0 .. MaxFaults
        /\ alive' \subseteq Clients /\ revived' \subseteq Clients
        /\ failed' \subseteq Clients /\ stranded' \subseteq Clients
        /\ subs' \in [Clients -> SUBSET Ids]
    <3>1. CASE mine[r] = None
      BY <1>2, <1>5, <3>1 DEF Retire, ListenerTypeOK
    <3>2. CASE mine[r] # None
      <4>1. mine[r] \in Clients /\ Closed(mine[r])
        BY <1>2, <1>5, <3>2 DEF Retire, ListenerTypeOK
      <4>2. QED
        BY <1>2, <1>3, <4>1 DEF Closed, Forget, ListenerTypeOK
    <3>3. QED
      BY <3>1, <3>2
  <2>3. mine' \in [Restarts -> Clients \cup {None}] /\ UNCHANGED <<mqttOn, client, list>>
    BY <1>2, <1>5 DEF Retire, ListenerTypeOK
  <2>4. ListenerTypeOK'
    BY <1>2, <2>1, <2>2, <2>3 DEF ListenerTypeOK
  <2>5. QED
    BY <1>1, <1>5, <2>2, <2>4 DEF Retire
<1>6. CASE Connect(r)
  <2>1. PICK c \in Unused : client' = c
      /\ \/ alive' = alive \cup {c} /\ mine' = [mine EXCEPT ![r] = c] /\ Goto(r, "list")
            /\ UNCHANGED <<lock, failed, faults>>
         \/ Fault /\ failed' = failed \cup {c} /\ End(r) /\ UNCHANGED <<alive, mine>>
    BY <1>6 DEF Connect
  <2>2. c \in Clients
    BY <2>1 DEF Unused
  <2>3. pc' \in [Restarts -> Places]
    BY <1>2, <2>1, GotoTypes DEF End, Places
  <2>4. /\ client' \in Clients \cup {None} /\ lock' \in Restarts \cup {None}
        /\ mine' \in [Restarts -> Clients \cup {None}]
        /\ alive' \subseteq Clients /\ failed' \subseteq Clients /\ faults' \in 0 .. MaxFaults
    BY <1>2, <1>3, <2>1, <2>2 DEF End, ListenerTypeOK
  <2>5. ListenerTypeOK'
    BY <1>2, <1>6, <2>3, <2>4 DEF Connect, ListenerTypeOK
  <2>6. QED
    BY <1>1, <1>6, <2>4, <2>5 DEF Connect
<1>7. CASE ListDevices(r)
  <2>1. pc' \in [Restarts -> Places]
    BY <1>2, <1>7, GotoTypes DEF ListDevices, Places
  <2>2. list' \in [Restarts -> SUBSET Ids]
    BY <1>2, <1>7 DEF ListDevices, ListenerTypeOK, ListenerTypeInv, StoreTypeOK
  <2>3. ListenerTypeOK'
    BY <1>2, <1>7, <2>1, <2>2 DEF ListDevices, ListenerTypeOK
  <2>4. QED
    BY <1>1, <1>2, <1>7, <2>3 DEF ListDevices
<1>8. CASE Subscribe(r)
  <2>1. pc' \in [Restarts -> Places]
    BY <1>2, <1>8, GotoTypes DEF Subscribe, End, Places
  <2>2. subs' \in [Clients -> SUBSET Ids] /\ list' \in [Restarts -> SUBSET Ids]
        /\ mine' \in [Restarts -> Clients \cup {None}]
    BY <1>2, <1>8 DEF Subscribe, ListenerTypeOK
  <2>3. ListenerTypeOK'
    BY <1>2, <1>8, <2>1, <2>2 DEF Subscribe, End, ListenerTypeOK
  <2>4. QED
    BY <1>1, <1>2, <1>8, <2>3 DEF Subscribe
<1>9. QED
  BY <1>4, <1>5, <1>6, <1>7, <1>8 DEF RestartStep

LEMMA FreshTypes == ASSUME NEW D PROVE Fresh(D) \subseteq bad
BY DEF Fresh

LEMMA UserTypes ==
  ASSUME ListenerTypeInv, User
  PROVE  ListenerTypeInv'
<1>1. /\ StoreTypeOK /\ OwnTypeOK /\ WorkerTypeOK /\ ListenerTypeOK /\ MessageTypeOK
      /\ edits \in 0 .. MaxEdits
  BY DEF ListenerTypeInv, WorkerTypeOK
<1>2. ASSUME Operate, StoreTypeOK', ListenerTypeOK', bad' \subseteq Ids,
             worker' \in {"free", "update", "auth"}, edit' \in Ids \cup {None},
             UNCHANGED <<ownVars, message, faults>>
      PROVE  ListenerTypeInv'
  <2>1. edits' \in 0 .. MaxEdits
    BY <1>1, <1>2, BoundsAssumption DEF Operate
  <2>2. OwnTypeOK' /\ MessageTypeOK'
    BY <1>1, <1>2 DEF OwnTypeOK, MessageTypeOK, ownVars
  <2>3. QED
    BY <1>1, <1>2, <2>1, <2>2 DEF ListenerTypeInv, WorkerTypeOK
<1>3. ASSUME Spawn, RestartOnly, UNCHANGED stranded PROVE ListenerTypeOK'
  BY <1>1, <1>3, SpawnTypes DEF RestartOnly, ListenerTypeOK
<1>4. ASSUME NEW d \in Ids, AddDevice(d) PROVE ListenerTypeInv'
  BY <1>1, <1>2, <1>3, <1>4, EditsTyped, FreshTypes
     DEF AddDevice, Operate, WorkerTypeOK, MessageTypeOK
<1>5. ASSUME NEW d \in Ids, RemoveIt(d) PROVE ListenerTypeInv'
  BY <1>1, <1>2, <1>3, <1>5, EditsTyped, FreshTypes
     DEF RemoveIt, Operate, WorkerTypeOK, MessageTypeOK
<1>6. ASSUME NEW d \in Ids, UpdateDevice(d) PROVE ListenerTypeInv'
  <2>1. StoreTypeOK' /\ ListenerTypeOK'
    BY <1>1, <1>6 DEF UpdateDevice, storeVars, listenerVars, StoreTypeOK, ListenerTypeOK
  <2>2. QED
    BY <1>1, <1>2, <1>6, <2>1, FreshTypes DEF UpdateDevice, MessageTypeOK
<1>7. ASSUME NEW d \in Ids, NEW e \in Ids, RenameIt(d, e) PROVE ListenerTypeInv'
  <2>1. StoreTypeOK' /\ ListenerTypeOK'
    BY <1>1, <1>7, RenameTyped DEF RenameIt, listenerVars, ListenerTypeOK
  <2>2. QED
    BY <1>1, <1>2, <1>7, <2>1, FreshTypes DEF RenameIt, MessageTypeOK
<1>8. CASE SaveSettings
  <2>1. StoreTypeOK'
    BY <1>1, <1>8 DEF SaveSettings, storeVars, StoreTypeOK
  <2>2. ListenerTypeOK'
    BY <1>1, <1>8, SpawnTypes DEF SaveSettings, ListenerTypeOK
  <2>3. QED
    BY <1>1, <1>2, <1>8, <2>1, <2>2 DEF SaveSettings, Operate, WorkerTypeOK, MessageTypeOK
<1>9. QED
  BY <1>4, <1>5, <1>6, <1>7, <1>8 DEF User

LEMMA WorkerTypes ==
  ASSUME ListenerTypeInv, StartApp \/ WorkerStep
  PROVE  ListenerTypeInv'
<1>1. StoreTypeOK /\ OwnTypeOK /\ WorkerTypeOK /\ ListenerTypeOK /\ MessageTypeOK
  BY DEF ListenerTypeInv
<1>2. UNCHANGED <<edits, ownVars, message, faults, bad, stranded>>
  BY DEF StartApp, WorkerStep, AppStarted, ClearAuth, ClearDeleted
<1>3. OwnTypeOK' /\ MessageTypeOK'
  BY <1>1, <1>2 DEF OwnTypeOK, MessageTypeOK, ownVars
<1>4. WorkerTypeOK'
  BY <1>1, <1>2 DEF WorkerTypeOK, StartApp, WorkerStep, AppStarted, ClearAuth, ClearDeleted
<1>5. (UNCHANGED storeVars) => StoreTypeOK'
  BY <1>1 DEF storeVars, StoreTypeOK
<1>6. StoreTypeOK'
  BY <1>1, <1>5, FlagsTyped DEF StartApp, WorkerStep, AppStarted, ClearAuth, ClearDeleted
<1>7. pc' \in [Restarts -> Places]
  BY <1>1, SpawnTypes DEF StartApp, WorkerStep, AppStarted, ClearAuth, ClearDeleted, listenerVars,
     ListenerTypeOK
<1>8. UNCHANGED <<mqttOn, client, lock, mine, list, alive, revived, subs, failed>>
  BY DEF StartApp, WorkerStep, AppStarted, ClearAuth, ClearDeleted, listenerVars, RestartOnly
<1>9. ListenerTypeOK'
  BY <1>1, <1>2, <1>7, <1>8 DEF ListenerTypeOK
<1>10. QED
  BY <1>3, <1>4, <1>6, <1>9 DEF ListenerTypeInv

LEMMA NetworkTypes ==
  ASSUME ListenerTypeInv, NEW c \in Clients,
         HandlerStep(c) \/ \E m \in Messages : Receive(c, m)
  PROVE  ListenerTypeInv'
<1>1. StoreTypeOK /\ OwnTypeOK /\ WorkerTypeOK /\ ListenerTypeOK /\ MessageTypeOK
  BY DEF ListenerTypeInv
<1>2. UNCHANGED <<ownVars, workerVars, listenerVars, stranded, faults>>
  BY DEF HandlerStep, OnRemoteLocation, OnRemoteAck, OnRemoteAckDeleted, Receive
<1>3. OwnTypeOK' /\ WorkerTypeOK' /\ ListenerTypeOK'
  BY <1>1, <1>2 DEF OwnTypeOK, WorkerTypeOK, ListenerTypeOK, ownVars, workerVars, listenerVars
<1>4. message[c].of = "location" => message[c].id \in Ids
  BY <1>1 DEF MessageTypeOK, Messages, NoMessage
<1>5. StoreTypeOK'
  <2>1. (UNCHANGED storeVars) => StoreTypeOK'
    BY <1>1 DEF storeVars, StoreTypeOK
  <2>2. QED
    BY <1>1, <1>4, <2>1, FlagsTyped, EditsTyped
       DEF HandlerStep, OnRemoteLocation, OnRemoteAck, OnRemoteAckDeleted, Receive
<1>6. message' \in [Clients -> Messages \cup {NoMessage}]
  <2>1. CASE OnRemoteAck(c)
    <3> DEFINE next == IF message[c].of = "wiped" THEN [message[c] EXCEPT !.of = "flag"]
                       ELSE NoMessage
    <3>1. message[c] \in Messages
      BY <1>1, <2>1 DEF OnRemoteAck, MessageTypeOK, NoMessage
    <3>2. next \in Messages \cup {NoMessage}
      BY <3>1 DEF Messages
    <3>3. message' = [message EXCEPT ![c] = next]
      BY <2>1 DEF OnRemoteAck
    <3> HIDE DEF next
    <3>4. QED
      BY <1>1, <3>2, <3>3 DEF MessageTypeOK
  <2>2. QED
    BY <1>1, <2>1 DEF HandlerStep, OnRemoteLocation, OnRemoteAckDeleted, Receive, MessageTypeOK
<1>7. bad' \subseteq Ids
  BY <1>1 DEF HandlerStep, OnRemoteLocation, OnRemoteAck, OnRemoteAckDeleted, Receive, Messages,
     MessageTypeOK
<1>8. QED
  BY <1>1, <1>2, <1>3, <1>5, <1>6, <1>7 DEF ListenerTypeInv, MessageTypeOK

LEMMA ListenerTypeStep ==
  ASSUME ListenerTypeInv, [Next]_vars
  PROVE  ListenerTypeInv'
<1>1. StoreTypeOK /\ OwnTypeOK /\ WorkerTypeOK /\ ListenerTypeOK /\ MessageTypeOK
  BY DEF ListenerTypeInv
<1>2. (UNCHANGED storeVars) => StoreTypeOK'
  BY <1>1 DEF storeVars, StoreTypeOK
<1>3. ASSUME NEW p \in Processes, LookForOwn(p) \/ InsertOwn(p) PROVE ListenerTypeInv'
  <2>1. OwnTypeOK'
    BY <1>1, <1>3 DEF OwnTypeOK, LookForOwn, InsertOwn
  <2>2. UNCHANGED <<storeVars, workerVars, listenerVars, message, stranded, faults, bad>>
    BY <1>3 DEF LookForOwn, InsertOwn
  <2>3. QED
    BY <1>1, <1>2, <2>1, <2>2 DEF ListenerTypeInv, WorkerTypeOK, ListenerTypeOK, MessageTypeOK,
       workerVars, listenerVars
<1>4. CASE Revive \/ Handover \/ RepairIfHandover
  <2>1. UNCHANGED <<storeVars, ownVars, workerVars, message, bad>>
    BY <1>4 DEF Revive, Handover, RepairIfHandover
  <2>2. faults' \in 0 .. MaxFaults
    BY <1>1, <1>4, BoundsAssumption DEF Revive, Handover, RepairIfHandover, Fault, MessageTypeOK
  <2>3. ListenerTypeOK'
    <3>1. CASE Revive
      BY <1>1, <3>1 DEF Revive, ListenerTypeOK
    <3>2. CASE Handover
      BY <1>1, <3>2 DEF Handover, ListenerTypeOK, listenerVars
    <3>3. CASE RepairIfHandover
      BY <1>1, <3>3, SpawnTypes DEF RepairIfHandover, RestartOnly, ListenerTypeOK
    <3>4. QED
      BY <1>4, <3>1, <3>2, <3>3
  <2>4. QED
    BY <1>1, <1>2, <2>1, <2>2, <2>3 DEF ListenerTypeInv, OwnTypeOK, WorkerTypeOK, MessageTypeOK,
       ownVars, workerVars
<1>5. CASE UNCHANGED vars
  BY <1>1, <1>2, <1>5 DEF vars, ListenerTypeInv, OwnTypeOK, WorkerTypeOK, ListenerTypeOK,
     MessageTypeOK, ownVars, workerVars, listenerVars
<1>6. QED
  BY <1>3, <1>4, <1>5, UserTypes, WorkerTypes, RestartTypes, NetworkTypes DEF Next

LEMMA AlwaysTyped == Spec => []ListenerTypeInv
BY ListenerTypeInit, ListenerTypeStep, PTL DEF Spec

(* Types of the device tables, the listener and its threads.                *)
THEOREM ListenerTypesCorrect == Spec => []TypeOK
<1>1. ListenerTypeInv => TypeOK
  BY DEF ListenerTypeInv, StoreTypeOK, OwnTypeOK, WorkerTypeOK, ListenerTypeOK, MessageTypeOK, TypeOK,
     Places
<1>2. QED
  BY <1>1, AlwaysTyped, PTL

-----------------------------------------------------------------------------
(***************************************************************************)
(* UiListener: why buttons are grey.                                       *)
(***************************************************************************)

(* Whose buttons are grey has said so since its last edit, or an edit is    *)
(* about to clear it; what a bad acknowledgement under way will set is not  *)
(* held against the edit.                                                   *)
BadKinds == {"auth_failed", "wiped", "flag"}
GreyBecause ==
    /\ refused \subseteq devs /\ deleted \subseteq devs
    /\ \A d \in refused : d \in bad \/ (worker \in {"update", "auth"} /\ edit = d)
    /\ \A d \in deleted :
          d \in bad \/ (worker \in {"update", "auth", "deleted", "restart"} /\ edit = d)
    /\ \A c \in Clients : message[c].of \in BadKinds => message[c].id \in bad

(* The flags are of devices there are, so that neither a device that is     *)
(* added nor the new id of a renamed one comes with a flag.                 *)
LEMMA EditsKeepReasons ==
  ASSUME ListenerTypeInv, GreyBecause, worker = "free", NEW d \in Ids,
         AddDevice(d) \/ RemoveIt(d) \/ UpdateDevice(d)
  PROVE  GreyBecause'
<1>1. /\ \A x \in refused' : x \in refused /\ x \in devs'
      /\ \A x \in deleted' : x \in deleted /\ x \in devs'
  BY DEF GreyBecause, AddDevice, RemoveIt, UpdateDevice, AddRemote, RemoveDevice, storeVars
<1>2. refused \subseteq bad /\ deleted \subseteq bad
  BY DEF GreyBecause
<1>3. bad' = Fresh({d}) /\ message' = message
  BY DEF AddDevice, RemoveIt, UpdateDevice
<1>4. /\ d \in refused' \cup deleted' => edit' = d /\ worker' = "auth"
  BY DEF GreyBecause, AddDevice, RemoveIt, UpdateDevice, AddRemote, RemoveDevice, storeVars
<1>5. \A c \in Clients : message[c].of \in BadKinds => message[c].id \in bad'
  BY <1>3 DEF GreyBecause, Fresh, AtWork
<1>6. \A x \in bad : x # d => x \in bad'
  BY <1>3 DEF Fresh
<1>7. QED
  BY <1>1, <1>2, <1>3, <1>4, <1>5, <1>6 DEF GreyBecause

LEMMA RenameKeepsReasons ==
  ASSUME ListenerTypeInv, GreyBecause, worker = "free", NEW d \in Ids, NEW e \in Ids, RenameIt(d, e)
  PROVE  GreyBecause'
<1>1. d \in devs /\ e \notin devs /\ devs' = (devs \ {d}) \cup {e}
  BY DEF RenameIt, RenameDevice
<1>2. /\ refused' \subseteq (refused \ {d}) \cup {e}
      /\ deleted' \subseteq (deleted \ {d}) \cup {e}
  BY DEF RenameIt, RenameDevice, Renamed
<1>3. bad' = Fresh({d, e}) /\ message' = message /\ worker' = "update" /\ edit' = e
  BY DEF RenameIt
<1>4. refused \subseteq bad /\ deleted \subseteq bad
  BY DEF GreyBecause
<1>5. \A c \in Clients : message[c].of \in BadKinds => message[c].id \in bad'
  BY <1>3 DEF GreyBecause, Fresh, AtWork
<1>6. \A x \in bad : x \notin {d, e} => x \in bad'
  BY <1>3 DEF Fresh
<1>7. QED
  BY <1>1, <1>2, <1>3, <1>4, <1>5, <1>6 DEF GreyBecause

LEMMA ClearingKeepsReasons ==
  ASSUME ListenerTypeInv, GreyBecause, ClearAuth \/ ClearDeleted
  PROVE  GreyBecause'
<1>1. UNCHANGED <<devs, bad, message>>
  BY DEF ClearAuth, ClearDeleted, SetAuthResult, SetDeleted
<1>2. CASE ClearAuth
  <2>1. /\ refused' = refused \ {edit} /\ deleted' = deleted /\ edit' = edit
        /\ worker \in {"update", "auth"} /\ worker' \in {"deleted", "restart"}
    BY <1>2 DEF ClearAuth, SetAuthResult
  <2>2. QED
    BY <1>1, <2>1 DEF GreyBecause
<1>3. CASE ClearDeleted
  <2>1. /\ refused' = refused /\ deleted' = deleted \ {edit}
        /\ worker \in {"deleted", "restart"} /\ worker' = "free"
    BY <1>3 DEF ClearDeleted, SetDeleted
  <2>2. QED
    BY <1>1, <2>1 DEF GreyBecause
<1>4. QED
  BY <1>2, <1>3

(* A flag is set by a bad acknowledgement only, whose history is there when *)
(* it arrives, and stays while it is handled.                               *)
LEMMA NetworkKeepsReasons ==
  ASSUME ListenerTypeInv, GreyBecause, NEW c \in Clients,
         HandlerStep(c) \/ \E m \in Messages : Receive(c, m)
  PROVE  GreyBecause'
<1>1. message \in [Clients -> Messages \cup {NoMessage}]
  BY DEF ListenerTypeInv, MessageTypeOK
<1>2. UNCHANGED <<devs, worker, edit>> /\ bad \subseteq bad'
  BY DEF HandlerStep, OnRemoteLocation, OnRemoteAck, OnRemoteAckDeleted, Receive, StoreFix,
     SetAuthResult, SetDeleted, storeVars, workerVars
<1>3. /\ \A x \in refused' : x \in refused \/ (x \in devs /\ x \in bad')
      /\ \A x \in deleted' : x \in deleted \/ (x \in devs /\ x \in bad')
  BY DEF HandlerStep, OnRemoteLocation, OnRemoteAck, OnRemoteAckDeleted, Receive, StoreFix,
     SetAuthResult, SetDeleted, storeVars, GreyBecause, BadKinds
<1>4. \A x \in Clients : x # c => message'[x] = message[x]
  BY <1>1 DEF HandlerStep, OnRemoteLocation, OnRemoteAck, OnRemoteAckDeleted, Receive
<1>5. message'[c].of \in BadKinds => message'[c].id \in bad'
  <2>1. ASSUME NEW m \in Messages, Receive(c, m)
        PROVE  message'[c].of \in BadKinds => message'[c].id \in bad'
    <3>1. message'[c] = m /\ m.of # "flag"
      BY <1>1, <2>1 DEF Receive
    <3>2. QED
      BY <2>1, <3>1 DEF Receive, BadKinds
  <2>2. NoMessage.of \notin BadKinds
    BY DEF NoMessage, BadKinds
  <2>3. ASSUME message' = [message EXCEPT ![c] = NoMessage]
        PROVE  message'[c].of \in BadKinds => message'[c].id \in bad'
    BY <1>1, <2>2, <2>3
  <2>4. CASE OnRemoteAck(c) /\ message[c].of = "wiped"
    <3>1. message[c] \in Messages
      BY <1>1, <2>4 DEF NoMessage
    <3>2. message'[c] = [message[c] EXCEPT !.of = "flag"] /\ bad' = bad
      BY <1>1, <2>4 DEF OnRemoteAck
    <3>3. message'[c].id = message[c].id
      BY <3>1, <3>2 DEF Messages
    <3>4. QED
      BY <2>4, <3>2, <3>3 DEF GreyBecause, BadKinds
  <2>5. QED
    BY <2>1, <2>3, <2>4 DEF HandlerStep, OnRemoteLocation, OnRemoteAck, OnRemoteAckDeleted
<1>6. QED
  BY <1>2, <1>3, <1>4, <1>5 DEF GreyBecause

LEMMA ReasonsStep ==
  ASSUME ListenerTypeInv, GreyBecause, [Next]_vars
  PROVE  GreyBecause'
<1>1. ASSUME UNCHANGED <<storeVars, message, bad>>,
             UNCHANGED <<worker, edit>> \/ worker \in {"init", "starting"}
      PROVE  GreyBecause'
  BY <1>1 DEF GreyBecause, storeVars
<1>2. CASE \/ \E p \in Processes : LookForOwn(p) \/ InsertOwn(p)
           \/ StartApp \/ AppStarted \/ SaveSettings \/ Revive \/ Handover \/ RepairIfHandover
           \/ \E r \in Restarts : RestartStep(r)
           \/ UNCHANGED vars
  BY <1>1, <1>2 DEF LookForOwn, InsertOwn, StartApp, AppStarted, SaveSettings, Revive, Handover,
     RepairIfHandover, RestartStep, Begin, Retire, Connect, ListDevices, Subscribe, vars, workerVars
<1>3. CASE User
  BY <1>2, <1>3, EditsKeepReasons, RenameKeepsReasons
     DEF User, AddDevice, RemoveIt, UpdateDevice, RenameIt, Operate
<1>4. QED
  BY <1>2, <1>3, ClearingKeepsReasons, NetworkKeepsReasons DEF Next, WorkerStep

(* A device whose buttons are grey while no edit is under way has answered  *)
(* with a refusal or a confirmed DELETE since it was last edited, or was    *)
(* answering then: what update_device clears stays clear, also when the     *)
(* answer to a command of before the edit is stored between its             *)
(* transactions.                                                            *)
THEOREM GreyOnlyForReason == Spec => []GreyedForReason
<1>1. Init => GreyBecause
  BY DEF Init, StoreInit, GreyBecause, BadKinds, NoMessage
<1>2. GreyBecause => GreyedForReason
  BY DEF GreyBecause, GreyedForReason, Greyed
<1>3. QED
  BY <1>1, <1>2, ReasonsStep, AlwaysTyped, PTL DEF Spec

-----------------------------------------------------------------------------
(***************************************************************************)
(* UiListener: one client, that hears its devices.                         *)
(***************************************************************************)

(* The holder of the lock is the one restart at work, and has the client it *)
(* retires or makes; between the two there is none.                         *)
Replacing == {"retire", "close", "connect"}
Joining == {"list", "subscribe"}
OneRestarts ==
    /\ \A r \in Restarts : pc[r] \in Replacing \cup Joining <=> lock = r
    /\ \A r \in Restarts : pc[r] \in {"idle", "wait", "connect"} => mine[r] = None
    /\ \A r \in Restarts : pc[r] \in Replacing => client = None
    /\ \A r \in Restarts : pc[r] \in Joining => mine[r] = client

(* A network thread is the present client's, or that of the one being       *)
(* retired, or of one that was revived when it was.                         *)
ThreadOfClient == \A c \in alive \ revived : c = client \/ \E r \in Restarts : mine[r] = c

(* A restart that has not read the devices yet, or will be started when an  *)
(* edit is over.                                                            *)
Due == worker \in {"update", "restart"} \/ \E r \in Restarts : pc[r] = "wait"
HearsOrDue ==
    /\ \A r \in Restarts : pc[r] = "subscribe" => list[r] = devs \/ Due
    /\ lock = None /\ client \in alive \ failed => subs[client] = devs \/ Due

OneListens == OneRestarts /\ ThreadOfClient /\ HearsOrDue

(* The restart that holds the lock is the only one with a client in hand.   *)
LEMMA OthersWait ==
  ASSUME ListenerTypeInv, OneRestarts, NEW r \in Restarts, lock \in {None, r}
  PROVE  \A x \in Restarts : x # r => pc[x] \in {"idle", "wait"} /\ mine[x] = None
BY NameAssumption DEF ListenerTypeInv, ListenerTypeOK, Places, OneRestarts, Replacing, Joining

(* A new restart will read the devices as they will be then.                *)
LEMMA SpawnListens ==
  ASSUME ListenerTypeInv, OneListens, Spawn,
         UNCHANGED <<client, lock, mine, list, alive, revived, subs, failed>>
  PROVE  OneListens'
<1>1. PICK r \in Restarts : pc[r] = "idle" /\ pc' = [pc EXCEPT ![r] = "wait"]
  BY DEF Spawn
<1>2. pc'[r] = "wait" /\ \A x \in Restarts : x # r => pc'[x] = pc[x]
  BY <1>1 DEF ListenerTypeInv, ListenerTypeOK
<1>3. OneRestarts'
  BY <1>1, <1>2 DEF OneListens, OneRestarts, Replacing, Joining
<1>4. ThreadOfClient'
  BY DEF OneListens, ThreadOfClient
<1>5. HearsOrDue'
  BY <1>2 DEF HearsOrDue, Due
<1>6. QED
  BY <1>3, <1>4, <1>5 DEF OneListens

(* A step that neither restarts nor changes what a listener should hear.    *)
LEMMA AsideListens ==
  ASSUME OneListens, UNCHANGED <<client, lock, pc, mine, list, alive, revived, subs, failed>>,
         devs' = devs \/ Due', Due => Due'
  PROVE  OneListens'
BY DEF OneListens, OneRestarts, ThreadOfClient, HearsOrDue, Due

LEMMA BeginListens ==
  ASSUME ListenerTypeInv, OneListens, NEW r \in Restarts, Begin(r)
  PROVE  OneListens'
<1>1. /\ pc[r] = "wait" /\ lock = None
      /\ lock' = r /\ client' = None /\ UNCHANGED <<alive, revived, devs, worker>>
  BY DEF Begin, storeVars, workerVars
<1>2. mine'[r] = client /\ \A x \in Restarts : x # r => mine'[x] = mine[x]
  BY DEF Begin, ListenerTypeInv, ListenerTypeOK
<1>3. pc'[r] \in {"retire", "close"} /\ \A x \in Restarts : x # r => pc'[x] = pc[x]
  BY GotoTypes DEF Begin, ListenerTypeInv, Places
<1>4. \A x \in Restarts : x # r => pc[x] \in {"idle", "wait"} /\ mine[x] = None
  BY <1>1, OthersWait DEF OneListens
<1>5. None \notin Restarts \cup alive
  BY NameAssumption DEF ListenerTypeInv, ListenerTypeOK
<1>6. OneRestarts'
  BY <1>1, <1>2, <1>3, <1>4 DEF OneRestarts, Replacing, Joining
<1>7. ThreadOfClient'
  <2>1. mine[r] = None
    BY <1>1 DEF OneListens, OneRestarts
  <2>2. \A c \in alive \ revived : c = client
    BY <1>4, <1>5, <2>1 DEF OneListens, ThreadOfClient
  <2>3. QED
    BY <1>1, <1>2, <2>2 DEF ThreadOfClient
<1>8. HearsOrDue'
  BY <1>1, <1>3, <1>4, <1>5 DEF HearsOrDue
<1>9. QED
  BY <1>6, <1>7, <1>8 DEF OneListens

(* When the old client is gone nothing is alive but what was revived. *)
LEMMA RetireListens ==
  ASSUME ListenerTypeInv, OneListens, NEW r \in Restarts, Retire(r)
  PROVE  OneListens'
<1>1. pc[r] \in {"retire", "close"} /\ UNCHANGED <<client, devs, worker>>
  BY DEF Retire, storeVars, workerVars
<1>2. lock = r /\ client = None
  BY <1>1 DEF OneListens, OneRestarts, Replacing
<1>3. mine'[r] = None /\ \A x \in Restarts : x # r => mine'[x] = mine[x]
  BY DEF Retire, ListenerTypeInv, ListenerTypeOK
<1>4. \/ pc'[r] = "connect" /\ lock' = lock
      \/ pc'[r] = "idle" /\ lock' = None
  BY GotoTypes DEF Retire, End, ListenerTypeInv, Places
<1>5. \A x \in Restarts : x # r => pc'[x] = pc[x]
  BY GotoTypes DEF Retire, End, ListenerTypeInv, Places
<1>6. \A x \in Restarts : x # r => pc[x] \in {"idle", "wait"} /\ mine[x] = None
  BY <1>2, OthersWait DEF OneListens
<1>7. alive' \ revived' = {}
  <2>1. None \notin alive
    BY NameAssumption DEF ListenerTypeInv, ListenerTypeOK
  <2>2. alive \ revived \subseteq {mine[r]}
    BY <1>2, <1>6, <2>1 DEF OneListens, ThreadOfClient
  <2>3. IF mine[r] = None THEN UNCHANGED <<alive, revived>> ELSE Closed(mine[r])
    BY DEF Retire
  <2>4. QED
    BY <2>1, <2>2, <2>3 DEF Closed
<1>8. None \notin Restarts
  BY NameAssumption
<1>9. OneRestarts'
  BY <1>1, <1>2, <1>3, <1>4, <1>5, <1>6, <1>8 DEF OneRestarts, Replacing, Joining
<1>10. HearsOrDue' /\ ThreadOfClient'
  <2>1. client' = None /\ None \notin alive'
    BY <1>1, <1>2, NameAssumption, RestartTypes DEF RestartStep, ListenerTypeInv, ListenerTypeOK
  <2>2. QED
    BY <1>4, <1>5, <1>6, <1>7, <2>1 DEF HearsOrDue, ThreadOfClient
<1>11. QED
  BY <1>9, <1>10 DEF OneListens

LEMMA ConnectListens ==
  ASSUME ListenerTypeInv, OneListens, NEW r \in Restarts, Connect(r)
  PROVE  OneListens'
<1>1. pc[r] = "connect" /\ UNCHANGED <<list, revived, subs, devs, worker>>
  BY DEF Connect, storeVars, workerVars
<1>2. lock = r /\ client = None /\ mine[r] = None
  BY <1>1 DEF OneListens, OneRestarts, Replacing
<1>3. \A x \in Restarts : x # r => pc[x] \in {"idle", "wait"} /\ mine[x] = None
  BY <1>2, OthersWait DEF OneListens
<1>4. alive \ revived = {}
  BY <1>2, <1>3, NameAssumption DEF OneListens, ThreadOfClient, ListenerTypeInv, ListenerTypeOK
<1>5. PICK c \in Unused : client' = c
      /\ \/ alive' = alive \cup {c} /\ mine' = [mine EXCEPT ![r] = c] /\ Goto(r, "list")
            /\ UNCHANGED <<lock, failed, faults>>
         \/ Fault /\ failed' = failed \cup {c} /\ End(r) /\ UNCHANGED <<alive, mine>>
  BY DEF Connect
<1>6. None \notin Restarts
  BY NameAssumption
<1>7. CASE alive' = alive \cup {c} /\ mine' = [mine EXCEPT ![r] = c] /\ Goto(r, "list") /\ lock' = lock
  <2>1. mine'[r] = c /\ \A x \in Restarts : x # r => mine'[x] = mine[x]
    BY <1>7 DEF ListenerTypeInv, ListenerTypeOK
  <2>2. pc'[r] = "list" /\ \A x \in Restarts : x # r => pc'[x] = pc[x]
    BY <1>7, GotoTypes DEF ListenerTypeInv, Places
  <2>3. OneRestarts'
    BY <1>2, <1>3, <1>5, <1>7, <2>1, <2>2 DEF OneRestarts, Replacing, Joining
  <2>4. ThreadOfClient'
    BY <1>1, <1>4, <1>5, <1>7 DEF ThreadOfClient
  <2>5. HearsOrDue'
    BY <1>2, <1>3, <1>6, <1>7, <2>2 DEF HearsOrDue
  <2>6. QED
    BY <2>3, <2>4, <2>5 DEF OneListens
<1>8. CASE failed' = failed \cup {c} /\ End(r) /\ UNCHANGED <<alive, mine>>
  <2>1. pc'[r] = "idle" /\ lock' = None /\ \A x \in Restarts : x # r => pc'[x] = pc[x]
    BY <1>8, GotoTypes DEF End, ListenerTypeInv, Places
  <2>2. OneRestarts'
    BY <1>2, <1>3, <1>6, <1>8, <2>1 DEF OneRestarts, Replacing, Joining
  <2>3. ThreadOfClient'
    BY <1>1, <1>4, <1>8 DEF ThreadOfClient
  <2>4. HearsOrDue'
    BY <1>3, <1>5, <1>8, <2>1 DEF HearsOrDue
  <2>5. QED
    BY <2>2, <2>3, <2>4 DEF OneListens
<1>9. QED
  BY <1>5, <1>7, <1>8

(* From reading the devices to subscribing, an edit makes a restart due.    *)
LEMMA JoinListens ==
  ASSUME ListenerTypeInv, OneListens, NEW r \in Restarts, ListDevices(r) \/ Subscribe(r)
  PROVE  OneListens'
<1>1. /\ pc[r] \in {"list", "subscribe"}
      /\ UNCHANGED <<client, alive, revived, failed, devs, worker>>
  BY DEF ListDevices, Subscribe, storeVars, workerVars
<1>2. lock = r /\ mine[r] = client
  BY <1>1 DEF OneListens, OneRestarts, Joining
<1>3. \A x \in Restarts : x # r => pc[x] \in {"idle", "wait"} /\ mine[x] = None
  BY <1>2, OthersWait DEF OneListens
<1>4. None \notin Restarts \cup alive
  BY NameAssumption DEF ListenerTypeInv, ListenerTypeOK
<1>5. \A c \in alive \ revived : c = client
  BY <1>2, <1>3, <1>4 DEF OneListens, ThreadOfClient
<1>6. \A x \in Restarts : x # r => pc'[x] = pc[x]
  BY GotoTypes DEF ListDevices, Subscribe, End, ListenerTypeInv, Places
<1>7. Due => Due'
  BY <1>1, <1>6 DEF Due
<1>8. ThreadOfClient'
  BY <1>1, <1>5 DEF ThreadOfClient
<1>9. CASE ListDevices(r)
  <2>1. pc'[r] = "subscribe" /\ list'[r] = devs /\ UNCHANGED <<lock, mine>>
    BY <1>9, GotoTypes DEF ListDevices, ListenerTypeInv, ListenerTypeOK, Places
  <2>2. OneRestarts'
    BY <1>1, <1>2, <1>3, <1>6, <2>1 DEF OneRestarts, Replacing, Joining
  <2>3. HearsOrDue'
    BY <1>1, <1>2, <1>3, <1>4, <1>6, <2>1 DEF HearsOrDue
  <2>4. QED
    BY <1>8, <2>2, <2>3 DEF OneListens
<1>10. CASE Subscribe(r)
  <2>1. pc[r] = "subscribe" /\ pc'[r] = "idle" /\ lock' = None
    BY <1>10, GotoTypes DEF Subscribe, End, ListenerTypeInv, Places
  <2>2. mine'[r] = None /\ \A x \in Restarts : x # r => mine'[x] = mine[x]
    BY <1>10 DEF Subscribe, ListenerTypeInv, ListenerTypeOK
  <2>3. client \in alive => subs'[client] = list[r]
    BY <1>2, <1>10 DEF Subscribe, ListenerTypeInv, ListenerTypeOK
  <2>4. list[r] = devs \/ Due
    BY <2>1 DEF OneListens, HearsOrDue
  <2>5. OneRestarts'
    BY <1>2, <1>3, <1>4, <1>6, <2>1, <2>2 DEF OneRestarts, Replacing, Joining
  <2>6. HearsOrDue'
    BY <1>1, <1>3, <1>6, <1>7, <2>1, <2>3, <2>4 DEF HearsOrDue
  <2>7. QED
    BY <1>8, <2>5, <2>6 DEF OneListens
<1>11. QED
  BY <1>9, <1>10

LEMMA ListensStep ==
  ASSUME ListenerTypeInv, OneListens, [Next]_vars
  PROVE  OneListens'
<1>1. CASE \/ \E p \in Processes : LookForOwn(p) \/ InsertOwn(p)
           \/ \E c \in Clients : HandlerStep(c) \/ \E m \in Messages : Receive(c, m)
           \/ Handover \/ AppStarted \/ \E d \in Ids : UpdateDevice(d)
           \/ UNCHANGED vars
  <2>1. UNCHANGED <<client, lock, pc, mine, list, alive, revived, subs, failed>>
    BY <1>1 DEF LookForOwn, InsertOwn, HandlerStep, OnRemoteLocation, OnRemoteAck,
       OnRemoteAckDeleted, Receive, Handover, AppStarted, UpdateDevice, listenerVars, vars
  <2>2. devs' = devs
    BY <1>1 DEF LookForOwn, InsertOwn, HandlerStep, OnRemoteLocation, OnRemoteAck,
       OnRemoteAckDeleted, Receive, Handover, AppStarted, UpdateDevice, storeVars, vars,
       StoreFix, SetAuthResult, SetDeleted
  <2>3. worker' = worker \/ worker \in {"starting", "free"}
    BY <1>1 DEF LookForOwn, InsertOwn, HandlerStep, OnRemoteLocation, OnRemoteAck,
       OnRemoteAckDeleted, Receive, Handover, AppStarted, UpdateDevice, workerVars, vars, Operate
  <2>4. QED
    BY <2>1, <2>2, <2>3, AsideListens DEF Due
<1>2. CASE StartApp \/ SaveSettings \/ RepairIfHandover \/ \E d \in Ids : AddDevice(d) \/ RemoveIt(d)
  BY <1>2, SpawnListens
     DEF StartApp, SaveSettings, RepairIfHandover, AddDevice, RemoveIt, RestartOnly
<1>3. ASSUME NEW d \in Ids, NEW e \in Ids, RenameIt(d, e) PROVE OneListens'
  BY <1>3, AsideListens DEF RenameIt, listenerVars, Due
<1>4. CASE ClearAuth
  BY <1>4, AsideListens DEF ClearAuth, SetAuthResult, listenerVars, Due
<1>5. CASE ClearDeleted
  <2>1. CASE worker = "restart"
    BY <1>5, <2>1, SpawnListens DEF ClearDeleted, RestartOnly
  <2>2. CASE worker # "restart"
    BY <1>5, <2>2, AsideListens DEF ClearDeleted, RestartOnly, SetDeleted, Due
  <2>3. QED
    BY <2>1, <2>2
<1>6. CASE Revive
  BY <1>6 DEF Revive, storeVars, workerVars, OneListens, OneRestarts, ThreadOfClient, HearsOrDue, Due
<1>7. ASSUME NEW r \in Restarts, RestartStep(r) PROVE OneListens'
  BY <1>7, BeginListens, RetireListens, ConnectListens, JoinListens DEF RestartStep
<1>8. QED
  BY <1>1, <1>2, <1>3, <1>4, <1>5, <1>6, <1>7 DEF Next, User, WorkerStep

(* Of the clients that no late repair has revived there are never two, and  *)
(* when neither an edit nor a restart is under way the listener hears the   *)
(* devices there are, no more and no less: every edit makes a restart due,  *)
(* restarts follow each other on the lock, and one that has read its        *)
(* devices before an edit is followed by one that reads them after it.      *)
THEOREM ListenerHears == Spec => []HearsItsDevices
<1>1. Init => OneListens
  BY NameAssumption DEF Init, OneListens, OneRestarts, ThreadOfClient, HearsOrDue, Replacing, Joining
<1>2. ListenerTypeInv /\ OneListens => HearsItsDevices
  <2> SUFFICES ASSUME ListenerTypeInv, OneListens PROVE HearsItsDevices
    OBVIOUS
  <2>1. None \notin alive
    BY NameAssumption DEF ListenerTypeInv, ListenerTypeOK
  <2>2. ASSUME NEW c \in alive \ revived, NEW d \in alive \ revived PROVE c = d
    <3>1. CASE lock = None
      BY <2>1, <3>1, NameAssumption
         DEF OneListens, OneRestarts, ThreadOfClient, ListenerTypeInv, ListenerTypeOK, Places,
             Replacing, Joining
    <3>2. CASE lock # None
      <4>1. lock \in Restarts /\ pc[lock] \in Replacing \cup Joining
        BY <3>2 DEF ListenerTypeInv, ListenerTypeOK, OneListens, OneRestarts
      <4>2. \A x \in alive \ revived : x = client \/ x = mine[lock]
        BY <2>1, <4>1, OthersWait DEF OneListens, ThreadOfClient
      <4>3. client = None \/ mine[lock] = client
        BY <4>1 DEF OneListens, OneRestarts
      <4>4. QED
        BY <2>1, <4>2, <4>3
    <3>3. QED
      BY <3>1, <3>2
  <2>3. ASSUME Settled, client \in alive \ failed PROVE subs[client] = devs
    <3>1. lock = None /\ ~Due
      BY <2>3 DEF Settled, Due, OneListens, OneRestarts, ListenerTypeInv, ListenerTypeOK,
         Replacing, Joining
    <3>2. QED
      BY <2>3, <3>1 DEF OneListens, HearsOrDue
  <2>4. QED
    BY <2>2, <2>3 DEF HearsItsDevices
<1>3. QED
  BY <1>1, <1>2, ListensStep, AlwaysTyped, PTL DEF Spec

-----------------------------------------------------------------------------
(***************************************************************************)
(* UiListener: positions without a device.                                 *)
(***************************************************************************)

(* A client has topics while it is alive, one that was not dispatched has   *)
(* none, and one that is being subscribed has none yet; what a client is in *)
(* the middle of came under one of its topics.                              *)
Topical ==
    /\ \A c \in Clients : c \in alive \/ subs[c] = {}
    /\ \A c \in failed : subs[c] = {} /\ (c \in alive \/ c = client \/ \E r \in Restarts : mine[r] = c)
    /\ \A c \in failed : c \in alive \/ message[c] = NoMessage
    /\ \A r \in Restarts : pc[r] \in Joining => mine[r] \in alive \ failed /\ subs[mine[r]] = {}
    /\ \A c \in alive \ revived : message[c] = NoMessage \/ message[c].id \in subs[c]

LEMMA BeginTopical ==
  ASSUME ListenerTypeInv, OneListens, Topical, NEW r \in Restarts, Begin(r)
  PROVE  Topical'
<1>1. /\ pc[r] = "wait" /\ lock = None /\ client' = None
      /\ UNCHANGED <<alive, revived, subs, failed, message>>
  BY DEF Begin
<1>2. mine'[r] = client /\ \A x \in Restarts : x # r => mine'[x] = mine[x]
  BY DEF Begin, ListenerTypeInv, ListenerTypeOK
<1>3. pc'[r] \in {"retire", "close"} /\ \A x \in Restarts : x # r => pc'[x] = pc[x]
  BY GotoTypes DEF Begin, ListenerTypeInv, Places
<1>4. mine[r] = None
  BY <1>1 DEF OneListens, OneRestarts
<1>5. \A c \in failed : c \in alive \/ \E x \in Restarts : mine'[x] = c
  <2>1. None \notin failed
    BY NameAssumption DEF ListenerTypeInv, ListenerTypeOK
  <2>2. QED
    BY <1>2, <1>4, <2>1 DEF Topical
<1>6. QED
  BY <1>1, <1>2, <1>3, <1>5 DEF Topical, Joining

LEMMA RetireTopical ==
  ASSUME ListenerTypeInv, OneListens, Topical, NEW r \in Restarts, Retire(r)
  PROVE  Topical'
<1>1. pc[r] \in {"retire", "close"} /\ UNCHANGED <<client, message>>
  BY DEF Retire
<1>2. lock = r /\ client = None
  BY <1>1 DEF OneListens, OneRestarts, Replacing
<1>3. mine'[r] = None /\ \A x \in Restarts : x # r => mine'[x] = mine[x]
  BY DEF Retire, ListenerTypeInv, ListenerTypeOK
<1>4. \A x \in Restarts : pc'[x] \notin Joining
  <2>1. pc'[r] \in {"connect", "idle"} /\ \A x \in Restarts : x # r => pc'[x] = pc[x]
    BY GotoTypes DEF Retire, End, ListenerTypeInv, Places
  <2>2. QED
    BY <1>2, <2>1, OthersWait DEF OneListens, Joining
<1>5. \A c \in failed : c \in alive \/ c = mine[r]
  <2>1. None \notin failed
    BY NameAssumption DEF ListenerTypeInv, ListenerTypeOK
  <2>2. QED
    BY <1>2, <2>1, OthersWait DEF OneListens, Topical
<1>6. CASE mine[r] = None
  <2>1. UNCHANGED <<alive, revived, subs, failed>>
    BY <1>6 DEF Retire
  <2>2. None \notin failed
    BY NameAssumption DEF ListenerTypeInv, ListenerTypeOK
  <2>3. QED
    BY <1>1, <1>4, <1>5, <1>6, <2>1, <2>2 DEF Topical
<1>7. CASE mine[r] # None
  <2>1. mine[r] \in Clients /\ Closed(mine[r])
    BY <1>7 DEF Retire, ListenerTypeInv, ListenerTypeOK
  <2>2. CASE alive' = alive \ {mine[r]} /\ Forget(mine[r]) /\ UNCHANGED revived
    <3>1. subs'[mine[r]] = {} /\ \A c \in Clients : c # mine[r] => subs'[c] = subs[c]
      BY <2>1, <2>2 DEF Forget, ListenerTypeInv, ListenerTypeOK
    <3>2. failed' = failed \ {mine[r]} /\ failed \subseteq Clients /\ alive \subseteq Clients
      BY <2>2 DEF Forget, ListenerTypeInv, ListenerTypeOK
    <3>3. QED
      BY <1>1, <1>4, <1>5, <2>2, <3>1, <3>2 DEF Topical
  <2>3. CASE /\ alive' = alive \cup {mine[r]} /\ revived' = revived \cup {mine[r]}
             /\ UNCHANGED <<subs, failed>>
    BY <1>1, <1>4, <1>5, <2>3 DEF Topical
  <2>4. QED
    BY <2>1, <2>2, <2>3 DEF Closed
<1>8. QED
  BY <1>6, <1>7

(* A client that is taken has no topics left of an earlier use.             *)
LEMMA ConnectTopical ==
  ASSUME ListenerTypeInv, OneListens, Topical, NEW r \in Restarts, Connect(r)
  PROVE  Topical'
<1>1. pc[r] = "connect" /\ UNCHANGED <<revived, subs, message>>
  BY DEF Connect
<1>2. lock = r /\ client = None /\ mine[r] = None
  BY <1>1 DEF OneListens, OneRestarts, Replacing
<1>3. \A x \in Restarts : x # r => pc[x] \in {"idle", "wait"} /\ mine[x] = None
  BY <1>2, OthersWait DEF OneListens
<1>4. PICK c \in Unused : client' = c
      /\ \/ alive' = alive \cup {c} /\ mine' = [mine EXCEPT ![r] = c] /\ Goto(r, "list")
            /\ UNCHANGED <<lock, failed, faults>>
         \/ Fault /\ failed' = failed \cup {c} /\ End(r) /\ UNCHANGED <<alive, mine>>
  BY DEF Connect
<1>5. c \in Clients /\ c \notin alive /\ message[c] = NoMessage /\ subs[c] = {}
  BY <1>4 DEF Unused, Topical
<1>6. failed \subseteq alive
  <2>1. None \notin failed
    BY NameAssumption DEF ListenerTypeInv, ListenerTypeOK
  <2>2. QED
    BY <1>2, <1>3, <2>1 DEF Topical
<1>7. CASE alive' = alive \cup {c} /\ mine' = [mine EXCEPT ![r] = c] /\ Goto(r, "list") /\ failed' = failed
  <2>1. mine'[r] = c /\ \A x \in Restarts : x # r => pc'[x] = pc[x]
    BY <1>7, GotoTypes DEF ListenerTypeInv, ListenerTypeOK, Places
  <2>2. QED
    BY <1>1, <1>3, <1>5, <1>6, <1>7, <2>1 DEF Topical, Joining
<1>8. CASE failed' = failed \cup {c} /\ End(r) /\ UNCHANGED <<alive, mine>>
  <2>1. pc'[r] = "idle" /\ \A x \in Restarts : x # r => pc'[x] = pc[x]
    BY <1>8, GotoTypes DEF End, ListenerTypeInv, Places
  <2>2. QED
    BY <1>1, <1>3, <1>4, <1>5, <1>6, <1>8, <2>1 DEF Topical, Joining
<1>9. QED
  BY <1>4, <1>7, <1>8

LEMMA JoinTopical ==
  ASSUME ListenerTypeInv, OneListens, Topical, NEW r \in Restarts, ListDevices(r) \/ Subscribe(r)
  PROVE  Topical'
<1>1. /\ pc[r] \in {"list", "subscribe"}
      /\ UNCHANGED <<client, alive, revived, failed, message>>
  BY DEF ListDevices, Subscribe
<1>2. lock = r /\ mine[r] = client /\ client \in alive \ failed /\ subs[client] = {}
  BY <1>1 DEF OneListens, OneRestarts, Joining, Topical
<1>3. \A x \in Restarts : x # r => pc[x] \in {"idle", "wait"} /\ pc'[x] = pc[x]
  BY <1>2, OthersWait, GotoTypes
     DEF OneListens, ListDevices, Subscribe, End, ListenerTypeInv, Places
<1>4. CASE ListDevices(r)
  <2>1. UNCHANGED <<mine, subs>>
    BY <1>4 DEF ListDevices
  <2>2. QED
    BY <1>1, <1>2, <1>3, <2>1 DEF Topical, Joining
<1>5. CASE Subscribe(r)
  <2>1. pc'[r] = "idle"
    BY <1>5, GotoTypes DEF Subscribe, End, ListenerTypeInv, Places
  <2>2. \A c \in Clients : c # client => subs'[c] = subs[c]
    BY <1>2, <1>5 DEF Subscribe, ListenerTypeInv, ListenerTypeOK
  <2>3. \A c \in failed : c \in alive \/ c = client \/ \E x \in Restarts : mine'[x] = c
    <3>1. \A x \in Restarts : x # r => mine'[x] = mine[x]
      BY <1>5 DEF Subscribe, ListenerTypeInv, ListenerTypeOK
    <3>2. QED
      BY <1>2, <3>1 DEF Topical
  <2>4. \A c \in alive \ revived : message[c] = NoMessage \/ message[c].id \in subs'[c]
    BY <1>2, <2>2 DEF Topical, ListenerTypeInv, ListenerTypeOK
  <2>5. \A x \in Restarts : pc'[x] \notin Joining
    BY <1>3, <2>1 DEF Joining
  <2>6. failed \subseteq Clients /\ client \in alive
    BY <1>2 DEF ListenerTypeInv, ListenerTypeOK
  <2>7. QED
    BY <1>1, <1>2, <2>2, <2>3, <2>4, <2>5, <2>6 DEF Topical
<1>6. QED
  BY <1>4, <1>5

LEMMA HeardTopical ==
  ASSUME ListenerTypeInv, Topical, NEW c \in Clients,
         HandlerStep(c) \/ \E m \in Messages : Receive(c, m)
  PROVE  Topical'
<1>1. message \in [Clients -> Messages \cup {NoMessage}]
  BY DEF ListenerTypeInv, MessageTypeOK
<1>2. UNCHANGED listenerVars
  BY DEF HandlerStep, OnRemoteLocation, OnRemoteAck, OnRemoteAckDeleted, Receive
<1>3. \A x \in Clients : x # c => message'[x] = message[x]
  BY <1>1 DEF HandlerStep, OnRemoteLocation, OnRemoteAck, OnRemoteAckDeleted, Receive
<1>4. \/ message'[c] = NoMessage \/ message'[c].id \in subs[c]
      \/ message[c] # NoMessage /\ message'[c].id = message[c].id
  <2>1. CASE OnRemoteAck(c) /\ message[c].of = "wiped"
    <3>1. message[c] \in Messages /\ message[c] # NoMessage
      BY <1>1, <2>1 DEF NoMessage
    <3>2. message'[c] = [message[c] EXCEPT !.of = "flag"]
      BY <1>1, <2>1 DEF OnRemoteAck
    <3>3. QED
      BY <3>1, <3>2 DEF Messages
  <2>2. QED
    BY <1>1, <2>1 DEF HandlerStep, OnRemoteLocation, OnRemoteAck, OnRemoteAckDeleted, Receive
<1>5. alive \subseteq Clients
  BY DEF ListenerTypeInv, ListenerTypeOK
<1>6. \A x \in alive' \ revived' : message'[x] = NoMessage \/ message'[x].id \in subs'[x]
  BY <1>2, <1>3, <1>4, <1>5 DEF Topical, listenerVars
<1>7. \A x \in failed' : x \in alive' \/ message'[x] = NoMessage
  <2>1. c \in alive \/ message[c] # NoMessage
    <3>1. message[c] = NoMessage => message[c].of = "none"
      BY DEF NoMessage
    <3>2. CASE HandlerStep(c)
      BY <3>1, <3>2 DEF HandlerStep, OnRemoteLocation, OnRemoteAck, OnRemoteAckDeleted
    <3>3. CASE \E m \in Messages : Receive(c, m)
      BY <3>3 DEF Receive, Hears
    <3>4. QED
      BY <3>2, <3>3
  <2>2. failed \subseteq Clients /\ UNCHANGED <<failed, alive>>
    BY <1>2 DEF listenerVars, ListenerTypeInv, ListenerTypeOK
  <2>3. QED
    BY <1>3, <2>1, <2>2 DEF Topical
<1>8. QED
  BY <1>2, <1>6, <1>7 DEF Topical, listenerVars

LEMMA TopicalStep ==
  ASSUME ListenerTypeInv, OneListens, Topical, [Next]_vars
  PROVE  Topical'
<1>1. ASSUME UNCHANGED <<client, mine, alive, revived, subs, failed, message>>,
             pc' = pc \/ Spawn
      PROVE  Topical'
  <2>1. \A r \in Restarts : pc'[r] = pc[r] \/ pc'[r] = "wait"
    BY <1>1 DEF Spawn, ListenerTypeInv, ListenerTypeOK
  <2>2. QED
    BY <1>1, <2>1 DEF Topical, Joining
<1>2. CASE \/ \E p \in Processes : LookForOwn(p) \/ InsertOwn(p)
           \/ StartApp \/ User \/ WorkerStep \/ Handover \/ RepairIfHandover \/ UNCHANGED vars
  BY <1>1, <1>2 DEF LookForOwn, InsertOwn, StartApp, User, AddDevice, RemoveIt, UpdateDevice,
     RenameIt, SaveSettings, WorkerStep, AppStarted, ClearAuth, ClearDeleted, Handover,
     RepairIfHandover, RestartOnly, listenerVars, vars
<1>3. CASE Revive
  <2>1. client \in failed /\ alive' = alive \cup {client}
        /\ UNCHANGED <<client, pc, mine, revived, subs, failed, message>>
    BY <1>3 DEF Revive
  <2>2. QED
    BY <2>1 DEF Topical
<1>4. ASSUME NEW r \in Restarts, RestartStep(r) PROVE Topical'
  BY <1>4, BeginTopical, RetireTopical, ConnectTopical, JoinTopical DEF RestartStep
<1>5. QED
  BY <1>2, <1>3, <1>4, HeardTopical DEF Next

LEMMA AlwaysTopical == Spec => [](ListenerTypeInv /\ OneListens /\ Topical)
<1>1. Init => OneListens /\ Topical
  BY NameAssumption DEF Init, OneListens, OneRestarts, ThreadOfClient, HearsOrDue, Replacing,
     Joining, Topical
<1>2. QED
  BY <1>1, ListensStep, TopicalStep, AlwaysTyped, PTL DEF Spec

(* The one way to a position without a device: edits take the positions of  *)
(* a device along, and when neither an edit nor a restart is under way the  *)
(* listener has the topics of the devices there are, so that what it is     *)
(* storing is of one of them.                                               *)
THEOREM PositionsHaveDevices == Spec => RowsHaveDevices
<1> DEFINE Owned == \A d \in Ids : ~Ownerless(d) /\ Ownerless(d)' =>
                      \E c \in Clients : message[c].id = d /\ StoresLate(c)
<1>1. ListenerTypeInv /\ OneListens /\ Topical /\ [Next]_vars => Owned \/ UNCHANGED vars
  <2> SUFFICES ASSUME ListenerTypeInv, OneListens, Topical, Next,
                      NEW d \in Ids, ~Ownerless(d), Ownerless(d)'
               PROVE  \E c \in Clients : message[c].id = d /\ StoresLate(c)
    OBVIOUS
  <2>1. StoreTypeOK
    BY DEF ListenerTypeInv
  <2>2. UNCHANGED <<rows, devs>> => FALSE
    BY DEF Ownerless
  <2>3. PICK c \in Clients : OnRemoteLocation(c)
    BY <2>1, <2>2, EditsKeepOwners, RenameKeepsOwners, FlagsKeepOwners
       DEF Next, LookForOwn, InsertOwn, StartApp, User, AddDevice, RemoveIt, UpdateDevice,
           RenameIt, SaveSettings, WorkerStep, AppStarted, ClearAuth, ClearDeleted, RestartStep,
           Begin, Retire, Connect, ListDevices, Subscribe, HandlerStep, OnRemoteAck,
           OnRemoteAckDeleted, Receive, Revive, Handover, RepairIfHandover, storeVars
  <2>4. /\ message[c] \in Messages /\ message[c].of = "location"
        /\ message'[c] = NoMessage /\ message[c] # NoMessage
    BY <2>3 DEF OnRemoteLocation, ListenerTypeInv, MessageTypeOK, NoMessage
  <2>5. message[c].id = d /\ d \notin devs
    BY <2>1, <2>3, <2>4, StoreFixOwns DEF OnRemoteLocation, Messages
  <2>6. ASSUME Settled, c \in alive \ revived PROVE FALSE
    <3>1. lock = None /\ ~Due
      BY <2>6 DEF Settled, Due, OneListens, OneRestarts, ListenerTypeInv, ListenerTypeOK,
         Replacing, Joining
    <3>2. c = client
      BY <2>6, NameAssumption DEF Settled, OneListens, OneRestarts, ThreadOfClient
    <3>3. d \in subs[client]
      BY <2>4, <2>5, <2>6, <3>2 DEF Topical
    <3>4. subs[client] = devs \/ client \in failed
      BY <2>6, <3>1, <3>2 DEF OneListens, HearsOrDue
    <3>5. QED
      BY <2>5, <3>3, <3>4 DEF Topical
  <2>7. StoresLate(c)
    BY <2>4, <2>6 DEF StoresLate
  <2>8. QED
    BY <2>5, <2>7
<1>2. QED
  BY <1>1, AlwaysTopical, PTL DEF Spec, RowsHaveDevices

-----------------------------------------------------------------------------
(***************************************************************************)
(* ForegroundGps: one chain of timers.                                     *)
(***************************************************************************)
USE TicksAssumption, PollAssumption

(* What of PollTypeOK the argument needs.                                  *)
ChainType ==
  /\ timer \in Ticks \cup {NoTimer}
  /\ gen \in Nat
  /\ stage \in [Ticks -> Stages]
  /\ tickGen \in [Ticks -> Nat]

(* A timer or tick that has not ended is of this generation or an older    *)
(* one; an armed one is of this one, one that has stopped the chain of an  *)
(* older one; and only the timer the variable names is of this one.        *)
ChainInv ==
  /\ ChainType
  /\ \A i \in Ticks : stage[i] # "none" => tickGen[i] <= gen
  /\ \A i \in Ticks : stage[i] = "armed" => tickGen[i] = gen
  /\ \A i \in Ticks : stage[i] = "clear" => tickGen[i] < gen
  /\ \A i \in Ticks : Live(i) => timer = i

LEMMA InitChain == PollInit => ChainInv
  BY DEF PollInit, ChainInv, ChainType, Stages, Live

(* A tick that goes on to a later place of its own, or ends.               *)
LEMMA GoOnKeeps ==
  ASSUME ChainInv, NEW i \in Ticks, NEW where \in Stages \ {"armed", "clear"},
         stage[i] # "none", GoOn(i, where)
  PROVE  ChainInv'
  BY DEF ChainInv, ChainType, GoOn, Live

(* A first or a next timer is armed when every other tick left is of an    *)
(* older generation than the new timer's.                                  *)
LEMMA ArmKeeps ==
  ASSUME ChainInv, NEW i \in Ticks, NEW g \in Nat, gen' = g, g >= gen,
         NEW st \in [Ticks -> Stages],
         \A k \in Ticks : st[k] = stage[k] \/ st[k] = "none",
         \A k \in Ticks : st[k] # "armed",
         \A k \in Ticks : st[k] # "none" => tickGen[k] < g,
         Arm(i, g, st)
  PROVE  ChainInv' /\ timer' = i /\ Live(i)'
<1>1. ChainType'
  BY DEF ChainInv, ChainType, Arm, Stages
<1>2. \A k \in Ticks : k # i => stage'[k] = st[k] /\ tickGen'[k] = tickGen[k]
  BY DEF ChainInv, ChainType, Arm
<1>3. stage'[i] = "armed" /\ tickGen'[i] = g /\ timer' = i
  BY DEF ChainInv, ChainType, Arm
<1>4. \A k \in Ticks : k # i => ~Live(k)'
  BY <1>2 DEF Live, ChainInv, ChainType
<1>5. \A k \in Ticks : k # i => stage'[k] # "armed"
  BY <1>2
<1>6. \A k \in Ticks : k # i /\ stage'[k] = "clear" => tickGen'[k] < g
  BY <1>2
<1>7. \A k \in Ticks : stage'[k] # "none" => tickGen'[k] <= g
  BY <1>2, <1>3 DEF ChainInv, ChainType
<1> QED
  BY <1>1, <1>3, <1>4, <1>5, <1>6, <1>7 DEF ChainInv, ChainType, Live

(* A stop, by an apply thread or by tick of the chain itself, retires      *)
(* everything: what is left is of an older generation and not armed.       *)
LEMMA RetireKeeps ==
  ASSUME ChainInv, NEW st \in [Ticks -> Stages],
         \A k \in Ticks : st[k] = stage[k] \/ st[k] = "none"
                          \/ (st[k] = "clear" /\ timer # NoTimer
                              /\ stage[k] = "stop"),
         RetireTimer(st)
  PROVE  ChainInv' /\ timer' = NoTimer
<1>1. CASE timer = NoTimer
  <2>1. stage' = st /\ UNCHANGED <<timer, gen, tickGen>>
    BY <1>1 DEF RetireTimer
  <2> QED
    BY <1>1, <2>1 DEF ChainInv, ChainType, Live
<1>2. CASE timer # NoTimer
  <2>1. timer \in Ticks /\ timer' = NoTimer /\ gen' = gen + 1 /\ tickGen' = tickGen
    BY <1>2 DEF ChainInv, ChainType, RetireTimer
  <2>2. stage' \in [Ticks -> Stages]
    BY <1>2, <2>1 DEF RetireTimer, ChainInv, ChainType, Stages
  <2>3. ChainType'
    BY <2>1, <2>2 DEF ChainInv, ChainType
  <2>4. \A k \in Ticks : stage'[k] = st[k] \/ stage'[k] = "none"
    BY <1>2, <2>1 DEF RetireTimer, ChainInv, ChainType
  <2>5. \A k \in Ticks : stage'[k] # "none" => tickGen[k] < gen'
    BY <2>1, <2>4 DEF ChainInv, ChainType
  <2>6. \A k \in Ticks : stage'[k] # "armed"
    <3> SUFFICES ASSUME NEW k \in Ticks, stage'[k] = "armed" PROVE FALSE
      OBVIOUS
    <3>1. st[k] = "armed" /\ stage[k] = "armed"
      BY <2>4
    <3>2. tickGen[k] = gen /\ Live(k)
      BY <3>1 DEF ChainInv, Live
    <3>3. timer = k
      BY <3>2 DEF ChainInv
    <3>4. stage' = [st EXCEPT ![timer] = "none"]
      BY <1>2, <3>1, <3>3 DEF RetireTimer
    <3> QED
      BY <3>3, <3>4
  <2>7. \A k \in Ticks : ~Live(k)'
    BY <2>1, <2>5, <2>3 DEF Live, ChainType
  <2> QED
    BY <2>1, <2>3, <2>5, <2>6, <2>7, <2>3 DEF ChainInv, ChainType
<1> QED
  BY <1>1, <1>2

LEMMA StepChain == ChainInv /\ [PollNext]_pollVars => ChainInv'
<1> SUFFICES ASSUME ChainInv, [PollNext]_pollVars PROVE ChainInv'
  OBVIOUS
<1> USE DEF ChainInv, ChainType
<1>1. CASE UNCHANGED chain
  BY <1>1 DEF chain, Live
<1>2. CASE ApplyStart /\ timer = NoTimer
  <2>1. gen' = gen + 1
    BY <1>2 DEF ApplyStart
  <2>2. PICK i \in Ticks : Arm(i, gen + 1, stage)
    BY <1>2 DEF ApplyStart
  <2>3. \A k \in Ticks : stage[k] # "armed"
    BY <1>2 DEF Live
  <2>4. \A k \in Ticks : stage[k] # "none" => tickGen[k] < gen + 1
    OBVIOUS
  <2>5. gen + 1 \in Nat /\ gen + 1 >= gen
    OBVIOUS
  <2>6. ChainInv
    OBVIOUS
  <2>7. \A k \in Ticks : stage[k] = stage[k] \/ stage[k] = "none"
    OBVIOUS
  <2>8. stage \in [Ticks -> Stages]
    OBVIOUS
  <2> HIDE DEF ChainInv, ChainType
  <2> QED
    BY <2>1, <2>2, <2>3, <2>4, <2>5, <2>6, <2>7, <2>8, ArmKeeps
<1>3. CASE ApplyStop
  <2>1. ChainInv /\ stage \in [Ticks -> Stages] /\ RetireTimer(stage)
    BY <1>3 DEF ApplyStop
  <2> HIDE DEF ChainInv, ChainType
  <2> QED
    BY <2>1, RetireKeeps
<1>4. ASSUME NEW i \in Ticks, TickStep(i) PROVE ChainInv'
  <2>0. ChainInv
    OBVIOUS
  <2>1. CASE Fire(i) \/ Check(i) \/ TickOwns(i) \/ TickClear(i) \/ FixBegin(i)
             \/ FixEnd(i) \/ Note(i)
    <3>1. PICK where \in Stages \ {"armed", "clear"} :
            stage[i] # "none" /\ GoOn(i, where)
      BY <2>1 DEF Fire, Check, TickOwns, TickClear, FixBegin, FixEnd, Note,
                  Stages, Raise, GoOn
    <3> HIDE DEF ChainInv, ChainType
    <3> QED
      BY <2>0, <3>1, GoOnKeeps
  <2>2. CASE TickStop(i)
    <3> DEFINE st == [stage EXCEPT ![i] = IF timer = NoTimer THEN "none"
                                                          ELSE "clear"]
    <3>1. st \in [Ticks -> Stages] /\ RetireTimer(st) /\ stage[i] = "stop"
      BY <2>2 DEF TickStop, Stages
    <3>2. \A k \in Ticks : st[k] = stage[k] \/ st[k] = "none"
                           \/ (st[k] = "clear" /\ timer # NoTimer
                               /\ stage[k] = "stop")
      BY <3>1
    <3> HIDE DEF ChainInv, ChainType, st
    <3> QED
      BY <2>0, <3>1, <3>2, RetireKeeps
  <2>3. CASE Rearm(i)
    <3>1. CASE GoOn(i, "none")
      <4>1. stage[i] # "none" /\ "none" \in Stages \ {"armed", "clear"}
        BY <2>3 DEF Rearm, Stages
      <4> HIDE DEF ChainInv, ChainType
      <4> QED
        BY <2>0, <3>1, <4>1, GoOnKeeps
    <3>2. CASE ~GoOn(i, "none")
      <4>0. ~Raise(i)
        BY <3>2 DEF Raise, GoOn
      <4> DEFINE st == [stage EXCEPT ![i] = "none"]
      <4>1. stage[i] = "rearm" /\ tickGen[i] = gen /\ gen' = gen
        BY <2>3, <3>2, <4>0 DEF Rearm
      <4>2. PICK j \in Ticks : Arm(j, gen, st)
        BY <2>3, <3>2, <4>0 DEF Rearm
      <4>3. timer = i
        BY <4>1 DEF Live
      <4>4. \A k \in Ticks : k # i => st[k] = stage[k] /\ ~Live(k)
        BY <4>3
      <4>5. \A k \in Ticks : st[k] # "none" => tickGen[k] < gen
        BY <4>4 DEF Live
      <4>6. \A k \in Ticks : st[k] # "armed"
        BY <4>5
      <4>7. st \in [Ticks -> Stages] /\ gen \in Nat /\ gen >= gen
        BY DEF Stages
      <4>8. \A k \in Ticks : st[k] = stage[k] \/ st[k] = "none"
        OBVIOUS
      <4> HIDE DEF ChainInv, ChainType, st
      <4> QED
        BY <2>0, <4>1, <4>2, <4>5, <4>6, <4>7, <4>8, ArmKeeps
    <3> QED
      BY <3>1, <3>2
  <2> QED
    BY <1>4, <2>1, <2>2, <2>3 DEF TickStep
<1> HIDE DEF ChainInv, ChainType
<1> QED
  BY <1>1, <1>2, <1>3, <1>4 DEF PollNext, pollVars, Save, DaemonTurn, ApplyStep,
     ApplyBegin, ApplyRead, ApplyStart, ApplyClear

LEMMA AlwaysChain == PollSpec => []ChainInv
<1> QED
  BY InitChain, StepChain, PTL DEF PollSpec

(* PollTypeOK: types of the state.                                         *)
THEOREM PollTypeCorrect == PollSpec => []PollTypeOK
<1>1. PollInit => PollTypeOK
  <2> SUFFICES ASSUME PollInit PROVE PollTypeOK
    OBVIOUS
  <2>1. stage \in [Ticks -> Stages] /\ tickGen \in [Ticks -> Nat]
    BY DEF PollInit, Stages
  <2>2. announce \in [Ticks -> BOOLEAN] /\ fixOk \in [Ticks -> BOOLEAN]
    BY Zenon DEF PollInit
  <2>3. /\ background \in BOOLEAN /\ daemonUp \in BOOLEAN
        /\ inFailure \in BOOLEAN /\ banner \in BOOLEAN /\ raised \in BOOLEAN
    BY Zenon DEF PollInit
  <2>4. /\ saves \in 0 .. MaxSaves /\ turns \in 0 .. MaxTurns
        /\ timer \in Ticks \cup {NoTimer} /\ gen \in Nat
        /\ applying \in {"idle", "read", "start", "stop", "clear"}
        /\ pending \in Nat
    BY DEF PollInit
  <2> QED
    BY <2>1, <2>2, <2>3, <2>4 DEF PollTypeOK
<1>2. PollTypeOK /\ ChainInv /\ ChainInv' /\ [PollNext]_pollVars => PollTypeOK'
  <2> SUFFICES ASSUME PollTypeOK, ChainInv', [PollNext]_pollVars PROVE PollTypeOK'
    OBVIOUS
  <2>0. ChainType'
    BY DEF ChainInv
  <2> USE <2>0 DEF PollTypeOK, ChainType
  <2>1. CASE UNCHANGED pollVars
    BY <2>1 DEF pollVars, env, world, notices
  <2>2. CASE Save
    BY <2>2 DEF Save, notices
  <2>3. CASE DaemonTurn
    BY <2>3 DEF DaemonTurn, notices
  <2>4. CASE ApplyBegin
    BY <2>4 DEF ApplyBegin, env, world, notices
  <2>5. CASE ApplyRead \/ ApplyStart \/ ApplyStop
    BY <2>5 DEF ApplyRead, ApplyStart, ApplyStop, env, world, notices
  <2>6. CASE ApplyClear
    BY <2>6 DEF ApplyClear, ClearBanner, env, world
  <2>7. ASSUME NEW i \in Ticks, TickStep(i) PROVE PollTypeOK'
    <3>1. CASE Fire(i) \/ Check(i) \/ TickStop(i)
      BY <3>1 DEF Fire, Check, TickStop, env, world, notices
    <3>2. CASE TickOwns(i) \/ Rearm(i)
      <4>1. raised' = raised \/ raised' = TRUE
        BY <3>2 DEF TickOwns, Rearm, Raise
      <4>2. raised' \in BOOLEAN
        BY <4>1
      <4> QED
        BY <3>2, <4>2 DEF TickOwns, Rearm, world, notices
    <3>3. CASE TickClear(i)
      BY <3>3 DEF TickClear, ClearBanner, env, world
    <3>4. CASE FixBegin(i)
      BY <3>4 DEF FixBegin, env, world
    <3>5. CASE FixEnd(i)
      BY <3>5 DEF FixEnd, env, world
    <3>6. CASE Note(i)
      BY <3>6 DEF Note, env, world
    <3> QED
      BY <2>7, <3>1, <3>2, <3>3, <3>4, <3>5, <3>6 DEF TickStep
  <2> QED
    BY <2>1, <2>2, <2>3, <2>4, <2>5, <2>6, <2>7 DEF PollNext, ApplyStep
<1> QED
  BY <1>1, <1>2, AlwaysChain, PTL DEF PollSpec

(* OneChain: whatever the saves, stops and restarts during a running fix,  *)
(* at most one timer or tick of the app can go on polling.                 *)
THEOREM NoSecondChain == PollSpec => []OneChain
<1>1. ChainInv => OneChain
  BY DEF ChainInv, OneChain
<1> QED
  BY <1>1, AlwaysChain, PTL

(* StoppedIsQuiet: after a stop nothing is armed or of the current chain.  *)
THEOREM StopIsFinal == PollSpec => []StoppedIsQuiet
<1>1. ChainInv => StoppedIsQuiet
  BY DEF ChainInv, StoppedIsQuiet, Live
<1> QED
  BY <1>1, AlwaysChain, PTL

(* A tick that goes on and does not end keeps the chain alive; so does one *)
(* that ends, when it is not the current one.                              *)
LEMMA GoOnAlive ==
  ASSUME ChainInv, TimerIsAlive, raised' = raised,
         NEW i \in Ticks, NEW where \in Stages,
         GoOn(i, where), where # "none" \/ tickGen[i] # gen
  PROVE  TimerIsAlive'
<1> SUFFICES ASSUME timer # NoTimer, ~raised PROVE Live(timer)'
  BY DEF TimerIsAlive, GoOn
<1>1. timer \in Ticks /\ Live(timer)
  BY DEF ChainInv, ChainType, TimerIsAlive
<1> QED
  BY <1>1 DEF Live, GoOn, ChainInv, ChainType

LEMMA StepAlive == ChainInv /\ TimerIsAlive /\ [PollNext]_pollVars => TimerIsAlive'
<1> SUFFICES ASSUME ChainInv, TimerIsAlive, [PollNext]_pollVars PROVE TimerIsAlive'
  OBVIOUS
<1>0. CASE raised' # raised
  <2>1. raised' = TRUE
    BY <1>0 DEF PollNext, pollVars, env, Save, DaemonTurn, ApplyStep, ApplyBegin,
       ApplyRead, ApplyStart, ApplyStop, ApplyClear, TickStep, Fire, Check,
       TickOwns, TickStop, TickClear, FixBegin, FixEnd, Note, Rearm, Raise
  <2> QED
    BY <2>1 DEF TimerIsAlive
<1>1. CASE UNCHANGED chain /\ UNCHANGED raised
  BY <1>1 DEF chain, Live, TimerIsAlive
<1>2. CASE ApplyStart /\ timer = NoTimer
  <2>1. gen' = gen + 1
    BY <1>2 DEF ApplyStart
  <2>2. PICK i \in Ticks : Arm(i, gen + 1, stage)
    BY <1>2 DEF ApplyStart
  <2>3. timer' = i /\ stage'[i] = "armed" /\ tickGen'[i] = gen + 1
    BY <2>2 DEF Arm, ChainInv, ChainType
  <2> QED
    BY <2>1, <2>3 DEF TimerIsAlive, Live
<1>3. CASE ApplyStop
  <2>1. ChainInv /\ stage \in [Ticks -> Stages] /\ RetireTimer(stage)
    BY <1>3 DEF ApplyStop, ChainInv, ChainType
  <2>2. timer' = NoTimer
    BY <2>1, RetireKeeps
  <2> QED
    BY <2>2 DEF TimerIsAlive
<1>4. ASSUME NEW i \in Ticks, TickStep(i), raised' = raised
      PROVE  TimerIsAlive'
  <2>1. CASE Fire(i) \/ Check(i) \/ TickOwns(i) \/ TickClear(i) \/ FixBegin(i)
             \/ FixEnd(i) \/ Note(i)
    <3>1. CASE Raise(i)
      BY <3>1 DEF Raise, TimerIsAlive
    <3>2. CASE ~Raise(i)
     <4>1. PICK where \in Stages :
            GoOn(i, where) /\ (where # "none" \/ tickGen[i] # gen)
      BY <2>1, <3>2 DEF Fire, Check, TickOwns, TickClear, FixBegin, FixEnd, Note,
                  Stages, ChainInv, ChainType
     <4> QED
      BY <1>4, <4>1, GoOnAlive
    <3> QED
      BY <3>1, <3>2
  <2>2. CASE TickStop(i)
    <3> DEFINE st == [stage EXCEPT ![i] = IF timer = NoTimer THEN "none"
                                                          ELSE "clear"]
    <3>1. st \in [Ticks -> Stages] /\ RetireTimer(st) /\ stage[i] = "stop"
      BY <2>2 DEF TickStop, Stages, ChainInv, ChainType
    <3>2. \A k \in Ticks : st[k] = stage[k] \/ st[k] = "none"
                           \/ (st[k] = "clear" /\ timer # NoTimer
                               /\ stage[k] = "stop")
      BY <3>1 DEF ChainInv, ChainType
    <3>3. timer' = NoTimer
      <4> HIDE DEF st
      <4> QED BY <3>1, <3>2, RetireKeeps
    <3> QED
      BY <3>3 DEF TimerIsAlive
  <2>3. CASE Rearm(i)
    <3>1. CASE Raise(i)
      BY <3>1 DEF Raise, TimerIsAlive
    <3>2. CASE (timer = NoTimer \/ tickGen[i] # gen) /\ GoOn(i, "none")
      <4>1. timer' = timer /\ "none" \in Stages
        BY <3>2 DEF GoOn, Stages
      <4> QED
        BY <1>4, <3>2, <4>1, GoOnAlive DEF TimerIsAlive
    <3>3. CASE gen' = gen /\ \E j \in Ticks :
                 Arm(j, gen, [stage EXCEPT ![i] = "none"])
      <4>1. PICK j \in Ticks : Arm(j, gen, [stage EXCEPT ![i] = "none"])
        BY <3>3
      <4>2. timer' = j /\ stage'[j] = "armed" /\ tickGen'[j] = gen
        BY <4>1 DEF Arm, ChainInv, ChainType
      <4> QED
        BY <3>3, <4>2 DEF TimerIsAlive, Live
    <3> QED
      BY <2>3, <3>1, <3>2, <3>3 DEF Rearm
  <2> QED
    BY <1>4, <2>1, <2>2, <2>3 DEF TickStep
<1> QED
  BY <1>0, <1>1, <1>2, <1>3, <1>4 DEF PollNext, pollVars, env, Save, DaemonTurn,
     ApplyStep, ApplyBegin, ApplyRead, ApplyStart, ApplyClear

(* TimerIsAlive: as long as no read of the database has raised on a        *)
(* timer's thread, a set _fg_gps_timer stands for one that goes on.        *)
THEOREM ChainStaysAlive == PollSpec => []TimerIsAlive
<1>1. PollInit => TimerIsAlive
  BY DEF PollInit, TimerIsAlive
<1> QED
  BY <1>1, StepAlive, AlwaysChain, PTL DEF PollSpec

=============================================================================
