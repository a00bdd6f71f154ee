------------------------------ MODULE UiListener ------------------------------
(***************************************************************************)
(* The app's MQTT listener and its devices: qml/utilities/api.py.          *)
(*                                                                         *)
(* The worker thread of the UI adds, edits and removes devices (module     *)
(* DeviceStore) and starts a thread that restarts the listener; so do a    *)
(* settings save and the check for a handover between networks.  The       *)
(* restart threads follow each other on _settings_apply_lock.  The network *)
(* thread of a client stores positions and acknowledgements; one that is   *)
(* in the middle of a message when its client is retired is waited for     *)
(* briefly, then abandoned.  At the first start the app and a daemon both  *)
(* create the own device.                                                  *)
(*                                                                         *)
(* How a client connects and reconnects is module MqttClient, commands and *)
(* their timeouts are module UiCommands.                                   *)
(***************************************************************************)
EXTENDS DeviceStore

CONSTANTS
    Clients,      \* identities of MQTT clients, reused once retired
    Restarts,     \* restart threads
    MaxEdits,     \* bound: operations of the user
    MaxFaults,    \* bound: failed connects, abandoned threads, handovers
    None

ASSUME NameAssumption == None \notin Clients \cup Restarts \cup Ids
ASSUME BoundsAssumption == MaxEdits \in Nat /\ MaxFaults \in Nat

VARIABLES
    (* the own device *)
    owns,         \* rows with Is_Own
    maker,        \* where a process is in ensure_own_device
    (* the worker *)
    worker, edit, edits,
    (* the listener *)
    mqttOn,       \* MQTT_ENABLED and a server
    client,       \* _ui_mqtt
    lock,         \* _settings_apply_lock
    pc, mine,     \* where a restart thread is, the client it retires or makes
    list,         \* the devices it read
    alive,        \* clients with a network thread
    revived,      \* the retired ones among them
    subs,         \* the devices a client listens to
    message,      \* what a network thread is at
    (* the network *)
    stranded,     \* clients whose socket a handover left behind
    faults,
    (* histories *)
    failed,       \* clients that were not dispatched at once
    bad           \* devices with a bad acknowledgement since their last edit

ownVars == <<owns, maker>>
workerVars == <<worker, edit, edits>>
listenerVars == <<mqttOn, client, lock, pc, mine, list, alive, revived, subs, failed>>
vars == <<storeVars, ownVars, workerVars, listenerVars, message, stranded, faults, bad>>

Processes == {"app", "daemon"}
NoMessage == [of |-> "none", id |-> None]
Messages == [of : {"location", "ok", "auth_failed", "wiped", "flag"}, id : Ids]

TypeOK ==
    /\ StoreTypeOK
    /\ owns \in 0 .. 2
    /\ maker \in [Processes -> {"down", "absent", "done"}]
    /\ worker \in {"init", "starting", "free", "update", "auth", "deleted", "restart"}
    /\ edit \in Ids \cup {None} /\ edits \in 0 .. MaxEdits
    /\ mqttOn \in BOOLEAN
    /\ client \in Clients \cup {None}
    /\ lock \in Restarts \cup {None}
    /\ pc \in [Restarts -> {"idle", "wait", "retire", "close", "connect", "list", "subscribe"}]
    /\ mine \in [Restarts -> Clients \cup {None}]
    /\ list \in [Restarts -> SUBSET Ids]
    /\ alive \subseteq Clients /\ revived \subseteq Clients
    /\ stranded \subseteq Clients /\ failed \subseteq Clients
    /\ subs \in [Clients -> SUBSET Ids]
    /\ message \in [Clients -> Messages \cup {NoMessage}]
    /\ faults \in 0 .. MaxFaults
    /\ bad \subseteq Ids

Init ==
    /\ StoreInit
    /\ owns = 0 /\ maker = [p \in Processes |-> "down"]
    /\ worker = "init" /\ edit = None /\ edits = 0
    /\ mqttOn = TRUE /\ client = None /\ lock = None
    /\ pc = [r \in Restarts |-> "idle"] /\ mine = [r \in Restarts |-> None]
    /\ list = [r \in Restarts |-> {}]
    /\ alive = {} /\ revived = {} /\ subs = [c \in Clients |-> {}]
    /\ message = [c \in Clients |-> NoMessage]
    /\ stranded = {} /\ faults = 0
    /\ failed = {} /\ bad = {}

Fault == faults < MaxFaults /\ faults' = faults + 1

-----------------------------------------------------------------------------
(* ensure_own_device: the app's init_app and a daemon's main.  (Bound: both *)
(* come before the app's listener.)                                         *)

LookForOwn(p) ==
    /\ maker[p] = "down" /\ worker = "init"
    /\ maker' = [maker EXCEPT ![p] = IF owns = 0 THEN "absent" ELSE "done"]
    /\ UNCHANGED <<owns, storeVars, workerVars, listenerVars, message, stranded, faults, bad>>

(* The unique index refuses a second one: the process fails and is started  *)
(* again, by systemd or the user.                                           *)
InsertOwn(p) ==
    /\ maker[p] = "absent"
    /\ IF owns = 0
       THEN owns' = 1 /\ maker' = [maker EXCEPT ![p] = "done"]
       ELSE owns' = owns /\ maker' = [maker EXCEPT ![p] = "down"]
    /\ UNCHANGED <<storeVars, workerVars, listenerVars, message, stranded, faults, bad>>

-----------------------------------------------------------------------------
(* Restarts of the listener. *)

(* A thread is made that will wait for the lock. *)
Spawn == \E r \in Restarts : pc[r] = "idle" /\ pc' = [pc EXCEPT ![r] = "wait"]
RestartOnly == UNCHANGED <<mqttOn, client, lock, mine, list, alive, revived, subs, failed>>
Goto(r, place) == pc' = [pc EXCEPT ![r] = place]

(* init_app starts the first listener before anything else is served.       *)
StartApp ==
    /\ worker = "init" /\ \A p \in Processes : maker[p] = "done"
    /\ worker' = "starting"
    /\ Spawn /\ RestartOnly
    /\ UNCHANGED <<edit, edits, storeVars, ownVars, message, stranded, faults, bad>>

AppStarted ==
    /\ worker = "starting" /\ \A r \in Restarts : pc[r] = "idle"
    /\ worker' = "free"
    /\ UNCHANGED <<edit, edits, storeVars, ownVars, listenerVars, message, stranded, faults, bad>>

(* Mutant: the threads are not serialised. *)
BeginUnlocked(r) ==
    /\ pc[r] = "wait"
    /\ mine' = [mine EXCEPT ![r] = client]
    /\ client' = None /\ lock' = None
    /\ Goto(r, IF mqttOn THEN "retire" ELSE "close")
    /\ UNCHANGED <<mqttOn, list, alive, revived, subs, failed, storeVars, ownVars, workerVars,
                   message, stranded, faults, bad>>

(* _start_ui_mqtt under the lock: the settings are read, the old client is  *)
(* taken out ...                                                            *)
Begin(r) ==
    /\ pc[r] = "wait" /\ lock = None
    /\ lock' = r
    /\ mine' = [mine EXCEPT ![r] = client]
    /\ client' = None
    /\ Goto(r, IF mqttOn THEN "retire" ELSE "close")
    /\ UNCHANGED <<mqttOn, list, alive, revived, subs, failed, storeVars, ownVars, workerVars,
                   message, stranded, faults, bad>>

End(r) == Goto(r, "idle") /\ lock' = None
Forget(c) == subs' = [subs EXCEPT ![c] = {}] /\ failed' = failed \ {c} /\ stranded' = stranded \ {c}

(* ... and closed, outside of _ui_lock; its network thread, if it is in a   *)
(* message, ends that first or is abandoned.  A publish that holds the old  *)
(* client and whose repair is past its look at _closed makes a connection   *)
(* that close() does not see, and that nobody closes any more (MqttClient,  *)
(* ClosedForGood).                                                          *)
Closed(c) ==
    \/ /\ IF message[c] = NoMessage THEN UNCHANGED faults ELSE Fault
       /\ alive' = alive \ {c}
       /\ Forget(c)
       /\ UNCHANGED revived
    \/ /\ Fault
       /\ alive' = alive \cup {c} /\ revived' = revived \cup {c}
       /\ stranded' = stranded \ {c}
       /\ UNCHANGED <<subs, failed>>

Retire(r) ==
    /\ pc[r] \in {"retire", "close"}
    /\ IF mine[r] = None THEN UNCHANGED <<alive, revived, subs, failed, stranded, faults>>
                         ELSE Closed(mine[r])
    /\ mine' = [mine EXCEPT ![r] = None]
    /\ IF pc[r] = "retire" THEN Goto(r, "connect") /\ UNCHANGED lock ELSE End(r)
    /\ UNCHANGED <<mqttOn, client, list, storeVars, ownVars, workerVars, message, bad>>

Unused == {c \in Clients : message[c] = NoMessage /\ c \notin alive
                             /\ c # client /\ \A r \in Restarts : mine[r] # c}

(* The new client is published, then connected.  An exception makes         *)
(* connect() FALSE: then nothing is subscribed.                             *)
Connect(r) ==
    /\ pc[r] = "connect" /\ Unused # {}
    /\ LET c == CHOOSE x \in Unused : TRUE IN
         /\ client' = c
         /\ \/ /\ alive' = alive \cup {c}
               /\ mine' = [mine EXCEPT ![r] = c]
               /\ Goto(r, "list")
               /\ UNCHANGED <<lock, failed, faults>>
            \/ /\ Fault
               /\ failed' = failed \cup {c}
               /\ End(r)
               /\ UNCHANGED <<alive, mine>>
    /\ UNCHANGED <<mqttOn, list, revived, subs, storeVars, ownVars, workerVars, message,
                   stranded, bad>>

(* A publish repairs the client that was not dispatched (force_reconnect).  *)
Revive ==
    /\ client \in failed \ alive
    /\ alive' = alive \cup {client}
    /\ UNCHANGED <<mqttOn, client, lock, pc, mine, list, revived, subs, failed, storeVars,
                   ownVars, workerVars, message, stranded, faults, bad>>

ListDevices(r) ==
    /\ pc[r] = "list"
    /\ list' = [list EXCEPT ![r] = devs]
    /\ Goto(r, "subscribe")
    /\ UNCHANGED <<mqttOn, client, lock, mine, alive, revived, subs, failed, storeVars,
                   ownVars, workerVars, message, stranded, faults, bad>>

(* Location and ack of each; the own device's ack topic is always there.    *)
Subscribe(r) ==
    /\ pc[r] = "subscribe"
    /\ subs' = [subs EXCEPT ![mine[r]] = list[r]]
    /\ list' = [list EXCEPT ![r] = {}]
    /\ mine' = [mine EXCEPT ![r] = None]
    /\ End(r)
    /\ UNCHANGED <<mqttOn, client, alive, revived, failed, storeVars, ownVars, workerVars,
                   message, stranded, faults, bad>>

-----------------------------------------------------------------------------
(* The user, on the worker thread. *)

Operate == worker = "free" /\ edits < MaxEdits /\ edits' = edits + 1
AtWork(d) == \E c \in Clients : message[c].id = d

(* What an acknowledgement under way says outlives the edit. *)
Fresh(D) == {x \in bad : x \in D => AtWork(x)}

AddDevice(d) ==
    /\ Operate
    /\ AddRemote(d)
    /\ bad' = Fresh({d})
    /\ Spawn /\ RestartOnly
    /\ UNCHANGED <<worker, edit, ownVars, message, stranded, faults>>

RemoveIt(d) ==
    /\ Operate
    /\ RemoveDevice(d)
    /\ bad' = Fresh({d})
    /\ Spawn /\ RestartOnly
    /\ UNCHANGED <<worker, edit, ownVars, message, stranded, faults>>

(* update_device without a new id: label and PIN, then the state. *)
UpdateDevice(d) ==
    /\ Operate /\ d \in devs
    /\ worker' = "auth" /\ edit' = d
    /\ bad' = Fresh({d})
    /\ UNCHANGED <<storeVars, ownVars, listenerVars, message, stranded, faults>>

(* update_device with a new id: the id first, the rest after it. *)
RenameIt(d, e) ==
    /\ Operate
    /\ RenameDevice(d, e)
    /\ worker' = "update" /\ edit' = e
    /\ bad' = Fresh({d, e})
    /\ UNCHANGED <<ownVars, listenerVars, message, stranded, faults>>

(* Mutant: the device stays flagged as wiped. *)
ClearAuthOnly ==
    /\ worker \in {"update", "auth"}
    /\ SetAuthResult(edit, FALSE)
    /\ worker' = IF worker = "update" THEN "restart" ELSE "free"
    /\ edit' = IF worker = "update" THEN edit ELSE None
    /\ UNCHANGED <<edits, ownVars, listenerVars, message, stranded, faults, bad>>

ClearAuth ==
    /\ worker \in {"update", "auth"}
    /\ SetAuthResult(edit, FALSE)
    /\ worker' = IF worker = "update" THEN "restart" ELSE "deleted"
    /\ UNCHANGED <<edit, edits, ownVars, listenerVars, message, stranded, faults, bad>>

(* Mutant: nothing is restarted for the new id. *)
ClearDeletedOnly ==
    /\ worker \in {"deleted", "restart"}
    /\ SetDeleted(edit, FALSE)
    /\ worker' = "free" /\ edit' = None
    /\ UNCHANGED <<edits, ownVars, listenerVars, message, stranded, faults, bad>>

(* The flag, and after a change of the id a restart. *)
ClearDeleted ==
    /\ worker \in {"deleted", "restart"}
    /\ SetDeleted(edit, FALSE)
    /\ IF worker = "restart" THEN Spawn ELSE UNCHANGED pc
    /\ RestartOnly
    /\ worker' = "free" /\ edit' = None
    /\ UNCHANGED <<edits, ownVars, message, stranded, faults, bad>>

(* A settings save, as far as the listener is concerned. *)
SaveSettings ==
    /\ Operate
    /\ mqttOn' = ~mqttOn
    /\ Spawn
    /\ UNCHANGED <<client, lock, mine, list, alive, revived, subs, failed, worker, edit, storeVars,
                   ownVars, message, stranded, faults, bad>>

-----------------------------------------------------------------------------
(* The network thread of a client. *)

Hears(c) == c \in alive /\ c \notin stranded /\ message[c] = NoMessage

(* A position or an acknowledgement arrives. *)
Receive(c, m) ==
    /\ Hears(c) /\ m.id \in subs[c] /\ m.of # "flag"
    /\ message' = [message EXCEPT ![c] = m]
    /\ bad' = IF m.of \in {"auth_failed", "wiped"} THEN bad \cup {m.id} ELSE bad
    /\ UNCHANGED <<storeVars, ownVars, workerVars, listenerVars, stranded, faults>>

OnRemoteLocation(c) ==
    /\ message[c].of = "location"
    /\ StoreFix(message[c].id)
    /\ message' = [message EXCEPT ![c] = NoMessage]
    /\ UNCHANGED <<ownVars, workerVars, listenerVars, stranded, faults, bad>>

(* _on_remote_ack: the result ... *)
OnRemoteAck(c) ==
    /\ message[c].of \in {"ok", "auth_failed", "wiped"}
    /\ SetAuthResult(message[c].id, message[c].of = "auth_failed")
    /\ message' = [message EXCEPT ![c] =
            IF @.of = "wiped" THEN [@ EXCEPT !.of = "flag"] ELSE NoMessage]
    /\ UNCHANGED <<ownVars, workerVars, listenerVars, stranded, faults, bad>>

(* ... and, after a confirmed DELETE, the flag. *)
OnRemoteAckDeleted(c) ==
    /\ message[c].of = "flag"
    /\ SetDeleted(message[c].id, TRUE)
    /\ message' = [message EXCEPT ![c] = NoMessage]
    /\ UNCHANGED <<ownVars, workerVars, listenerVars, stranded, faults, bad>>

-----------------------------------------------------------------------------
(* The network changes under the listener. *)

(* The route to the broker has another source address: nothing arrives on   *)
(* the old socket, and nothing says so.                                     *)
Handover ==
    /\ Fault /\ alive \ stranded # {}
    /\ stranded' = alive
    /\ UNCHANGED <<storeVars, ownVars, workerVars, listenerVars, message, bad>>

(* Mutant: the check comes with what the client receives only.              *)
RepairWhenHeard ==
    /\ worker # "init" /\ client # None /\ client \notin stranded
    /\ Spawn /\ RestartOnly
    /\ UNCHANGED <<storeVars, ownVars, workerVars, message, stranded, faults, bad>>

(* _repair_if_handover, from a probe the map started or before a command is *)
(* sent; one that cannot tell, or is asked again within ten seconds, leaves *)
(* it for the next.                                                         *)
RepairIfHandover ==
    /\ worker # "init" /\ client \in stranded
    /\ Spawn /\ RestartOnly
    /\ UNCHANGED <<storeVars, ownVars, workerVars, message, stranded, faults, bad>>

-----------------------------------------------------------------------------
RestartStep(r) ==
    Begin(r) \/ Retire(r) \/ Connect(r) \/ ListDevices(r) \/ Subscribe(r)
HandlerStep(c) == OnRemoteLocation(c) \/ OnRemoteAck(c) \/ OnRemoteAckDeleted(c)
WorkerStep == AppStarted \/ ClearAuth \/ ClearDeleted
User ==
    \/ \E d \in Ids : AddDevice(d) \/ RemoveIt(d) \/ UpdateDevice(d) \/ \E e \in Ids : RenameIt(d, e)
    \/ SaveSettings

Next ==
    \/ \E p \in Processes : LookForOwn(p) \/ InsertOwn(p)
    \/ StartApp \/ User \/ WorkerStep
    \/ \E r \in Restarts : RestartStep(r)
    \/ \E c \in Clients : HandlerStep(c) \/ \E m \in Messages : Receive(c, m)
    \/ Revive \/ Handover \/ RepairIfHandover

Spec == Init /\ [][Next]_vars

(* The app's threads go on, and its user looks at the map or sends commands *)
(* now and then.                                                            *)
FairSpec ==
    /\ Spec
    /\ \A r \in Restarts : WF_vars(RestartStep(r))
    /\ \A c \in Clients : WF_vars(HandlerStep(c))
    /\ WF_vars(WorkerStep) /\ WF_vars(RepairIfHandover)

-----------------------------------------------------------------------------
(* Properties. *)

(* Of the clients the app means to have there are never two (_start_ui_mqtt: *)
(* "so the two never fight over the client id"; one that a late repair has  *)
(* revived is apart), and when the restarts are over, the one there is      *)
(* hears the devices there are, no more and no less, in whatever order the  *)
(* user's operations and the restarts were interleaved; a client that was   *)
(* not dispatched is apart.                                                 *)
Settled == worker = "free" /\ \A r \in Restarts : pc[r] = "idle"
HearsItsDevices ==
    /\ \A c, d \in alive \ revived : c = d
    /\ Settled /\ client \in alive \ failed => subs[client] = devs

(* A position that no device belongs to comes into the table in one way:    *)
(* store_fix is not told that the device is gone.  That can happen from the *)
(* edit to the end of the restart it starts, and later on a thread that     *)
(* close() has given up waiting for or whose client a late repair has       *)
(* revived; a rename or a removal that leaves positions behind, or a        *)
(* listener that still has an old topic, would be other ways.               *)
StoresLate(c) ==
    /\ message[c].of = "location" /\ message'[c] = NoMessage
    /\ ~Settled \/ c \notin alive \/ c \in revived
Ownerless(d) == rows[d] > 0 /\ d \notin devs
RowsHaveDevices ==
    [][\A d \in Ids : ~Ownerless(d) /\ Ownerless(d)' =>
                         \E c \in Clients : message[c].id = d /\ StoresLate(c)]_vars

(* Not so, though remove_device deletes "its devices row and its gpsdata    *)
(* rows": that a removed device stays without positions (and off the map).  *)
RemovedIsForgotten == Settled => \A d \in Ids : ~Ownerless(d)

(* Buttons are grey only for what a device said since it was last edited,   *)
(* or was saying then (update_device: "so the command buttons are usable    *)
(* again").                                                                 *)
GreyedForReason == worker = "free" => \A d \in devs : Greyed(d) => d \in bad

(* A listener whose network changed under it hears again, sooner or later   *)
(* (one that a revived predecessor takes the broker's client id from, over  *)
(* and over, is apart).                                                     *)
HearsAgain == []<>(client = None \/ client \notin stranded)
=============================================================================
