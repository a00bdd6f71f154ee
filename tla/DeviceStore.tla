----------------------------- MODULE DeviceStore -----------------------------
(***************************************************************************)
(* The device and position tables of the shared SQLite file:               *)
(* qml/utilities/fmd/devices.py and gpsstore.py.  Each operator is one     *)
(* transaction on the tables; who calls them, and when, is module          *)
(* UiListener.                                                             *)
(*                                                                         *)
(* A position is known by the device whose row it is; a device by its id.  *)
(***************************************************************************)
EXTENDS Naturals

CONSTANT Ids      \* of the remote devices

VARIABLES
    devs,         \* ids of the remote devices in the devices table
    refused,      \* devices with Last_Auth_Result "auth_failed"
    deleted,      \* devices flagged as wiped
    rows          \* rows of gpsdata, by id

storeVars == <<devs, refused, deleted, rows>>

StoreTypeOK ==
    /\ devs \subseteq Ids /\ refused \subseteq Ids
    /\ deleted \subseteq Ids
    /\ rows \in [Ids -> Nat]

StoreInit ==
    /\ devs \in SUBSET Ids
    /\ refused = {} /\ deleted = {}
    /\ rows = [d \in Ids |-> 0]

(* add_remote *)
AddRemote(d) ==
    /\ d \notin devs
    /\ devs' = devs \cup {d}
    /\ refused' = refused \ {d} /\ deleted' = deleted \ {d}
    /\ UNCHANGED rows

Renamed(S, d, e) == IF d \in S THEN (S \ {d}) \cup {e} ELSE S

(* Mutant: the positions stay under the id before. *)
RenameDeviceOnly(d, e) ==
    /\ d \in devs /\ e \notin devs
    /\ devs' = (devs \ {d}) \cup {e}
    /\ refused' = Renamed(refused, d, e) /\ deleted' = Renamed(deleted, d, e)
    /\ UNCHANGED rows

(* rename_device: the row, and its positions with it, next to any that are  *)
(* there under the new id.                                                  *)
RenameDevice(d, e) ==
    /\ d \in devs /\ e \notin devs
    /\ devs' = (devs \ {d}) \cup {e}
    /\ refused' = Renamed(refused, d, e) /\ deleted' = Renamed(deleted, d, e)
    /\ rows' = [rows EXCEPT ![e] = @ + rows[d], ![d] = 0]

(* remove_device *)
RemoveDevice(d) ==
    /\ d \in devs
    /\ devs' = devs \ {d}
    /\ refused' = refused \ {d} /\ deleted' = deleted \ {d}
    /\ rows' = [rows EXCEPT ![d] = 0]

(* set_auth_result and set_deleted update the row of the id, if any. *)
SetAuthResult(d, isRefused) ==
    /\ refused' = IF isRefused /\ d \in devs THEN refused \cup {d} ELSE refused \ {d}
    /\ UNCHANGED <<devs, deleted, rows>>

SetDeleted(d, flag) ==
    /\ deleted' = IF flag /\ d \in devs THEN deleted \cup {d} ELSE deleted \ {d}
    /\ UNCHANGED <<devs, refused, rows>>

(* store_fix inserts without looking for the device, and prunes. *)
StoreFix(d) ==
    /\ rows' = [rows EXCEPT ![d] = 1]
    /\ UNCHANGED <<devs, refused, deleted>>

(* The buttons of a device are grey (list_devices). *)
Greyed(d) == d \in refused \/ d \in deleted
=============================================================================
