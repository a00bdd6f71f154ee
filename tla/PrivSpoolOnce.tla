--------------------------- MODULE PrivSpoolOnce ---------------------------
(***************************************************************************)
(* What the privileged spool promises its clients, without files: a        *)
(* request that was refused is never carried out, one that was accepted is *)
(* carried out once or dropped, and only a request that could not be       *)
(* claimed may be carried out again.                                       *)
(***************************************************************************)
EXTENDS Naturals

CONSTANT Requests

VARIABLES
    fate,    \* of each request
    times,   \* how often it was carried out
    doubt    \* requests the service could not claim

onceVars == <<fate, times, doubt>>

Init ==
    /\ fate = [r \in Requests |-> "new"]
    /\ times = [r \in Requests |-> 0]
    /\ doubt = {}

Fates == {"new", "refused", "queued", "served", "dropped"}

Accept(r) ==
    /\ fate[r] = "new"
    /\ fate' = [fate EXCEPT ![r] = "queued"]
    /\ UNCHANGED <<times, doubt>>

Doubt(r) ==
    /\ fate[r] \in {"queued", "served"}
    /\ doubt' = doubt \cup {r}
    /\ UNCHANGED <<fate, times>>

Serve(r) ==
    /\ fate[r] = "queued" \/ (fate[r] = "served" /\ r \in doubt)
    /\ fate' = [fate EXCEPT ![r] = "served"]
    /\ times' = [times EXCEPT ![r] = @ + 1]
    /\ UNCHANGED doubt

(* A client fails, the service is killed, or the device restarts: some that *)
(* were new are never queued, some that were queued are not carried out.    *)
Fail ==
    /\ fate' \in [Requests -> Fates]
    /\ \A r \in Requests :
        \/ fate'[r] = fate[r]
        \/ fate[r] = "new" /\ fate'[r] = "refused"
        \/ fate[r] = "queued" /\ fate'[r] = "dropped"
    /\ UNCHANGED <<times, doubt>>

Next ==
    \/ \E r \in Requests : Accept(r) \/ Doubt(r) \/ Serve(r)
    \/ Fail

Spec == Init /\ [][Next]_onceVars

=============================================================================
