------------------------------ MODULE PrivSpool ------------------------------
(***************************************************************************)
(* The privileged spool: daemon-rpm/src/priv_client.py, the threads of the *)
(* user daemons that queue a request, and priv_service.py, the root        *)
(* service that a systemd path unit starts whenever the spool directory is *)
(* not empty.  One action per file operation, so that a kill, a power loss *)
(* or the other side may come between any two.                             *)
(*                                                                         *)
(* A request is one file: name.tmp while it is written, name.json when it  *)
(* is queued, name.work when it is claimed.  File names are random, so the *)
(* sorted listing orders the requests in no way a client could rely on.    *)
(* The switch of the system location (location_control.py) is two files,   *)
(* that the service writes one after the other.                            *)
(***************************************************************************)
EXTENDS Naturals

CONSTANTS
    Requests,
    Messages,     \* those that send an SMS
    Reboots,      \* those that reboot the device; the others switch location on
    StartBurst,   \* starts of the service in an interval that systemd allows
    MaxFaults,    \* bound: failed file operations and calls, kills, power losses
    None

ASSUME RequestAssumption ==
    /\ Messages \subseteq Requests /\ Reboots \subseteq Requests
    /\ Messages \cap Reboots = {}
    /\ None \notin Requests
ASSUME FaultAssumption == MaxFaults \in Nat
ASSUME BurstAssumption == StartBurst \in Nat \ {0}

Switches == Requests \ (Messages \cup Reboots)
Confs == {"var", "etc"}

VARIABLES
    thread,       \* queue(): where the client of a request is
    file,         \* of the request
    starts,       \* starts of the service in systemd's current interval
    watching,     \* is the path unit active, or has it failed?
    run,          \* where the service is; "off" when it does not run
    todo,         \* the rest of its listing
    cur,          \* the request it works on
    performed,    \* history: how often a request's action was begun
    unclaimed,    \* history: requests worked on under their queued name
    rebooting,    \* was a reboot asked for?
    conf,         \* the two location.conf files
    sms,          \* ofono's state of the message being sent
    listed,       \* does ofono still list it?
    seen,         \* states of it the service has seen
    report,       \* the state the service reported last
    faults

clientVars == <<thread>>
unitVars == <<starts, watching>>
serviceVars == <<unitVars, run, todo, cur>>
smsVars == <<sms, listed, seen, report>>
historyVars == <<performed, unclaimed>>
spoolVars == <<thread, file, starts, watching, run, todo, cur, performed, unclaimed, rebooting, conf,
               sms, listed, seen, report, faults>>

Threads == {"idle", "writing", "queued", "refused", "dead"}
Places == {"off", "stale", "next", "act", "etc", "watch", "remove"}
Final == {"sent", "failed"}

SpoolTypeOK ==
    /\ thread \in [Requests -> Threads]
    /\ file \in [Requests -> {"none", "tmp", "json", "work", "gone"}]
    /\ starts \in 0 .. StartBurst
    /\ watching \in BOOLEAN
    /\ run \in Places
    /\ todo \subseteq Requests
    /\ cur \in Requests \cup {None}
    /\ performed \in [Requests -> Nat]
    /\ unclaimed \subseteq Requests
    /\ rebooting \in BOOLEAN
    /\ conf \in [Confs -> {"off", "nogps", "on"}]
    /\ sms \in {"none", "pending"} \cup Final
    /\ listed \in BOOLEAN
    /\ seen \subseteq Final \cup {"gone"}
    /\ report \in {"none", "error", "unknown", "done", "pending"} \cup Final
    /\ faults \in 0 .. MaxFaults

SpoolInit ==
    /\ thread = [r \in Requests |-> "idle"]
    /\ file = [r \in Requests |-> "none"]
    /\ starts = 0 /\ watching = TRUE
    /\ run = "off" /\ todo = {} /\ cur = None
    /\ performed = [r \in Requests |-> 0]
    /\ unclaimed = {}
    /\ rebooting = FALSE
    /\ conf = [f \in Confs |-> "off"]
    /\ sms = "none" /\ listed = FALSE /\ seen = {} /\ report = "none"
    /\ faults = 0

Fault == faults < MaxFaults /\ faults' = faults + 1
Named(kind) == {r \in Requests : file[r] = kind}
NotEmpty == Named("tmp") \cup Named("json") \cup Named("work") # {}

-----------------------------------------------------------------------------
(* The client. *)

Mkstemp(r) ==
    /\ thread[r] = "idle"
    /\ \/ /\ thread' = [thread EXCEPT ![r] = "writing"]
          /\ file' = [file EXCEPT ![r] = "tmp"]
          /\ UNCHANGED faults
       \/ /\ Fault
          /\ thread' = [thread EXCEPT ![r] = "refused"]
          /\ UNCHANGED file
    /\ UNCHANGED <<serviceVars, smsVars, historyVars, rebooting, conf>>

Rename(r) ==
    /\ thread[r] = "writing"
    /\ thread' = [thread EXCEPT ![r] = "queued"]
    /\ file' = [file EXCEPT ![r] = "json"]
    /\ UNCHANGED <<serviceVars, smsVars, historyVars, rebooting, conf, faults>>

(* Writing or renaming raises; the removal of the file may fail as well. *)
QueueFails(r) ==
    /\ thread[r] = "writing"
    /\ Fault
    /\ thread' = [thread EXCEPT ![r] = "refused"]
    /\ \/ file' = [file EXCEPT ![r] = "gone"]
       \/ UNCHANGED file
    /\ UNCHANGED <<serviceVars, smsVars, historyVars, rebooting, conf>>

(* A daemon dies, and the threads of it that are in queue(), if any. *)
Writing == {r \in Requests : thread[r] = "writing"}

ClientsDie(R) ==
    /\ Fault
    /\ thread' = [r \in Requests |-> IF r \in R THEN "dead" ELSE thread[r]]
    /\ UNCHANGED <<file, serviceVars, smsVars, historyVars, rebooting, conf>>

-----------------------------------------------------------------------------
(* The service. *)

(* DirectoryNotEmpty= of the path unit, also of a file that is not queued   *)
(* yet or never will be; neither unit changes systemd's start limit.        *)
Trigger ==
    /\ watching /\ run = "off" /\ NotEmpty
    /\ starts < StartBurst
    /\ starts' = starts + 1
    /\ run' = "stale"
    /\ todo' = Named("work")
    /\ UNCHANGED <<clientVars, file, watching, cur, smsVars, historyVars, rebooting, conf, faults>>

(* A start too many in one interval: the service and the path unit fail,    *)
(* and nobody resets them before the device boots.                          *)
StartLimitHit ==
    /\ watching /\ run = "off" /\ NotEmpty
    /\ starts = StartBurst
    /\ watching' = FALSE
    /\ UNCHANGED <<clientVars, file, starts, run, todo, cur, smsVars, historyVars, rebooting, conf, faults>>

(* The interval is over, of interest at the next start; a failed unit stays *)
(* failed.                                                                  *)
IntervalPasses ==
    /\ watching /\ run = "off" /\ starts > 0
    /\ starts' = 0
    /\ UNCHANGED <<clientVars, file, watching, run, todo, cur, smsVars, historyVars, rebooting, conf, faults>>

(* Mutant: what an interrupted run had claimed is queued again. *)
RequeueStale(r) ==
    /\ run = "stale" /\ r \in todo
    /\ todo' = todo \ {r}
    /\ file' = [file EXCEPT ![r] = "json"]
    /\ UNCHANGED <<clientVars, unitVars, run, cur, smsVars, historyVars, rebooting, conf, faults>>

(* Mutant: what an interrupted run had claimed stays. *)
KeepStale(r) ==
    /\ run = "stale" /\ r \in todo
    /\ todo' = todo \ {r}
    /\ UNCHANGED <<clientVars, unitVars, file, run, cur, smsVars, historyVars, rebooting, conf, faults>>

(* What an interrupted run had claimed may be half done: it is dropped. *)
RemoveStale(r) ==
    /\ run = "stale" /\ r \in todo
    /\ todo' = todo \ {r}
    /\ \/ file' = [file EXCEPT ![r] = "gone"] /\ UNCHANGED faults
       \/ Fault /\ UNCHANGED file
    /\ UNCHANGED <<clientVars, unitVars, run, cur, smsVars, historyVars, rebooting, conf>>

List ==
    /\ run = "stale" /\ todo = {}
    /\ run' = "next"
    /\ todo' = Named("json")
    /\ UNCHANGED <<clientVars, unitVars, file, cur, smsVars, historyVars, rebooting, conf, faults>>

Claim(r) ==
    /\ run = "next" /\ r \in todo
    /\ run' = "act" /\ todo' = todo \ {r} /\ cur' = r
    /\ \/ /\ file' = [file EXCEPT ![r] = "work"]
          /\ UNCHANGED <<unclaimed, faults>>
       \/ /\ Fault
          /\ unclaimed' = unclaimed \cup {r}
          /\ UNCHANGED file
    /\ UNCHANGED <<clientVars, unitVars, smsVars, performed, rebooting, conf>>

(* The file cannot be opened or read, or is refused. *)
BadFile ==
    /\ run = "act"
    /\ Fault
    /\ run' = "remove"
    /\ UNCHANGED <<clientVars, unitVars, file, todo, cur, smsVars, historyVars, rebooting, conf>>

Perform == performed' = [performed EXCEPT ![cur] = @ + 1]

(* systemctl reboots the device, or fails.                                  *)
DoReboot ==
    /\ run = "act" /\ cur \in Reboots
    /\ Perform
    /\ \/ rebooting' = TRUE /\ UNCHANGED faults
       \/ Fault /\ UNCHANGED rebooting
    /\ run' = "remove"
    /\ UNCHANGED <<clientVars, unitVars, file, todo, cur, smsVars, unclaimed, conf>>

(* SendMessage raises, is accepted with the state watched, or without. *)
DoSendsms ==
    /\ run = "act" /\ cur \in Messages
    /\ \/ /\ report' = "error" /\ run' = "remove"
          /\ UNCHANGED <<performed, sms, listed, seen>>
       \/ /\ Perform
          /\ sms' = "pending" /\ listed' = TRUE /\ seen' = {}
          /\ \/ run' = "watch" /\ report' = "none"
             \/ run' = "remove" /\ report' = "unknown"
    /\ UNCHANGED <<clientVars, unitVars, file, todo, cur, unclaimed, rebooting, conf, faults>>

(* ofono sends the message or gives up, and forgets it later; of interest   *)
(* while the service waits.                                                 *)
OfonoSettles ==
    /\ run = "watch" /\ sms = "pending"
    /\ sms' \in Final
    /\ UNCHANGED <<clientVars, file, serviceVars, listed, seen, report, historyVars,
                   rebooting, conf, faults>>

OfonoRemoves ==
    /\ run = "watch" /\ sms \in Final /\ listed
    /\ listed' = FALSE
    /\ UNCHANGED <<clientVars, file, serviceVars, sms, seen, report, historyVars,
                   rebooting, conf, faults>>

(* A signal of ofono is dispatched; any may be missing. *)
Signal ==
    /\ run = "watch" /\ sms \in Final
    /\ \/ seen' = seen \cup {sms}
       \/ ~listed /\ seen' = seen \cup {"gone"}
    /\ UNCHANGED <<clientVars, file, serviceVars, sms, listed, report, historyVars,
                   rebooting, conf, faults>>

(* GetMessages, every second. *)
Poll ==
    /\ run = "watch" /\ sms \in Final
    /\ seen' = seen \cup {IF listed THEN sms ELSE "gone"}
    /\ UNCHANGED <<clientVars, file, serviceVars, sms, listed, report, historyVars,
                   rebooting, conf, faults>>

(* Mutant: a message that ofono dropped counts as sent. *)
ReportGoneAsSent ==
    /\ run = "watch"
    /\ report' = IF seen \cap Final # {} THEN CHOOSE s \in Final : s \in seen
                 ELSE IF "gone" \in seen THEN "sent" ELSE "pending"
    /\ run' = "remove" /\ seen' = {} /\ listed' = FALSE
    /\ UNCHANGED <<clientVars, unitVars, file, todo, cur, sms, historyVars,
                   rebooting, conf, faults>>

(* The end of the wait: a final state, the message's absence, or 45 s. *)
Report ==
    /\ run = "watch"
    /\ report' = IF seen \cap Final # {} THEN CHOOSE s \in Final : s \in seen
                 ELSE IF "gone" \in seen THEN "done" ELSE "pending"
    /\ run' = "remove" /\ seen' = {} /\ listed' = FALSE
    /\ UNCHANGED <<clientVars, unitVars, file, todo, cur, sms, historyVars,
                   rebooting, conf, faults>>

(* The result of one request is of no interest to the next. *)
ForgetSms == sms' = "none" /\ listed' = FALSE /\ seen' = {} /\ report' = "none"

WriteConf(f) ==
    \/ conf' = [conf EXCEPT ![f] = "on"] /\ UNCHANGED faults
    \/ Fault /\ UNCHANGED conf

(* set_location_enabled as root: the one file ... *)
DoLocation ==
    /\ run = "act" /\ cur \in Switches
    /\ Perform
    /\ WriteConf("var")
    /\ run' = "etc"
    /\ UNCHANGED <<clientVars, unitVars, file, todo, cur, smsVars, unclaimed, rebooting>>

(* ... and the other. *)
DoLocationEtc ==
    /\ run = "etc"
    /\ WriteConf("etc")
    /\ run' = "remove"
    /\ UNCHANGED <<clientVars, unitVars, file, todo, cur, smsVars, historyVars, rebooting>>

Remove ==
    /\ run = "remove"
    /\ \/ file' = [file EXCEPT ![cur] = "gone"] /\ UNCHANGED faults
       \/ Fault /\ UNCHANGED file
    /\ run' = "next" /\ cur' = None /\ ForgetSms
    /\ UNCHANGED <<clientVars, unitVars, todo, historyVars, rebooting, conf>>

Exit ==
    /\ run = "next" /\ todo = {}
    /\ run' = "off"
    /\ UNCHANGED <<clientVars, unitVars, file, todo, cur, smsVars, historyVars, rebooting, conf, faults>>

(* TimeoutStartSec, or the kernel. *)
Kill ==
    /\ run # "off"
    /\ Fault
    /\ run' = "off" /\ todo' = {} /\ cur' = None /\ ForgetSms
    /\ UNCHANGED <<clientVars, unitVars, file, historyVars, rebooting, conf>>

-----------------------------------------------------------------------------
(* The device. *)

(* It reboots, because it was asked to or of its own: /run is a tmpfs. *)
Restart ==
    /\ \/ rebooting /\ UNCHANGED faults
       \/ ~rebooting /\ Fault
    /\ rebooting' = FALSE
    /\ thread' = [r \in Requests |-> IF thread[r] = "writing" THEN "dead" ELSE thread[r]]
    /\ file' = [r \in Requests |-> IF file[r] = "none" THEN "none" ELSE "gone"]
    /\ starts' = 0 /\ watching' = TRUE
    /\ run' = "off" /\ todo' = {} /\ cur' = None /\ ForgetSms
    /\ UNCHANGED <<historyVars, conf>>

(* Settings, or a daemon that may write the files in place. *)
OthersWriteConf ==
    /\ conf' \in [Confs -> {"off", "nogps", "on"}]
    /\ UNCHANGED <<clientVars, file, serviceVars, smsVars, historyVars, rebooting, faults>>

ServiceStep ==
    \/ List \/ BadFile \/ DoReboot \/ DoSendsms \/ DoLocation \/ DoLocationEtc
    \/ Report \/ Remove \/ Exit
    \/ \E r \in Requests : RemoveStale(r) \/ Claim(r)

OfonoStep == OfonoSettles \/ OfonoRemoves \/ Signal \/ Poll

SpoolNext ==
    \/ \E r \in Requests : Mkstemp(r) \/ Rename(r) \/ QueueFails(r)
    \/ \E R \in SUBSET Writing : ClientsDie(R)
    \/ Trigger \/ StartLimitHit \/ IntervalPasses
    \/ ServiceStep \/ OfonoStep \/ Kill \/ Restart \/ OthersWriteConf

SpoolSpec == SpoolInit /\ [][SpoolNext]_spoolVars

-----------------------------------------------------------------------------
(* Properties. *)

(* A request is carried out at most once, whatever is killed and whenever: *)
(* only one that could not be renamed to .work can be met again            *)
(* (priv_service.main: "drop them rather than repeat it").                 *)
AtMostOnce == \A r \in Requests : performed[r] <= 1 \/ r \in unclaimed

(* The state of a message that the service reports is the state ofono gave *)
(* it, though signals may be missing and the message may be gone from      *)
(* ofono's list before it is looked at (sms_sender._StateWatcher.wait).    *)
ReportIsTrue == report \in Final => sms = report

(* The spool behaves as PrivSpoolOnce says. *)
FateOf(r) ==
    IF performed[r] > 0 THEN "served"
    ELSE IF file[r] \in {"json", "work"} THEN "queued"
    ELSE IF thread[r] \in {"refused", "dead"} THEN "refused"
    ELSE IF file[r] = "gone" THEN "dropped"
    ELSE "new"
Once == INSTANCE PrivSpoolOnce WITH
    fate <- [r \in Requests |-> FateOf(r)], times <- performed, doubt <- unclaimed
ImplementsOnce == Once!Spec
=============================================================================
