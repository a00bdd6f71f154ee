------------------------------ MODULE CmdDaemon -----------------------------
(***************************************************************************)
(* The life of the command daemon, daemon-rpm/src/daemon_cmd.py: the main  *)
(* loop and its active phases, the command worker of each phase, the       *)
(* commands that arrive by MQTT and SMS, the acknowledgements, and the     *)
(* photos that wait for their upload.                                      *)
(*                                                                         *)
(* A phase has an executor, a worker thread with a queue and an MQTT       *)
(* client of its own.  A settings save ends the phase: the worker gets a   *)
(* sentinel and five seconds, after which it is abandoned and goes on in   *)
(* the background while the next phase begins.  Of the MQTT client (module *)
(* MqttClient) only the time it is subscribed is kept, and whether the     *)
(* executor holds it.  What a command does is reduced to its result, a     *)
(* CAMERA command's photo aside.                                           *)
(***************************************************************************)
EXTENDS Naturals, Sequences

CONSTANTS
    Cmds,         \* the commands that arrive
    Cameras,      \* those that take a photo
    MaxPhases,    \* bound: active phases
    MaxFaults,    \* bound: failed uploads, network losses, crashes
    AutoData,     \* AUTO_ENABLE_MOBILE_DATA
    None          \* no command

ASSUME CommandAssumption == Cameras \subseteq Cmds /\ None \notin Cmds
ASSUME BoundAssumption == MaxPhases \in Nat /\ MaxFaults \in Nat
ASSUME AutoAssumption == AutoData \in BOOLEAN

VARIABLES
    (* the main thread and what it looks at *)
    pc, phase,
    active,       \* is a feature switched on?
    stale,        \* were the settings saved since the phase was built?
    stopping,     \* SIGTERM
    online,       \* is there a network?
    faults,
    webdav,       \* are WEBDAV_URL and WEBDAV_USERNAME set?
    (* of each phase *)
    bound,        \* does the executor hold its MQTT client?
    queue,        \* of the worker
    worker, job,  \* where the worker is, and with which command
    files,        \* pending photos the retry job still has to upload
    retry,        \* upload_retry_at: due or later
    queued,       \* upload_job_queued
    offline,      \* state["upload_offline"]
    abandoned,    \* history: the phases whose worker was abandoned
    (* the world *)
    status,       \* of a command
    photo,        \* of a CAMERA command
    acked,        \* commands whose ack was given to the MQTT client
    arrival       \* history: accepted commands in order of arrival

mainVars == <<pc, phase, active, stale, stopping>>
envVars == <<online, faults, webdav>>
workerVars == <<worker, job, files>>
execVars == <<retry, queued, offline>>
leaveVars == <<bound, abandoned>>
cmdVars == <<status, photo, acked, arrival>>
vars == <<mainVars, envVars, workerVars, execVars, leaveVars, queue, cmdVars>>

Phases == 1 .. MaxPhases

Job(kind, c) == [kind |-> kind, cmd |-> c]
Jobs == [kind : {"execute", "ack", "uploads", "stop"}, cmd : Cmds \cup {None}]

Arrivals == [cmd : Cmds, phase : Phases, when : {"early", "timely", "late"}]

Places == {"idle", "connect", "bind", "serve", "sentinel", "join", "unbind", "close", "exited"}
WorkerPlaces == {"none", "free", "execute", "upload", "ack", "send", "list", "each", "exited"}

TypeOK ==
    /\ pc \in Places
    /\ phase \in 0..MaxPhases
    /\ active \in BOOLEAN
    /\ stale \in BOOLEAN
    /\ stopping \in BOOLEAN
    /\ online \in BOOLEAN
    /\ faults \in 0..MaxFaults
    /\ webdav \in BOOLEAN
    /\ bound \in [Phases -> BOOLEAN]
    /\ queue \in [Phases -> Seq(Jobs)]
    /\ worker \in [Phases -> WorkerPlaces]
    /\ job \in [Phases -> Cmds \cup {None}]
    /\ files \in [Phases -> SUBSET Cameras]
    /\ retry \in [Phases -> {"due", "later"}]
    /\ queued \in [Phases -> BOOLEAN]
    /\ offline \in [Phases -> BOOLEAN]
    /\ status \in [Cmds -> {"unsent", "refused", "accepted", "running", "executed", "lost"}]
    /\ photo \in [Cameras -> {"none", "taken", "pending", "uploaded"}]
    /\ abandoned \subseteq Phases
    /\ acked \subseteq Cmds
    /\ arrival \in Seq(Arrivals)

Init ==
    /\ pc = "idle" /\ phase = 0 /\ active = TRUE /\ stale = FALSE /\ stopping = FALSE
    /\ online = TRUE /\ faults = 0 /\ webdav = TRUE
    /\ bound = [w \in Phases |-> FALSE]
    /\ queue = [w \in Phases |-> <<>>]
    /\ worker = [w \in Phases |-> "none"]
    /\ job = [w \in Phases |-> None]
    /\ files = [w \in Phases |-> {}]
    /\ retry = [w \in Phases |-> "due"]
    /\ queued = [w \in Phases |-> FALSE]
    /\ offline = [w \in Phases |-> FALSE]
    /\ status = [c \in Cmds |-> "unsent"]
    /\ photo = [c \in Cameras |-> "none"]
    /\ abandoned = {}
    /\ acked = {}
    /\ arrival = <<>>

Put(w, j) == queue' = [queue EXCEPT ![w] = Append(@, j)]
PendingUploads == {c \in Cameras : photo[c] = "pending"}
Fault == faults < MaxFaults /\ faults' = faults + 1

-----------------------------------------------------------------------------
(* The main thread: phases. *)

(* A new executor and a worker with an empty queue; the settings are read   *)
(* now.                                                                     *)
Begin ==
    /\ pc = "idle" /\ ~stopping /\ active
    /\ phase < MaxPhases
    /\ phase' = phase + 1
    /\ worker' = [worker EXCEPT ![phase + 1] = "free"]
    /\ stale' = FALSE
    /\ pc' = "connect"
    /\ UNCHANGED <<active, stopping, envVars, job, files, execVars, leaveVars, queue, cmdVars>>

(* connect and subscribe: commands can arrive from here on. *)
Connect ==
    /\ pc = "connect"
    /\ pc' = "bind"
    /\ UNCHANGED <<phase, active, stale, stopping, envVars, workerVars, execVars, leaveVars, queue, cmdVars>>

(* executor.set_mqtt; then the SMS listener and the main loop start. *)
Bind ==
    /\ pc = "bind"
    /\ bound' = [bound EXCEPT ![phase] = TRUE]
    /\ pc' = "serve"
    /\ UNCHANGED <<phase, active, stale, stopping, envVars, workerVars, execVars, abandoned, queue, cmdVars>>

(* Mutant: the flag is set before the network and the clock are looked at. *)
CheckUploadsFlagged ==
    IF queued[phase] \/ PendingUploads = {}
    THEN UNCHANGED <<offline, retry, queued, queue>>
    ELSE LET back == online /\ offline[phase]
             due == (online \/ AutoData) /\ (back \/ retry[phase] = "due")
         IN /\ offline' = [offline EXCEPT ![phase] = ~online]
            /\ retry' = [retry EXCEPT ![phase] = IF back THEN "due" ELSE @]
            /\ queued' = [queued EXCEPT ![phase] = TRUE]
            /\ IF due THEN Put(phase, Job("uploads", None)) ELSE UNCHANGED queue

(* Photos whose upload is due, unless a job is under way. *)
CheckUploads ==
    IF queued[phase] \/ PendingUploads = {}
    THEN UNCHANGED <<offline, retry, queued, queue>>
    ELSE LET back == online /\ offline[phase]
             due == (online \/ AutoData) /\ (back \/ retry[phase] = "due")
         IN /\ offline' = [offline EXCEPT ![phase] = ~online]
            /\ retry' = [retry EXCEPT ![phase] = IF back THEN "due" ELSE @]
            /\ queued' = [queued EXCEPT ![phase] = due]
            /\ IF due THEN Put(phase, Job("uploads", None)) ELSE UNCHANGED queue

(* Every five seconds: on with the phase, or out of the main loop. *)
Watchdog ==
    /\ pc = "serve"
    /\ IF stopping
       THEN /\ pc' = "sentinel"
            /\ UNCHANGED <<execVars, queue>>
       ELSE /\ CheckUploads
            /\ pc' = IF stale \/ ~active THEN "sentinel" ELSE "serve"
    /\ UNCHANGED <<phase, active, stale, stopping, envVars, workerVars, leaveVars, cmdVars>>

(* Mutant: the sentinel overtakes the jobs that wait. *)
StopNow ==
    /\ pc = "sentinel"
    /\ queue' = [queue EXCEPT ![phase] = <<Job("stop", None)>> \o @]
    /\ pc' = "join"
    /\ UNCHANGED <<phase, active, stale, stopping, envVars, workerVars, execVars, leaveVars, cmdVars>>

(* Mutant: the executor loses its client before the worker is stopped. *)
StopUnbound ==
    /\ pc = "sentinel"
    /\ Put(phase, Job("stop", None))
    /\ bound' = [bound EXCEPT ![phase] = FALSE]
    /\ pc' = "join"
    /\ UNCHANGED <<phase, active, stale, stopping, envVars, workerVars, execVars, abandoned, cmdVars>>

(* worker.stop: the sentinel ... *)
Stop ==
    /\ pc = "sentinel"
    /\ Put(phase, Job("stop", None))
    /\ pc' = "join"
    /\ UNCHANGED <<phase, active, stale, stopping, envVars, workerVars, execVars, leaveVars, cmdVars>>

(* ... and the wait, which may run out with the worker still busy. *)
Join ==
    /\ pc = "join"
    /\ abandoned' = IF worker[phase] = "exited" THEN abandoned ELSE abandoned \cup {phase}
    /\ pc' = "unbind"
    /\ UNCHANGED <<phase, active, stale, stopping, envVars, workerVars, execVars, bound, queue, cmdVars>>

Unbind ==
    /\ pc = "unbind"
    /\ bound' = [bound EXCEPT ![phase] = FALSE]
    /\ pc' = "close"
    /\ UNCHANGED <<phase, active, stale, stopping, envVars, workerVars, execVars, abandoned, queue, cmdVars>>

Close ==
    /\ pc = "close"
    /\ pc' = "idle"
    /\ UNCHANGED <<phase, active, stale, stopping, envVars, workerVars, execVars, leaveVars, queue, cmdVars>>

(* The process ends, with every thread that is left: the commands it had    *)
(* accepted are lost, the photos remain.                                    *)
ProcessEnds ==
    /\ pc' = "exited"
    /\ bound' = [w \in Phases |-> FALSE]
    /\ worker' = [w \in Phases |-> "none"]
    /\ job' = [w \in Phases |-> None]
    /\ files' = [w \in Phases |-> {}]
    /\ queue' = [w \in Phases |-> <<>>]
    /\ retry' = [w \in Phases |-> "due"]
    /\ queued' = [w \in Phases |-> FALSE]
    /\ offline' = [w \in Phases |-> FALSE]
    /\ status' = [c \in Cmds |-> IF status[c] \in {"accepted", "running"} THEN "lost" ELSE status[c]]
    /\ UNCHANGED <<phase, active, stale, stopping, online, webdav, abandoned, photo, acked, arrival>>

Exit == pc = "idle" /\ stopping /\ ProcessEnds /\ UNCHANGED faults

Crash == pc # "exited" /\ phase < MaxPhases /\ Fault /\ ProcessEnds

(* systemd starts the daemon again: after a crash, or with the session. *)
Restart ==
    /\ pc = "exited"
    /\ pc' = "idle"
    /\ stopping' = FALSE
    /\ UNCHANGED <<phase, active, stale, envVars, workerVars, execVars, leaveVars, queue, cmdVars>>

-----------------------------------------------------------------------------
(* Commands arrive.                                                         *)

Connected == pc \in {"bind", "serve", "sentinel", "join", "unbind", "close"}

(* Before the executor has its client, in time, or behind the sentinel. *)
When == CASE pc = "bind" -> "early"
          [] pc \in {"serve", "sentinel"} -> "timely"
          [] OTHER -> "late"

Accept(c) ==
    /\ Put(phase, Job("execute", c))
    /\ status' = [status EXCEPT ![c] = "accepted"]
    /\ arrival' = Append(arrival, [cmd |-> c, phase |-> phase, when |-> When])

(* on_mqtt_command, on the network thread: the token decides. *)
OnMqttCommand(c) ==
    /\ Connected /\ online
    /\ status[c] = "unsent"
    /\ \/ Accept(c)
       \/ /\ Put(phase, Job("ack", None))
          /\ status' = [status EXCEPT ![c] = "refused"]
          /\ UNCHANGED arrival
    /\ UNCHANGED <<mainVars, envVars, workerVars, execVars, leaveVars, photo, acked>>

(* sms_authorize and sms_on_command, on the main loop. *)
OnSmsCommand(c) ==
    /\ pc = "serve"
    /\ status[c] = "unsent"
    /\ \/ Accept(c)
       \/ /\ status' = [status EXCEPT ![c] = "refused"]
          /\ UNCHANGED <<queue, arrival>>
    /\ UNCHANGED <<mainVars, envVars, workerVars, execVars, leaveVars, photo, acked>>

-----------------------------------------------------------------------------
(* The worker of phase w.                                                   *)

GoTo(w, place) == worker' = [worker EXCEPT ![w] = place]

Take(w) ==
    /\ worker[w] = "free"
    /\ queue[w] # <<>>
    /\ LET j == Head(queue[w]) IN
         /\ GoTo(w, CASE j.kind = "stop" -> "exited"
                      [] j.kind = "execute" -> "execute"
                      [] j.kind = "ack" -> "ack"
                      [] j.kind = "uploads" -> "list")
         /\ job' = [job EXCEPT ![w] = j.cmd]
         /\ status' = IF j.kind = "execute" THEN [status EXCEPT ![j.cmd] = "running"] ELSE status
    /\ queue' = [queue EXCEPT ![w] = Tail(@)]
    /\ UNCHANGED <<mainVars, envVars, files, execVars, leaveVars, photo, acked, arrival>>

(* execute returns: ok, disabled or error, and the ack is next. *)
Executed(w) ==
    /\ status' = [status EXCEPT ![job[w]] = "executed"]
    /\ GoTo(w, "ack")

(* Any command may end here: done, disabled, or failed. *)
Execute(w) ==
    /\ worker[w] = "execute"
    /\ Executed(w)
    /\ UNCHANGED <<mainVars, envVars, job, files, execVars, leaveVars, queue, photo, acked, arrival>>

(* _do_camera: with WebDAV set up the photo is taken, ... *)
Capture(w) ==
    /\ worker[w] = "execute"
    /\ job[w] \in Cameras /\ webdav
    /\ photo' = [photo EXCEPT ![job[w]] = "taken"]
    /\ GoTo(w, "upload")
    /\ UNCHANGED <<mainVars, envVars, job, files, execVars, leaveVars, queue, status, acked, arrival>>

(* An upload succeeds with a network, the one mobile data brings included,  *)
(* unless the server fails.                                                 *)
CanUpload == online \/ AutoData
UploadFails == (~online /\ UNCHANGED faults) \/ Fault

(* ... uploaded, or parked for a retry; not even that when the rename       *)
(* fails.                                                                   *)
Upload(w) ==
    /\ worker[w] = "upload"
    /\ \/ /\ CanUpload
          /\ photo' = [photo EXCEPT ![job[w]] = "uploaded"]
          /\ UNCHANGED <<retry, faults>>
       \/ /\ UploadFails
          /\ photo' = [photo EXCEPT ![job[w]] = "pending"]
          /\ retry' = [retry EXCEPT ![w] = "later"]
       \/ Fault /\ UNCHANGED <<photo, retry>>
    /\ Executed(w)
    /\ UNCHANGED <<mainVars, online, webdav, job, files, queued, offline, leaveVars, queue, acked, arrival>>

(* publish_ack looks for the client, ... *)
Ack(w) ==
    /\ worker[w] = "ack"
    /\ GoTo(w, IF bound[w] THEN "send" ELSE "free")
    /\ job' = [job EXCEPT ![w] = IF bound[w] THEN @ ELSE None]
    /\ UNCHANGED <<mainVars, envVars, files, execVars, leaveVars, queue, cmdVars>>

(* ... asks for the network, and uses the client.  set_mqtt may have taken  *)
(* it away in between, before or after it was read for the call.            *)
SendAck(w) ==
    /\ worker[w] = "send"
    /\ \/ /\ bound[w] \/ (w = phase /\ pc = "close")
          /\ acked' = acked \cup ({job[w]} \ {None})
       \/ ~bound[w] /\ UNCHANGED acked
    /\ GoTo(w, "free")
    /\ job' = [job EXCEPT ![w] = None]
    /\ UNCHANGED <<mainVars, envVars, files, execVars, leaveVars, queue, status, photo, arrival>>

(* retry_uploads ends, however it does: the flag is cleared. *)
RetryEnds(w) ==
    /\ queued' = [queued EXCEPT ![w] = FALSE]
    /\ files' = [files EXCEPT ![w] = {}]
    /\ GoTo(w, "free")

(* The retry job lists the pending photos and reads the WebDAV settings: a  *)
(* save may have unset them, and then it is put off like after a failure.   *)
ListUploads(w) ==
    /\ worker[w] = "list"
    /\ IF webdav \/ PendingUploads = {}
       THEN /\ files' = [files EXCEPT ![w] = PendingUploads]
            /\ GoTo(w, "each")
            /\ UNCHANGED <<retry, queued>>
       ELSE retry' = [retry EXCEPT ![w] = "later"] /\ RetryEnds(w)
    /\ UNCHANGED <<mainVars, envVars, job, offline, leaveVars, queue, cmdVars>>

(* Then it uploads one after the other and stops at the first failure; a    *)
(* photo that a previous phase's worker has dealt with is an exception.     *)
UploadPending(w) ==
    /\ worker[w] = "each"
    /\ files[w] # {}
    /\ \E f \in files[w] :
         \/ /\ photo[f] # "pending"
            /\ RetryEnds(w)
            /\ UNCHANGED <<photo, retry, faults>>
         \/ /\ photo[f] = "pending" /\ CanUpload
            /\ photo' = [photo EXCEPT ![f] = "uploaded"]
            /\ files' = [files EXCEPT ![w] = @ \ {f}]
            /\ UNCHANGED <<worker, queued, retry, faults>>
         \/ /\ photo[f] = "pending"
            /\ UploadFails
            /\ retry' = [retry EXCEPT ![w] = "later"]
            /\ RetryEnds(w)
            /\ UNCHANGED photo
    /\ UNCHANGED <<mainVars, online, webdav, job, offline, leaveVars, queue, status, acked, arrival>>

UploadsDone(w) ==
    /\ worker[w] = "each"
    /\ files[w] = {}
    /\ RetryEnds(w)
    /\ UNCHANGED <<mainVars, envVars, job, retry, offline, leaveVars, queue, cmdVars>>

WorkerStep(w) ==
    \/ Take(w) \/ Execute(w) \/ Capture(w) \/ Upload(w) \/ Ack(w)
    \/ SendAck(w) \/ ListUploads(w) \/ UploadPending(w) \/ UploadsDone(w)

-----------------------------------------------------------------------------
(* The world: a settings save, SIGTERM, the network, the retry clock.       *)

(* Saves and signals stop while a phase is left, so that the last one can   *)
(* show what it comes to.                                                   *)
Save ==
    /\ phase < MaxPhases
    /\ stale' = TRUE
    /\ active' \in BOOLEAN /\ webdav' \in BOOLEAN
    /\ UNCHANGED <<pc, phase, stopping, online, faults, workerVars, execVars, leaveVars, queue, cmdVars>>

Terminate ==
    /\ phase < MaxPhases
    /\ pc \notin {"idle", "exited"}
    /\ stopping' = TRUE
    /\ UNCHANGED <<pc, phase, active, stale, envVars, workerVars, execVars, leaveVars, queue, cmdVars>>

NetworkLost ==
    /\ online /\ Fault
    /\ online' = FALSE
    /\ UNCHANGED <<mainVars, webdav, workerVars, execVars, leaveVars, queue, cmdVars>>

NetworkBack ==
    /\ ~online
    /\ online' = TRUE
    /\ UNCHANGED <<mainVars, faults, webdav, workerVars, execVars, leaveVars, queue, cmdVars>>

RetryDue(w) ==
    /\ retry[w] = "later"
    /\ retry' = [retry EXCEPT ![w] = "due"]
    /\ UNCHANGED <<mainVars, envVars, workerVars, queued, offline, leaveVars, queue, cmdVars>>

Teardown == Stop \/ Join \/ Unbind \/ Close

Next ==
    \/ Begin \/ Connect \/ Bind \/ Watchdog \/ Teardown \/ Exit \/ Crash \/ Restart
    \/ Save \/ Terminate \/ NetworkLost \/ NetworkBack
    \/ \E c \in Cmds : OnMqttCommand(c) \/ OnSmsCommand(c)
    \/ \E w \in Phases : WorkerStep(w) \/ RetryDue(w)

Spec == Init /\ [][Next]_vars

(* The threads run, the watchdog's timer fires, systemd restarts the        *)
(* daemon, time passes and the network comes back.                          *)
Fairness ==
    /\ WF_vars(Begin) /\ WF_vars(Connect) /\ WF_vars(Bind)
    /\ WF_vars(Watchdog) /\ WF_vars(Teardown) /\ WF_vars(Exit) /\ WF_vars(Restart)
    /\ WF_vars(NetworkBack)
    /\ \A w \in Phases : WF_vars(WorkerStep(w)) /\ WF_vars(RetryDue(w))

FairSpec == Spec /\ Fairness

-----------------------------------------------------------------------------
(* A command accepted before its worker got the sentinel is executed, even  *)
(* by an abandoned worker, unless the process ends first.                   *)
Promised(c) ==
    /\ status[c] = "accepted"
    /\ \E i \in DOMAIN arrival : arrival[i].cmd = c /\ arrival[i].when # "late"
AcceptedIsExecuted ==
    \A c \in Cmds : Promised(c) ~> status[c] \in {"executed", "lost"}

(* The worker is stopped before the client goes: a worker that ends in its  *)
(* five seconds has published the acks of all commands it had accepted      *)
(* since the executor got the client.                                       *)
AcksGoOut ==
    \A i \in DOMAIN arrival :
        LET a == arrival[i] IN
            /\ a.when = "timely"
            /\ worker[a.phase] = "exited"
            /\ a.phase \notin abandoned
            => a.cmd \in acked

(* upload_job_queued and the queue agree: without the flag no retry job of  *)
(* the phase waits or runs, and with it there is one at most.  A second one *)
(* would run at once after a failure, whatever upload_retry_at says.        *)
IsUploads(w, i) == queue[w][i].kind = "uploads"
Retrying(w) == worker[w] \in {"list", "each"}
OneUploadJob ==
    \A w \in Phases :
        /\ \A i \in DOMAIN queue[w] : IsUploads(w, i) => queued[w] /\ ~Retrying(w)
        /\ Retrying(w) => queued[w]
        /\ \A i, j \in DOMAIN queue[w] : IsUploads(w, i) /\ IsUploads(w, j) => i = j

(* A photo whose upload failed is uploaded in the end, whatever is          *)
(* restarted or abandoned in between, once a feature is and stays switched  *)
(* on and WebDAV set up: a save that switches all of them off ends the      *)
(* daemon's phases, and one that unsets WEBDAV_URL or WEBDAV_USERNAME makes *)
(* the retry job put it off again (_retry_uploads, check_uploads).          *)
PhotosGetUploaded ==
    \A c \in Cameras : photo[c] = "pending" ~> photo[c] = "uploaded" \/ ~active \/ ~webdav
=============================================================================
