------------------------------ MODULE GpsCommand ------------------------------
(***************************************************************************)
(* The commands of the command daemon that reach for root: GPS, which may  *)
(* switch the location on and answers by SMS, DELETE, which reboots        *)
(* (daemon_cmd.CommandExecutor), and the app's wish to switch the location *)
(* on, composed with the privileged spool (module PrivSpool) that carries  *)
(* all three out.                                                          *)
(*                                                                         *)
(* Whether a command is accepted is module RemoteAuth, the daemon's phases *)
(* and acknowledgements are module CmdDaemon, publishing the position is   *)
(* module Location.                                                        *)
(***************************************************************************)
EXTENDS PrivSpool, Sequences

CONSTANTS
    Cmds,         \* the commands that are accepted
    Wipes,        \* those that say DELETE; the others say GPS, by SMS
    MaxSwitches,  \* bound: times the user operates a switch
    AutoLocation  \* AUTO_ENABLE_LOCATION

LocationOf(c) == <<"location", c>>
ReplyTo(c) == <<"sendsms", c>>
RebootFor(c) == <<"reboot", c>>
Wish == <<"location", None>>     \* the app's wish to switch the location on

ASSUME CmdAssumption == Wipes \subseteq Cmds /\ None \notin Cmds
ASSUME UseAssumption ==
    /\ Messages = {ReplyTo(c) : c \in Cmds \ Wipes}
    /\ Reboots = {RebootFor(c) : c \in Wipes}
    /\ Switches = {LocationOf(c) : c \in Cmds \ Wipes} \cup {Wish}
ASSUME SwitchAssumption == MaxSwitches \in Nat /\ AutoLocation \in BOOLEAN

VARIABLES
    status,       \* of each command
    queue,        \* of the worker
    pc, job,      \* where the worker is, and with which command
    wishPc,       \* where the main loop is with the app's wish
    switches      \* how often the user operated a switch

workerVars == <<status, queue, pc, job>>
cmdVars == <<workerVars, wishPc, switches>>
vars == <<spoolVars, cmdVars>>

TypeOK ==
    /\ SpoolTypeOK
    /\ status \in [Cmds -> {"unsent", "queued", "running", "done", "lost"}]
    /\ queue \in Seq(Cmds)
    /\ pc \in {"free", "check", "switch", "spool", "fix", "last", "answer", "wipe", "reboot"}
    /\ job \in Cmds \cup {None}
    /\ wishPc \in {"pending", "spool", "done"}
    /\ switches \in 0 .. MaxSwitches

Init ==
    /\ SpoolInit
    /\ status = [c \in Cmds |-> "unsent"]
    /\ queue = <<>> /\ pc = "free" /\ job = None
    /\ wishPc = "pending"
    /\ switches = 0

-----------------------------------------------------------------------------
(* The main loop: commands that were accepted, and the app's wish. *)

Submit(c) ==
    /\ status[c] = "unsent"
    /\ status' = [status EXCEPT ![c] = "queued"]
    /\ queue' = Append(queue, c)
    /\ UNCHANGED <<spoolVars, pc, job, wishPc, switches>>

(* set_location_enabled, not as root: it can write the file that Settings   *)
(* left in the user's hands, if any ...                                     *)
DirectWrite == \/ conf' = [conf EXCEPT !["var"] = "on"]
               \/ UNCHANGED conf
spoolButConf == <<clientVars, file, serviceVars, smsVars, historyVars, rebooting, faults>>

(* enable_location_now has left a wish, and _process_location_requests finds *)
(* it; a wish older than five minutes is dropped. *)
ConsumeWish ==
    /\ wishPc = "pending"
    /\ \/ DirectWrite /\ wishPc' = "spool"
       \/ UNCHANGED conf /\ wishPc' = "done"
    /\ UNCHANGED <<spoolButConf, workerVars, switches>>

(* ... and a request for the rest.  queue(): the temporary file, then its   *)
(* final name, or an exception.                                             *)
QueueStep(r) == Mkstemp(r) \/ Rename(r) \/ QueueFails(r)
QueueDone(r) == thread'[r] \in {"queued", "refused"}

SpoolWish ==
    /\ wishPc = "spool"
    /\ QueueStep(Wish)
    /\ wishPc' = IF QueueDone(Wish) THEN "done" ELSE "spool"
    /\ UNCHANGED <<workerVars, switches>>

-----------------------------------------------------------------------------
(* The worker. *)

Goto(place) == pc' = place
Ends == status' = [status EXCEPT ![job] = "done"] /\ job' = None /\ Goto("free")

(* A command whose feature is switched off by now is disabled. *)
Take ==
    /\ pc = "free" /\ queue # <<>>
    /\ queue' = Tail(queue)
    /\ \/ /\ job' = Head(queue)
          /\ status' = [status EXCEPT ![Head(queue)] = "running"]
          /\ Goto(IF Head(queue) \in Wipes THEN "wipe" ELSE "check")
       \/ /\ status' = [status EXCEPT ![Head(queue)] = "done"]
          /\ UNCHANGED <<job, pc>>
    /\ UNCHANGED <<spoolVars, wishPc, switches>>

(* is_enabled, gps_mode_enabled, needs_enable. *)
Enabled == \E f \in Confs : conf[f] \in {"on", "nogps"}
GpsMode == Enabled => \E f \in Confs : conf[f] = "on"
NeedsEnable == ~Enabled \/ ~GpsMode

(* At home the position is known; else it depends on the location switch. *)
Check ==
    /\ pc = "check"
    /\ \/ Goto("answer")
       \/ Goto(IF NeedsEnable /\ AutoLocation THEN "switch"
               ELSE IF Enabled THEN "fix" ELSE "last")
    /\ UNCHANGED <<spoolVars, status, queue, job, wishPc, switches>>

Switch ==
    /\ pc = "switch"
    /\ DirectWrite
    /\ Goto("spool")
    /\ UNCHANGED <<spoolButConf, status, queue, job, wishPc, switches>>

(* Then wait_until_enabled, three seconds at most: its answer is logged. *)
SpoolSwitch ==
    /\ pc = "spool"
    /\ QueueStep(LocationOf(job))
    /\ Goto(IF QueueDone(LocationOf(job)) THEN "fix" ELSE "spool")
    /\ UNCHANGED <<status, queue, job, wishPc, switches>>

(* gps_reader.get_fix: a position needs a provider that is reached, which   *)
(* takes the location services; its signals and the polls of 90 s may bring *)
(* none at that, and an exception or the time limit gives a failed result.  *)
GetFix(success) == success => Enabled

Fix ==
    /\ pc = "fix"
    /\ \E success \in BOOLEAN : GetFix(success) /\ Goto(IF success THEN "answer" ELSE "last")
    /\ UNCHANGED <<spoolVars, status, queue, job, wishPc, switches>>

(* The last position of the database, or none: then there is no reply. *)
Last ==
    /\ pc = "last"
    /\ \/ Goto("answer") /\ UNCHANGED <<status, job>>
       \/ Ends
    /\ UNCHANGED <<spoolVars, queue, wishPc, switches>>

(* Mutant: a reply that could not be queued is tried until it can. *)
ReplyRetried ==
    /\ pc = "answer"
    /\ QueueStep(ReplyTo(job))
    /\ IF thread'[ReplyTo(job)] = "queued" THEN Ends ELSE UNCHANGED <<status, job, pc>>
    /\ UNCHANGED <<queue, wishPc, switches>>

(* _reply_gps_sms; the owner is told whether the reply could be queued. *)
Reply ==
    /\ pc = "answer"
    /\ QueueStep(ReplyTo(job))
    /\ IF QueueDone(ReplyTo(job)) THEN Ends ELSE UNCHANGED <<status, job, pc>>
    /\ UNCHANGED <<queue, wishPc, switches>>

(* _do_delete: everything under the home directory, the database with it,   *)
(* unless that is not where it should be.                                   *)
Wipe ==
    /\ pc = "wipe"
    /\ \/ Goto("reboot") /\ UNCHANGED <<status, job>>
       \/ Ends
    /\ UNCHANGED <<spoolVars, queue, wishPc, switches>>

AskReboot ==
    /\ pc = "reboot"
    /\ QueueStep(RebootFor(job))
    /\ IF QueueDone(RebootFor(job)) THEN Ends ELSE UNCHANGED <<status, job, pc>>
    /\ UNCHANGED <<queue, wishPc, switches>>

-----------------------------------------------------------------------------
(* The device and its user. *)

(* The daemon's threads and its queue are gone; systemd starts it again. *)
DaemonGone ==
    /\ status' = [c \in Cmds |-> IF status[c] \in {"queued", "running"} THEN "lost" ELSE status[c]]
    /\ queue' = <<>> /\ pc' = "free" /\ job' = None
    /\ wishPc' = IF wishPc = "spool" THEN "done" ELSE wishPc
    /\ UNCHANGED switches

DaemonDies == ClientsDie(Writing) /\ DaemonGone

DeviceRestarts == Restart /\ DaemonGone

(* Where the worker looks at the switch next. *)
UserSwitches ==
    /\ pc \in {"check", "fix"}
    /\ switches < MaxSwitches /\ switches' = switches + 1
    /\ \E v \in {"off", "nogps"} \ {conf["var"]} : conf' = [conf EXCEPT !["var"] = v]
    /\ UNCHANGED <<spoolButConf, workerVars, wishPc>>

WorkerStep ==
    \/ Take \/ Check \/ Switch \/ SpoolSwitch \/ Fix \/ Last \/ Reply \/ Wipe \/ AskReboot
LoopStep == ConsumeWish \/ SpoolWish

(* What the service and ofono do. *)
Serve == (Trigger \/ StartLimitHit \/ ServiceStep) /\ UNCHANGED cmdVars
Outside == (IntervalPasses \/ OfonoStep \/ Kill) /\ UNCHANGED cmdVars

Next ==
    \/ \E c \in Cmds : Submit(c)
    \/ LoopStep \/ WorkerStep \/ Serve \/ Outside
    \/ UserSwitches \/ DaemonDies \/ DeviceRestarts

Spec == Init /\ [][Next]_vars

(* The daemon's threads go on, the service too and the path unit as long as *)
(* it is active, and a device that was told to reboot does.                 *)
FairSpec ==
    /\ Spec
    /\ WF_vars(LoopStep) /\ WF_vars(WorkerStep) /\ WF_vars(Serve)
    /\ WF_vars(rebooting /\ DeviceRestarts)

-----------------------------------------------------------------------------
(* Properties. *)

(* Every accepted command comes to its end: the worker finishes it or the   *)
(* daemon dies with it, and what it put into the spool is taken out, be it  *)
(* by the service or by a reboot, unless systemd's start limit has failed   *)
(* the path unit (daemon_cmd._do_gps, _do_delete): the files then stay      *)
(* until the device boots.                                                  *)
TakenOut(r) == file[r] \in {"none", "gone", "tmp"}
CommandEnds ==
    \A c \in Cmds :
        status[c] = "queued" ~>
            /\ status[c] \in {"done", "lost"}
            /\ \/ \A r \in {LocationOf(c), ReplyTo(c), RebootFor(c)} \cap Requests : TakenOut(r)
               \/ ~watching

(* "a systemd SYSTEM service (running as root) is started by a .path unit   *)
(* whenever the spool is non-empty" (docs/TECHNICAL-INFOS.md): so a queued  *)
(* request is taken up, at the least when no client writes a file during a  *)
(* run of the service.  It does not hold: a temporary file that a killed    *)
(* daemon left restarts the service until the start limit is hit, and then  *)
(* nobody takes up anything.                                                *)
QueuedIsTakenUp ==
    [](run # "off" => Writing = {}) => \A r \in Requests : file[r] = "json" ~> file[r] # "json"

(* The service comes to rest over an empty spool, unless a client left the  *)
(* temporary file of a failed or interrupted queue(), or the start limit    *)
(* has failed the path unit (priv_client.queue, priv_service.main).         *)
Leftover == \E r \in Requests : file[r] = "tmp" /\ thread[r] \in {"refused", "dead"}
SpoolComesToRest == <>[](Leftover \/ (run = "off" /\ (watching => ~NotEmpty)))
=============================================================================
