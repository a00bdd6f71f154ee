------------------------------ MODULE Location ------------------------------
(***************************************************************************)
(* The position of the own device: how it is taken, stored and published.  *)
(* Three processes take part, each in its own way:                         *)
(*                                                                         *)
(*   the app (qml/utilities/api.py, _do_refresh_location): asks the QML    *)
(*   PositionSource over a pair of one-way calls, publishes with its       *)
(*   standing MQTT client and keeps the position for the next connection   *)
(*   when that fails; it may hand it to the command daemon as well;        *)
(*   the GPS daemon (daemon_gps.py, tick): a client per cycle, and one     *)
(*   position kept for the next cycle;                                     *)
(*   the command daemon (daemon_cmd.py, _process_publish_requests and      *)
(*   _publish_latest_own_fix): publishes what is stored when it is asked.  *)
(*                                                                         *)
(* Positions are numbered in the order in which they are obtained, that is *)
(* accepted by GpsSource.qml or gps_reader (it may be a position from two  *)
(* minutes before); 0 is none.  They meet in one row of the database       *)
(* (gpsstore.store_fix) and in one retained message of the broker.  Left   *)
(* to the environment: whether the receiver gives a position, and the      *)
(* settings, which have publishing switched on.  The GPS command's own     *)
(* publishing is not part of it, nor the mobile data lock, which keeps the *)
(* daemons from publishing at the same time.                               *)
(***************************************************************************)
EXTENDS Naturals, Sequences

CONSTANTS
    Threads,        \* threads of the app that refresh the position
    MaxFixes,       \* bound: positions in one behaviour
    MaxRequests,    \* bound: requests to the PositionSource in one run of the app
    MaxFaults,      \* bound: network losses, restarts of the app's client, and
                    \* publishes that fail although there is a network
    MaxDeaths       \* bound: deaths of one of the three processes

ASSUME BoundsAssumption ==
    /\ MaxFixes \in Nat /\ MaxRequests \in Nat
    /\ MaxFaults \in Nat /\ MaxDeaths \in Nat

VARIABLES
    fixes,                  \* positions obtained so far
    row, retained,          \* the stored position; the broker's
    net, faults, deaths,    \* the network: "none", "mobile" (data off) or "up"
    gps, gpsFix, gpsPending,    \* GpsDaemon: where it is, its position, _pending
    loop, jobs, worker, jobFix, \* cmd daemon: main loop, queued publish jobs, worker
    request,                \* the app's wish in the database: "none", "fresh", "stale"
    lock, pc, fix, mine,    \* _fix_lock; per thread: where, its position, its seq
    seq, result, event,     \* _qml_fix_state, _qml_fix_event
    asked, qmlSeq, fixing, answers,  \* signals to QML, GpsSource, calls back
    connected, onConnected, \* the app's client; its on_connected is due
    pending, outgoing,      \* _pending_location; flushed, not yet at the broker
    gpsTaken, gpsOwed,      \* history: the newest position this GPS daemon has taken;
                            \* the broker has not got it from it yet
    wanted,                 \* history: a wish no job has read a position for yet
    owed,                   \* history: the app's newest, not confirmed or handed over
    since                   \* history: positions obtained when the thread asked

worldVars == <<fixes, row, retained>>
netVars == <<net, faults, deaths>>
gpsVars == <<gps, gpsFix, gpsPending, gpsTaken, gpsOwed>>
cmdVars == <<loop, jobs, worker, jobFix>>
wishVars == <<request, wanted>>
threadVars == <<lock, pc, fix, mine, since>>
qmlVars == <<seq, result, event, asked, qmlSeq, fixing, answers>>
clientVars == <<connected, onConnected, pending, outgoing, owed>>
vars == <<worldVars, netVars, gpsVars, cmdVars, wishVars, threadVars, qmlVars, clientVars>>

None == 0
NoThread == "none"
MaybeFix == 0 .. MaxFixes
Answers == [seq : 1 .. MaxRequests, fix : MaybeFix]
NoAnswer == [seq |-> 0, fix |-> None]
Sending == {"publish", "again"}
InApp == lock # "closed"

ASSUME ThreadsAssumption == Threads \cap {"none", "closed"} = {}

WorldTypes == fixes \in MaybeFix /\ row \in MaybeFix /\ retained \in MaybeFix

NetTypes == net \in {"none", "mobile", "up"} /\ faults \in Nat /\ deaths \in Nat

GpsTypes ==
    /\ gps \in {"idle", "store", "publish", "again", "down"}
    /\ gpsFix \in MaybeFix /\ gpsPending \in MaybeFix
    /\ gpsTaken \in MaybeFix /\ gpsOwed \in BOOLEAN

CmdTypes ==
    /\ loop \in {"idle", "fresh", "stale", "down"} /\ jobs \in Nat
    /\ worker \in {"idle", "publish", "again"} /\ jobFix \in MaybeFix

WishTypes == request \in {"none", "fresh", "stale"} /\ wanted \in BOOLEAN

ThreadTypes ==
    /\ lock \in Threads \cup {NoThread, "closed"}
    /\ pc \in [Threads -> {"idle", "wait", "store", "publish", "again", "reconnect",
                           "sent", "unsent", "wish"}]
    /\ fix \in [Threads -> MaybeFix] /\ since \in [Threads -> MaybeFix]
    /\ mine \in [Threads -> 0 .. MaxRequests]

QmlTypes ==
    /\ seq \in 0 .. MaxRequests /\ result \in Answers \cup {NoAnswer} /\ event \in BOOLEAN
    /\ asked \in Seq(1 .. MaxRequests) /\ answers \in Seq(Answers)
    /\ qmlSeq \in 0 .. MaxRequests /\ fixing \in BOOLEAN /\ (fixing => qmlSeq > 0)

ClientTypes ==
    /\ connected \in BOOLEAN /\ onConnected \in BOOLEAN
    /\ pending \in MaybeFix /\ outgoing \in MaybeFix /\ owed \in MaybeFix

TypeOK ==
    /\ WorldTypes /\ NetTypes /\ GpsTypes /\ CmdTypes
    /\ WishTypes /\ ThreadTypes /\ QmlTypes /\ ClientTypes

Init ==
    /\ fixes = 0 /\ row = None /\ retained = None
    /\ net = "up" /\ faults = 0 /\ deaths = 0
    /\ gps = "idle" /\ gpsFix = None /\ gpsPending = None /\ gpsTaken = None /\ gpsOwed = FALSE
    /\ loop = "idle" /\ jobs = 0 /\ worker = "idle" /\ jobFix = None
    /\ request = "none" /\ wanted = FALSE
    /\ lock = NoThread
    /\ pc = [t \in Threads |-> "idle"] /\ fix = [t \in Threads |-> None]
    /\ mine = [t \in Threads |-> 0] /\ since = [t \in Threads |-> None]
    /\ seq = 0 /\ result = NoAnswer /\ event = FALSE
    /\ asked = <<>> /\ qmlSeq = 0 /\ fixing = FALSE /\ answers = <<>>
    /\ connected = FALSE /\ onConnected = FALSE
    /\ pending = None /\ outgoing = None /\ owed = None

(* A position is obtained. *)
Obtain ==
    /\ fixes < MaxFixes
    /\ fixes' = fixes + 1
    /\ UNCHANGED <<row, retained>>

(* gpsstore.store_fix: the new row replaces the one that is there, whatever *)
(* the time of either.                                                      *)
StoreFix(p) == row' = p /\ UNCHANGED <<fixes, retained>>

(* One attempt to publish p over a network that is there or not: confirmed, *)
(* or not; a publish without its PUBACK may have reached the broker.        *)
Confirmed(p, reachable) ==
    /\ reachable
    /\ retained' = p
    /\ UNCHANGED <<fixes, row, netVars>>

Unconfirmed(p, reachable) ==
    /\ IF reachable
       THEN /\ faults < MaxFaults /\ faults' = faults + 1
            /\ retained' \in {retained, p}
       ELSE UNCHANGED <<faults, retained>>
    /\ UNCHANGED <<fixes, row, net, deaths>>

DaemonOnline == net # "none"

-----------------------------------------------------------------------------
(* The GPS daemon.                                                          *)

(* tick: a fix, or the fixed coordinates of the configured WiFi.            *)
TickFix ==
    /\ gps = "idle"
    /\ Obtain
    /\ gps' = "store" /\ gpsFix' = fixes' /\ gpsTaken' = fixes' /\ gpsOwed' = TRUE
    /\ UNCHANGED <<netVars, gpsPending, cmdVars, wishVars, threadVars, qmlVars, clientVars>>

(* tick without a fix: a position of an earlier cycle is published.         *)
TickNoFix ==
    /\ gps = "idle" /\ gpsPending # None
    /\ gps' = "publish" /\ gpsFix' = gpsPending
    /\ UNCHANGED <<worldVars, netVars, gpsPending, gpsTaken, gpsOwed, cmdVars, wishVars, threadVars, qmlVars, clientVars>>

(* Mutant: tick forgets to drop the pending position for the newer one. *)
TickStoreKeeps ==
    /\ gps = "store"
    /\ StoreFix(gpsFix)
    /\ gps' = "publish"
    /\ UNCHANGED <<netVars, gpsFix, gpsPending, gpsTaken, gpsOwed, cmdVars, wishVars, threadVars, qmlVars, clientVars>>

(* The fix is stored, and replaces one that is still to be delivered.       *)
TickStore ==
    /\ gps = "store"
    /\ StoreFix(gpsFix)
    /\ gps' = "publish" /\ gpsPending' = None
    /\ UNCHANGED <<netVars, gpsFix, gpsTaken, gpsOwed, cmdVars, wishVars, threadVars, qmlVars, clientVars>>

(* The broker has it; if it was the one that was pending, nothing is now.   *)
TickDelivered ==
    /\ gps \in Sending
    /\ Confirmed(gpsFix, DaemonOnline)
    /\ gps' = "idle" /\ gpsFix' = None
    /\ gpsPending' = IF gpsPending = gpsFix THEN None ELSE gpsPending
    /\ gpsOwed' = (gpsOwed /\ retained' # gpsTaken)
    /\ UNCHANGED <<gpsTaken, cmdVars, wishVars, threadVars, qmlVars, clientVars>>

(* Mutant: _flush_pending clears _pending whether or not the publish worked. *)
TickUndeliveredDrops ==
    /\ gps \in Sending
    /\ Unconfirmed(gpsFix, DaemonOnline)
    /\ IF gps = "publish"
       THEN gps' = "again" /\ UNCHANGED <<gpsFix, gpsPending>>
       ELSE /\ gps' = "idle" /\ gpsFix' = None
            /\ gpsPending' = IF gpsPending = gpsFix THEN None ELSE gpsFix
    /\ gpsOwed' = (gpsOwed /\ retained' # gpsTaken)
    /\ UNCHANGED <<gpsTaken, cmdVars, wishVars, threadVars, qmlVars, clientVars>>

(* Connected anew and published once more, then kept for the next cycle.    *)
TickUndelivered ==
    /\ gps \in Sending
    /\ Unconfirmed(gpsFix, DaemonOnline)
    /\ IF gps = "publish"
       THEN gps' = "again" /\ UNCHANGED <<gpsFix, gpsPending>>
       ELSE gps' = "idle" /\ gpsFix' = None /\ gpsPending' = gpsFix
    /\ gpsOwed' = (gpsOwed /\ retained' # gpsTaken)
    /\ UNCHANGED <<gpsTaken, cmdVars, wishVars, threadVars, qmlVars, clientVars>>

GpsDies ==
    /\ gps # "down" /\ deaths < MaxDeaths
    /\ deaths' = deaths + 1
    /\ gps' = "down" /\ gpsFix' = None /\ gpsPending' = None /\ gpsTaken' = None /\ gpsOwed' = FALSE
    /\ UNCHANGED <<worldVars, net, faults, cmdVars, wishVars, threadVars, qmlVars, clientVars>>

GpsStarts ==
    /\ gps = "down"
    /\ gps' = "idle"
    /\ UNCHANGED <<worldVars, netVars, gpsFix, gpsPending, gpsTaken, gpsOwed, cmdVars, wishVars, threadVars, qmlVars, clientVars>>

-----------------------------------------------------------------------------
(* The command daemon.                                                      *)

(* consume_location_publish_request reads the wish in one transaction ...   *)
ConsumeRead ==
    /\ loop = "idle" /\ request # "none"
    /\ loop' = request
    /\ UNCHANGED <<worldVars, netVars, gpsVars, jobs, worker, jobFix, wishVars, threadVars, qmlVars, clientVars>>

(* Mutant: no second job while the worker is at one. *)
ConsumeClearOnce ==
    /\ loop \in {"fresh", "stale"}
    /\ request' = "none" /\ loop' = "idle"
    /\ jobs' = IF loop = "fresh" /\ worker = "idle" THEN jobs + 1 ELSE jobs
    /\ UNCHANGED <<worldVars, netVars, gpsVars, worker, jobFix, wanted, threadVars, qmlVars, clientVars>>

(* ... and clears whatever is there by then in another; a job is queued     *)
(* unless the wish it has read was too old.                                 *)
ConsumeClear ==
    /\ loop \in {"fresh", "stale"}
    /\ request' = "none" /\ loop' = "idle"
    /\ jobs' = IF loop = "fresh" THEN jobs + 1 ELSE jobs
    /\ UNCHANGED <<worldVars, netVars, gpsVars, worker, jobFix, wanted, threadVars, qmlVars, clientVars>>

(* The job publishes what is stored when it gets its turn.                  *)
PublishLatest ==
    /\ worker = "idle" /\ jobs > 0
    /\ jobs' = jobs - 1
    /\ jobFix' = row
    /\ worker' = IF row = None THEN "idle" ELSE "publish"
    /\ wanted' = FALSE
    /\ UNCHANGED <<worldVars, netVars, gpsVars, loop, request, threadVars, qmlVars, clientVars>>

(* Published, or given up after the second attempt: nothing is kept here.   *)
CommandSend ==
    /\ worker \in Sending
    /\ \/ Confirmed(jobFix, DaemonOnline) /\ worker' = "idle" /\ jobFix' = None
       \/ /\ Unconfirmed(jobFix, DaemonOnline)
          /\ IF worker = "publish"
             THEN worker' = "again" /\ UNCHANGED jobFix
             ELSE worker' = "idle" /\ jobFix' = None
    /\ UNCHANGED <<gpsVars, loop, jobs, wishVars, threadVars, qmlVars, clientVars>>

(* Queued jobs die with the daemon; a wish that is still in the database    *)
(* is there for the next one, if that comes in time.                        *)
CmdDies ==
    /\ loop # "down" /\ deaths < MaxDeaths
    /\ deaths' = deaths + 1
    /\ loop' = "down" /\ jobs' = 0 /\ worker' = "idle" /\ jobFix' = None
    /\ wanted' = (wanted /\ request = "fresh")
    /\ UNCHANGED <<worldVars, net, faults, gpsVars, request, threadVars, qmlVars, clientVars>>

WishAges ==
    /\ loop = "down" /\ request = "fresh"
    /\ request' = "stale" /\ wanted' = FALSE
    /\ UNCHANGED <<worldVars, netVars, gpsVars, cmdVars, threadVars, qmlVars, clientVars>>

CmdStarts ==
    /\ loop = "down"
    /\ loop' = "idle"
    /\ UNCHANGED <<worldVars, netVars, gpsVars, jobs, worker, jobFix, wishVars, threadVars, qmlVars, clientVars>>

-----------------------------------------------------------------------------
(* The app takes a position.                                                *)

(* A thread gets _fix_lock and asks QML: _do_refresh_location, _qml_fix.    *)
RequestFix(t) ==
    /\ lock = NoThread /\ seq < MaxRequests
    /\ lock' = t
    /\ seq' = seq + 1 /\ result' = NoAnswer /\ event' = FALSE
    /\ asked' = Append(asked, seq')
    /\ pc' = [pc EXCEPT ![t] = "wait"]
    /\ mine' = [mine EXCEPT ![t] = seq']
    /\ since' = [since EXCEPT ![t] = fixes]
    /\ UNCHANGED <<worldVars, netVars, gpsVars, cmdVars, wishVars, fix, qmlSeq, fixing, answers, clientVars>>

(* At the configured WiFi the fixed coordinates need no request.            *)
FixedPosition(t) ==
    /\ lock = NoThread
    /\ lock' = t
    /\ Obtain
    /\ pc' = [pc EXCEPT ![t] = "store"]
    /\ fix' = [fix EXCEPT ![t] = fixes']
    /\ since' = [since EXCEPT ![t] = fixes]
    /\ UNCHANGED <<netVars, gpsVars, cmdVars, wishVars, mine, qmlVars, clientVars>>

(* GpsSource.qml, on gpsFixRequested: a newer request takes over.           *)
GpsFixRequested ==
    /\ asked # <<>>
    /\ qmlSeq' = Head(asked) /\ fixing' = TRUE /\ asked' = Tail(asked)
    /\ UNCHANGED <<worldVars, netVars, gpsVars, cmdVars, wishVars, threadVars, seq, result, event, answers, clientVars>>

(* GpsSource.finish: a position, or its timer or an error of the source.    *)
Finish ==
    /\ fixing
    /\ fixing' = FALSE
    /\ \/ Obtain /\ answers' = Append(answers, [seq |-> qmlSeq, fix |-> fixes'])
       \/ answers' = Append(answers, [seq |-> qmlSeq, fix |-> None]) /\ UNCHANGED worldVars
    /\ UNCHANGED <<netVars, gpsVars, cmdVars, wishVars, threadVars, seq, result, event, asked, qmlSeq, clientVars>>

(* The call reaches Python, on the one thread that serves QML's calls.      *)
QmlFixResult ==
    /\ answers # <<>>
    /\ result' = Head(answers) /\ event' = TRUE /\ answers' = Tail(answers)
    /\ UNCHANGED <<worldVars, netVars, gpsVars, cmdVars, wishVars, threadVars, seq, asked, qmlSeq, fixing, clientVars>>

Release(t) ==
    /\ lock' = NoThread
    /\ pc' = [pc EXCEPT ![t] = "idle"]
    /\ fix' = [fix EXCEPT ![t] = None]
    /\ mine' = [mine EXCEPT ![t] = 0]
    /\ since' = [since EXCEPT ![t] = None]

(* Mutant: any answer is taken. *)
FixArrivedAny(t) ==
    /\ pc[t] = "wait" /\ event
    /\ result.fix # None
    /\ pc' = [pc EXCEPT ![t] = "store"]
    /\ fix' = [fix EXCEPT ![t] = result.fix]
    /\ UNCHANGED <<worldVars, netVars, gpsVars, cmdVars, wishVars, lock, mine, since, qmlVars, clientVars>>

(* The waiting thread is woken; the answer counts if it is its own.         *)
FixArrived(t) ==
    /\ pc[t] = "wait" /\ event
    /\ result.seq = mine[t] /\ result.fix # None
    /\ pc' = [pc EXCEPT ![t] = "store"]
    /\ fix' = [fix EXCEPT ![t] = result.fix]
    /\ UNCHANGED <<worldVars, netVars, gpsVars, cmdVars, wishVars, lock, mine, since, qmlVars, clientVars>>

(* No position, the answer to another request, or none in time.             *)
NoFix(t) ==
    /\ pc[t] = "wait"
    /\ event => result.seq # mine[t] \/ result.fix = None
    /\ Release(t)
    /\ UNCHANGED <<worldVars, netVars, gpsVars, cmdVars, wishVars, qmlVars, clientVars>>

Store(t) ==
    /\ pc[t] = "store"
    /\ StoreFix(fix[t])
    /\ owed' = fix[t]
    /\ pc' = [pc EXCEPT ![t] = "publish"]
    /\ UNCHANGED <<netVars, gpsVars, cmdVars, wishVars, lock, fix, mine, since, qmlVars, connected, onConnected, pending, outgoing>>

-----------------------------------------------------------------------------
(* ... and publishes it.                                                    *)

Publish(t) ==
    /\ pc[t] \in Sending
    /\ Confirmed(fix[t], connected)
    /\ pc' = [pc EXCEPT ![t] = "sent"]
    /\ owed' = IF owed = fix[t] THEN None ELSE owed
    /\ UNCHANGED <<gpsVars, cmdVars, wishVars, lock, fix, mine, since, qmlVars, connected, onConnected, pending, outgoing>>

(* Without a confirmation it is tried once more over a new connection.      *)
PublishFails(t) ==
    /\ pc[t] \in Sending
    /\ Unconfirmed(fix[t], connected)
    /\ pc' = [pc EXCEPT ![t] = IF pc[t] = "publish" THEN "reconnect" ELSE "unsent"]
    /\ UNCHANGED <<gpsVars, cmdVars, wishVars, lock, fix, mine, since, qmlVars, clientVars>>

(* force_reconnect: a new client, which does not know of what the old one   *)
(* still had to send.                                                       *)
ForceReconnect(t) ==
    /\ pc[t] = "reconnect" /\ net = "up"
    /\ connected' = TRUE /\ onConnected' = TRUE /\ outgoing' = None
    /\ pc' = [pc EXCEPT ![t] = "again"]
    /\ UNCHANGED <<worldVars, netVars, gpsVars, cmdVars, wishVars, lock, fix, mine, since, qmlVars, pending, owed>>

(* There is no network; or there is no client, or a closed one, because it  *)
(* is being restarted.                                                      *)
ReconnectFails(t) ==
    /\ pc[t] = "reconnect"
    /\ outgoing' = IF net = "up" THEN outgoing ELSE None
    /\ pc' = [pc EXCEPT ![t] = "unsent"]
    /\ UNCHANGED <<worldVars, netVars, gpsVars, cmdVars, wishVars, lock, fix, mine, since, qmlVars, connected, onConnected, pending, owed>>

Published(t) ==
    /\ pc[t] = "sent"
    /\ pending' = None
    /\ Release(t)
    /\ UNCHANGED <<worldVars, netVars, gpsVars, cmdVars, wishVars, qmlVars, connected, onConnected, outgoing, owed>>

(* Mutant: what is already pending stays. *)
KeepPendingFirst(t) ==
    /\ pc[t] = "unsent"
    /\ pending' = IF pending = None THEN fix[t] ELSE pending
    /\ pc' = [pc EXCEPT ![t] = "wish"]
    /\ UNCHANGED <<worldVars, netVars, gpsVars, cmdVars, wishVars, lock, fix, mine, since, qmlVars, connected, onConnected, outgoing, owed>>

KeepPending(t) ==
    /\ pc[t] = "unsent"
    /\ pending' = fix[t]
    /\ pc' = [pc EXCEPT ![t] = "wish"]
    /\ UNCHANGED <<worldVars, netVars, gpsVars, cmdVars, wishVars, lock, fix, mine, since, qmlVars, connected, onConnected, outgoing, owed>>

(* The command daemon is asked to publish the stored position, if the user  *)
(* has opted in and its heartbeat is young.                                 *)
Wish(t) ==
    /\ pc[t] = "wish"
    /\ \/ request' = "fresh" /\ wanted' = TRUE
       \/ UNCHANGED wishVars
    /\ Release(t)
    /\ UNCHANGED <<worldVars, netVars, gpsVars, cmdVars, qmlVars, clientVars>>

(* paho connects by itself once there is a network.                         *)
Connected ==
    /\ InApp /\ net = "up" /\ ~connected
    /\ connected' = TRUE /\ onConnected' = TRUE
    /\ UNCHANGED <<worldVars, netVars, gpsVars, cmdVars, wishVars, threadVars, qmlVars, pending, outgoing, owed>>

(* _start_ui_mqtt, after a change of the settings or of the devices: the    *)
(* client is closed and a new one will connect.                             *)
Restart ==
    /\ connected /\ faults < MaxFaults
    /\ faults' = faults + 1
    /\ connected' = FALSE /\ outgoing' = None
    /\ UNCHANGED <<worldVars, net, deaths, gpsVars, cmdVars, wishVars, threadVars, qmlVars, onConnected, pending, owed>>

(* on_connected, on the network thread and under _ui_lock: what is pending  *)
(* is handed to paho, without waiting for the broker.                       *)
FlushPendingLocation ==
    /\ onConnected
    /\ onConnected' = FALSE
    /\ IF connected /\ pending # None
       THEN /\ outgoing' = pending /\ pending' = None
            /\ owed' = IF owed = pending THEN None ELSE owed
       ELSE UNCHANGED <<outgoing, pending, owed>>
    /\ UNCHANGED <<worldVars, netVars, gpsVars, cmdVars, wishVars, threadVars, qmlVars, connected>>

FlushedArrives ==
    /\ outgoing # None /\ connected
    /\ retained' = outgoing /\ outgoing' = None
    /\ UNCHANGED <<fixes, row, netVars, gpsVars, cmdVars, wishVars, threadVars, qmlVars, connected, onConnected, pending, owed>>

AppCloses ==
    /\ InApp /\ deaths < MaxDeaths
    /\ deaths' = deaths + 1
    /\ lock' = "closed"
    /\ pc' = [t \in Threads |-> "idle"] /\ fix' = [t \in Threads |-> None]
    /\ mine' = [t \in Threads |-> 0] /\ since' = [t \in Threads |-> None]
    /\ seq' = 0 /\ result' = NoAnswer /\ event' = FALSE
    /\ asked' = <<>> /\ qmlSeq' = 0 /\ fixing' = FALSE /\ answers' = <<>>
    /\ connected' = FALSE /\ onConnected' = FALSE
    /\ pending' = None /\ outgoing' = None /\ owed' = None
    /\ UNCHANGED <<worldVars, net, faults, gpsVars, cmdVars, wishVars>>

AppOpens ==
    /\ ~InApp
    /\ lock' = NoThread
    /\ UNCHANGED <<worldVars, netVars, gpsVars, cmdVars, wishVars, pc, fix, mine, since, qmlVars, clientVars>>

NetworkLost ==
    /\ net = "up" /\ faults < MaxFaults
    /\ faults' = faults + 1
    /\ net' \in {"none", "mobile"}
    /\ connected' = FALSE
    /\ UNCHANGED <<worldVars, deaths, gpsVars, cmdVars, wishVars, threadVars, qmlVars, onConnected, pending, outgoing, owed>>

NetworkBack ==
    /\ net # "up"
    /\ net' = "up"
    /\ UNCHANGED <<worldVars, faults, deaths, gpsVars, cmdVars, wishVars, threadVars, qmlVars, clientVars>>

-----------------------------------------------------------------------------
GpsStep == TickFix \/ TickNoFix \/ TickStore \/ TickDelivered \/ TickUndelivered
CmdStep == ConsumeRead \/ ConsumeClear \/ PublishLatest \/ CommandSend
ThreadStep(t) ==
    \/ RequestFix(t) \/ FixedPosition(t) \/ FixArrived(t) \/ NoFix(t) \/ Store(t)
    \/ Publish(t) \/ PublishFails(t) \/ ForceReconnect(t) \/ ReconnectFails(t) \/ Published(t)
    \/ KeepPending(t) \/ Wish(t)
QmlStep == GpsFixRequested \/ Finish \/ QmlFixResult
ClientStep == Connected \/ Restart \/ FlushPendingLocation \/ FlushedArrives
Environment ==
    \/ GpsDies \/ GpsStarts \/ CmdDies \/ CmdStarts \/ WishAges
    \/ AppCloses \/ AppOpens \/ NetworkLost \/ NetworkBack

Next ==
    \/ GpsStep \/ CmdStep \/ QmlStep \/ ClientStep \/ Environment
    \/ \E t \in Threads : ThreadStep(t)

Spec == Init /\ [][Next]_vars

(* The GPS daemon goes on with its cycles, and a lost network comes back.   *)
Fairness == WF_vars(GpsStep) /\ WF_vars(NetworkBack)

FairSpec == Spec /\ Fairness

-----------------------------------------------------------------------------
(* What a thread of the app stores was taken after it has asked: an answer  *)
(* to an earlier request, however late it comes, is not taken for its own   *)
(* (_qml_fix, _fix_lock, GpsSource.qml).                                    *)
FixAnswersRequest == \A t \in Threads : pc[t] = "store" => fix[t] > since[t]

(* The newest position the app has stored and neither got confirmed nor     *)
(* handed to a connected client is kept for the next connection, or is      *)
(* still in the hands of the thread that took it (_publish_own_location,    *)
(* _flush_pending_location).                                                *)
AppForgetsNothing ==
    owed # None =>
      \/ pending = owed
      \/ \E t \in Threads : fix[t] = owed /\ pc[t] \in Sending \cup {"reconnect", "unsent"}

(* A wish for a publication that did not become too old, and whose job did  *)
(* not die with the command daemon, is in the database, being read, or a    *)
(* job that has not yet read the position it publishes: "True (and clear    *)
(* the flag) if a fresh publish request is pending"                         *)
(* (consume_location_publish_request).  It does not hold: a fresh wish      *)
(* written while a stale one is being consumed is wiped with it.            *)
WishIsKept == wanted => request = "fresh" \/ loop = "fresh" \/ jobs > 0

(* That is the only way to lose one: a second wish wiped with a first one   *)
(* that was fresh still has the first one's job, whatever the worker is     *)
(* doing (_process_publish_requests, submit_publish).                       *)
OnlyStaleWipes ==
    [][WishIsKept => WishIsKept' \/ (loop = "stale" /\ request = "fresh" /\ loop' = "idle")]_vars

(* What the GPS daemon publishes is the newest position it has taken, also  *)
(* when it does so in a later cycle (_publish_new, _flush_pending).         *)
NewestFirst == gps \in Sending => gpsFix = gpsTaken

(* What the GPS daemon has taken gets to the broker, or a newer position    *)
(* of it does, unless the daemon dies with it (_flush_pending).             *)
TakenIsDelivered == gpsOwed ~> ~gpsOwed
=============================================================================
