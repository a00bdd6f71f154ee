----------------------------- MODULE MqttClient -----------------------------
(***************************************************************************)
(* The MQTT wrapper of the command daemon, FmdMqttClient in                *)
(* qml/utilities/mqtt_client.py, and the watchdog that repairs it          *)
(* (check_mqtt in daemon-rpm/src/daemon_cmd.py).                           *)
(*                                                                         *)
(* Four kinds of threads touch the wrapper: the owner (the main thread,    *)
(* which connects, subscribes and finally closes it), the publishers       *)
(* (worker, ConnMan timer: anything that may end in force_reconnect), the  *)
(* watchdog's repair thread, and one network thread per paho client.  The  *)
(* broker and paho are external: what they may do is what the wrapper is   *)
(* written against.                                                        *)
(*                                                                         *)
(* Message ids are abstracted to the topic they ask for, so two SUBSCRIBEs *)
(* for one topic on one connection are one; time is abstracted, and what a *)
(* grace period of the watchdog outlasts is GracePassed.                   *)
(***************************************************************************)
EXTENDS Naturals

CONSTANTS
    Topics,         \* what the owner subscribes to
    Health,         \* the topic of the health check, one of them
    Clients,        \* identities of paho clients, reused once torn down
    Publishers,     \* threads that publish and repair
    Owner,          \* the main thread
    Watchdog,       \* the repair thread of the watchdog
    NoOne,          \* None, for a client or the holder of the lock
    MaxFaults       \* bound: misfortunes in one behaviour

ASSUME HealthAssumption == Health \in Topics
ASSUME ThreadAssumption ==
    /\ Owner \notin Publishers
    /\ Watchdog \notin Publishers
    /\ Owner # Watchdog
    /\ NoOne \notin Publishers \cup {Owner, Watchdog}
    /\ NoOne \notin Clients
ASSUME BoundAssumption == MaxFaults \in Nat

Repairers == Publishers \cup {Watchdog}
Threads == Repairers \cup {Owner}

VARIABLES
    closed, client, connected,      \* _closed, _client, _connected
    subs, confirmed, pending,       \* _subs, _subs_confirmed, _subs_pending
    lock,                           \* holder of _reconnect_lock
    since,                          \* _hc_unanswered_since is set
    beat,                           \* where _healthcheck_loop is
    pc, old, seen,                  \* where a thread is, its local variables
    topic,                          \* the topic _add_sub is working on
    thread, link,                   \* of a paho client: its thread, its session
    net, todo,                      \* its callback in progress, the topics left
    sub,                            \* its subscriptions at the broker
    deaf, echo,                     \* broker routes nothing; a beat comes back
    reachable, faults               \* the network; misfortunes so far

wrapper == <<closed, client, connected, subs, confirmed, pending, lock>>
health == <<since, beat>>
locals == <<pc, old, seen, topic>>
paho == <<thread, link, net, todo>>
broker == <<sub, deaf, echo>>
world == <<reachable, faults>>
vars == <<wrapper, health, locals, paho, broker, world>>

Places ==
    {"idle", "fail", "set", "retry", "failAgain", "setAgain", "lock",
     "drop", "clear", "unbind", "join", "check", "new", "start",
     "subscribe", "look", "send", "serve", "done"}
SubStates == {"no", "sent", "granted", "refused"}

NoSubs == [t \in Topics |-> "no"]

TypeOK ==
    /\ closed \in BOOLEAN
    /\ connected \in BOOLEAN
    /\ since \in BOOLEAN
    /\ reachable \in BOOLEAN
    /\ client \in Clients \cup {NoOne}
    /\ subs \subseteq Topics
    /\ confirmed \subseteq Topics
    /\ pending \subseteq Topics
    /\ lock \in Repairers \cup {NoOne}
    /\ beat \in {"idle", "sent"}
    /\ pc \in [Threads -> Places]
    /\ old \in [Threads -> Clients \cup {NoOne}]
    /\ seen \in [Publishers -> BOOLEAN]
    /\ topic \in Topics
    /\ thread \in [Clients -> {"free", "made", "running", "leaving", "dead"}]
    /\ link \in [Clients -> {"up", "down"}]
    /\ net \in [Clients -> {"idle", "connack", "greet", "resub", "lost", "forget", "suback", "confirm"}]
    /\ todo \in [Clients -> SUBSET Topics]
    /\ sub \in [Clients -> [Topics -> SubStates]]
    /\ deaf \in [Clients -> BOOLEAN]
    /\ echo \in [Clients -> BOOLEAN]
    /\ faults \in 0..MaxFaults

Init ==
    /\ closed = FALSE /\ client = NoOne /\ connected = FALSE
    /\ subs = {} /\ confirmed = {} /\ pending = {} /\ lock = NoOne
    /\ since = FALSE /\ beat = "idle"
    /\ pc = [p \in Threads |-> IF p = Owner THEN "check" ELSE "idle"]
    /\ old = [p \in Threads |-> NoOne]
    /\ seen = [p \in Publishers |-> FALSE]
    /\ topic = Health
    /\ thread = [c \in Clients |-> "free"]
    /\ link = [c \in Clients |-> "down"]
    /\ net = [c \in Clients |-> "idle"]
    /\ todo = [c \in Clients |-> {}]
    /\ sub = [c \in Clients |-> NoSubs]
    /\ deaf = [c \in Clients |-> FALSE]
    /\ echo = [c \in Clients |-> FALSE]
    /\ reachable = TRUE /\ faults = 0

GoTo(p, place) == pc' = [pc EXCEPT ![p] = place]

(* One more misfortune. *)
Fault == faults < MaxFaults /\ faults' = faults + 1

-----------------------------------------------------------------------------
(* What the health checks ask. *)

IsReallyConnected == connected /\ client # NoOne /\ link[client] = "up"

SubscriptionsOk == subs \subseteq confirmed

NetworkThreadAlive == client # NoOne /\ thread[client] \in {"running", "leaving"}

(* Mutant: a connection that is up is taken for a subscription. *)
HealthDefectUnsubscribed ==
    CASE client = NoOne -> "no client"
      [] client # NoOne /\ ~NetworkThreadAlive -> "network thread dead"
      [] NetworkThreadAlive /\ ~IsReallyConnected -> "disconnected"
      [] NetworkThreadAlive /\ IsReallyConnected /\ since -> "healthcheck stale"
      [] OTHER -> "none"

HealthDefect ==
    CASE client = NoOne -> "no client"
      [] client # NoOne /\ ~NetworkThreadAlive -> "network thread dead"
      [] NetworkThreadAlive /\ ~IsReallyConnected -> "disconnected"
      [] NetworkThreadAlive /\ IsReallyConnected /\ ~SubscriptionsOk -> "subscription unconfirmed"
      [] NetworkThreadAlive /\ IsReallyConnected /\ SubscriptionsOk /\ since -> "healthcheck stale"
      [] OTHER -> "none"

(* The watchdog acts on a defect that has outlasted its grace period: a     *)
(* reconnect under way would have ended, a network that is there would have *)
(* carried the CONNACK, the SUBACK and the echo.                            *)
GracePassed(defect) ==
    /\ lock = NoOne
    /\ defect \in {"disconnected", "subscription unconfirmed", "healthcheck stale"} =>
         net[client] = "idle"
    /\ defect = "disconnected" => link[client] = "up" \/ ~reachable
    /\ defect = "subscription unconfirmed" => \A t \in subs : sub[client][t] # "sent"
    /\ defect = "healthcheck stale" => ~echo[client]

-----------------------------------------------------------------------------
(* force_reconnect, disconnect, connect and close.                          *)

(* The thread leaves force_reconnect, or connect for the owner. *)
Return(p, success) ==
    /\ lock' = IF p = Owner THEN lock ELSE NoOne
    /\ GoTo(p, CASE p = Owner -> "subscribe"
                 [] p \in Publishers /\ success -> "retry"
                 [] OTHER -> "idle")

(* Mutant: repairs are not serialised. *)
TakeLockAnyway(p) ==
    /\ pc[p] = "lock"
    /\ lock' = p
    /\ GoTo(p, "drop")
    /\ UNCHANGED <<closed, client, connected, subs, confirmed, pending, health,
                   old, seen, topic, paho, broker, world>>

TakeLock(p) ==
    /\ pc[p] = "lock"
    /\ lock = NoOne
    /\ lock' = p
    /\ GoTo(p, "drop")
    /\ UNCHANGED <<closed, client, connected, subs, confirmed, pending, health,
                   old, seen, topic, paho, broker, world>>

Drop(p) ==
    /\ pc[p] = "drop"
    /\ old' = [old EXCEPT ![p] = client]
    /\ client' = NoOne
    /\ connected' = FALSE
    /\ GoTo(p, "clear")
    /\ UNCHANGED <<closed, subs, confirmed, pending, lock, health, seen, topic,
                   paho, broker, world>>

(* Where a disconnect goes on once the old client is dealt with. *)
AfterDisconnect(p) == IF p = Owner THEN "done" ELSE "check"

Clear(p) ==
    /\ pc[p] = "clear"
    /\ confirmed' = {}
    /\ pending' = {}
    /\ GoTo(p, IF old[p] = NoOne THEN AfterDisconnect(p) ELSE "unbind")
    /\ UNCHANGED <<closed, client, connected, subs, lock, health, old, seen, topic,
                   paho, broker, world>>

(* Callbacks off, the network thread told to end. *)
Unbind(p) ==
    /\ pc[p] = "unbind"
    /\ thread' = [thread EXCEPT ![old[p]] = "leaving"]
    /\ GoTo(p, "join")
    /\ UNCHANGED <<wrapper, health, old, seen, topic, link, net, todo, broker, world>>

(* The joins outlast a callback in progress.  A thread blocked in paho may  *)
(* be abandoned: it has no callbacks and no socket any more.                *)
Join(p) ==
    /\ pc[p] = "join"
    /\ net[old[p]] = "idle"
    /\ thread' = [thread EXCEPT ![old[p]] = "free"]
    /\ link' = [link EXCEPT ![old[p]] = "down"]
    /\ sub' = [sub EXCEPT ![old[p]] = NoSubs]
    /\ deaf' = [deaf EXCEPT ![old[p]] = FALSE]
    /\ echo' = [echo EXCEPT ![old[p]] = FALSE]
    /\ old' = [old EXCEPT ![p] = NoOne]
    /\ GoTo(p, AfterDisconnect(p))
    /\ UNCHANGED <<wrapper, health, seen, topic, net, todo, world>>

CheckClosed(p) ==
    /\ pc[p] = "check"
    /\ IF closed THEN Return(p, FALSE) ELSE GoTo(p, "new") /\ UNCHANGED lock
    /\ UNCHANGED <<closed, client, connected, subs, confirmed, pending, health,
                   old, seen, topic, paho, broker, world>>

New(p) ==
    /\ pc[p] = "new"
    /\ \E c \in Clients :
         /\ thread[c] = "free"
         /\ client' = c
         /\ thread' = [thread EXCEPT ![c] = "made"]
    /\ GoTo(p, "start")
    /\ UNCHANGED <<closed, connected, subs, confirmed, pending, lock, health, old,
                   seen, topic, link, net, todo, broker, world>>

(* self._client may be None by now (close): the exception ends connect. *)
Start(p) ==
    /\ pc[p] = "start"
    /\ IF client = NoOne THEN thread' = [c \in Clients |-> IF thread[c] = "made" THEN "free" ELSE thread[c]]
                         ELSE thread' = [thread EXCEPT ![client] = "running"]
    /\ Return(p, client # NoOne)
    /\ UNCHANGED <<closed, client, connected, subs, confirmed, pending, health, old,
                   seen, topic, link, net, todo, broker, world>>

Close ==
    /\ pc[Owner] = "serve"
    /\ closed' = TRUE
    /\ GoTo(Owner, "drop")
    /\ UNCHANGED <<client, connected, subs, confirmed, pending, lock, health, old,
                   seen, topic, paho, broker, world>>

-----------------------------------------------------------------------------
(* Subscribing.                                                             *)

(* One SUBSCRIBE, its mid recorded under the same hold of _subs_lock; paho  *)
(* refuses it without a socket.  Asking again for what the broker has       *)
(* granted on this connection gets the same answer.                         *)
SubscribeNow(c, t) ==
    IF link[c] = "up" /\ sub[c][t] # "granted"
    THEN /\ sub' = [sub EXCEPT ![c][t] = "sent"]
         /\ pending' = pending \cup {t}
    ELSE UNCHANGED <<sub, pending>>

(* _add_sub: remember the topic, ... *)
Record ==
    /\ pc[Owner] = "subscribe"
    /\ \E t \in Topics \ subs :
         /\ subs' = subs \cup {t}
         /\ topic' = t
    /\ GoTo(Owner, "look")
    /\ UNCHANGED <<closed, client, connected, confirmed, pending, lock, health, old,
                   seen, paho, broker, world>>

(* ... then look whether the connection is up, ... *)
Look ==
    /\ pc[Owner] = "look"
    /\ GoTo(Owner, IF client # NoOne /\ connected THEN "send" ELSE "subscribe")
    /\ UNCHANGED <<wrapper, health, old, seen, topic, paho, broker, world>>

(* ... and ask for the topic if it was. *)
Send ==
    /\ pc[Owner] = "send"
    /\ SubscribeNow(client, topic)
    /\ GoTo(Owner, "subscribe")
    /\ UNCHANGED <<closed, client, connected, subs, confirmed, lock, health, old,
                   seen, topic, paho, deaf, echo, world>>

(* Everything is set up: the health check beats, the watchdog watches, the  *)
(* executor publishes.                                                      *)
Serve ==
    /\ pc[Owner] = "subscribe"
    /\ subs = Topics
    /\ topic' = Health
    /\ GoTo(Owner, "serve")
    /\ UNCHANGED <<wrapper, health, old, seen, paho, broker, world>>

-----------------------------------------------------------------------------
(* Publishing, where it fails; a publish that succeeds changes nothing.     *)

Serving == pc[Owner] \notin {"check", "new", "start", "subscribe", "look", "send"}

(* No PUBACK, or no connection to start with. *)
Publish(p) ==
    /\ pc[p] = "idle"
    /\ Serving
    /\ Fault
    /\ GoTo(p, IF IsReallyConnected THEN "fail" ELSE "lock")
    /\ UNCHANGED <<wrapper, health, old, seen, topic, paho, broker, reachable>>

(* _refresh_connected reads paho's state, ... *)
RefreshRead(p) ==
    /\ pc[p] \in {"fail", "failAgain"}
    /\ seen' = [seen EXCEPT ![p] = client # NoOne /\ link[client] = "up"]
    /\ GoTo(p, IF pc[p] = "fail" THEN "set" ELSE "setAgain")
    /\ UNCHANGED <<wrapper, health, old, topic, paho, broker, world>>

(* ... then assigns it to the flag; the first failure asks for a reconnect. *)
RefreshWrite(p) ==
    /\ pc[p] \in {"set", "setAgain"}
    /\ connected' = seen[p]
    /\ seen' = [seen EXCEPT ![p] = FALSE]
    /\ GoTo(p, IF pc[p] = "set" THEN "lock" ELSE "idle")
    /\ UNCHANGED <<closed, client, subs, confirmed, pending, lock, health, old, topic,
                   paho, broker, world>>

(* The payload goes out once more, or the second attempt fails as well. *)
Republish(p) ==
    /\ pc[p] = "retry"
    /\ \/ GoTo(p, "idle") /\ UNCHANGED faults
       \/ Fault /\ GoTo(p, "failAgain")
    /\ UNCHANGED <<wrapper, health, old, seen, topic, paho, broker, reachable>>

(* The ConnMan timer, once the state has settled, finds a defect or another  *)
(* source address; it has no payload to send afterwards (Republish is then   *)
(* its return).                                                              *)
Handover(p) ==
    /\ pc[p] = "idle"
    /\ pc[Owner] = "serve"
    /\ Fault
    /\ GoTo(p, "lock")
    /\ UNCHANGED <<wrapper, health, old, seen, topic, paho, broker, reachable>>

(* check_mqtt: one repair at a time, while the main loop runs. *)
Repair ==
    /\ pc[Watchdog] = "idle"
    /\ pc[Owner] = "serve"
    /\ HealthDefect # "none"
    /\ GracePassed(HealthDefect)
    /\ GoTo(Watchdog, "lock")
    /\ UNCHANGED <<wrapper, health, old, seen, topic, paho, broker, world>>

-----------------------------------------------------------------------------
(* The health check: a beat, and the clock of the oldest unanswered one,    *)
(* which is started after the beat has been sent.                           *)

Beat ==
    /\ beat = "idle"
    /\ pc[Owner] = "serve"
    /\ ~closed
    /\ IsReallyConnected
    /\ beat' = "sent"
    /\ echo' = [echo EXCEPT ![client] = @ \/ (~deaf[client] /\ sub[client][Health] = "granted")]
    /\ UNCHANGED <<wrapper, since, locals, paho, sub, deaf, world>>

StartClock ==
    /\ beat = "sent"
    /\ beat' = "idle"
    /\ since' = TRUE
    /\ UNCHANGED <<wrapper, locals, paho, broker, world>>

-----------------------------------------------------------------------------
(* The network thread of client c and its callbacks.                        *)

Free(c) == thread[c] = "running" /\ net[c] = "idle"

Connack(c) ==
    /\ Free(c)
    /\ link[c] = "down"
    /\ reachable
    /\ link' = [link EXCEPT ![c] = "up"]
    /\ net' = [net EXCEPT ![c] = "connack"]
    /\ UNCHANGED <<wrapper, health, locals, thread, todo, broker, world>>

(* Mutant: the flag is left to _refresh_connected. *)
HandleConnectUnflagged(c) ==
    /\ net[c] = "connack"
    /\ net' = [net EXCEPT ![c] = IF client = c THEN "greet" ELSE "idle"]
    /\ UNCHANGED <<wrapper, health, locals, thread, link, todo, broker, world>>

(* _handle_connect: the flag, ... *)
HandleConnect(c) ==
    /\ net[c] = "connack"
    /\ IF client = c
       THEN connected' = TRUE /\ net' = [net EXCEPT ![c] = "greet"]
       ELSE net' = [net EXCEPT ![c] = "idle"] /\ UNCHANGED connected
    /\ UNCHANGED <<closed, client, subs, confirmed, pending, lock, health, locals,
                   thread, link, todo, broker, world>>

(* ... the old confirmations and a snapshot of the topics, ... *)
Greet(c) ==
    /\ net[c] = "greet"
    /\ confirmed' = {}
    /\ pending' = {}
    /\ todo' = [todo EXCEPT ![c] = subs]
    /\ net' = [net EXCEPT ![c] = "resub"]
    /\ UNCHANGED <<closed, client, connected, subs, lock, health, locals, thread, link,
                   broker, world>>

(* ... a SUBSCRIBE for each, ... *)
Resubscribe(c) ==
    /\ net[c] = "resub"
    /\ \E t \in todo[c] :
         /\ SubscribeNow(c, t)
         /\ todo' = [todo EXCEPT ![c] = @ \ {t}]
    /\ UNCHANGED <<closed, client, connected, subs, confirmed, lock, health, locals,
                   thread, link, net, deaf, echo, world>>

(* ... and the clock of the health check. *)
Resubscribed(c) ==
    /\ net[c] = "resub"
    /\ todo[c] = {}
    /\ since' = FALSE
    /\ net' = [net EXCEPT ![c] = "idle"]
    /\ UNCHANGED <<wrapper, beat, locals, thread, link, todo, broker, world>>

(* The connection is lost, and paho notices. *)
ConnectionLost(c) ==
    /\ Free(c)
    /\ link[c] = "up"
    /\ \/ Fault
       \/ ~reachable /\ UNCHANGED faults
    /\ link' = [link EXCEPT ![c] = "down"]
    /\ sub' = [sub EXCEPT ![c] = NoSubs]
    /\ deaf' = [deaf EXCEPT ![c] = FALSE]
    /\ echo' = [echo EXCEPT ![c] = FALSE]
    /\ net' = [net EXCEPT ![c] = "lost"]
    /\ UNCHANGED <<wrapper, health, locals, thread, todo, reachable>>

HandleDisconnect(c) ==
    /\ net[c] = "lost"
    /\ IF client = c
       THEN connected' = FALSE /\ net' = [net EXCEPT ![c] = "forget"]
       ELSE net' = [net EXCEPT ![c] = "idle"] /\ UNCHANGED connected
    /\ UNCHANGED <<closed, client, subs, confirmed, pending, lock, health, locals,
                   thread, link, todo, broker, world>>

ForgetConfirmed(c) ==
    /\ net[c] = "forget"
    /\ confirmed' = {}
    /\ pending' = {}
    /\ net' = [net EXCEPT ![c] = "idle"]
    /\ UNCHANGED <<closed, client, connected, subs, lock, health, locals, thread, link,
                   todo, broker, world>>

(* The broker answers a SUBSCRIBE: granted, or refused with 0x80. *)
Suback(c) ==
    /\ Free(c)
    /\ link[c] = "up"
    /\ \E t \in Topics :
         /\ sub[c][t] = "sent"
         /\ todo' = [todo EXCEPT ![c] = {t}]
         /\ \/ sub' = [sub EXCEPT ![c][t] = "granted"] /\ UNCHANGED faults
            \/ sub' = [sub EXCEPT ![c][t] = "refused"] /\ Fault
    /\ net' = [net EXCEPT ![c] = "suback"]
    /\ UNCHANGED <<wrapper, health, locals, thread, link, deaf, echo, reachable>>

(* _handle_subscribe: the pending entry is popped, ... *)
HandleSubscribe(c) ==
    /\ net[c] = "suback"
    /\ LET known == client = c /\ todo[c] \subseteq pending
           granted == \A t \in todo[c] : sub[c][t] = "granted"
       IN /\ pending' = IF known THEN pending \ todo[c] ELSE pending
          /\ net' = [net EXCEPT ![c] = IF known /\ granted THEN "confirm" ELSE "idle"]
          /\ todo' = [todo EXCEPT ![c] = IF known /\ granted THEN @ ELSE {}]
    /\ UNCHANGED <<closed, client, connected, subs, confirmed, lock, health, locals,
                   thread, link, broker, world>>

(* ... and the topic confirmed under another hold of the lock. *)
Confirm(c) ==
    /\ net[c] = "confirm"
    /\ confirmed' = confirmed \cup todo[c]
    /\ todo' = [todo EXCEPT ![c] = {}]
    /\ net' = [net EXCEPT ![c] = "idle"]
    /\ UNCHANGED <<closed, client, connected, subs, pending, lock, health, locals,
                   thread, link, broker, world>>

(* _handle_message for the client's own beat. *)
HandleEcho(c) ==
    /\ Free(c)
    /\ echo[c]
    /\ echo' = [echo EXCEPT ![c] = FALSE]
    /\ since' = IF client = c THEN FALSE ELSE since
    /\ UNCHANGED <<wrapper, beat, locals, paho, sub, deaf, world>>

(* The callback in progress goes on. *)
Callback(c) ==
    \/ HandleConnect(c) \/ Greet(c) \/ Resubscribe(c) \/ Resubscribed(c)
    \/ HandleDisconnect(c) \/ ForgetConfirmed(c)
    \/ HandleSubscribe(c) \/ Confirm(c)

-----------------------------------------------------------------------------
(* What else goes wrong: a SUBSCRIBE is lost, a network thread dies of an   *)
(* exception while paho stays "connected", a session stops routing, the     *)
(* network goes away for a while.                                           *)

Misfortune ==
    /\ Fault
    /\ \/ /\ \E c \in Clients, t \in Topics :
               /\ sub[c][t] = "sent"
               /\ sub' = [sub EXCEPT ![c][t] = "refused"]
          /\ UNCHANGED <<thread, deaf, reachable>>
       \/ /\ \E c \in Clients :
               /\ Free(c)
               /\ thread' = [thread EXCEPT ![c] = "dead"]
          /\ UNCHANGED <<sub, deaf, reachable>>
       \/ /\ \E c \in Clients :
               /\ link[c] = "up"
               /\ deaf' = [deaf EXCEPT ![c] = TRUE]
          /\ UNCHANGED <<sub, thread, reachable>>
       \/ /\ reachable' = FALSE
          /\ UNCHANGED <<sub, thread, deaf>>
    /\ UNCHANGED <<wrapper, health, locals, link, net, todo, echo>>

NetworkBack ==
    /\ ~reachable
    /\ reachable' = TRUE
    /\ UNCHANGED <<wrapper, health, locals, paho, broker, faults>>

Disconnecting(p) == Drop(p) \/ Clear(p) \/ Unbind(p) \/ Join(p)
Connecting(p) == CheckClosed(p) \/ New(p) \/ Start(p)
Subscribing == Record \/ Look \/ Send \/ Serve
Publishing(p) == RefreshRead(p) \/ RefreshWrite(p) \/ Republish(p)

(* Everything is over: nobody uses the wrapper any more. *)
Finished ==
    /\ pc[Owner] = "done"
    /\ UNCHANGED vars

Next ==
    \/ Subscribing \/ Close \/ Repair \/ Beat \/ StartClock
    \/ \E p \in Threads : Disconnecting(p) \/ Connecting(p)
    \/ \E p \in Repairers : TakeLock(p)
    \/ \E p \in Publishers : Publish(p) \/ Handover(p) \/ Publishing(p)
    \/ \E c \in Clients :
         Connack(c) \/ ConnectionLost(c) \/ Suback(c) \/ HandleEcho(c) \/ Callback(c)
    \/ Misfortune \/ NetworkBack
    \/ Finished

Spec == Init /\ [][Next]_vars

(* Threads run, the broker answers, the network comes back and the watchdog *)
(* keeps ticking; nothing makes the owner close the client, or anything     *)
(* fail.                                                                    *)
Fairness ==
    /\ WF_vars(Subscribing) /\ WF_vars(Repair)
    /\ WF_vars(Beat) /\ WF_vars(StartClock) /\ WF_vars(NetworkBack)
    /\ \A p \in Threads : WF_vars(Disconnecting(p) \/ Connecting(p))
    /\ \A p \in Repairers : WF_vars(TakeLock(p))
    /\ \A p \in Publishers : WF_vars(Publishing(p))
    /\ \A c \in Clients :
         /\ WF_vars(Connack(c)) /\ WF_vars(Suback(c))
         /\ WF_vars(HandleEcho(c)) /\ WF_vars(Callback(c))

FairSpec == Spec /\ Fairness

-----------------------------------------------------------------------------
(* Whatever repairs run at once, the wrapper owns every paho client that is *)
(* alive: it is the current one, or some thread is tearing it down.  A      *)
(* client nobody owns would fight its successor for the client id.          *)
NoOrphan ==
    ~closed => \A c \in Clients :
        thread[c] # "free" => client = c \/ \E p \in Threads : old[p] = c

(* Not so, though close() says "no repair path (force_reconnect from a late *)
(* publish still holding this reference) can revive it afterwards": that    *)
(* nothing runs for a closed wrapper any more.  A repair past its look at   *)
(* _closed makes a client, and nobody closes that one.                      *)
ClosedForGood == pc[Owner] = "done" => ~NetworkThreadAlive

(* A confirmation is the broker's word on the connection that is current    *)
(* now, not on a previous one or on a predecessor's (the few instructions   *)
(* of _handle_connect between the flag and the clear aside).                *)
ConfirmedIsGranted ==
    \A c \in Clients :
        client = c /\ link[c] = "up" /\ net[c] \notin {"connack", "greet"} =>
            \A t \in confirmed : sub[c][t] = "granted"

(* No topic falls between _add_sub and _handle_connect: on a connection     *)
(* that is up every topic the owner has registered has been asked for.      *)
EveryTopicAsked ==
    \A c \in Clients :
        client = c /\ link[c] = "up" /\ net[c] = "idle" =>
            \A t \in subs : \/ sub[c][t] # "no"
                            \/ t = topic /\ pc[Owner] \in {"look", "send"}

(* The daemon can be reached: connected, and every topic is delivered.      *)
Hearing ==
    /\ client # NoOne
    /\ thread[client] = "running"
    /\ link[client] = "up"
    /\ ~deaf[client]
    /\ \A t \in Topics : sub[client][t] = "granted"

(* However the channel fails, the daemon hears commands again, unless it    *)
(* closes the client: no defect goes unnoticed by the watchdog for good.    *)
HearsAgain == []<>(Hearing \/ closed)
=============================================================================
