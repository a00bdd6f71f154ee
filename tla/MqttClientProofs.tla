-------------------------- MODULE MqttClientProofs --------------------------
(***************************************************************************)
(* Proofs about MqttClient, for every set of topics, publishers and        *)
(* clients and any number of misfortunes: type correctness, that no paho   *)
(* client escapes the wrapper, that a confirmation is the current broker   *)
(* session's, and that no registered topic is left out.                    *)
(***************************************************************************)
EXTENDS MqttClient, TLAPS

USE HealthAssumption, ThreadAssumption, BoundAssumption

-----------------------------------------------------------------------------
(* One topic of one client changes its state at the broker. *)
LEMMA SubUpdate ==
  ASSUME NEW f \in [Clients -> [Topics -> SubStates]],
         NEW c \in Clients, NEW t \in Topics, NEW s \in SubStates
  PROVE  [f EXCEPT ![c][t] = s] \in [Clients -> [Topics -> SubStates]]
<1>1. [f[c] EXCEPT ![t] = s] \in [Topics -> SubStates]
  OBVIOUS
<1> DEFINE g == [f[c] EXCEPT ![t] = s]
<1>2. [f EXCEPT ![c] = g] \in [Clients -> [Topics -> SubStates]]
  <2> g \in [Topics -> SubStates]
    BY <1>1
  <2> HIDE DEF g
  <2> QED
    OBVIOUS
<1> QED
  BY <1>2

(* So does it when a SUBSCRIBE is sent. *)
LEMMA SubscribeTypes ==
  ASSUME sub \in [Clients -> [Topics -> SubStates]], pending \subseteq Topics,
         NEW c \in Clients, NEW t \in Topics, SubscribeNow(c, t)
  PROVE  sub' \in [Clients -> [Topics -> SubStates]] /\ pending' \subseteq Topics
<1>1. "sent" \in SubStates
  BY DEF SubStates
<1>2. [sub EXCEPT ![c][t] = "sent"] \in [Clients -> [Topics -> SubStates]]
  BY <1>1, SubUpdate
<1>3. sub' = sub \/ sub' = [sub EXCEPT ![c][t] = "sent"]
  BY DEF SubscribeNow
<1>4. pending' \subseteq Topics
  BY DEF SubscribeNow
<1> QED
  BY <1>2, <1>3, <1>4

(* The variables stay in their sets. *)
THEOREM TypeCorrect == Spec => []TypeOK
<1>1. Init => TypeOK
  <2> SUFFICES ASSUME Init PROVE TypeOK
    OBVIOUS
  <2> USE DEF Init
  <2>1. /\ pc \in [Threads -> Places]
        /\ old \in [Threads -> Clients \cup {NoOne}]
    BY DEF Places
  <2>2. /\ seen \in [Publishers -> BOOLEAN]
        /\ deaf \in [Clients -> BOOLEAN]
        /\ echo \in [Clients -> BOOLEAN]
    BY Zenon
  <2>3. /\ thread \in [Clients -> {"free", "made", "running", "leaving", "dead"}]
        /\ link \in [Clients -> {"up", "down"}]
        /\ net \in [Clients -> {"idle", "connack", "greet", "resub", "lost", "forget", "suback", "confirm"}]
        /\ todo \in [Clients -> SUBSET Topics]
    OBVIOUS
  <2>4. NoSubs \in [Topics -> SubStates]
    BY DEF NoSubs, SubStates
  <2>5. sub \in [Clients -> [Topics -> SubStates]]
    BY <2>4
  <2>6. /\ closed \in BOOLEAN
        /\ connected \in BOOLEAN
        /\ since \in BOOLEAN
        /\ reachable \in BOOLEAN
    OBVIOUS
  <2>7. /\ client \in Clients \cup {NoOne}
        /\ subs \subseteq Topics /\ confirmed \subseteq Topics /\ pending \subseteq Topics
        /\ lock \in Repairers \cup {NoOne} /\ beat \in {"idle", "sent"}
        /\ topic \in Topics /\ faults \in 0..MaxFaults
    OBVIOUS
  <2> QED
    BY <2>1, <2>2, <2>3, <2>5, <2>6, <2>7 DEF TypeOK
<1>2. TypeOK /\ [Next]_vars => TypeOK'
  <2> SUFFICES ASSUME TypeOK, [Next]_vars PROVE TypeOK'
    OBVIOUS
  <2> USE DEF TypeOK, wrapper, health, locals, paho, broker, world, GoTo, Fault,
              Places, SubStates, Threads, Repairers
  <2>1. CASE UNCHANGED vars
    BY <2>1 DEF vars
  <2>2. CASE Subscribing
    <3>1. CASE Record
      BY <3>1 DEF Record
    <3>2. CASE Look
      BY <3>2 DEF Look
    <3>3. CASE Send
      <4>1. client \in Clients => sub' \in [Clients -> [Topics -> SubStates]]
        BY <3>3, SubscribeTypes DEF Send
      <4>2. client \notin Clients => sub' \in [Clients -> [Topics -> SubStates]]
        BY <3>3 DEF Send, SubscribeNow
      <4> QED
        BY <3>3, <4>1, <4>2 DEF Send, SubscribeNow
    <3>4. CASE Serve
      BY <3>4 DEF Serve
    <3> QED
      BY <2>2, <3>1, <3>2, <3>3, <3>4 DEF Subscribing
  <2>3. CASE Close
    BY <2>3 DEF Close
  <2>4. CASE Repair
    BY <2>4 DEF Repair
  <2>5. CASE Beat
    <3>1. echo' \in [Clients -> BOOLEAN]
      BY <2>5, Zenon DEF Beat
    <3> QED
      BY <2>5, <3>1 DEF Beat
  <2>6. CASE StartClock
    BY <2>6 DEF StartClock
  <2>7. ASSUME NEW p \in Threads, Disconnecting(p) PROVE TypeOK'
    <3>1. CASE Drop(p)
      BY <3>1 DEF Drop
    <3>2. CASE Clear(p)
      BY <3>2 DEF Clear, AfterDisconnect
    <3>3. CASE Unbind(p)
      BY <3>3 DEF Unbind
    <3>4. CASE Join(p)
      BY <3>4 DEF Join, AfterDisconnect, NoSubs
    <3> QED
      BY <2>7, <3>1, <3>2, <3>3, <3>4 DEF Disconnecting
  <2>8. ASSUME NEW p \in Threads, Connecting(p) PROVE TypeOK'
    <3>1. CASE CheckClosed(p)
      <4>1. pc' \in [Threads -> Places]
        BY <3>1 DEF CheckClosed, Return, GoTo, Places
      <4>2. lock' \in Repairers \cup {NoOne}
        BY <3>1 DEF CheckClosed, Return
      <4>3. QED
        BY <3>1, <4>1, <4>2 DEF CheckClosed
    <3>2. CASE New(p)
      BY <3>2 DEF New
    <3>3. CASE Start(p)
      <4>1. pc' \in [Threads -> Places]
        BY <3>3 DEF Start, Return
      <4>2. lock' \in Repairers \cup {NoOne}
        BY <3>3 DEF Start, Return
      <4>3. thread' \in [Clients -> {"free", "made", "running", "leaving", "dead"}]
        BY <3>3 DEF Start
      <4>4. QED
        BY <3>3, <4>1, <4>2, <4>3 DEF Start
    <3> QED
      BY <2>8, <3>1, <3>2, <3>3 DEF Connecting
  <2>9. ASSUME NEW p \in Repairers, TakeLock(p) PROVE TypeOK'
    BY <2>9 DEF TakeLock
  <2>10. ASSUME NEW p \in Publishers, Publish(p) \/ Handover(p) \/ Publishing(p) PROVE TypeOK'
    <3>1. CASE Publish(p)
      BY <3>1 DEF Publish
    <3>2. CASE Handover(p)
      BY <3>2 DEF Handover
    <3>3. CASE RefreshRead(p)
      <4>1. seen' \in [Publishers -> BOOLEAN]
        BY <3>3, Zenon DEF RefreshRead
      <4> QED
        BY <3>3, <4>1 DEF RefreshRead
    <3>4. CASE RefreshWrite(p)
      <4>1. connected' \in BOOLEAN /\ seen' \in [Publishers -> BOOLEAN]
        BY <3>4, Zenon DEF RefreshWrite
      <4> QED
        BY <3>4, <4>1 DEF RefreshWrite
    <3>5. CASE Republish(p)
      <4>1. faults' \in 0..MaxFaults /\ pc' \in [Threads -> Places]
        BY <3>5 DEF Republish
      <4> QED
        BY <3>5, <4>1 DEF Republish
    <3> QED
      BY <2>10, <3>1, <3>2, <3>3, <3>4, <3>5 DEF Publishing
  <2>11. ASSUME NEW c \in Clients,
                Connack(c) \/ ConnectionLost(c) \/ Suback(c) \/ HandleEcho(c) \/ Callback(c)
         PROVE TypeOK'
    <3>1. CASE Connack(c)
      BY <3>1 DEF Connack
    <3>2. CASE ConnectionLost(c)
      BY <3>2 DEF ConnectionLost, NoSubs
    <3>3. CASE Suback(c)
      <4>1. sub' \in [Clients -> [Topics -> SubStates]]
        <5>1. PICK t \in Topics : \/ sub' = [sub EXCEPT ![c][t] = "granted"]
                                   \/ sub' = [sub EXCEPT ![c][t] = "refused"]
          BY <3>3 DEF Suback
        <5>2. [sub EXCEPT ![c][t] = "granted"] \in [Clients -> [Topics -> SubStates]]
          <6> "granted" \in SubStates
            OBVIOUS
          <6> QED
            BY SubUpdate
        <5>3. [sub EXCEPT ![c][t] = "refused"] \in [Clients -> [Topics -> SubStates]]
          <6> "refused" \in SubStates
            OBVIOUS
          <6> QED
            BY SubUpdate
        <5> QED
          BY <5>1, <5>2, <5>3
      <4>2. faults' \in 0..MaxFaults /\ todo' \in [Clients -> SUBSET Topics]
        BY <3>3 DEF Suback
      <4> QED
        BY <3>3, <4>1, <4>2 DEF Suback
    <3>4. CASE HandleEcho(c)
      BY <3>4 DEF HandleEcho
    <3>5. CASE HandleConnect(c)
      <4>1. CASE client = c
        BY <3>5, <4>1 DEF HandleConnect
      <4>2. CASE client # c
        BY <3>5, <4>2 DEF HandleConnect
      <4> QED
        BY <4>1, <4>2
    <3>6. CASE Greet(c)
      BY <3>6 DEF Greet
    <3>7. CASE Resubscribe(c)
      <4>1. sub' \in [Clients -> [Topics -> SubStates]]
        BY <3>7, SubscribeTypes DEF Resubscribe
      <4>2. pending' \subseteq Topics
        BY <3>7, SubscribeTypes DEF Resubscribe
      <4>3. todo' \in [Clients -> SUBSET Topics]
        BY <3>7 DEF Resubscribe
      <4> QED
        BY <3>7, <4>1, <4>2, <4>3 DEF Resubscribe
    <3>8. CASE Resubscribed(c)
      BY <3>8 DEF Resubscribed
    <3>9. CASE HandleDisconnect(c)
      BY <3>9 DEF HandleDisconnect
    <3>10. CASE ForgetConfirmed(c)
      BY <3>10 DEF ForgetConfirmed
    <3>11. CASE HandleSubscribe(c)
      BY <3>11 DEF HandleSubscribe
    <3>12. CASE Confirm(c)
      BY <3>12 DEF Confirm
    <3> QED
      BY <2>11, <3>1, <3>2, <3>3, <3>4, <3>5, <3>6, <3>7, <3>8, <3>9, <3>10, <3>11, <3>12
         DEF Callback
  <2>12. CASE Misfortune
    <3>1. sub' \in [Clients -> [Topics -> SubStates]]
      <4>1. \/ sub' = sub
            \/ \E c \in Clients, t \in Topics : sub' = [sub EXCEPT ![c][t] = "refused"]
        BY <2>12 DEF Misfortune
      <4>2. ASSUME NEW c \in Clients, NEW t \in Topics
            PROVE  [sub EXCEPT ![c][t] = "refused"] \in [Clients -> [Topics -> SubStates]]
        <5> "refused" \in SubStates
          OBVIOUS
        <5> QED
          BY SubUpdate
      <4>3. CASE sub' = sub
        BY <4>3
      <4>4. CASE \E c \in Clients, t \in Topics : sub' = [sub EXCEPT ![c][t] = "refused"]
        <5>1. PICK c \in Clients, t \in Topics : sub' = [sub EXCEPT ![c][t] = "refused"]
          BY <4>4
        <5> QED
          BY <5>1, <4>2
      <4> QED
        BY <4>1, <4>3, <4>4
    <3>2. deaf' \in [Clients -> BOOLEAN]
      <4>1. deaf' = deaf \/ \E c \in Clients : deaf' = [deaf EXCEPT ![c] = TRUE]
        BY <2>12 DEF Misfortune
      <4> QED
        BY <4>1, Zenon
    <3>3. thread' \in [Clients -> {"free", "made", "running", "leaving", "dead"}]
      BY <2>12 DEF Misfortune
    <3>4. reachable' \in BOOLEAN
      BY <2>12, Zenon DEF Misfortune
    <3>5. faults' \in 0..MaxFaults
      BY <2>12 DEF Misfortune
    <3> QED
      BY <2>12, <3>1, <3>2, <3>3, <3>4, <3>5 DEF Misfortune
  <2>13. CASE NetworkBack
    BY <2>13 DEF NetworkBack
  <2>14. CASE Finished
    BY <2>14 DEF Finished, vars
  <2> QED
    BY <2>1, <2>2, <2>3, <2>4, <2>5, <2>6, <2>7, <2>8, <2>9, <2>10, <2>11, <2>12, <2>13,
       <2>14 DEF Next
<1> QED
  BY <1>1, <1>2, PTL DEF Spec

-----------------------------------------------------------------------------
(***************************************************************************)
(* Ownership.  Only the holder of the lock, or the owner before it serves, *)
(* replaces the client; while it does there is none, so a disconnect of    *)
(* the closing owner takes nothing away that somebody else still counts    *)
(* on, and a client that has left the wrapper is in some thread's hands.   *)
(***************************************************************************)
Inside == {"drop", "clear", "unbind", "join", "check", "new", "start"}
Between == {"clear", "unbind", "join", "check", "new"}

StartsAlone ==
  /\ ~Serving => ~closed /\ \A p \in Repairers : pc[p] = "idle"
  /\ pc[Owner] \in {"check", "new", "start", "subscribe", "look", "send",
                    "serve", "drop", "clear", "unbind", "join", "done"}
  /\ pc[Owner] \in {"drop", "clear", "unbind", "join", "done"} <=> closed

Locked == \A p \in Repairers : pc[p] \in Inside => lock = p

NoneMeanwhile ==
  \A p \in Threads :
    /\ pc[p] \in Between /\ (p # Owner \/ ~closed) => client = NoOne
    /\ old[p] # NoOne => client = NoOne /\ pc[p] \in {"clear", "unbind", "join"}
    /\ pc[p] \in {"unbind", "join"} => old[p] \in Clients
    /\ pc[p] = "new" => \A q \in Threads : old[q] = NoOne

Owned ==
  \A c \in Clients :
    thread[c] # "free" => client = c \/ \E p \in Threads : old[p] = c

Ownership == StartsAlone /\ Locked /\ NoneMeanwhile /\ Owned

THEOREM OwnershipHolds == Spec => []Ownership
<1>1. Init => Ownership
  BY DEF Init, Ownership, StartsAlone, Locked, NoneMeanwhile, Owned, Serving, Inside, Between,
         Threads, Repairers
<1>2. TypeOK /\ Ownership /\ [Next]_vars => Ownership'
  <2> SUFFICES ASSUME TypeOK, Ownership, [Next]_vars PROVE Ownership'
    OBVIOUS
  <2>0. /\ pc \in [Threads -> Places]
        /\ old \in [Threads -> Clients \cup {NoOne}]
        /\ thread \in [Clients -> {"free", "made", "running", "leaving", "dead"}]
        /\ client \in Clients \cup {NoOne}
        /\ closed \in BOOLEAN
    BY DEF TypeOK
  <2> USE <2>0 DEF Ownership, StartsAlone, Locked, NoneMeanwhile, Owned, Serving, Inside,
                   Between, GoTo, Threads, Repairers
  <2>1. ASSUME UNCHANGED <<closed, client, lock, pc, old, thread>> PROVE Ownership'
    BY <2>1
  <2>2. CASE UNCHANGED vars
    BY <2>1, <2>2 DEF vars, wrapper, locals, paho
  <2>3. CASE Subscribing
    <3>1. UNCHANGED <<closed, client, lock, old, thread>>
      BY <2>3 DEF Subscribing, Record, Look, Send, Serve, wrapper, paho
    <3>2. \E place \in {"look", "send", "subscribe", "serve"} :
            pc' = [pc EXCEPT ![Owner] = place]
      BY <2>3 DEF Subscribing, Record, Look, Send, Serve
    <3>3. pc[Owner] \in {"subscribe", "look", "send"}
      BY <2>3 DEF Subscribing, Record, Look, Send, Serve
    <3> QED
      BY <3>1, <3>2, <3>3
  <2>4. CASE Close
    BY <2>4 DEF Close, paho
  <2>5. CASE Repair
    BY <2>5 DEF Repair, wrapper, paho
  <2>6. CASE Beat \/ StartClock \/ NetworkBack \/ Finished
    BY <2>1, <2>6 DEF Beat, StartClock, NetworkBack, Finished, wrapper, locals, paho, vars
  <2>7. ASSUME NEW p \in Threads, Disconnecting(p) PROVE Ownership'
    <3>1. CASE Drop(p)
      BY <3>1 DEF Drop, paho
    <3>2. CASE Clear(p)
      BY <3>2 DEF Clear, AfterDisconnect, paho
    <3>3. CASE Unbind(p)
      BY <3>3 DEF Unbind, wrapper
    <3>4. CASE Join(p)
      BY <3>4 DEF Join, AfterDisconnect, wrapper
    <3> QED
      BY <2>7, <3>1, <3>2, <3>3, <3>4 DEF Disconnecting
  <2>8. ASSUME NEW p \in Threads, Connecting(p) PROVE Ownership'
    <3>1. CASE CheckClosed(p)
      BY <3>1 DEF CheckClosed, Return, paho
    <3>2. CASE New(p)
      BY <3>2 DEF New
    <3>3. CASE Start(p)
      BY <3>3 DEF Start, Return
    <3> QED
      BY <2>8, <3>1, <3>2, <3>3 DEF Connecting
  <2>9. ASSUME NEW p \in Repairers, TakeLock(p) PROVE Ownership'
    BY <2>9 DEF TakeLock, paho
  <2>10. ASSUME NEW p \in Publishers, Publish(p) \/ Handover(p) \/ Publishing(p) PROVE Ownership'
    <3>1. UNCHANGED <<closed, client, lock, old, thread>>
      BY <2>10 DEF Publish, Handover, Publishing, RefreshRead, RefreshWrite, Republish, wrapper, paho
    <3>2. \E place \in {"fail", "lock", "set", "setAgain", "idle", "failAgain"} :
            pc' = [pc EXCEPT ![p] = place]
      BY <2>10 DEF Publish, Handover, Publishing, RefreshRead, RefreshWrite, Republish
    <3>3. pc[p] \in {"idle", "fail", "set", "setAgain", "failAgain", "retry"}
          /\ (pc[p] = "idle" => Serving)
      BY <2>10 DEF Publish, Handover, Publishing, RefreshRead, RefreshWrite, Republish
    <3> QED
      BY <3>1, <3>2, <3>3
  <2>11. ASSUME NEW c \in Clients,
                Connack(c) \/ ConnectionLost(c) \/ Suback(c) \/ HandleEcho(c) \/ Callback(c)
         PROVE Ownership'
    <3>1. UNCHANGED <<closed, client, lock, pc, old, thread>>
      BY <2>11 DEF Connack, ConnectionLost, Suback, HandleEcho, Callback, HandleConnect, Greet,
                   Resubscribe, Resubscribed, HandleDisconnect, ForgetConfirmed, HandleSubscribe,
                   Confirm, wrapper, locals, paho
    <3> QED
      BY <2>1, <3>1
  <2>12. CASE Misfortune
    <3>1. UNCHANGED <<closed, client, lock, pc, old>>
      BY <2>12 DEF Misfortune, wrapper, locals
    <3>2. \A c \in Clients : thread[c] = "free" => thread'[c] = "free"
      BY <2>12 DEF Misfortune, Free
    <3> QED
      BY <3>1, <3>2
  <2> QED
    BY <2>2, <2>3, <2>4, <2>5, <2>6, <2>7, <2>8, <2>9, <2>10, <2>11, <2>12 DEF Next
<1> QED
  BY <1>1, <1>2, TypeCorrect, PTL DEF Spec

(* A repair never loses a client on the way, however many run at once. *)
THEOREM NoClientEscapes == Spec => []NoOrphan
<1>1. Ownership => NoOrphan
  BY DEF Ownership, Owned, NoOrphan
<1> QED
  BY <1>1, OwnershipHolds, PTL

-----------------------------------------------------------------------------
(***************************************************************************)
(* The session of a client.  A client that is not started has none, a      *)
(* callback runs only on a client that the wrapper owns, and the topic of  *)
(* a SUBACK about to be confirmed was granted on the same connection.      *)
(***************************************************************************)
NoSession ==
  \A c \in Clients :
    /\ thread[c] \in {"free", "made"} => link[c] = "down" /\ net[c] = "idle"
    /\ net[c] \in {"lost", "forget"} => link[c] = "down"
    /\ net[c] \in {"connack", "greet", "resub", "suback", "confirm"} => link[c] = "up"

AnswerGranted ==
  \A c \in Clients :
    net[c] = "confirm" => \A t \in todo[c] : sub[c][t] = "granted"

Sessions == NoSession /\ AnswerGranted /\ ConfirmedIsGranted

(* Sending a SUBSCRIBE takes no grant back. *)
LEMMA SubscribeKeepsGrants ==
  ASSUME TypeOK, NEW c \in Clients, NEW t \in Topics, SubscribeNow(c, t)
  PROVE  \A d \in Clients, u \in Topics :
           /\ sub[d][u] = "granted" => sub'[d][u] = "granted"
           /\ sub[d][u] # "no" => sub'[d][u] # "no"
<1>1. CASE sub' = [sub EXCEPT ![c][t] = "sent"] /\ sub[c][t] # "granted"
  <2> TAKE d \in Clients, u \in Topics
  <2>1. sub[d] \in [Topics -> SubStates] /\ sub \in [Clients -> [Topics -> SubStates]]
    BY DEF TypeOK
  <2>2. CASE d = c /\ u = t
    BY <1>1, <2>1, <2>2
  <2>3. CASE ~(d = c /\ u = t)
    <3>1. sub'[d][u] = sub[d][u]
      BY <1>1, <2>1, <2>3
    <3>2. QED
      BY <3>1
  <2>4. QED
    BY <2>2, <2>3
<1>2. CASE sub' = sub
  BY <1>2
<1>3. QED
  BY <1>1, <1>2 DEF SubscribeNow

(* Ownership in the form the sessions need: one client at a time has a      *)
(* callback in progress.                                                    *)
LEMMA OneCallback ==
  ASSUME TypeOK, Ownership, NoSession,
         NEW c \in Clients, net[c] # "idle",
         NEW d \in Clients, client = d
  PROVE  c = d
<1>1. thread[c] # "free"
  BY DEF NoSession
<1>2. CASE \E p \in Threads : old[p] = c
  BY <1>2, ThreadAssumption DEF Ownership, NoneMeanwhile
<1> QED
  BY <1>1, <1>2 DEF Ownership, Owned

THEOREM SessionsHold == Spec => []Sessions
<1>1. Init => Sessions
  BY DEF Init, Sessions, NoSession, AnswerGranted, ConfirmedIsGranted, NoSubs
<1>2. TypeOK /\ Ownership /\ Sessions /\ [Next]_vars => Sessions'
  <2> SUFFICES ASSUME TypeOK, Ownership, Sessions, [Next]_vars PROVE Sessions'
    OBVIOUS
  <2>0. /\ old \in [Threads -> Clients \cup {NoOne}]
        /\ thread \in [Clients -> {"free", "made", "running", "leaving", "dead"}]
        /\ link \in [Clients -> {"up", "down"}]
        /\ net \in [Clients -> {"idle", "connack", "greet", "resub", "lost", "forget", "suback", "confirm"}]
        /\ todo \in [Clients -> SUBSET Topics]
        /\ sub \in [Clients -> [Topics -> SubStates]]
        /\ confirmed \subseteq Topics
        /\ client \in Clients \cup {NoOne}
    BY DEF TypeOK
  <2> USE <2>0 DEF Sessions, NoSession, AnswerGranted, ConfirmedIsGranted
  <2>1. ASSUME UNCHANGED <<client, confirmed, thread, link, net, todo, sub>> PROVE Sessions'
    BY <2>1
  <2>2. CASE UNCHANGED vars
    BY <2>1, <2>2 DEF vars, wrapper, paho, broker
  <2>3. CASE Subscribing
    <3>1. CASE Send
      <4>1. UNCHANGED <<client, confirmed, thread, link, net, todo>>
        BY <3>1 DEF Send, paho
      <4>2. CASE client \in Clients
        <5>1. SubscribeNow(client, topic) /\ topic \in Topics
          BY <3>1 DEF Send, TypeOK
        <5> QED
          BY <4>1, <4>2, <5>1, SubscribeKeepsGrants
      <4>3. CASE client = NoOne
        BY <3>1, <4>1, <4>3 DEF Send, SubscribeNow
      <4> QED
        BY <4>2, <4>3
    <3>2. CASE Record \/ Look \/ Serve
      BY <2>1, <3>2 DEF Record, Look, Serve, wrapper, paho, broker
    <3> QED
      BY <2>3, <3>1, <3>2 DEF Subscribing
  <2>4. CASE Close \/ Repair \/ Beat \/ StartClock \/ NetworkBack \/ Finished
    BY <2>1, <2>4 DEF Close, Repair, Beat, StartClock, NetworkBack, Finished, wrapper, paho, broker, vars
  <2>5. ASSUME NEW p \in Threads, Disconnecting(p) PROVE Sessions'
    <3>1. CASE Drop(p)
      BY <3>1 DEF Drop, paho, broker
    <3>2. CASE Clear(p)
      BY <3>2 DEF Clear, paho, broker
    <3>3. CASE Unbind(p)
      BY <3>3 DEF Unbind, wrapper, broker
    <3>4. CASE Join(p)
      <4>1. old[p] \in Clients
        BY <3>4 DEF Join, Ownership, NoneMeanwhile
      <4> QED
        BY <3>4, <4>1 DEF Join, wrapper, NoSubs
    <3> QED
      BY <2>5, <3>1, <3>2, <3>3, <3>4 DEF Disconnecting
  <2>6. ASSUME NEW p \in Threads, Connecting(p) PROVE Sessions'
    <3>1. CASE CheckClosed(p)
      BY <2>1, <3>1 DEF CheckClosed, paho, broker
    <3>2. CASE New(p)
      BY <3>2 DEF New, broker
    <3>3. CASE Start(p)
      BY <3>3 DEF Start, broker
    <3> QED
      BY <2>6, <3>1, <3>2, <3>3 DEF Connecting
  <2>7. ASSUME NEW p \in Repairers, TakeLock(p) PROVE Sessions'
    BY <2>1, <2>7 DEF TakeLock, paho, broker
  <2>8. ASSUME NEW p \in Publishers, Publish(p) \/ Handover(p) \/ Publishing(p) PROVE Sessions'
    BY <2>1, <2>8 DEF Publish, Handover, Publishing, RefreshRead, RefreshWrite, Republish,
                      wrapper, paho, broker
  <2>9. ASSUME NEW c \in Clients,
               Connack(c) \/ ConnectionLost(c) \/ Suback(c) \/ HandleEcho(c) \/ Callback(c)
        PROVE Sessions'
    <3>1. CASE Connack(c)
      BY <3>1 DEF Connack, Free, wrapper, broker
    <3>2. CASE ConnectionLost(c)
      BY <3>2 DEF ConnectionLost, Free, wrapper, NoSubs
    <3>3. CASE Suback(c)
      <4>1. PICK t \in Topics :
              /\ sub[c][t] = "sent"
              /\ \/ sub' = [sub EXCEPT ![c][t] = "granted"]
                 \/ sub' = [sub EXCEPT ![c][t] = "refused"]
        BY <3>3 DEF Suback
      <4>2. \A d \in Clients, u \in Topics : sub[d][u] = "granted" => sub'[d][u] = "granted"
        <5>1. ASSUME NEW s, sub' = [sub EXCEPT ![c][t] = s], NEW d \in Clients, NEW u \in Topics,
                     sub[d][u] = "granted"
              PROVE  sub'[d][u] = "granted"
          <6>1. d # c \/ u # t
            BY <4>1, <5>1
          <6>2. sub \in [Clients -> [Topics -> SubStates]]
            BY DEF TypeOK
          <6>3. QED
            BY <5>1, <6>1, <6>2
        <5>2. QED
          BY <4>1, <5>1
      <4>3. /\ UNCHANGED <<client, confirmed, thread, link>>
            /\ net[c] = "idle" /\ thread[c] = "running"
            /\ net' = [net EXCEPT ![c] = "suback"]
            /\ \E u \in Topics : todo' = [todo EXCEPT ![c] = {u}]
        BY <3>3 DEF Suback, Free, wrapper
      <4>4. CASE link[c] = "up"
        BY <4>2, <4>3, <4>4
      <4> QED
        BY <3>3, <4>4 DEF Suback
    <3>4. CASE HandleEcho(c)
      BY <2>1, <3>4 DEF HandleEcho, wrapper, paho
    <3>5. CASE HandleConnect(c)
      BY <3>5 DEF HandleConnect, broker
    <3>6. CASE Greet(c)
      BY <3>6 DEF Greet, broker
    <3>7. CASE Resubscribe(c)
      <4>1. PICK t \in Topics : SubscribeNow(c, t) /\ todo' = [todo EXCEPT ![c] = @ \ {t}]
        BY <3>7 DEF Resubscribe
      <4>2. UNCHANGED <<client, confirmed, thread, link, net>>
        BY <3>7 DEF Resubscribe
      <4> QED
        BY <4>1, <4>2, SubscribeKeepsGrants
    <3>8. CASE Resubscribed(c)
      BY <3>8 DEF Resubscribed, wrapper, broker
    <3>9. CASE HandleDisconnect(c)
      <4>1. UNCHANGED <<client, confirmed, thread, link, todo, sub>>
        BY <3>9 DEF HandleDisconnect, broker
      <4>2. link[c] = "down" /\ net[c] = "lost"
        BY <3>9 DEF HandleDisconnect
      <4>3. net' = [net EXCEPT ![c] = "forget"] \/ net' = [net EXCEPT ![c] = "idle"]
        BY <3>9 DEF HandleDisconnect
      <4>4. CASE net' = [net EXCEPT ![c] = "forget"]
        BY <4>1, <4>2, <4>4
      <4>5. CASE net' = [net EXCEPT ![c] = "idle"]
        BY <4>1, <4>2, <4>5
      <4> QED
        BY <4>3, <4>4, <4>5
    <3>10. CASE ForgetConfirmed(c)
      BY <3>10 DEF ForgetConfirmed, broker
    <3>11. CASE HandleSubscribe(c)
      BY <3>11 DEF HandleSubscribe, broker
    <3>12. CASE Confirm(c)
      <4>1. ASSUME NEW d \in Clients, client = d PROVE c = d
        BY <3>12, <4>1, OneCallback DEF Confirm
      <4> QED
        BY <3>12, <4>1 DEF Confirm, broker
    <3> QED
      BY <2>9, <3>1, <3>2, <3>3, <3>4, <3>5, <3>6, <3>7, <3>8, <3>9, <3>10, <3>11, <3>12
         DEF Callback
  <2>10. CASE Misfortune
    <3>1. UNCHANGED <<client, confirmed, link, net, todo>>
      BY <2>10 DEF Misfortune, wrapper
    <3>2. \A c \in Clients : thread'[c] = thread[c] \/ (thread[c] = "running" /\ thread'[c] = "dead")
      BY <2>10 DEF Misfortune, Free
    <3>3. \A c \in Clients, t \in Topics : sub[c][t] = "granted" => sub'[c][t] = "granted"
      BY <2>10 DEF Misfortune
    <3> QED
      BY <3>1, <3>2, <3>3
  <2> QED
    BY <2>2, <2>3, <2>4, <2>5, <2>6, <2>7, <2>8, <2>9, <2>10 DEF Next
<1> QED
  BY <1>1, <1>2, TypeCorrect, OwnershipHolds, PTL DEF Spec

(* A confirmation is the current session's, on every connection. *)
THEOREM ConfirmationsAreGrants == Spec => []ConfirmedIsGranted
BY SessionsHold, PTL DEF Sessions

-----------------------------------------------------------------------------
(***************************************************************************)
(* No topic is left out.  While the owner is still subscribing nobody else *)
(* writes the flag, so it is up from _handle_connect on: either the        *)
(* snapshot of _handle_connect has the topic, or _add_sub sees the flag.   *)
(***************************************************************************)
FlagUp ==
  ~Serving => \A c \in Clients :
    client = c /\ link[c] = "up" /\ net[c] # "connack" => connected

Asked(c, t) ==
  \/ sub[c][t] # "no"
  \/ t = topic /\ pc[Owner] \in {"look", "send"}
  \/ net[c] = "resub" /\ t \in todo[c]

AllAsked ==
  \A c \in Clients :
    client = c /\ link[c] = "up" /\ net[c] \in {"idle", "resub", "suback", "confirm"} =>
      \A t \in subs : Asked(c, t)

SendsToClient == pc[Owner] = "send" => client \in Clients

Asking == FlagUp /\ AllAsked /\ SendsToClient

THEOREM AskingHolds == Spec => []Asking
<1>1. Init => Asking
  <2> SUFFICES ASSUME Init PROVE Asking
    OBVIOUS
  <2>1. \A c \in Clients : link[c] = "down"
    BY DEF Init
  <2>2. pc[Owner] = "check"
    BY DEF Init, Threads
  <2> QED
    BY <2>1, <2>2 DEF Asking, FlagUp, AllAsked, SendsToClient
<1>2. TypeOK /\ Ownership /\ NoSession /\ Asking /\ [Next]_vars => Asking'
  <2> SUFFICES ASSUME TypeOK, Ownership, NoSession, Asking, [Next]_vars PROVE Asking'
    OBVIOUS
  <2>0. /\ pc \in [Threads -> Places]
        /\ old \in [Threads -> Clients \cup {NoOne}]
        /\ thread \in [Clients -> {"free", "made", "running", "leaving", "dead"}]
        /\ link \in [Clients -> {"up", "down"}]
        /\ net \in [Clients -> {"idle", "connack", "greet", "resub", "lost", "forget", "suback", "confirm"}]
        /\ todo \in [Clients -> SUBSET Topics]
        /\ sub \in [Clients -> [Topics -> SubStates]]
        /\ client \in Clients \cup {NoOne}
        /\ topic \in Topics /\ subs \subseteq Topics
    BY DEF TypeOK
  <2>a. /\ Owner \in Threads
        /\ \A p \in Repairers : p # Owner /\ p \in Threads /\ (~Serving => pc[p] = "idle")
    BY DEF Threads, Repairers, Ownership, StartsAlone
  <2>b. NoSession
    OBVIOUS
  <2> USE <2>0, <2>a, <2>b DEF Asking, FlagUp, AllAsked, Asked, SendsToClient, Serving, NoSession, GoTo
  <2>1. ASSUME UNCHANGED <<client, connected, subs, topic, link, net, todo, sub>>,
               pc'[Owner] = pc[Owner]
        PROVE Asking'
    BY <2>1
  <2>2. CASE UNCHANGED vars
    BY <2>1, <2>2 DEF vars, wrapper, locals, paho, broker
  <2>3. CASE Subscribing
    <3>1. CASE Record
      BY <3>1 DEF Record, paho, broker
    <3>2. CASE Look
      BY <3>2 DEF Look, wrapper, paho, broker
    <3>3. CASE Send
      <4>1. SubscribeNow(client, topic) /\ client \in Clients
        BY <3>3 DEF Send
      <4>2. /\ UNCHANGED <<client, connected, subs, topic, link, net, todo>>
            /\ pc' = [pc EXCEPT ![Owner] = "subscribe"]
        BY <3>3 DEF Send, paho
      <4>3. link[client] = "up" => sub'[client][topic] # "no"
        BY <4>1 DEF SubscribeNow
      <4>4. \A u \in Topics : sub[client][u] # "no" => sub'[client][u] # "no"
        BY <4>1, SubscribeKeepsGrants
      <4>5. FlagUp' /\ SendsToClient'
        BY <3>3, <4>2 DEF Send
      <4>6. AllAsked'
        <5> SUFFICES ASSUME NEW c \in Clients, NEW t \in Topics, t \in subs,
                            client = c, link[c] = "up",
                            net[c] \in {"idle", "resub", "suback", "confirm"}
                     PROVE  Asked(c, t)'
          BY <4>2
        <5>1. Asked(c, t)
          OBVIOUS
        <5>2. UNCHANGED <<net, todo>>
          BY <4>2
        <5> QED
          BY <5>1, <5>2, <4>3, <4>4
      <4> QED
        BY <4>5, <4>6
    <3>4. CASE Serve
      BY <3>4 DEF Serve, wrapper, paho, broker
    <3> QED
      BY <2>3, <3>1, <3>2, <3>3, <3>4 DEF Subscribing
  <2>4. CASE Close
    BY <2>4 DEF Close, paho, broker
  <2>5. CASE Repair
    BY <2>5 DEF Repair, wrapper, paho, broker, Repairers
  <2>6. CASE Beat \/ StartClock \/ NetworkBack \/ Finished
    BY <2>1, <2>6 DEF Beat, StartClock, NetworkBack, Finished, wrapper, locals, paho, broker, vars
  <2>7. ASSUME NEW p \in Threads, Disconnecting(p) PROVE Asking'
    <3>1. Serving
      BY <2>7 DEF Disconnecting, Drop, Clear, Unbind, Join, Threads
    <3>2. CASE Drop(p)
      BY <3>1, <3>2 DEF Drop, paho, broker
    <3>3. CASE Clear(p)
      BY <3>1, <3>3 DEF Clear, AfterDisconnect, paho, broker
    <3>4. CASE Unbind(p)
      BY <3>1, <3>4 DEF Unbind, wrapper, broker
    <3>5. CASE Join(p)
      <4>1. old[p] \in Clients
        BY <3>5 DEF Join, Ownership, NoneMeanwhile
      <4> QED
        BY <3>1, <3>5, <4>1 DEF Join, wrapper, AfterDisconnect
    <3> QED
      BY <2>7, <3>2, <3>3, <3>4, <3>5 DEF Disconnecting
  <2>8. ASSUME NEW p \in Threads, Connecting(p) PROVE Asking'
    <3>1. pc[Owner] \notin {"look", "send"}
      BY <2>8 DEF Connecting, CheckClosed, New, Start, Threads
    <3>2. Serving' <=> Serving
      BY <2>8 DEF Connecting, CheckClosed, New, Start, Return, Threads
    <3>3. pc'[Owner] \notin {"look", "send"}
      BY <2>8, <3>1 DEF Connecting, CheckClosed, New, Start, Return
    <3>4. CASE CheckClosed(p)
      BY <3>1, <3>2, <3>3, <3>4 DEF CheckClosed, paho, broker
    <3>5. CASE New(p)
      BY <3>1, <3>2, <3>3, <3>5 DEF New, broker
    <3>6. CASE Start(p)
      BY <3>1, <3>2, <3>3, <3>6 DEF Start, broker
    <3> QED
      BY <2>8, <3>4, <3>5, <3>6 DEF Connecting
  <2>9. ASSUME NEW p \in Repairers, TakeLock(p) PROVE Asking'
    BY <2>1, <2>9 DEF TakeLock, paho, broker
  <2>10. ASSUME NEW p \in Publishers, Publish(p) \/ Handover(p) \/ Publishing(p) PROVE Asking'
    <3>0. p \in Repairers
      BY DEF Repairers
    <3>1. /\ UNCHANGED <<client, subs, topic, link, net, todo, sub>>
          /\ pc'[Owner] = pc[Owner]
      BY <2>10, <3>0 DEF Publish, Handover, Publishing, RefreshRead, RefreshWrite, Republish,
                         wrapper, paho, broker
    <3>2. Serving
      BY <2>10, <3>0 DEF Publish, Handover, Publishing, RefreshRead, RefreshWrite, Republish
    <3> QED
      BY <3>1, <3>2
  <2>11. ASSUME NEW c \in Clients,
                Connack(c) \/ ConnectionLost(c) \/ Suback(c) \/ HandleEcho(c) \/ Callback(c)
         PROVE Asking'
    <3>0. UNCHANGED <<client, subs, pc, topic>>
      BY <2>11 DEF Connack, ConnectionLost, Suback, HandleEcho, Callback, HandleConnect, Greet,
                   Resubscribe, Resubscribed, HandleDisconnect, ForgetConfirmed, HandleSubscribe,
                   Confirm, wrapper, locals
    <3>1. CASE Connack(c)
      BY <3>0, <3>1 DEF Connack, Free, wrapper, broker
    <3>2. CASE ConnectionLost(c)
      BY <3>0, <3>2 DEF ConnectionLost, Free, wrapper
    <3>3. CASE Suback(c)
      <4>1. /\ \A d \in Clients, u \in Topics : sub[d][u] # "no" => sub'[d][u] # "no"
            /\ net[c] = "idle" /\ net' = [net EXCEPT ![c] = "suback"]
            /\ UNCHANGED <<connected, link>>
            /\ \A d \in Clients : d # c => todo'[d] = todo[d]
        BY <3>3 DEF Suback, Free, wrapper
      <4> QED
        BY <3>0, <4>1
    <3>4. CASE HandleEcho(c)
      BY <2>1, <3>0, <3>4 DEF HandleEcho, wrapper, paho
    <3>5. CASE HandleConnect(c)
      BY <3>0, <3>5 DEF HandleConnect, broker
    <3>6. CASE Greet(c)
      BY <3>0, <3>6 DEF Greet, broker
    <3>7. CASE Resubscribe(c)
      <4>1. PICK t \in Topics : SubscribeNow(c, t) /\ todo' = [todo EXCEPT ![c] = @ \ {t}]
        BY <3>7 DEF Resubscribe
      <4>2. UNCHANGED <<connected, link, net>> /\ net[c] = "resub"
        BY <3>7 DEF Resubscribe
      <4>3. \A d \in Clients, u \in Topics : sub[d][u] # "no" => sub'[d][u] # "no"
        BY <4>1, SubscribeKeepsGrants
      <4>4. link[c] = "up" => sub'[c][t] # "no"
        BY <4>1 DEF SubscribeNow
      <4> QED
        BY <3>0, <4>1, <4>2, <4>3, <4>4
    <3>8. CASE Resubscribed(c)
      BY <3>0, <3>8 DEF Resubscribed, wrapper, broker
    <3>9. CASE HandleDisconnect(c)
      <4>1. link[c] = "down" /\ UNCHANGED <<link, todo, sub>>
        BY <3>9 DEF HandleDisconnect, broker
      <4>2. /\ \A d \in Clients : d # c => net'[d] = net[d]
            /\ client # c => UNCHANGED connected
        BY <3>9 DEF HandleDisconnect
      <4> QED
        BY <3>0, <4>1, <4>2
    <3>10. CASE ForgetConfirmed(c)
      BY <3>0, <3>10 DEF ForgetConfirmed, broker
    <3>11. CASE HandleSubscribe(c)
      BY <3>0, <3>11 DEF HandleSubscribe, broker
    <3>12. CASE Confirm(c)
      BY <3>0, <3>12 DEF Confirm, broker
    <3> QED
      BY <2>11, <3>1, <3>2, <3>3, <3>4, <3>5, <3>6, <3>7, <3>8, <3>9, <3>10, <3>11, <3>12
         DEF Callback
  <2>12. CASE Misfortune
    <3>1. UNCHANGED <<client, connected, subs, topic, pc, link, net, todo>>
      BY <2>12 DEF Misfortune, wrapper, locals
    <3>2. \A c \in Clients, t \in Topics : sub[c][t] # "no" => sub'[c][t] # "no"
      <4>1. \/ sub' = sub
            \/ \E c \in Clients, t \in Topics : sub' = [sub EXCEPT ![c][t] = "refused"]
        BY <2>12 DEF Misfortune
      <4> QED
        BY <4>1
    <3> QED
      BY <3>1, <3>2
  <2> QED
    BY <2>2, <2>3, <2>4, <2>5, <2>6, <2>7, <2>8, <2>9, <2>10, <2>11, <2>12 DEF Next
<1> QED
  BY <1>1, <1>2, TypeCorrect, OwnershipHolds, SessionsHold, PTL DEF Spec, Sessions

(* Once a connection is up and its callbacks are done, every topic that has *)
(* been registered has been asked for.                                      *)
THEOREM NoTopicIsForgotten == Spec => []EveryTopicAsked
<1>1. Asking => EveryTopicAsked
  BY DEF Asking, AllAsked, Asked, EveryTopicAsked
<1> QED
  BY <1>1, AskingHolds, PTL
=============================================================================
