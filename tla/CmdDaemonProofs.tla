--------------------------- MODULE CmdDaemonProofs ---------------------------
(***************************************************************************)
(* Proofs about CmdDaemon, for any commands, any number of phases and any  *)
(* number of failures.                                                     *)
(***************************************************************************)
EXTENDS CmdDaemon, TLAPS

USE CommandAssumption, BoundAssumption, AutoAssumption

(* Outside the idle loop there is a phase. *)
PhaseBegun == pc \notin {"idle", "exited"} => phase \in Phases

-----------------------------------------------------------------------------
(* Types.  The three parts of Next in turn.                                 *)

LEMMA PutKeepsTypes ==
  ASSUME queue \in [Phases -> Seq(Jobs)], NEW w \in Phases, NEW j \in Jobs, Put(w, j)
  PROVE  queue' \in [Phases -> Seq(Jobs)]
<1>1. Append(queue[w], j) \in Seq(Jobs)
  OBVIOUS
<1>2. QED
  BY <1>1 DEF Put

LEMMA JobsAreJobs ==
  /\ Job("stop", None) \in Jobs
  /\ Job("ack", None) \in Jobs
  /\ Job("uploads", None) \in Jobs
  /\ \A c \in Cmds : Job("execute", c) \in Jobs
BY DEF Job, Jobs

LEMMA MainKeepsTypes ==
  ASSUME TypeOK, PhaseBegun,
         Begin \/ Connect \/ Bind \/ Watchdog \/ Teardown \/ Exit \/ Crash \/ Restart
  PROVE  TypeOK'
<1> USE DEF TypeOK, mainVars, envVars, workerVars, execVars, leaveVars, cmdVars
<1>0. pc \notin {"idle", "exited"} => phase \in Phases
  BY DEF PhaseBegun
<1>1. CASE Begin
  <2>1. phase' \in 0 .. MaxPhases
    BY <1>1 DEF Begin
  <2>2. worker' \in [Phases -> WorkerPlaces] /\ pc' \in Places
    BY <1>1 DEF Begin, WorkerPlaces, Places
  <2>3. stale' \in BOOLEAN
    BY <1>1 DEF Begin
  <2>4. /\ UNCHANGED <<active, stopping, online, faults, webdav, bound, job, queue, retry, queued>>
        /\ UNCHANGED <<offline, files, abandoned, status, photo, acked, arrival>>
    BY <1>1 DEF Begin
  <2>5. QED
    BY <2>1, <2>2, <2>3, <2>4
<1>2. CASE Connect
  BY <1>2 DEF Connect, Places
<1>3. CASE Bind
  BY <1>3 DEF Bind, Places
<1>4. CASE Watchdog
  <2>1. pc' \in Places
    BY <1>4 DEF Watchdog, Places
  <2>0. phase \in Phases
    BY <1>0, <1>4 DEF Watchdog
  <2>a. CASE UNCHANGED <<execVars, queue>>
    BY <2>1, <2>a, <1>4 DEF Watchdog
  <2>b. ASSUME NEW due \in BOOLEAN, NEW back \in BOOLEAN,
               offline' = [offline EXCEPT ![phase] = ~online],
               retry' = [retry EXCEPT ![phase] = IF back THEN "due" ELSE @],
               queued' = [queued EXCEPT ![phase] = due],
               IF due THEN Put(phase, Job("uploads", None)) ELSE UNCHANGED queue
        PROVE  TypeOK'
    <3>1. offline' \in [Phases -> BOOLEAN]
      <4>1. CASE online = TRUE
        <5>1. offline' = [offline EXCEPT ![phase] = FALSE]
          BY <2>b, <4>1, Zenon
        <5>2. QED
          BY <5>1, Zenon
      <4>2. CASE online = FALSE
        <5>1. offline' = [offline EXCEPT ![phase] = TRUE]
          BY <2>b, <4>2, Zenon
        <5>2. QED
          BY <5>1, Zenon
      <4>3. QED
        BY <4>1, <4>2, Zenon
    <3>2. retry' \in [Phases -> {"due", "later"}]
      BY <2>b
    <3>3. queued' \in [Phases -> BOOLEAN]
      BY <2>b, Zenon
    <3>4. queue' \in [Phases -> Seq(Jobs)]
      BY <2>0, <2>b, PutKeepsTypes, JobsAreJobs
    <3>5. /\ UNCHANGED <<phase, active, stale, stopping, online, faults, webdav, bound, worker>>
          /\ UNCHANGED <<job, files, abandoned, status, photo, acked, arrival>>
      BY <1>4 DEF Watchdog
    <3>6. QED
      BY <2>1, <3>1, <3>2, <3>3, <3>4, <3>5
  <2>c. CASE CheckUploads /\ ~(queued[phase] \/ PendingUploads = {})
    <3> DEFINE back == online /\ offline[phase]
               due == (online \/ AutoData) /\ (back \/ retry[phase] = "due")
    <3>1. back \in BOOLEAN /\ due \in BOOLEAN
      BY Zenon
    <3>2. /\ offline' = [offline EXCEPT ![phase] = ~online]
          /\ retry' = [retry EXCEPT ![phase] = IF back THEN "due" ELSE @]
          /\ queued' = [queued EXCEPT ![phase] = due]
          /\ IF due THEN Put(phase, Job("uploads", None)) ELSE UNCHANGED queue
      BY <2>c DEF CheckUploads
    <3> HIDE DEF back, due
    <3>3. QED
      BY <2>b, <3>1, <3>2
  <2>d. QED
    BY <1>4, <2>a, <2>c DEF Watchdog, CheckUploads
<1>5. CASE Teardown
  <2>1. CASE Stop
    <3>1. queue' \in [Phases -> Seq(Jobs)]
      BY <1>0, <2>1, PutKeepsTypes, JobsAreJobs DEF Stop
    <3>2. pc' \in Places
      BY <2>1 DEF Stop, Places
    <3>3. /\ UNCHANGED <<phase, active, stale, stopping, online, faults, webdav, bound, worker>>
          /\ UNCHANGED <<job, files, execVars, abandoned, status, photo, acked, arrival>>
      BY <2>1 DEF Stop
    <3>4. QED
      BY <3>1, <3>2, <3>3
  <2>2. CASE Join
    <3>1. abandoned' \subseteq Phases /\ pc' \in Places
      BY <1>0, <2>2 DEF Join, Places
    <3>2. /\ UNCHANGED <<phase, active, stale, stopping, online, faults, webdav, bound, worker>>
          /\ UNCHANGED <<job, files, execVars, queue, status, photo, acked, arrival>>
      BY <2>2 DEF Join
    <3>3. QED
      BY <3>1, <3>2
  <2>3. CASE Unbind
    BY <2>3 DEF Unbind, Places
  <2>4. CASE Close
    BY <2>4 DEF Close, Places
  <2>5. QED
    BY <1>5, <2>1, <2>2, <2>3, <2>4 DEF Teardown
<1>6. CASE Exit
  BY <1>6 DEF Exit, ProcessEnds, Places, WorkerPlaces
<1>7. CASE Crash
  BY <1>7 DEF Crash, ProcessEnds, Fault, Places, WorkerPlaces
<1>8. CASE Restart
  BY <1>8 DEF Restart, Places
<1>9. QED
  BY <1>1, <1>2, <1>3, <1>4, <1>5, <1>6, <1>7, <1>8

LEMMA ArrivalsKeepTypes ==
  ASSUME TypeOK, PhaseBegun,
         NEW c \in Cmds, OnMqttCommand(c) \/ OnSmsCommand(c)
  PROVE  TypeOK'
<1> USE DEF TypeOK, mainVars, envVars, workerVars, execVars, leaveVars, cmdVars
<1>1. phase \in Phases
  BY DEF PhaseBegun, OnMqttCommand, OnSmsCommand, Connected
<1>2. queue' \in [Phases -> Seq(Jobs)]
  BY <1>1, PutKeepsTypes, JobsAreJobs DEF OnMqttCommand, OnSmsCommand, Accept
<1>3. status' \in [Cmds -> {"unsent", "refused", "accepted", "running", "executed", "lost"}]
  BY DEF OnMqttCommand, OnSmsCommand, Accept
<1>4. arrival' \in Seq(Arrivals)
  <2> DEFINE a == [cmd |-> c, phase |-> phase, when |-> When]
  <2>1. a \in Arrivals
    BY <1>1 DEF Arrivals, When
  <2>2. arrival' = arrival \/ arrival' = Append(arrival, a)
    BY DEF OnMqttCommand, OnSmsCommand, Accept
  <2> HIDE DEF a
  <2>3. Append(arrival, a) \in Seq(Arrivals)
    BY <2>1
  <2>4. QED
    BY <2>2, <2>3
<1>5. /\ UNCHANGED <<pc, phase, active, stale, stopping, online, faults, webdav, worker, job>>
      /\ UNCHANGED <<files, retry, queued, offline, bound, abandoned, photo, acked>>
  BY DEF OnMqttCommand, OnSmsCommand
<1>6. QED
  BY <1>2, <1>3, <1>4, <1>5

LEMMA WorkerKeepsTypes ==
  ASSUME TypeOK, NEW w \in Phases, WorkerStep(w)
  PROVE  TypeOK'
<1> USE DEF TypeOK, WorkerPlaces, GoTo,
            mainVars, envVars, workerVars, execVars, leaveVars, cmdVars
<1>1. CASE Take(w)
  <2>1. Head(queue[w]) \in Jobs /\ Tail(queue[w]) \in Seq(Jobs)
    BY <1>1 DEF Take
  <2>2. worker' \in [Phases -> WorkerPlaces]
    BY <1>1, <2>1 DEF Take, Jobs
  <2>3. job' \in [Phases -> Cmds \cup {None}]
    BY <1>1, <2>1 DEF Take, Jobs
  <2>4. status' \in [Cmds -> {"unsent", "refused", "accepted", "running", "executed", "lost"}]
    BY <1>1 DEF Take
  <2>5. queue' \in [Phases -> Seq(Jobs)]
    BY <1>1, <2>1 DEF Take
  <2>6. /\ UNCHANGED <<pc, phase, active, stale, stopping, online, faults, webdav, files>>
        /\ UNCHANGED <<retry, queued, offline, bound, abandoned, photo, acked, arrival>>
    BY <1>1 DEF Take
  <2>7. QED
    BY <2>2, <2>3, <2>4, <2>5, <2>6
<1>2. CASE Execute(w)
  BY <1>2 DEF Execute, Executed
<1>3. CASE Capture(w)
  BY <1>3 DEF Capture
<1>4. CASE Upload(w)
  <2>1. photo' \in [Cameras -> {"none", "taken", "pending", "uploaded"}]
    BY <1>4 DEF Upload
  <2>2. retry' \in [Phases -> {"due", "later"}]
    BY <1>4 DEF Upload
  <2>3. faults' \in 0 .. MaxFaults
    BY <1>4 DEF Upload, UploadFails, Fault
  <2>4. /\ worker' \in [Phases -> WorkerPlaces]
        /\ status' \in [Cmds -> {"unsent", "refused", "accepted", "running", "executed", "lost"}]
    BY <1>4 DEF Upload, Executed
  <2>5. /\ UNCHANGED <<pc, phase, active, stale, stopping, online, webdav, job, files>>
        /\ UNCHANGED <<queued, offline, bound, abandoned, queue, acked, arrival>>
    BY <1>4 DEF Upload
  <2>6. QED
    BY <2>1, <2>2, <2>3, <2>4, <2>5
<1>5. CASE Ack(w)
  BY <1>5 DEF Ack
<1>6. CASE SendAck(w)
  BY <1>6 DEF SendAck
<1>7. CASE ListUploads(w)
  <2>0. \/ files' = [files EXCEPT ![w] = PendingUploads] /\ GoTo(w, "each")
        \/ files' = [files EXCEPT ![w] = {}] /\ GoTo(w, "free")
    BY <1>7 DEF ListUploads, RetryEnds
  <2>1. worker' \in [Phases -> WorkerPlaces]
    BY <2>0
  <2>a. PendingUploads \in SUBSET Cameras /\ {} \in SUBSET Cameras
    BY DEF PendingUploads
  <2>b. files' \in [Phases -> SUBSET Cameras]
    BY <2>0, <2>a, Zenon
  <2>2. retry' \in [Phases -> {"due", "later"}]
    BY <1>7 DEF ListUploads
  <2>3. queued' \in [Phases -> BOOLEAN]
    <3>1. queued' = queued \/ queued' = [queued EXCEPT ![w] = FALSE]
      BY <1>7 DEF ListUploads, RetryEnds
    <3>2. QED
      BY <3>1, Zenon
  <2>4. /\ UNCHANGED <<pc, phase, active, stale, stopping, online, faults, webdav, job, status>>
        /\ UNCHANGED <<photo, offline, bound, abandoned, queue, acked, arrival>>
    BY <1>7 DEF ListUploads
  <2>5. QED
    BY <2>1, <2>b, <2>2, <2>3, <2>4
<1>8. CASE UploadPending(w)
  <2>0. PICK f \in files[w] :
          \/ /\ RetryEnds(w)
             /\ UNCHANGED <<photo, retry, faults>>
          \/ /\ photo' = [photo EXCEPT ![f] = "uploaded"]
             /\ files' = [files EXCEPT ![w] = @ \ {f}]
             /\ UNCHANGED <<worker, queued, retry, faults>>
          \/ /\ UploadFails
             /\ retry' = [retry EXCEPT ![w] = "later"]
             /\ RetryEnds(w)
             /\ UNCHANGED photo
    BY <1>8 DEF UploadPending
  <2>1. photo' \in [Cameras -> {"none", "taken", "pending", "uploaded"}]
    BY <2>0
  <2>2. retry' \in [Phases -> {"due", "later"}]
    BY <2>0
  <2>3. faults' \in 0 .. MaxFaults
    BY <2>0 DEF UploadFails, Fault
  <2>4. worker' \in [Phases -> WorkerPlaces]
    BY <2>0 DEF RetryEnds
  <2>5. files' \in [Phases -> SUBSET Cameras]
    <3>1. \/ files' = files
          \/ \E S \in SUBSET Cameras : files' = [files EXCEPT ![w] = S]
      <4>1. {} \in SUBSET Cameras /\ files[w] \ {f} \in SUBSET Cameras
        OBVIOUS
      <4>2. \/ files' = files \/ files' = [files EXCEPT ![w] = {}]
            \/ files' = [files EXCEPT ![w] = files[w] \ {f}]
        BY <2>0 DEF RetryEnds
      <4>3. QED
        BY <4>1, <4>2, Zenon
    <3>2. files \in [Phases -> SUBSET Cameras]
      OBVIOUS
    <3>3. QED
      BY <3>1, <3>2, Zenon
  <2>6. queued' \in [Phases -> BOOLEAN]
    <3>1. queued' = queued \/ queued' = [queued EXCEPT ![w] = FALSE]
      BY <2>0 DEF RetryEnds
    <3>2. QED
      BY <3>1, Zenon
  <2>7. /\ UNCHANGED <<pc, phase, active, stale, stopping, online, webdav, job, status>>
        /\ UNCHANGED <<offline, bound, abandoned, queue, acked, arrival>>
    BY <1>8 DEF UploadPending
  <2>8. QED
    BY <2>1, <2>2, <2>3, <2>4, <2>5, <2>6, <2>7
<1>9. CASE UploadsDone(w)
  BY <1>9 DEF UploadsDone, RetryEnds
<1>10. QED
  BY <1>1, <1>2, <1>3, <1>4, <1>5, <1>6, <1>7, <1>8, <1>9 DEF WorkerStep

LEMMA WorldKeepsTypes ==
  ASSUME TypeOK,
         Save \/ Terminate \/ NetworkLost \/ NetworkBack
           \/ \E w \in Phases : RetryDue(w)
  PROVE  TypeOK'
<1> USE DEF TypeOK, mainVars, envVars, workerVars, execVars, leaveVars, cmdVars
<1>1. CASE Save
  BY <1>1 DEF Save
<1>2. CASE Terminate
  BY <1>2 DEF Terminate
<1>3. CASE NetworkLost
  <2>0. online' = FALSE /\ Fault
    BY <1>3, Zenon DEF NetworkLost
  <2>1. faults' \in 0 .. MaxFaults
    BY <2>0 DEF Fault
  <2>a. online' \in BOOLEAN
    BY <2>0, Zenon
  <2>2. /\ UNCHANGED <<pc, phase, active, stale, stopping, webdav, bound, queue, worker, job>>
        /\ UNCHANGED <<files, retry, queued, offline, abandoned, status, photo, acked, arrival>>
    BY <1>3 DEF NetworkLost
  <2>3. QED
    BY <2>1, <2>a, <2>2
<1>4. CASE NetworkBack
  BY <1>4 DEF NetworkBack
<1>5. ASSUME NEW w \in Phases, RetryDue(w)
      PROVE  TypeOK'
  BY <1>5 DEF RetryDue
<1>6. QED
  BY <1>1, <1>2, <1>3, <1>4, <1>5

LEMMA TypesHold ==
  ASSUME TypeOK, PhaseBegun, [Next]_vars
  PROVE  TypeOK'
<1>1. CASE UNCHANGED vars
  BY <1>1 DEF TypeOK, vars, mainVars, envVars, workerVars, execVars, leaveVars, cmdVars
<1>2. QED
  BY <1>1, MainKeepsTypes, ArrivalsKeepTypes, WorkerKeepsTypes, WorldKeepsTypes DEF Next

LEMMA PhaseStaysBegun ==
  ASSUME TypeOK, PhaseBegun, [Next]_vars
  PROVE  PhaseBegun'
<1> USE DEF TypeOK, PhaseBegun, Phases
<1>1. CASE Begin
  BY <1>1 DEF Begin
<1>2. CASE Exit \/ Crash
  BY <1>2 DEF Exit, Crash, ProcessEnds
<1>3. CASE Restart
  BY <1>3 DEF Restart
<1>4. CASE Connect \/ Bind \/ Watchdog \/ Teardown
  BY <1>4 DEF Connect, Bind, Watchdog, Teardown, Stop, Join, Unbind, Close
<1>5. ASSUME UNCHANGED <<pc, phase>>
      PROVE  PhaseBegun'
  BY <1>5
<1>6. CASE Save \/ Terminate \/ NetworkLost \/ NetworkBack
  BY <1>5, <1>6 DEF Save, Terminate, NetworkLost, NetworkBack, mainVars
<1>7. ASSUME NEW c \in Cmds, OnMqttCommand(c) \/ OnSmsCommand(c)
      PROVE  PhaseBegun'
  BY <1>5, <1>7 DEF OnMqttCommand, OnSmsCommand, mainVars
<1>8. ASSUME NEW w \in Phases, WorkerStep(w) \/ RetryDue(w)
      PROVE  PhaseBegun'
  BY <1>5, <1>8 DEF WorkerStep, RetryDue, Take, Execute, Capture, Upload, Ack, SendAck,
                    ListUploads, UploadPending, UploadsDone, mainVars
<1>9. CASE UNCHANGED vars
  BY <1>5, <1>9 DEF vars, mainVars
<1>10. QED
  BY <1>1, <1>2, <1>3, <1>4, <1>6, <1>7, <1>8, <1>9 DEF Next
-----------------------------------------------------------------------------
(* The retry job and its flag.                                              *)

UploadsAgree(w) ==
  /\ \A i \in DOMAIN queue[w] : IsUploads(w, i) => queued[w] /\ ~Retrying(w)
  /\ Retrying(w) => queued[w]
  /\ \A i, j \in DOMAIN queue[w] : IsUploads(w, i) /\ IsUploads(w, j) => i = j

(* A step that leaves the queue, the flag and the retry job of w alone. *)
LEMMA UploadsFrame ==
  ASSUME NEW w \in Phases, UploadsAgree(w),
         queue'[w] = queue[w], queued'[w] = queued[w],
         worker'[w] \in {"list", "each"} <=> worker[w] \in {"list", "each"}
  PROVE  UploadsAgree(w)'
BY DEF UploadsAgree, IsUploads, Retrying

(* Another kind of job is put into the queue. *)
LEMMA OtherJobPut ==
  ASSUME TypeOK, NEW w \in Phases, UploadsAgree(w),
         NEW v \in Phases, NEW j \in Jobs, j.kind # "uploads",
         Put(v, j), queued' = queued, worker' = worker
  PROVE  UploadsAgree(w)'
<1> USE DEF TypeOK
<1>1. CASE v # w
  BY <1>1, UploadsFrame DEF Put
<1>2. CASE v = w
  <2>1. queue[w] \in Seq(Jobs) /\ queue'[w] = Append(queue[w], j)
    BY <1>2 DEF Put
  <2>2. \A i \in DOMAIN queue'[w] :
          queue'[w][i].kind = "uploads" => i \in DOMAIN queue[w] /\ queue'[w][i] = queue[w][i]
    BY <2>1
  <2>3. QED
    BY <2>1, <2>2 DEF UploadsAgree, IsUploads, Retrying
<1>3. QED
  BY <1>1, <1>2

LEMMA WatchdogKeepsAgreement ==
  ASSUME TypeOK, PhaseBegun, Watchdog, NEW w \in Phases, UploadsAgree(w)
  PROVE  UploadsAgree(w)'
<1> USE DEF TypeOK
<1>0. phase \in Phases /\ worker' = worker
  BY DEF PhaseBegun, Watchdog, workerVars
<1>1. CASE UNCHANGED <<execVars, queue>>
  BY <1>0, <1>1, UploadsFrame DEF execVars
<1>2. CASE CheckUploads /\ ~queued[phase] /\ PendingUploads # {}
  <2> DEFINE due == (online \/ AutoData) /\ ((online /\ offline[phase]) \/ retry[phase] = "due")
  <2>1. /\ queued' = [queued EXCEPT ![phase] = due]
        /\ IF due THEN Put(phase, Job("uploads", None)) ELSE UNCHANGED queue
    BY <1>2 DEF CheckUploads
  <2>2. CASE w # phase
    BY <1>0, <2>1, <2>2, UploadsFrame DEF Put
  <2>3. CASE w = phase /\ ~due
    <3>1. queue' = queue /\ queued'[w] = due
      BY <2>1, <2>3, <1>0
    <3>2. (queued'[w] <=> FALSE) /\ (queued[w] <=> FALSE)
      BY <3>1, <2>3, <1>2
    <3>3. QED
      BY <1>0, <3>1, <3>2 DEF UploadsAgree, IsUploads, Retrying
  <2>4. CASE w = phase /\ due
    <3>1. queue'[w] = Append(queue[w], Job("uploads", None)) /\ queued'[w]
      BY <2>1, <2>4, <1>0 DEF Put
    <3>2. \A i \in DOMAIN queue[w] : queue[w][i].kind # "uploads"
      BY <1>2, <2>4 DEF UploadsAgree, IsUploads
    <3>3. \A i \in DOMAIN queue'[w] :
            queue'[w][i].kind = "uploads" => i = Len(queue[w]) + 1
      BY <3>1, <3>2
    <3>4. ~Retrying(w) /\ ~Retrying(w)'
      BY <1>0, <1>2, <2>4 DEF UploadsAgree, Retrying
    <3>5. QED
      BY <3>1, <3>3, <3>4 DEF UploadsAgree, IsUploads
  <2>5. QED
    BY <2>2, <2>3, <2>4
<1>3. QED
  BY <1>1, <1>2 DEF Watchdog, CheckUploads, execVars

LEMMA TakeKeepsAgreement ==
  ASSUME TypeOK, NEW v \in Phases, Take(v), NEW w \in Phases, UploadsAgree(w)
  PROVE  UploadsAgree(w)'
<1> USE DEF TypeOK
<1>0. queued' = queued
  BY DEF Take, execVars
<1>1. CASE v # w
  BY <1>0, <1>1, UploadsFrame DEF Take, GoTo
<1>2. CASE v = w
  <2> DEFINE q == queue[w]
  <2>1. /\ q \in Seq(Jobs) /\ q # <<>>
        /\ queue'[w] = Tail(q)
        /\ worker[w] = "free"
    BY <1>2 DEF Take
  <2>2. worker'[w] \in {"list", "each"} <=> q[1].kind = "uploads"
    <3>1. q[1] \in Jobs /\ Head(q) = q[1]
      BY <2>1
    <3>2. worker'[w] = CASE q[1].kind = "stop" -> "exited"
                         [] q[1].kind = "execute" -> "execute"
                         [] q[1].kind = "ack" -> "ack"
                         [] q[1].kind = "uploads" -> "list"
      BY <1>2, <3>1 DEF Take, GoTo
    <3>3. q[1].kind \in {"execute", "ack", "uploads", "stop"}
      BY <3>1 DEF Jobs
    <3>4. QED
      BY <3>2, <3>3
  <2>3. \A i \in DOMAIN Tail(q) : i \in Nat /\ i + 1 \in DOMAIN q /\ Tail(q)[i] = q[i + 1] /\ i + 1 # 1
    BY <2>1
  <2>4. 1 \in DOMAIN q
    BY <2>1
  <2>5. \A i, j \in DOMAIN q : q[i].kind = "uploads" /\ q[j].kind = "uploads" => i = j
    BY DEF UploadsAgree, IsUploads
  <2>6. \A i \in DOMAIN q : q[i].kind = "uploads" => queued[w]
    BY DEF UploadsAgree, IsUploads
  <2> HIDE DEF q
  <2>7. /\ \A i \in DOMAIN Tail(q) : Tail(q)[i].kind = "uploads" =>
               queued[w] /\ worker'[w] \notin {"list", "each"}
        /\ \A i, j \in DOMAIN Tail(q) :
               Tail(q)[i].kind = "uploads" /\ Tail(q)[j].kind = "uploads" => i = j
        /\ worker'[w] \in {"list", "each"} => queued[w]
    BY <2>2, <2>3, <2>4, <2>5, <2>6
  <2>8. QED
    BY <1>0, <2>1, <2>7 DEF UploadsAgree, IsUploads, Retrying
<1>3. QED
  BY <1>1, <1>2

(* The retry job ends: nothing of its kind was waiting. *)
LEMMA EndKeepsAgreement ==
  ASSUME TypeOK, NEW v \in Phases, Retrying(v), RetryEnds(v), queue' = queue,
         NEW w \in Phases, UploadsAgree(w)
  PROVE  UploadsAgree(w)'
<1> USE DEF TypeOK
<1>1. CASE v # w
  BY <1>1, UploadsFrame DEF RetryEnds, GoTo
<1>2. CASE v = w
  <2>1. worker'[w] = "free"
    BY <1>2 DEF RetryEnds, GoTo
  <2>2. \A i \in DOMAIN queue[w] : ~IsUploads(w, i)
    BY <1>2 DEF UploadsAgree, Retrying
  <2>3. QED
    BY <2>1, <2>2 DEF UploadsAgree, Retrying, IsUploads
<1>3. QED
  BY <1>1, <1>2

LEMMA WorkerKeepsAgreement ==
  ASSUME TypeOK, NEW v \in Phases, WorkerStep(v), NEW w \in Phases, UploadsAgree(w)
  PROVE  UploadsAgree(w)'
<1> USE DEF TypeOK, GoTo, execVars
<1>1. CASE Take(v)
  BY <1>1, TakeKeepsAgreement
<1>2. CASE Execute(v) \/ Capture(v) \/ Upload(v) \/ Ack(v) \/ SendAck(v)
  <2>1. queue' = queue /\ queued' = queued
    BY <1>2 DEF Execute, Capture, Upload, Ack, SendAck
  <2>2. worker'[w] \in {"list", "each"} <=> worker[w] \in {"list", "each"}
    BY <1>2 DEF Execute, Capture, Upload, Ack, SendAck, Executed
  <2>3. QED
    BY <2>1, <2>2, UploadsFrame
<1>3. CASE ListUploads(v)
  <2>0. Retrying(v) /\ queue' = queue
    BY <1>3 DEF ListUploads, Retrying
  <2>1. CASE RetryEnds(v)
    BY <2>0, <2>1, EndKeepsAgreement
  <2>2. CASE GoTo(v, "each") /\ queued' = queued
    <3>1. worker'[w] \in {"list", "each"} <=> worker[w] \in {"list", "each"}
      BY <2>0, <2>2 DEF Retrying
    <3>2. QED
      BY <2>0, <2>2, <3>1, UploadsFrame
  <2>3. QED
    BY <1>3, <2>1, <2>2 DEF ListUploads
<1>4. CASE UploadPending(v)
  <2>1. Retrying(v) /\ queue' = queue
    BY <1>4 DEF UploadPending, Retrying
  <2>2. RetryEnds(v) \/ UNCHANGED <<worker, queued>>
    BY <1>4 DEF UploadPending
  <2>3. QED
    BY <2>1, <2>2, EndKeepsAgreement, UploadsFrame
<1>5. CASE UploadsDone(v)
  BY <1>5, EndKeepsAgreement DEF UploadsDone, Retrying
<1>6. QED
  BY <1>1, <1>2, <1>3, <1>4, <1>5 DEF WorkerStep

LEMMA AgreementHolds ==
  ASSUME TypeOK, PhaseBegun, [Next]_vars, NEW w \in Phases, UploadsAgree(w)
  PROVE  UploadsAgree(w)'
<1> USE DEF TypeOK, mainVars, envVars, workerVars, execVars, leaveVars, cmdVars
<1>1. CASE Begin
  <2>1. queue' = queue /\ queued' = queued
    BY <1>1 DEF Begin
  <2>2. CASE w = phase + 1
    BY <1>1, <2>1, <2>2 DEF Begin, UploadsAgree, IsUploads, Retrying
  <2>3. CASE w # phase + 1
    BY <1>1, <2>1, <2>3, UploadsFrame DEF Begin
  <2>4. QED
    BY <2>2, <2>3
<1>2. ASSUME UNCHANGED <<queue, queued, worker>>
      PROVE  UploadsAgree(w)'
  BY <1>2, UploadsFrame
<1>3. CASE Connect \/ Bind \/ Join \/ Unbind \/ Close \/ Restart
  BY <1>2, <1>3 DEF Connect, Bind, Join, Unbind, Close, Restart
<1>4. CASE Watchdog
  BY <1>4, WatchdogKeepsAgreement
<1>5. CASE Stop
  <2>1. phase \in Phases /\ queued' = queued /\ worker' = worker
    BY <1>5 DEF Stop, PhaseBegun
  <2>2. Put(phase, Job("stop", None)) /\ Job("stop", None).kind # "uploads"
    BY <1>5 DEF Stop, Job
  <2>3. QED
    BY <2>1, <2>2, OtherJobPut, JobsAreJobs
<1>6. CASE Exit \/ Crash
  BY <1>6 DEF Exit, Crash, ProcessEnds, UploadsAgree, IsUploads, Retrying
<1>7. CASE Save \/ Terminate \/ NetworkLost \/ NetworkBack
  BY <1>2, <1>7 DEF Save, Terminate, NetworkLost, NetworkBack
<1>8. ASSUME NEW c \in Cmds, OnMqttCommand(c) \/ OnSmsCommand(c)
      PROVE  UploadsAgree(w)'
  <2>1. phase \in Phases /\ queued' = queued /\ worker' = worker
    BY <1>8 DEF OnMqttCommand, OnSmsCommand, Connected, PhaseBegun
  <2>2. \/ queue' = queue
        \/ Put(phase, Job("execute", c))
        \/ Put(phase, Job("ack", None))
    BY <1>8 DEF OnMqttCommand, OnSmsCommand, Accept
  <2>3. Job("execute", c).kind # "uploads" /\ Job("ack", None).kind # "uploads"
    BY DEF Job
  <2>4. QED
    BY <1>2, <2>1, <2>2, <2>3, OtherJobPut, JobsAreJobs
<1>9. ASSUME NEW v \in Phases, WorkerStep(v)
      PROVE  UploadsAgree(w)'
  BY <1>9, WorkerKeepsAgreement
<1>10. ASSUME NEW v \in Phases, RetryDue(v)
       PROVE  UploadsAgree(w)'
  BY <1>2, <1>10 DEF RetryDue
<1>11. CASE UNCHANGED vars
  BY <1>2, <1>11 DEF vars
<1>12. QED
  BY <1>1, <1>3, <1>4, <1>5, <1>6, <1>7, <1>8, <1>9, <1>10, <1>11 DEF Next, Teardown

-----------------------------------------------------------------------------
(***************************************************************************)
(* The acks.  A worker that is not abandoned is the one of the current     *)
(* phase, and the executor has its client from the time the main loop      *)
(* starts to the time the worker has ended.  The sentinel is put behind    *)
(* what was accepted before it.                                            *)
(***************************************************************************)
Alive(w) == worker[w] \notin {"none", "exited"}
BeforeUnbind == {"connect", "bind", "serve", "sentinel", "join"}
BeforeStop == {"connect", "bind", "serve", "sentinel"}

WorkerIsCurrent ==
  \A w \in Phases : Alive(w) /\ w \notin abandoned => w = phase /\ pc \in BeforeUnbind

ClientIsBound == pc \in {"serve", "sentinel", "join"} => bound[phase]

NoStop(w) == \A i \in DOMAIN queue[w] : queue[w][i].kind # "stop"
NotStopped ==
  /\ pc \in BeforeStop => Alive(phase) /\ NoStop(phase)
  /\ \A w \in Phases : w > phase => queue[w] = <<>>

Discipline == WorkerIsCurrent /\ ClientIsBound /\ NotStopped

(* What came in time came to a phase whose executor has its client.         *)
Timely(a) == a.when = "timely" => a.phase # phase \/ pc \notin {"connect", "bind"}
TimelyWhenBound == \A i \in DOMAIN arrival : arrival[i].phase <= phase /\ Timely(arrival[i])

(* An accepted command waits before the sentinel, is in hand, or is acked.  *)
Waits(w, c) ==
  \E k \in DOMAIN queue[w] :
    queue[w][k] = Job("execute", c) /\ \A l \in 1 .. k : queue[w][l].kind # "stop"
InHand(w, c) == job[w] = c /\ worker[w] \in {"execute", "upload", "ack", "send"}
Handled(w, c) == c \in acked \/ (worker[w] # "exited" /\ (Waits(w, c) \/ InHand(w, c)))
AllHandled ==
  \A i \in DOMAIN arrival :
    /\ arrival[i].when = "timely"
    /\ arrival[i].phase \notin abandoned
    /\ worker[arrival[i].phase] # "none"
    => Handled(arrival[i].phase, arrival[i].cmd)

LEMMA OtherThanStopPut ==
  ASSUME queue \in [Phases -> Seq(Jobs)], NEW v \in Phases, NEW j \in Jobs,
         j.kind # "stop", Put(v, j), NEW w \in Phases, NoStop(w)
  PROVE  NoStop(w)'
<1>1. CASE v # w
  BY <1>1 DEF Put, NoStop
<1>2. CASE v = w
  <2>1. queue[w] \in Seq(Jobs) /\ queue'[w] = Append(queue[w], j)
    BY <1>2 DEF Put
  <2>2. \A i \in DOMAIN queue'[w] :
          queue'[w][i].kind = "stop" => i \in DOMAIN queue[w] /\ queue'[w][i] = queue[w][i]
    BY <2>1
  <2>3. QED
    BY <2>2 DEF NoStop
<1>3. QED
  BY <1>1, <1>2

(* The jobs that other threads put into the queue of the current phase.     *)
LEMMA PutKeepsNotStopped ==
  ASSUME TypeOK, phase \in Phases, NotStopped,
         NEW j \in Jobs, j.kind # "stop", Put(phase, j) \/ queue' = queue,
         pc' \in BeforeStop => pc \in BeforeStop,
         phase' = phase, worker' = worker
  PROVE  NotStopped'
<1> USE DEF TypeOK
<1>1. ASSUME NoStop(phase)
      PROVE  NoStop(phase)'
  <2>1. CASE queue' = queue
    BY <1>1, <2>1 DEF NoStop
  <2>2. CASE Put(phase, j)
    <3>1. \A w \in Phases : NoStop(w) => NoStop(w)'
      BY <2>2, OtherThanStopPut
    <3>2. QED
      BY <3>1, <1>1 DEF NoStop
  <2>3. QED
    BY <2>1, <2>2
<1>2. pc' \in BeforeStop => Alive(phase)' /\ NoStop(phase)'
  BY <1>1 DEF NotStopped, Alive
<1>3. ASSUME NEW w \in Phases, w > phase
      PROVE  queue'[w] = <<>>
  <2>1. queue[w] = <<>> /\ w # phase
    BY <1>3 DEF NotStopped, Phases
  <2>2. QED
    BY <2>1 DEF Put
<1>4. QED
  BY <1>2, <1>3 DEF NotStopped

LEMMA MainKeepsDiscipline ==
  ASSUME TypeOK, PhaseBegun, Discipline,
         Begin \/ Connect \/ Bind \/ Watchdog \/ Teardown \/ Exit \/ Crash \/ Restart
  PROVE  Discipline'
<1> USE DEF TypeOK, Discipline, mainVars, workerVars, leaveVars, BeforeUnbind, BeforeStop
<1>0. pc \notin {"idle", "exited"} => phase \in Phases
  BY DEF PhaseBegun
<1>1. CASE Begin
  <2>1. /\ pc = "idle" /\ pc' = "connect" /\ phase' = phase + 1 /\ phase + 1 \in Phases
        /\ worker' = [worker EXCEPT ![phase + 1] = "free"]
        /\ queue' = queue /\ abandoned' = abandoned
    BY <1>1 DEF Begin, Phases
  <2>2. WorkerIsCurrent'
    BY <2>1 DEF WorkerIsCurrent, Alive
  <2>3. queue[phase + 1] = <<>>
    BY <2>1 DEF NotStopped
  <2>4. Alive(phase)' /\ NoStop(phase)'
    BY <2>1, <2>3 DEF Alive, NoStop
  <2>5. \A w \in Phases : w > phase' => queue'[w] = <<>>
    BY <2>1 DEF NotStopped, Phases
  <2>6. QED
    BY <2>1, <2>2, <2>4, <2>5 DEF ClientIsBound, NotStopped
<1>2. CASE Connect
  BY <1>2 DEF Connect, WorkerIsCurrent, ClientIsBound, NotStopped, NoStop, Alive
<1>3. CASE Bind
  <2>1. /\ pc = "bind" /\ pc' = "serve" /\ phase \in Phases
        /\ UNCHANGED <<phase, worker, queue, abandoned>>
    BY <1>0, <1>3 DEF Bind
  <2>2. bound' = [bound EXCEPT ![phase] = TRUE]
    BY <1>3 DEF Bind
  <2>3. bound'[phase]
    BY <2>1, <2>2, Zenon
  <2>4. WorkerIsCurrent' /\ NotStopped'
    BY <2>1 DEF WorkerIsCurrent, NotStopped, NoStop, Alive
  <2>5. QED
    BY <2>1, <2>3, <2>4 DEF ClientIsBound
<1>4. CASE Watchdog
  <2>1. /\ pc = "serve" /\ pc' \in {"serve", "sentinel"} /\ phase \in Phases
        /\ UNCHANGED <<phase, worker, bound, abandoned>>
    BY <1>0, <1>4 DEF Watchdog
  <2>2. Put(phase, Job("uploads", None)) \/ queue' = queue
    BY <1>4 DEF Watchdog, CheckUploads
  <2>3. NotStopped'
    BY <2>1, <2>2, PutKeepsNotStopped, JobsAreJobs DEF Job
  <2>4. QED
    BY <2>1, <2>3 DEF WorkerIsCurrent, ClientIsBound, Alive
<1>5. CASE Stop
  <2>1. /\ pc = "sentinel" /\ pc' = "join" /\ phase \in Phases
        /\ Put(phase, Job("stop", None))
        /\ UNCHANGED <<phase, worker, bound, abandoned>>
    BY <1>0, <1>5 DEF Stop
  <2>2. \A w \in Phases : w > phase => queue'[w] = queue[w]
    BY <2>1 DEF Put, Phases
  <2>3. QED
    BY <2>1, <2>2 DEF WorkerIsCurrent, ClientIsBound, NotStopped, Alive
<1>6. CASE Join
  <2>1. /\ pc = "join" /\ pc' = "unbind"
        /\ abandoned' = IF worker[phase] = "exited" THEN abandoned ELSE abandoned \cup {phase}
        /\ UNCHANGED <<phase, worker, queue>>
    BY <1>6 DEF Join
  <2>2. QED
    BY <2>1 DEF WorkerIsCurrent, ClientIsBound, NotStopped, Alive
<1>7. CASE Unbind \/ Close \/ Restart
  <2>1. /\ pc \in {"unbind", "close", "exited"} /\ pc' \in {"close", "idle"}
        /\ UNCHANGED <<phase, worker, queue, abandoned>>
    BY <1>7 DEF Unbind, Close, Restart
  <2>2. QED
    BY <2>1 DEF WorkerIsCurrent, ClientIsBound, NotStopped, Alive
<1>8. CASE Exit \/ Crash
  <2>1. /\ pc' = "exited"
        /\ worker' = [w \in Phases |-> "none"] /\ queue' = [w \in Phases |-> <<>>]
    BY <1>8 DEF Exit, Crash, ProcessEnds
  <2>2. QED
    BY <2>1 DEF WorkerIsCurrent, ClientIsBound, NotStopped, Alive
<1>9. QED
  BY <1>1, <1>2, <1>3, <1>4, <1>5, <1>6, <1>7, <1>8 DEF Teardown

LEMMA WorkerKeepsDiscipline ==
  ASSUME TypeOK, PhaseBegun, Discipline, NEW v \in Phases, WorkerStep(v)
  PROVE  Discipline'
<1> USE DEF TypeOK, Discipline, mainVars, execVars, leaveVars, BeforeUnbind, BeforeStop
<1>0. UNCHANGED <<pc, phase, bound, abandoned>>
  BY DEF WorkerStep, Take, Execute, Capture, Upload, Ack, SendAck, ListUploads,
         UploadPending, UploadsDone
<1>1. pc \notin {"idle", "exited"} => phase \in Phases
  BY DEF PhaseBegun
<1>2. CASE Take(v)
  <2>1. /\ worker[v] = "free" /\ queue[v] \in Seq(Jobs) /\ queue[v] # <<>>
        /\ queue' = [queue EXCEPT ![v] = Tail(@)]
        /\ \A w \in Phases : w # v => worker'[w] = worker[w]
    BY <1>2 DEF Take, GoTo
  <2>2. Head(queue[v]) = queue[v][1] /\ queue[v][1] \in Jobs /\ 1 \in DOMAIN queue[v]
    BY <2>1
  <2>3. queue[v][1].kind # "stop" => worker'[v] \in {"execute", "ack", "list"}
    BY <1>2, <2>2 DEF Take, GoTo, Jobs
  <2>4. WorkerIsCurrent'
    BY <1>0, <2>1 DEF WorkerIsCurrent, Alive
  <2>5. ASSUME NoStop(v)
        PROVE  NoStop(v)' /\ worker'[v] \in {"execute", "ack", "list"}
    <3>1. \A i \in DOMAIN Tail(queue[v]) :
            i + 1 \in DOMAIN queue[v] /\ Tail(queue[v])[i] = queue[v][i + 1]
      BY <2>1
    <3>2. \A i \in DOMAIN Tail(queue[v]) : Tail(queue[v])[i].kind # "stop"
      BY <2>5, <3>1 DEF NoStop
    <3>3. QED
      BY <2>1, <2>2, <2>3, <2>5, <3>2 DEF NoStop
  <2>6. pc' \in BeforeStop => Alive(phase)' /\ NoStop(phase)'
    <3>1. CASE v = phase
      BY <1>0, <2>5, <3>1 DEF NotStopped, Alive
    <3>2. CASE v # phase
      BY <1>0, <1>1, <2>1, <3>2 DEF NotStopped, Alive, NoStop
    <3>3. QED
      BY <3>1, <3>2
  <2>7. \A w \in Phases : w > phase' => queue'[w] = <<>>
    BY <1>0, <2>1 DEF NotStopped
  <2>8. QED
    BY <1>0, <2>4, <2>6, <2>7 DEF ClientIsBound, NotStopped
<1>3. CASE ~Take(v)
  <2>1. queue' = queue /\ Alive(v)
    BY <1>3 DEF WorkerStep, Execute, Capture, Upload, Ack, SendAck, ListUploads, UploadPending,
                UploadsDone, Alive
  <2>2. \A w \in Phases : Alive(w)' <=> Alive(w)
    BY <1>3 DEF WorkerStep, Execute, Capture, Upload, Ack, SendAck, ListUploads, UploadPending,
                UploadsDone, Executed, RetryEnds, GoTo, Alive
  <2>3. QED
    BY <1>0, <1>1, <2>1, <2>2 DEF WorkerIsCurrent, ClientIsBound, NotStopped, NoStop
<1>4. QED
  BY <1>2, <1>3

LEMMA DisciplineHolds ==
  ASSUME TypeOK, PhaseBegun, Discipline, [Next]_vars
  PROVE  Discipline'
<1> USE DEF mainVars, workerVars, leaveVars
<1>1. CASE Begin \/ Connect \/ Bind \/ Watchdog \/ Teardown \/ Exit \/ Crash \/ Restart
  BY <1>1, MainKeepsDiscipline
<1>2. ASSUME NEW w \in Phases, WorkerStep(w)
      PROVE  Discipline'
  BY <1>2, WorkerKeepsDiscipline
<1>3. ASSUME NEW c \in Cmds, OnMqttCommand(c) \/ OnSmsCommand(c)
      PROVE  Discipline'
  <2>1. /\ phase \in Phases
        /\ UNCHANGED <<pc, phase, worker, bound, abandoned>>
    BY <1>3 DEF OnMqttCommand, OnSmsCommand, Connected, PhaseBegun
  <2>2. \/ Put(phase, Job("execute", c))
        \/ Put(phase, Job("ack", None))
        \/ queue' = queue
    BY <1>3 DEF OnMqttCommand, OnSmsCommand, Accept
  <2>3. Job("execute", c).kind # "stop" /\ Job("ack", None).kind # "stop"
    BY DEF Job
  <2>4. NotStopped'
    BY <2>1, <2>2, <2>3, PutKeepsNotStopped, JobsAreJobs DEF Discipline
  <2>5. QED
    BY <2>1, <2>4 DEF Discipline, WorkerIsCurrent, ClientIsBound, Alive
<1>4. ASSUME UNCHANGED <<pc, phase, worker, bound, abandoned, queue>>
      PROVE  Discipline'
  BY <1>4 DEF Discipline, WorkerIsCurrent, ClientIsBound, NotStopped, NoStop, Alive
<1>5. CASE Save \/ Terminate \/ NetworkLost \/ NetworkBack
  BY <1>4, <1>5 DEF Save, Terminate, NetworkLost, NetworkBack
<1>6. ASSUME NEW w \in Phases, RetryDue(w)
      PROVE  Discipline'
  BY <1>4, <1>6 DEF RetryDue
<1>7. CASE UNCHANGED vars
  BY <1>4, <1>7 DEF vars
<1>8. QED
  BY <1>1, <1>2, <1>3, <1>5, <1>6, <1>7 DEF Next

(* Steps that leave what worker w has and holds alone, or add to it.        *)
LEMMA HandledFrame ==
  ASSUME NEW w \in Phases, NEW c \in Cmds, Handled(w, c),
         acked \subseteq acked', worker'[w] = worker[w], job'[w] = job[w],
         Waits(w, c) => Waits(w, c)'
  PROVE  Handled(w, c)'
BY DEF Handled, InHand

LEMMA WaitingFrame ==
  ASSUME NEW w \in Phases, NEW c \in Cmds, queue'[w] = queue[w], Waits(w, c)
  PROVE  Waits(w, c)'
BY DEF Waits

LEMMA PutKeepsWaiting ==
  ASSUME TypeOK, NEW v \in Phases, NEW j \in Jobs, Put(v, j),
         NEW w \in Phases, NEW c \in Cmds, Waits(w, c)
  PROVE  Waits(w, c)'
<1> USE DEF TypeOK
<1>1. CASE v # w
  BY <1>1, WaitingFrame DEF Put
<1>2. CASE v = w
  <2>1. queue[w] \in Seq(Jobs) /\ queue'[w] = Append(queue[w], j)
    BY <1>2 DEF Put
  <2>2. PICK k \in DOMAIN queue[w] :
          queue[w][k] = Job("execute", c) /\ \A l \in 1 .. k : queue[w][l].kind # "stop"
    BY DEF Waits
  <2> DEFINE q == queue[w]
  <2>a. q \in Seq(Jobs) /\ k \in 1 .. Len(q) /\ Len(q) \in Nat
    BY <2>1, <2>2
  <2> HIDE DEF q
  <2>3. k \in DOMAIN Append(q, j) /\ \A l \in 1 .. k : Append(q, j)[l] = q[l]
    BY <2>a
  <2>4. k \in 1 .. k
    BY <2>a
  <2>5. QED
    BY <2>1, <2>2, <2>3, <2>4 DEF Waits, q
<1>3. QED
  BY <1>1, <1>2

(* A job that is put behind others of which none is the sentinel.           *)
LEMMA PutWaits ==
  ASSUME TypeOK, NEW w \in Phases, NEW c \in Cmds, NoStop(w), Put(w, Job("execute", c))
  PROVE  Waits(w, c)'
<1> USE DEF TypeOK
<1> DEFINE k == Len(queue[w]) + 1
<1>1. queue[w] \in Seq(Jobs) /\ queue'[w] = Append(queue[w], Job("execute", c))
  BY DEF Put
<1>2. k \in DOMAIN queue'[w] /\ queue'[w][k] = Job("execute", c)
  <2>1. k \in Nat /\ k > 0
    BY <1>1
  <2>2. DOMAIN queue'[w] = 1 .. k
    BY <1>1, JobsAreJobs
  <2>3. queue'[w][k] = Job("execute", c)
    BY <1>1, JobsAreJobs
  <2>4. QED
    BY <2>1, <2>2, <2>3
<1>3. \A l \in 1 .. k : l = k \/ (l \in DOMAIN queue[w] /\ queue'[w][l] = queue[w][l])
  <2>1. Len(queue[w]) \in Nat /\ DOMAIN queue[w] = 1 .. Len(queue[w])
    BY <1>1
  <2>2. \A l \in 1 .. k : l = k \/ l \in 1 .. Len(queue[w])
    BY <2>1
  <2>3. \A l \in 1 .. Len(queue[w]) : queue'[w][l] = queue[w][l]
    BY <1>1, JobsAreJobs
  <2>4. QED
    BY <2>1, <2>2, <2>3
<1>4. Job("execute", c).kind # "stop"
  BY DEF Job
<1>5. \A l \in 1 .. k : queue'[w][l].kind # "stop"
  BY <1>2, <1>3, <1>4 DEF NoStop
<1> HIDE DEF k
<1>6. QED
  BY <1>2, <1>5 DEF Waits

(* The worker takes the command, or a job that waits before it.             *)
LEMMA TakeKeepsHandled ==
  ASSUME TypeOK, NEW w \in Phases, NEW c \in Cmds, Handled(w, c), Take(w)
  PROVE  Handled(w, c)'
<1> USE DEF TypeOK
<1>1. /\ worker[w] = "free" /\ queue[w] \in Seq(Jobs) /\ queue[w] # <<>>
      /\ queue'[w] = Tail(queue[w]) /\ acked' = acked
      /\ job'[w] = Head(queue[w]).cmd
  BY DEF Take
<1>2. Head(queue[w]) = queue[w][1] /\ queue[w][1] \in Jobs
  BY <1>1
<1>3. /\ queue[w][1].kind # "stop" => worker'[w] \in {"execute", "ack", "list"}
      /\ queue[w][1].kind = "execute" => worker'[w] = "execute"
  BY <1>1, <1>2 DEF Take, GoTo, Jobs
<1>4. CASE c \in acked
  BY <1>1, <1>4 DEF Handled
<1>5. CASE Waits(w, c)
  <2>1. PICK k \in DOMAIN queue[w] :
          queue[w][k] = Job("execute", c) /\ \A l \in 1 .. k : queue[w][l].kind # "stop"
    BY <1>5 DEF Waits
  <2>2. CASE k = 1
    BY <1>1, <1>2, <1>3, <2>1, <2>2 DEF Handled, InHand, Job
  <2>3. CASE k # 1
    <3>1. /\ k - 1 \in DOMAIN Tail(queue[w]) /\ Tail(queue[w])[k - 1] = queue[w][k]
          /\ \A l \in 1 .. k - 1 : l + 1 \in 1 .. k /\ Tail(queue[w])[l] = queue[w][l + 1]
          /\ 1 \in 1 .. k
      <4>1. /\ k \in Nat /\ k > 1 /\ k <= Len(queue[w])
            /\ DOMAIN Tail(queue[w]) = 1 .. Len(queue[w]) - 1
        BY <1>1, <2>3
      <4>2. \A l \in 1 .. k - 1 : l \in Nat /\ l >= 1 /\ l <= Len(queue[w]) - 1
        BY <4>1
      <4>3. \A l \in 1 .. Len(queue[w]) - 1 : Tail(queue[w])[l] = queue[w][l + 1]
        BY <1>1
      <4>4. QED
        BY <1>1, <4>1, <4>2, <4>3
    <3>2. Waits(w, c)'
      <4>1. Tail(queue[w])[k - 1] = Job("execute", c)
        BY <2>1, <3>1
      <4>2. \A l \in 1 .. k - 1 : Tail(queue[w])[l].kind # "stop"
        BY <2>1, <3>1
      <4>3. QED
        BY <1>1, <3>1, <4>1, <4>2 DEF Waits
    <3>3. worker'[w] # "exited"
      BY <1>3, <2>1, <3>1
    <3>4. QED
      BY <3>2, <3>3 DEF Handled
  <2>4. QED
    BY <2>2, <2>3
<1>6. QED
  BY <1>1, <1>4, <1>5 DEF Handled, InHand

(* The worker of the current phase keeps a command in hand until its ack is *)
(* given to the client, which the executor has.                             *)
LEMMA WorkerKeepsHandled ==
  ASSUME TypeOK, Discipline, NEW v \in Phases, WorkerStep(v),
         NEW w \in Phases, NEW c \in Cmds, Handled(w, c), w \notin abandoned,
         w = phase => pc \notin {"connect", "bind"}
  PROVE  Handled(w, c)'
<1> USE DEF TypeOK, GoTo, cmdVars
<1>0. acked \subseteq acked'
  BY DEF WorkerStep, Take, Execute, Capture, Upload, Ack, SendAck, ListUploads, UploadPending,
         UploadsDone
<1>1. CASE v # w
  <2>1. worker'[w] = worker[w] /\ job'[w] = job[w] /\ queue'[w] = queue[w]
    BY <1>1 DEF WorkerStep, Take, Execute, Capture, Upload, Ack, SendAck, ListUploads,
                UploadPending, UploadsDone, Executed, RetryEnds
  <2>2. QED
    BY <1>0, <2>1, HandledFrame, WaitingFrame
<1>2. CASE v = w /\ Take(w)
  BY <1>2, TakeKeepsHandled
<1>3. CASE v = w /\ ~Take(w)
  <2>1. Alive(w) /\ worker'[w] # "exited" /\ queue' = queue
    BY <1>3 DEF WorkerStep, Execute, Capture, Upload, Ack, SendAck, ListUploads, UploadPending,
                UploadsDone, Executed, RetryEnds, Alive
  <2>2. Waits(w, c) => Waits(w, c)'
    BY <2>1, WaitingFrame
  <2>3. bound[w]
    BY <2>1 DEF Discipline, WorkerIsCurrent, ClientIsBound, BeforeUnbind
  <2>4. ASSUME InHand(w, c)
        PROVE  c \in acked' \/ InHand(w, c)'
    <3>1. CASE Execute(w) \/ Capture(w) \/ Upload(w)
      BY <2>4, <3>1 DEF Execute, Capture, Upload, Executed, InHand
    <3>2. CASE Ack(w)
      BY <2>3, <2>4, <3>2 DEF Ack, InHand
    <3>3. CASE SendAck(w)
      BY <2>3, <2>4, <3>3 DEF SendAck, InHand
    <3>4. CASE ListUploads(w) \/ UploadPending(w) \/ UploadsDone(w)
      BY <2>4, <3>4 DEF ListUploads, UploadPending, UploadsDone, InHand
    <3>5. QED
      BY <1>3, <3>1, <3>2, <3>3, <3>4 DEF WorkerStep
  <2>5. QED
    BY <1>0, <2>1, <2>2, <2>4 DEF Handled
<1>4. QED
  BY <1>1, <1>2, <1>3

LEMMA HandledHolds ==
  ASSUME TypeOK, PhaseBegun, Discipline, [Next]_vars,
         NEW w \in Phases, NEW c \in Cmds, Handled(w, c), w <= phase,
         w \notin abandoned', worker'[w] # "none",
         w = phase => pc \notin {"connect", "bind"}
  PROVE  Handled(w, c)'
<1> USE DEF TypeOK, mainVars, workerVars, execVars, leaveVars, cmdVars
<1>1. ASSUME acked' = acked, worker'[w] = worker[w], job' = job,
             queue' = queue \/ \E j \in Jobs : phase \in Phases /\ Put(phase, j)
      PROVE  Handled(w, c)'
  <2>1. Waits(w, c) => Waits(w, c)'
    BY <1>1, PutKeepsWaiting, WaitingFrame
  <2>2. QED
    BY <1>1, <2>1, HandledFrame
<1>2. CASE Begin
  <2>1. w # phase + 1
    BY DEF Phases
  <2>2. QED
    BY <1>1, <1>2, <2>1 DEF Begin
<1>3. CASE Connect \/ Bind \/ Join \/ Unbind \/ Close \/ Restart
  BY <1>1, <1>3 DEF Connect, Bind, Join, Unbind, Close, Restart
<1>4. CASE Watchdog \/ Stop
  <2>1. phase \in Phases /\ UNCHANGED <<acked, worker, job>>
    BY <1>4 DEF Watchdog, Stop, PhaseBegun
  <2>2. queue' = queue \/ Put(phase, Job("uploads", None)) \/ Put(phase, Job("stop", None))
    BY <1>4 DEF Watchdog, CheckUploads, Stop
  <2>3. QED
    BY <1>1, <2>1, <2>2, JobsAreJobs
<1>5. CASE Exit \/ Crash
  BY <1>5 DEF Exit, Crash, ProcessEnds
<1>6. ASSUME NEW d \in Cmds, OnMqttCommand(d) \/ OnSmsCommand(d)
      PROVE  Handled(w, c)'
  <2>1. phase \in Phases /\ UNCHANGED <<acked, worker, job>>
    BY <1>6 DEF OnMqttCommand, OnSmsCommand, Connected, PhaseBegun
  <2>2. queue' = queue \/ Put(phase, Job("execute", d)) \/ Put(phase, Job("ack", None))
    BY <1>6 DEF OnMqttCommand, OnSmsCommand, Accept
  <2>3. QED
    BY <1>1, <2>1, <2>2, JobsAreJobs
<1>7. ASSUME NEW v \in Phases, WorkerStep(v)
      PROVE  Handled(w, c)'
  <2>1. abandoned' = abandoned
    BY <1>7 DEF WorkerStep, Take, Execute, Capture, Upload, Ack, SendAck, ListUploads,
                UploadPending, UploadsDone
  <2>2. QED
    BY <1>7, <2>1, WorkerKeepsHandled
<1>8. CASE Save \/ Terminate \/ NetworkLost \/ NetworkBack
  BY <1>1, <1>8 DEF Save, Terminate, NetworkLost, NetworkBack
<1>9. ASSUME NEW v \in Phases, RetryDue(v)
      PROVE  Handled(w, c)'
  BY <1>1, <1>9 DEF RetryDue
<1>10. CASE UNCHANGED vars
  BY <1>1, <1>10 DEF vars
<1>11. QED
  BY <1>2, <1>3, <1>4, <1>5, <1>6, <1>7, <1>8, <1>9, <1>10 DEF Next, Teardown

(* Only a command that arrives adds to the history, at its end.             *)
LEMMA ArrivalGrows ==
  ASSUME TypeOK, [Next]_vars, arrival' # arrival
  PROVE  \E c \in Cmds :
           /\ OnMqttCommand(c) \/ OnSmsCommand(c)
           /\ Accept(c)
<1> USE DEF mainVars, workerVars, execVars, leaveVars, cmdVars
<1>1. ASSUME NEW c \in Cmds, OnMqttCommand(c) \/ OnSmsCommand(c)
      PROVE  Accept(c)
  BY <1>1 DEF OnMqttCommand, OnSmsCommand
<1>2. ~(Begin \/ Connect \/ Bind \/ Watchdog \/ Teardown \/ Exit \/ Crash \/ Restart)
  BY DEF Begin, Connect, Bind, Watchdog, Teardown, Stop, Join, Unbind, Close, Exit, Crash,
         ProcessEnds, Restart
<1>3. ~(Save \/ Terminate \/ NetworkLost \/ NetworkBack \/ UNCHANGED vars)
  BY DEF Save, Terminate, NetworkLost, NetworkBack, vars
<1>4. ASSUME NEW w \in Phases
      PROVE  ~(WorkerStep(w) \/ RetryDue(w))
  BY DEF WorkerStep, Take, Execute, Capture, Upload, Ack, SendAck, ListUploads, UploadPending,
         UploadsDone, RetryDue
<1>5. QED
  BY <1>1, <1>2, <1>3, <1>4 DEF Next

LEMMA ArrivalsInTime ==
  ASSUME TypeOK, PhaseBegun, TimelyWhenBound, [Next]_vars
  PROVE  TimelyWhenBound'
<1> USE DEF TypeOK, mainVars, workerVars, execVars, leaveVars, cmdVars
<1>1. CASE arrival' = arrival
  <2>1. ASSUME NEW i \in DOMAIN arrival
        PROVE  arrival[i].phase <= phase /\ Timely(arrival[i]) /\ arrival[i].phase \in Nat
    <3>1. arrival[i] \in Arrivals
      BY <2>1
    <3>2. QED
      BY <2>1, <3>1 DEF TimelyWhenBound, Arrivals, Phases
  <2>2. CASE Begin
    <3>1. phase' = phase + 1
      BY <2>2 DEF Begin
    <3>2. QED
      BY <1>1, <2>1, <3>1 DEF TimelyWhenBound, Timely
  <2>3. CASE ~Begin
    <3>1. phase' = phase /\ (pc' \in {"connect", "bind"} => pc \in {"connect", "bind"})
      <4>1. CASE Connect \/ Bind \/ Watchdog \/ Teardown \/ Exit \/ Crash \/ Restart
        BY <4>1 DEF Connect, Bind, Watchdog, Teardown, Stop, Join, Unbind, Close, Exit, Crash,
                    ProcessEnds, Restart
      <4>2. CASE Save \/ Terminate \/ NetworkLost \/ NetworkBack \/ UNCHANGED vars
        BY <4>2 DEF Save, Terminate, NetworkLost, NetworkBack, vars
      <4>3. ASSUME NEW c \in Cmds, OnMqttCommand(c) \/ OnSmsCommand(c)
            PROVE  UNCHANGED <<pc, phase>>
        BY <4>3 DEF OnMqttCommand, OnSmsCommand
      <4>4. ASSUME NEW w \in Phases, WorkerStep(w) \/ RetryDue(w)
            PROVE  UNCHANGED <<pc, phase>>
        BY <4>4 DEF WorkerStep, Take, Execute, Capture, Upload, Ack, SendAck, ListUploads,
                    UploadPending, UploadsDone, RetryDue
      <4>5. QED
        BY <2>3, <4>1, <4>2, <4>3, <4>4 DEF Next
    <3>2. QED
      BY <1>1, <2>1, <3>1 DEF TimelyWhenBound, Timely
  <2>4. QED
    BY <2>2, <2>3
<1>2. CASE arrival' # arrival
  <2>1. PICK c \in Cmds : (OnMqttCommand(c) \/ OnSmsCommand(c)) /\ Accept(c)
    BY <1>2, ArrivalGrows
  <2> DEFINE a == [cmd |-> c, phase |-> phase, when |-> When]
  <2>2. phase \in Phases /\ UNCHANGED <<pc, phase>> /\ arrival' = Append(arrival, a)
    BY <2>1 DEF OnMqttCommand, OnSmsCommand, Connected, PhaseBegun, Accept
  <2>3. a.phase <= phase /\ Timely(a) /\ a \in Arrivals
    BY <2>2 DEF Timely, When, Arrivals, Phases
  <2>4. \A i \in DOMAIN arrival' :
          arrival'[i] = a \/ (i \in DOMAIN arrival /\ arrival'[i] = arrival[i])
    <3> HIDE DEF a
    <3>1. QED
      BY <2>2, <2>3
  <2> HIDE DEF a
  <2>5. QED
    BY <2>2, <2>3, <2>4 DEF TimelyWhenBound, Timely
<1>3. QED
  BY <1>1, <1>2

(* No worker is there for a phase that has not begun, so a worker that was  *)
(* not there before is of a phase to which nothing has come.                *)
LEMMA WorkersBegin ==
  ASSUME TypeOK, PhaseBegun, [Next]_vars, NEW w \in Phases, w <= phase, worker[w] = "none"
  PROVE  worker'[w] = "none"
<1> USE DEF TypeOK, mainVars, workerVars, execVars, leaveVars, cmdVars
<1>1. CASE Begin
  BY <1>1 DEF Begin, Phases
<1>2. CASE Connect \/ Bind \/ Watchdog \/ Teardown \/ Exit \/ Crash \/ Restart
  BY <1>2 DEF Connect, Bind, Watchdog, Teardown, Stop, Join, Unbind, Close, Exit, Crash,
              ProcessEnds, Restart
<1>3. CASE Save \/ Terminate \/ NetworkLost \/ NetworkBack \/ UNCHANGED vars
  BY <1>3 DEF Save, Terminate, NetworkLost, NetworkBack, vars
<1>4. ASSUME NEW c \in Cmds, OnMqttCommand(c) \/ OnSmsCommand(c)
      PROVE  worker' = worker
  BY <1>4 DEF OnMqttCommand, OnSmsCommand
<1>5. ASSUME NEW v \in Phases, WorkerStep(v) \/ RetryDue(v)
      PROVE  worker'[w] = worker[w]
  BY <1>5 DEF WorkerStep, Take, Execute, Capture, Upload, Ack, SendAck, ListUploads,
              UploadPending, UploadsDone, RetryDue, Executed, RetryEnds, GoTo
<1>6. QED
  BY <1>1, <1>2, <1>3, <1>4, <1>5 DEF Next

(* A command that arrives in time waits before the sentinel.                *)
LEMMA NewIsHandled ==
  ASSUME TypeOK, PhaseBegun, Discipline, NEW c \in Cmds, When = "timely",
         OnMqttCommand(c) \/ OnSmsCommand(c), Accept(c)
  PROVE  \A w \in Phases : w = phase => Handled(w, c)'
<1> USE DEF TypeOK, mainVars, workerVars
<1>1. pc \in {"serve", "sentinel"} /\ phase \in Phases
  BY DEF When, PhaseBegun, OnMqttCommand, OnSmsCommand, Connected
<1>2. worker' = worker /\ phase' = phase
  BY DEF OnMqttCommand, OnSmsCommand
<1>3. Alive(phase) /\ NoStop(phase)
  BY <1>1 DEF Discipline, NotStopped, BeforeStop
<1>4. \A w \in Phases : w = phase => Waits(w, c)'
  BY <1>1, <1>3, PutWaits DEF Accept
<1>5. QED
  BY <1>1, <1>2, <1>3, <1>4 DEF Handled, Alive, Waits

LEMMA AllStayHandled ==
  ASSUME TypeOK, PhaseBegun, Discipline, TimelyWhenBound, AllHandled, [Next]_vars
  PROVE  AllHandled'
<1> USE DEF TypeOK
<1>0. abandoned \subseteq abandoned'
  <2> USE DEF leaveVars
  <2>1. CASE Begin \/ Connect \/ Bind \/ Watchdog \/ Teardown \/ Exit \/ Crash \/ Restart
    BY <2>1 DEF Begin, Connect, Bind, Watchdog, Teardown, Stop, Join, Unbind, Close, Exit, Crash,
                ProcessEnds, Restart
  <2>2. CASE Save \/ Terminate \/ NetworkLost \/ NetworkBack \/ UNCHANGED vars
    BY <2>2 DEF Save, Terminate, NetworkLost, NetworkBack, vars
  <2>3. ASSUME NEW c \in Cmds, OnMqttCommand(c) \/ OnSmsCommand(c)
        PROVE  abandoned' = abandoned
    BY <2>3 DEF OnMqttCommand, OnSmsCommand
  <2>4. ASSUME NEW w \in Phases, WorkerStep(w) \/ RetryDue(w)
        PROVE  abandoned' = abandoned
    BY <2>4 DEF WorkerStep, Take, Execute, Capture, Upload, Ack, SendAck, ListUploads,
                UploadPending, UploadsDone, RetryDue
  <2>5. QED
    BY <2>1, <2>2, <2>3, <2>4 DEF Next
<1>1. ASSUME NEW i \in DOMAIN arrival,
             arrival[i].when = "timely", arrival[i].phase \notin abandoned',
             worker'[arrival[i].phase] # "none"
      PROVE  \A w \in Phases, c \in Cmds :
               w = arrival[i].phase /\ c = arrival[i].cmd => Handled(w, c)'
  <2> SUFFICES ASSUME NEW w \in Phases, NEW c \in Cmds,
                      w = arrival[i].phase, c = arrival[i].cmd
               PROVE  Handled(w, c)'
    OBVIOUS
  <2>2. w <= phase /\ (w = phase => pc \notin {"connect", "bind"})
    BY <1>1 DEF TimelyWhenBound, Timely
  <2>3. w \notin abandoned'
    BY <1>1
  <2>4. worker'[w] # "none" /\ worker[w] # "none"
    BY <1>1, <2>2, WorkersBegin
  <2>5. Handled(w, c)
    BY <1>0, <1>1, <2>4 DEF AllHandled
  <2>6. QED
    BY <2>2, <2>3, <2>4, <2>5, HandledHolds
<1>2. ASSUME NEW i \in DOMAIN arrival', arrival'[i] \in Arrivals,
             \A w \in Phases, c \in Cmds :
               /\ arrival'[i].when = "timely"
               /\ arrival'[i].phase \notin abandoned'
               /\ worker'[arrival'[i].phase] # "none"
               /\ w = arrival'[i].phase /\ c = arrival'[i].cmd
               => Handled(w, c)'
      PROVE  (/\ arrival[i].when = "timely"
              /\ arrival[i].phase \notin abandoned
              /\ worker[arrival[i].phase] # "none"
              => Handled(arrival[i].phase, arrival[i].cmd))'
  <2>1. arrival'[i].phase \in Phases /\ arrival'[i].cmd \in Cmds
    BY <1>2 DEF Arrivals
  <2>2. QED
    BY <1>2, <2>1 DEF Handled, Waits, InHand
<1>3. CASE arrival' = arrival
  <2>1. \A i \in DOMAIN arrival : arrival[i] \in Arrivals
    OBVIOUS
  <2>2. QED
    BY <1>1, <1>2, <1>3, <2>1 DEF AllHandled
<1>4. CASE arrival' # arrival
  <2>1. PICK c \in Cmds : (OnMqttCommand(c) \/ OnSmsCommand(c)) /\ Accept(c)
    BY <1>4, ArrivalGrows
  <2> DEFINE a == [cmd |-> c, phase |-> phase, when |-> When]
  <2>2. arrival' = Append(arrival, a) /\ phase \in Phases
    BY <2>1 DEF Accept, OnMqttCommand, OnSmsCommand, Connected, PhaseBegun
  <2>3. a \in Arrivals
    BY <2>2 DEF Arrivals, When
  <2>4. a.when = "timely" =>
          \A w \in Phases, d \in Cmds : w = a.phase /\ d = a.cmd => Handled(w, d)'
    BY <2>1, NewIsHandled
  <2> HIDE DEF a
  <2>5. \A i \in DOMAIN arrival' :
          arrival'[i] = a \/ (i \in DOMAIN arrival /\ arrival'[i] = arrival[i])
    <3>1. arrival \in Seq(Arrivals)
      OBVIOUS
    <3>2. DOMAIN arrival = 1 .. Len(arrival) /\ DOMAIN arrival' = 1 .. Len(arrival) + 1
      BY <2>2, <2>3, <3>1
    <3>3. /\ arrival'[Len(arrival) + 1] = a
          /\ \A i \in 1 .. Len(arrival) : arrival'[i] = arrival[i]
      BY <2>2, <2>3, <3>1
    <3>4. Len(arrival) \in Nat
      BY <3>1
    <3>5. QED
      BY <3>2, <3>3, <3>4
  <2>6. QED
    <3>1. \A i \in DOMAIN arrival : arrival[i] \in Arrivals
      OBVIOUS
    <3>2. QED
      BY <1>1, <1>2, <2>3, <2>4, <2>5, <3>1 DEF AllHandled
<1>5. QED
  BY <1>3, <1>4

-----------------------------------------------------------------------------
Agreement == \A w \in Phases : UploadsAgree(w)

LEMMA InitHolds == Init => TypeOK /\ PhaseBegun /\ Agreement
<1> SUFFICES ASSUME Init
             PROVE  TypeOK /\ PhaseBegun /\ Agreement
  OBVIOUS
<1>1. TypeOK
  <2>1. <<>> \in Seq(Jobs) /\ <<>> \in Seq(Arrivals)
    OBVIOUS
  <2>2. /\ pc \in Places /\ phase \in 0 .. MaxPhases /\ faults \in 0 .. MaxFaults
        /\ abandoned \subseteq Phases /\ acked \subseteq Cmds
    BY DEF Init, Places
  <2>a. /\ active \in BOOLEAN /\ stale \in BOOLEAN /\ stopping \in BOOLEAN /\ online \in BOOLEAN
        /\ webdav \in BOOLEAN
    BY Zenon DEF Init
  <2>3. /\ bound \in [Phases -> BOOLEAN] /\ queued \in [Phases -> BOOLEAN]
        /\ offline \in [Phases -> BOOLEAN]
    BY Zenon DEF Init
  <2>4. /\ worker \in [Phases -> WorkerPlaces] /\ job \in [Phases -> Cmds \cup {None}]
        /\ files \in [Phases -> SUBSET Cameras] /\ retry \in [Phases -> {"due", "later"}]
    BY DEF Init, WorkerPlaces
  <2>5. queue \in [Phases -> Seq(Jobs)] /\ arrival \in Seq(Arrivals)
    BY <2>1 DEF Init
  <2>6. /\ status \in [Cmds -> {"unsent", "refused", "accepted", "running", "executed", "lost"}]
        /\ photo \in [Cameras -> {"none", "taken", "pending", "uploaded"}]
    BY DEF Init
  <2>7. QED
    BY <2>2, <2>a, <2>3, <2>4, <2>5, <2>6 DEF TypeOK
<1>2. PhaseBegun
  BY DEF Init, PhaseBegun
<1>3. Agreement
  BY DEF Init, Agreement, UploadsAgree, IsUploads, Retrying
<1>4. QED
  BY <1>1, <1>2, <1>3

(* Every reachable state is well typed. *)
THEOREM TypeCorrect == Spec => []TypeOK
<1>1. TypeOK /\ PhaseBegun /\ [Next]_vars => (TypeOK /\ PhaseBegun)'
  BY TypesHold, PhaseStaysBegun
<1>2. QED
  BY InitHolds, <1>1, PTL DEF Spec

(* upload_job_queued agrees with the worker's queue at all times: one retry  *)
(* job of a phase waits or runs when it is set, none when it is not          *)
(* (check_uploads on the main loop, retry_uploads on the worker).            *)
THEOREM UploadFlagAgrees == Spec => []OneUploadJob
<1>1. TypeOK /\ PhaseBegun /\ Agreement /\ [Next]_vars => (TypeOK /\ PhaseBegun /\ Agreement)'
  <2> SUFFICES ASSUME TypeOK, PhaseBegun, Agreement, [Next]_vars
               PROVE  (TypeOK /\ PhaseBegun /\ Agreement)'
    OBVIOUS
  <2>1. \A w \in Phases : UploadsAgree(w)'
    BY AgreementHolds DEF Agreement
  <2>2. QED
    BY <2>1, TypesHold, PhaseStaysBegun DEF Agreement
<1>2. Agreement => OneUploadJob
  BY DEF Agreement, UploadsAgree, OneUploadJob
<1>3. QED
  BY InitHolds, <1>1, <1>2, PTL DEF Spec

(* A worker that ends in its five seconds has published the acks of all     *)
(* commands it had accepted since the executor got the client: the sentinel *)
(* is behind them, and the client is taken away when it has been reached    *)
(* (main: worker.stop before executor.set_mqtt(None)).                      *)
THEOREM AcksArePublished == Spec => []AcksGoOut
<1> DEFINE IInv == TypeOK /\ PhaseBegun /\ Discipline /\ TimelyWhenBound /\ AllHandled
<1>1. Init => IInv
  <2> SUFFICES ASSUME Init
               PROVE  IInv
    OBVIOUS
  <2>1. Discipline
    BY DEF Init, Discipline, WorkerIsCurrent, ClientIsBound, NotStopped, Alive, BeforeStop
  <2>2. TimelyWhenBound /\ AllHandled
    BY DEF Init, TimelyWhenBound, AllHandled
  <2>3. QED
    BY <2>1, <2>2, InitHolds
<1>2. IInv /\ [Next]_vars => IInv'
  BY TypesHold, PhaseStaysBegun, DisciplineHolds, ArrivalsInTime, AllStayHandled
<1>3. IInv => AcksGoOut
  BY DEF AllHandled, Handled, AcksGoOut
<1> HIDE DEF IInv
<1>4. QED
  BY <1>1, <1>2, <1>3, PTL DEF Spec
=============================================================================
