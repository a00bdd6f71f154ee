----------------------------- MODULE UiCommands -----------------------------
(***************************************************************************)
(* Sending commands from the app to a remote device, and what its row in   *)
(* the device list shows: qml/utilities/api.py, from send_command to       *)
(* _on_ack_timeout, _on_ui_connected and _on_remote_ack.                   *)
(*                                                                         *)
(* Four kinds of threads take part: the PyOtherSide worker (taps, edits),  *)
(* the command worker, the network thread (flush, acks) and timer threads. *)
(* A hold of _pending_lock or _ui_lock is one step.  The state of one      *)
(* remote device is modelled: the app keeps it per device, and only the    *)
(* queue is common.                                                        *)
(*                                                                         *)
(* A tap is named by its number, which also serves as the token of the     *)
(* timers it starts.  Of paho only the connection is kept, of the broker   *)
(* and the device that a command may be answered or never be.              *)
(***************************************************************************)
EXTENDS Naturals, Sequences

CONSTANTS
    OtherCommands,    \* LOCK, CAMERA, GPS, DELETE: those that do not ring
    MaxTaps           \* bound: taps in one behaviour

ASSUME OtherAssumption == OtherCommands \cap {"RING", "STOP_RING"} = {}
ASSUME TapsAssumption == MaxTaps \in Nat

VARIABLES
    taps, kind,             \* the number of taps, what each one asks for
    queue,                  \* _command_queue
    worker, job,            \* where the command worker is, and with which tap
    parked, expired,        \* _pending_commands: the tap; its time is over
    connected,              \* the UI client is connected
    net, flushing,          \* where the network thread is, its local variable
    ringing, ringEntry, ringTimer,     \* _ringing, _ring_timers, the timers
    timedOut, ackEntry, ackTimer,      \* _timed_out, _pending_acks, the timers
    flight,                 \* a command on its way, perhaps for good, or answered
    armed, flagged          \* history: the last tap armed, the one that set timedOut

tapVars == <<taps, kind>>
workerVars == <<worker, job>>
parkVars == <<parked, expired>>
netVars == <<connected, net, flushing>>
ringingVars == <<ringing, ringEntry, ringTimer>>
ackVars == <<timedOut, ackEntry, ackTimer, armed, flagged>>
uiVars == <<tapVars, queue, workerVars, parkVars, netVars, ringingVars, ackVars, flight>>

Taps == 1 .. MaxTaps
NoTap == 0
Kinds == {"RING", "STOP_RING"} \cup OtherCommands
RetryCommands == {"STOP_RING"}
TimerStates == {"none", "armed", "firing"}

UiTypeOK ==
    /\ taps \in 0 .. MaxTaps
    /\ kind \in [Taps -> Kinds]
    /\ queue \in Seq(Taps)
    /\ worker \in {"free", "publish", "wait", "unsent"}
    /\ job \in Taps \cup {NoTap}
    /\ parked \in Taps \cup {NoTap}
    /\ expired \in BOOLEAN
    /\ connected \in BOOLEAN
    /\ net \in {"idle", "flush", "send", "ring"}
    /\ flushing \in Taps \cup {NoTap}
    /\ ringing \in BOOLEAN
    /\ ringEntry \in Taps \cup {NoTap}
    /\ ringTimer \in [Taps -> TimerStates]
    /\ timedOut \in BOOLEAN
    /\ ackEntry \in Taps \cup {NoTap}
    /\ ackTimer \in [Taps -> TimerStates]
    /\ flight \in [Taps -> {"none", "sent", "answered"}]
    /\ armed \in Taps \cup {NoTap}
    /\ flagged \in Taps \cup {NoTap}

UiInit ==
    /\ taps = 0 /\ kind = [i \in Taps |-> "RING"] /\ queue = <<>>
    /\ worker = "free" /\ job = NoTap
    /\ parked = NoTap /\ expired = FALSE
    /\ connected = FALSE /\ net = "idle" /\ flushing = NoTap
    /\ ringing = FALSE /\ ringEntry = NoTap /\ ringTimer = [i \in Taps |-> "none"]
    /\ timedOut = FALSE /\ ackEntry = NoTap /\ ackTimer = [i \in Taps |-> "none"]
    /\ flight = [i \in Taps |-> "none"]
    /\ armed = NoTap /\ flagged = NoTap

(* Timer.cancel: too late for a timer that already runs. *)
Cancelled(timer, i) == [timer EXCEPT ![i] = IF @ = "armed" THEN "none" ELSE @]

-----------------------------------------------------------------------------
(* The two per-device states and their timers.                              *)

MarkRinging(i) ==
    /\ ringing' = TRUE
    /\ ringTimer' = [Cancelled(ringTimer, ringEntry) EXCEPT ![i] = "armed"]
    /\ ringEntry' = i

ClearRinging ==
    /\ ringing' = FALSE
    /\ ringTimer' = Cancelled(ringTimer, ringEntry)
    /\ ringEntry' = NoTap

(* Mutant: the entry is popped before its token is compared. *)
OnRingAutoclearPop(i) ==
    /\ ringTimer[i] = "firing"
    /\ ringTimer' = [ringTimer EXCEPT ![i] = "none"]
    /\ ringEntry' = NoTap
    /\ ringing' = IF ringEntry = i THEN FALSE ELSE ringing
    /\ UNCHANGED <<tapVars, queue, workerVars, parkVars, netVars, ackVars, flight>>

OnRingAutoclear(i) ==
    /\ ringTimer[i] = "firing"
    /\ ringTimer' = [ringTimer EXCEPT ![i] = "none"]
    /\ IF ringEntry = i
       THEN ringEntry' = NoTap /\ ringing' = FALSE
       ELSE UNCHANGED <<ringEntry, ringing>>
    /\ UNCHANGED <<tapVars, queue, workerVars, parkVars, netVars, ackVars, flight>>

(* Mutant: the new entry is the one that is cancelled. *)
ArmAckTimeoutCancelled(i) ==
    /\ timedOut' = FALSE
    /\ ackTimer' = Cancelled([ackTimer EXCEPT ![i] = "armed"], i)
    /\ ackEntry' = i
    /\ armed' = i
    /\ flagged' = NoTap

ArmAckTimeout(i) ==
    /\ timedOut' = FALSE
    /\ ackTimer' = [Cancelled(ackTimer, ackEntry) EXCEPT ![i] = "armed"]
    /\ ackEntry' = i
    /\ armed' = i
    /\ flagged' = NoTap

ClearAckTimeout ==
    /\ timedOut' = FALSE
    /\ ackTimer' = Cancelled(ackTimer, ackEntry)
    /\ ackEntry' = NoTap
    /\ flagged' = NoTap
    /\ UNCHANGED armed

(* Mutant: whichever command is pending, the device is flagged. *)
OnAckTimeoutUnchecked(i) ==
    /\ ackTimer[i] = "firing"
    /\ ackTimer' = [ackTimer EXCEPT ![i] = "none"]
    /\ IF ackEntry # NoTap
       THEN ackEntry' = NoTap /\ timedOut' = TRUE /\ flagged' = i
       ELSE UNCHANGED <<ackEntry, timedOut, flagged>>
    /\ UNCHANGED <<tapVars, queue, workerVars, parkVars, netVars, ringingVars, armed, flight>>

OnAckTimeout(i) ==
    /\ ackTimer[i] = "firing"
    /\ ackTimer' = [ackTimer EXCEPT ![i] = "none"]
    /\ IF ackEntry = i
       THEN ackEntry' = NoTap /\ timedOut' = TRUE /\ flagged' = i
       ELSE UNCHANGED <<ackEntry, timedOut, flagged>>
    /\ UNCHANGED <<tapVars, queue, workerVars, parkVars, netVars, ringingVars, armed, flight>>

(* The clock: a timer's thread starts, and waits for the lock. *)
RingTimerDue(i) ==
    /\ ringTimer[i] = "armed"
    /\ ringTimer' = [ringTimer EXCEPT ![i] = "firing"]
    /\ UNCHANGED <<tapVars, queue, workerVars, parkVars, netVars, ringing, ringEntry, ackVars, flight>>

AckTimerDue(i) ==
    /\ ackTimer[i] = "armed"
    /\ ackTimer' = [ackTimer EXCEPT ![i] = "firing"]
    /\ UNCHANGED <<tapVars, queue, workerVars, parkVars, netVars, ringingVars, timedOut, ackEntry, armed, flagged,
                   flight>>

-----------------------------------------------------------------------------
(* The PyOtherSide worker.                                                  *)

SendCommand(k) ==
    /\ taps < MaxTaps
    /\ LET i == taps + 1 IN
         /\ taps' = i
         /\ kind' = [kind EXCEPT ![i] = k]
         /\ queue' = Append(queue, i)
         /\ k = "RING" => MarkRinging(i)
         /\ k = "STOP_RING" => ClearRinging
         /\ k \in OtherCommands => UNCHANGED ringingVars
    /\ UNCHANGED <<workerVars, parkVars, netVars, ackVars, flight>>

UpdateDevice ==
    /\ ClearAckTimeout
    /\ UNCHANGED <<tapVars, queue, workerVars, parkVars, netVars, ringingVars, flight>>

(* Removed, and paired again. *)
RemoveDevice ==
    /\ ClearAckTimeout
    /\ ClearRinging
    /\ UNCHANGED <<tapVars, queue, workerVars, parkVars, netVars, flight>>

-----------------------------------------------------------------------------
(* The command worker.                                                      *)

Take ==
    /\ worker = "free"
    /\ queue # <<>>
    /\ job' = Head(queue)
    /\ queue' = Tail(queue)
    /\ worker' = "publish"
    /\ UNCHANGED <<tapVars, parkVars, netVars, ringingVars, ackVars, flight>>

(* The command leaves; from here on the device may answer. *)
DispatchCommand ==
    /\ worker = "publish"
    /\ connected
    /\ flight' = [flight EXCEPT ![job] = "sent"]
    /\ worker' = "wait"
    /\ UNCHANGED <<tapVars, queue, job, parkVars, netVars, ringingVars, ackVars>>

(* No connection, or no PUBACK, for all the repairs of _publish. *)
DispatchFails ==
    /\ worker = "publish" \/ (worker = "wait" /\ ~connected)
    /\ worker' = "unsent"
    /\ UNCHANGED <<tapVars, queue, job, parkVars, netVars, ringingVars, ackVars, flight>>

WorkerFree == worker' = "free" /\ job' = NoTap

(* The PUBACK has come: the time for the ack runs from now on. *)
Sent ==
    /\ worker = "wait"
    /\ ArmAckTimeout(job)
    /\ WorkerFree
    /\ UNCHANGED <<tapVars, queue, parkVars, netVars, ringingVars, flight>>

(* A RING is taken back, a STOP_RING is parked for the next connection. *)
Unsent ==
    /\ worker = "unsent"
    /\ IF kind[job] = "RING" THEN ClearRinging ELSE UNCHANGED ringingVars
    /\ IF kind[job] \in RetryCommands
       THEN parked' = job /\ expired' = FALSE
       ELSE UNCHANGED parkVars
    /\ WorkerFree
    /\ UNCHANGED <<tapVars, queue, netVars, ackVars, flight>>

WorkerStep == Take \/ DispatchCommand \/ DispatchFails \/ Sent \/ Unsent

-----------------------------------------------------------------------------
(* The network thread: the flush after a CONNACK, and acks.                 *)

Connack ==
    /\ net = "idle" /\ ~connected
    /\ connected' = TRUE
    /\ net' = "flush"
    /\ UNCHANGED <<tapVars, queue, workerVars, parkVars, flushing, ringingVars, ackVars, flight>>

ConnectionLost ==
    /\ connected
    /\ connected' = FALSE
    /\ UNCHANGED <<tapVars, queue, workerVars, parkVars, net, flushing, ringingVars, ackVars, flight>>

(* The parked command is taken out, and dropped if it is too old. *)
FlushPendingCommands ==
    /\ net = "flush"
    /\ parked' = NoTap /\ expired' = FALSE
    /\ IF parked = NoTap \/ expired
       THEN net' = "idle" /\ UNCHANGED flushing
       ELSE net' = "send" /\ flushing' = parked
    /\ UNCHANGED <<tapVars, queue, workerVars, connected, ringingVars, ackVars, flight>>

(* Sent without a check of its delivery, or dropped. *)
SendParked ==
    /\ net = "send"
    /\ flight' = IF connected THEN [flight EXCEPT ![flushing] = "sent"] ELSE flight
    /\ net' = "idle" /\ flushing' = NoTap
    /\ UNCHANGED <<tapVars, queue, workerVars, parkVars, connected, ringingVars, ackVars>>

(* The device answers the command of tap i. *)
OnRemoteAck(i) ==
    /\ net = "idle" /\ connected
    /\ flight[i] = "sent"
    /\ flight' = [flight EXCEPT ![i] = "answered"]
    /\ ClearAckTimeout
    /\ \/ UNCHANGED net
       \/ kind[i] = "RING" /\ net' = "ring"
    /\ UNCHANGED <<tapVars, queue, workerVars, parkVars, connected, flushing, ringingVars>>

(* ... and it was a RING that was not accepted. *)
RingRefused ==
    /\ net = "ring"
    /\ ClearRinging
    /\ net' = "idle"
    /\ UNCHANGED <<tapVars, queue, workerVars, parkVars, connected, flushing, ackVars, flight>>

Expire ==
    /\ parked # NoTap /\ ~expired
    /\ expired' = TRUE
    /\ UNCHANGED <<tapVars, queue, workerVars, parked, netVars, ringingVars, ackVars, flight>>

NetStep == FlushPendingCommands \/ SendParked \/ RingRefused

UiNext ==
    \/ \E k \in Kinds : SendCommand(k)
    \/ UpdateDevice \/ RemoveDevice
    \/ WorkerStep \/ NetStep \/ Connack \/ ConnectionLost \/ Expire
    \/ \E i \in Taps :
         \/ OnRingAutoclear(i) \/ OnAckTimeout(i) \/ RingTimerDue(i) \/ AckTimerDue(i)
         \/ OnRemoteAck(i)

UiSpec == UiInit /\ [][UiNext]_uiVars

(* Threads run and timers expire; of the network and the device nothing is  *)
(* expected.                                                                *)
UiFairness ==
    /\ WF_uiVars(WorkerStep) /\ WF_uiVars(NetStep)
    /\ \A i \in Taps :
         /\ WF_uiVars(OnRingAutoclear(i)) /\ WF_uiVars(OnAckTimeout(i))
         /\ WF_uiVars(RingTimerDue(i)) /\ WF_uiVars(AckTimerDue(i))

FairUiSpec == UiSpec /\ UiFairness

-----------------------------------------------------------------------------
(* The STOP button is shown only while a timer that will take it away is    *)
(* there: no interleaving of taps, failures, acks and late timers leaves it *)
(* up for good (_mark_ringing, _clear_ringing, _on_ring_autoclear).         *)
StopButtonBacked ==
    ringing => ringEntry # NoTap /\ ringTimer[ringEntry] # "none"

(* A device is flagged for the command whose timeout was armed last, never  *)
(* by the timer of an earlier one (_on_ack_timeout).  A parked command that *)
(* is flushed arms none.                                                    *)
OnlyNewestFlags == timedOut => flagged = armed

(* Not so, though _on_ack_timeout is "Fired when no ack arrived in time":   *)
(* that a device which has answered is not flagged for that command.  An    *)
(* ack handled before the worker arms the timeout clears nothing.           *)
FlaggedIsSilent == timedOut => flight[flagged] # "answered"

(* A command that was sent is settled: the ack arrives, the device is       *)
(* flagged or edited, or a newer command takes over (_arm_ack_timeout).     *)
SentIsSettled == \A i \in Taps : ackEntry = i ~> ackEntry # i
=============================================================================
