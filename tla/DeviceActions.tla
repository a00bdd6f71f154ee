---------------------------- MODULE DeviceActions ----------------------------
(***************************************************************************)
(* What commands do to the device: RING, STOP_RING and CAMERA, as the      *)
(* executor of daemon_cmd.py runs them (_do_ring, _do_stop_ring, and the   *)
(* capture of _do_camera) on the worker of a phase and on one that was     *)
(* abandoned at a settings save, next to the timers of rings (RingControl) *)
(* and the callbacks of captures (CameraCapture).                          *)
(*                                                                         *)
(* How commands get to the workers and how a photo is uploaded is module   *)
(* CmdDaemon; GPS is module GpsCommand, DELETE module PrivSpool.           *)
(***************************************************************************)
EXTENDS RingControl

CONSTANT MaxCommands       \* bound: commands that are executed

ASSUME CommandsAssumption == MaxCommands \in Nat

VARIABLES
    hal, cam, st, running, sources, posted, photo,      \* of CameraCapture
    commands      \* executed so far

INSTANCE CameraCapture

captureVars == <<hal, cam, st, running, sources, posted, photo>>
vars == <<ringVars, captureVars, commands>>

TypeOK == RingTypeOK /\ CameraTypeOK /\ commands \in 0 .. MaxCommands

Init == RingInit /\ CameraInit /\ commands = 0

Execute(w) ==
    /\ at[w] = "idle" /\ cam[w] = "idle"
    /\ commands < MaxCommands
    /\ commands' = commands + 1

(* Bound: photos are taken before rings.  The two share nothing.            *)
NoPhoto == \A w \in Workers : cam[w] = "idle"
DoRing(w) == Execute(w) /\ NoPhoto /\ Enter(w, "ring") /\ UNCHANGED captureVars
DoStopRing(w) == Execute(w) /\ NoPhoto /\ Enter(w, "stop_current") /\ UNCHANGED captureVars
DoCamera(w) ==
    /\ Execute(w) /\ Capture(w)
    /\ rings = 0 /\ \A t \in Threads : at[t] = "idle"
    /\ UNCHANGED ringVars

(* Steps of a thread at a ring, and at a capture. *)
RingThread(t) == ThreadStep(t) /\ UNCHANGED <<captureVars, commands>>
CaptureThread(w) == CaptureStep(w) /\ UNCHANGED <<ringVars, commands>>

(* The main thread dispatches callbacks; the pipeline has its own threads.  *)
MainThread(w) == CallbackStep(w) /\ UNCHANGED <<ringVars, commands>>
Pipeline(w) == PipelineStep(w) /\ UNCHANGED <<ringVars, commands>>

Minute(r) == (Lapse(r) \/ Fire(r)) /\ UNCHANGED <<captureVars, commands>>
Fails(r) == PlaybackFails(r) /\ UNCHANGED <<captureVars, commands>>

Next ==
    \/ \E w \in Workers : DoRing(w) \/ DoStopRing(w) \/ DoCamera(w)
    \/ \E t \in Threads : RingThread(t)
    \/ \E r \in Rings : Minute(r) \/ Fails(r)
    \/ \E w \in Workers : CaptureThread(w) \/ MainThread(w) \/ Pipeline(w)

Spec == Init /\ [][Next]_vars

(* Threads and callbacks go on and time passes; the camera may do nothing.  *)
FairSpec ==
    /\ Spec
    /\ \A t \in Threads : WF_vars(RingThread(t))
    /\ \A w \in Workers : WF_vars(CaptureThread(w)) /\ WF_vars(MainThread(w))
    /\ \A r \in Rings : WF_vars(Minute(r))
=============================================================================
