---------------------------- MODULE CameraCapture ----------------------------
(***************************************************************************)
(* One photo: daemon-rpm/src/camera_capture.py, capture_to_file.           *)
(*                                                                         *)
(* A worker walks a pipeline to PLAYING and blocks in loop.run().  What    *)
(* ends the loop comes from elsewhere: callbacks of the default main       *)
(* context, which the daemon's main thread dispatches from the moment they *)
(* are added, and probes on the pipeline's streaming threads.  A worker    *)
(* left from an earlier phase may be at it too: the camera is opened by    *)
(* one at a time.                                                          *)
(*                                                                         *)
(* The callbacks hold the variables of their own capture, so that those    *)
(* still pending when it ends touch nothing of the next.                   *)
(***************************************************************************)
CONSTANTS Workers, None

VARIABLES
    hal,          \* whose pipeline has the camera open
    cam,          \* where a worker is in capture_to_file
    st,           \* the dictionary st
    running,      \* is the loop running?  (FALSE: not yet, or quit)
    sources,      \* callbacks added to the main context
    posted,       \* an error, or the end of the stream, waits on the bus
    photo         \* the file


Fresh == [ready |-> FALSE, triggered |-> FALSE, captured |-> FALSE, error |-> FALSE]

CameraTypeOK ==
    /\ hal \in Workers \cup {None}
    /\ cam \in [Workers -> {"idle", "open", "start", "watch", "enter", "run"}]
    /\ st \in [Workers -> [ready : BOOLEAN, triggered : BOOLEAN, captured : BOOLEAN, error : BOOLEAN]]
    /\ running \in [Workers -> BOOLEAN] /\ posted \in [Workers -> BOOLEAN]
    /\ sources \in [Workers -> SUBSET {"bus", "warm", "flush", "deadline"}]
    /\ photo \in [Workers -> {"none", "empty", "whole"}]

CameraInit ==
    /\ hal = None
    /\ cam = [w \in Workers |-> "idle"] /\ st = [w \in Workers |-> Fresh]
    /\ running = [w \in Workers |-> FALSE] /\ posted = [w \in Workers |-> FALSE]
    /\ sources = [w \in Workers |-> {}] /\ photo = [w \in Workers |-> "none"]

Move(w, place) == cam' = [cam EXCEPT ![w] = place]
Add(w, source) == sources' = [sources EXCEPT ![w] = @ \cup {source}]
Done(w, source) == sources' = [sources EXCEPT ![w] = @ \ {source}]
Set(w, field) == st' = [st EXCEPT ![w][field] = TRUE]
Quit(w) == running' = [running EXCEPT ![w] = FALSE]

-----------------------------------------------------------------------------
(* The worker. *)

Capture(w) ==
    /\ cam[w] = "idle"
    /\ Move(w, "open")
    /\ UNCHANGED <<hal, st, running, sources, posted, photo>>

(* The result is made; what was local to the capture is gone. *)
LeaveCapture(w) ==
    /\ Move(w, "idle")
    /\ st' = [st EXCEPT ![w] = Fresh] /\ photo' = [photo EXCEPT ![w] = "none"]
    /\ sources' = [sources EXCEPT ![w] = {}] /\ posted' = [posted EXCEPT ![w] = FALSE]

(* Elements are missing or do not link, or the camera does not open.        *)
CaptureFails(w) ==
    /\ cam[w] = "open"
    /\ LeaveCapture(w)
    /\ UNCHANGED <<hal, running>>

(* READY opens the camera, and the file. *)
OpenCamera(w) ==
    /\ cam[w] = "open" /\ hal = None
    /\ hal' = w
    /\ photo' = [photo EXCEPT ![w] = "empty"]
    /\ Move(w, "start")
    /\ UNCHANGED <<st, running, sources, posted>>

Started(w) ==
    /\ cam[w] = "start"
    /\ Move(w, "watch")
    /\ UNCHANGED <<hal, st, running, sources, posted, photo>>

(* Mutant: the pipeline is not taken down. *)
StartFailsOpen(w) ==
    /\ cam[w] = "start"
    /\ LeaveCapture(w)
    /\ UNCHANGED <<hal, running>>

(* A later state fails, or an error is found on the bus.                    *)
StartFails(w) ==
    /\ cam[w] = "start"
    /\ hal' = None
    /\ LeaveCapture(w)
    /\ UNCHANGED running

(* From here on callbacks come, before the loop runs too. *)
Watch(w) ==
    /\ cam[w] = "watch"
    /\ sources' = [sources EXCEPT ![w] = @ \cup {"bus", "deadline"}]
    /\ Move(w, "enter")
    /\ UNCHANGED <<hal, st, running, posted, photo>>

(* run() forgets a quit() that came before it. *)
RunLoop(w) ==
    /\ cam[w] = "enter"
    /\ running' = [running EXCEPT ![w] = TRUE]
    /\ Move(w, "run")
    /\ UNCHANGED <<hal, st, sources, posted, photo>>

Finish(w) ==
    /\ cam[w] = "run" /\ ~running[w]
    /\ hal' = None
    /\ LeaveCapture(w)
    /\ UNCHANGED running

-----------------------------------------------------------------------------
(* Callbacks, and the pipeline. *)

OnReady(w) ==
    /\ hal = w /\ ~st[w].ready
    /\ Set(w, "ready")
    /\ Add(w, "warm")
    /\ UNCHANGED <<hal, cam, running, posted, photo>>

(* At the least a second after it is ready: the loop runs by then.          *)
MaybeCapture(w) ==
    /\ "warm" \in sources[w] /\ cam[w] = "run"
    /\ Done(w, "warm")
    /\ \/ Set(w, "triggered") /\ UNCHANGED running
       \/ /\ st' = [st EXCEPT ![w].triggered = TRUE, ![w].error = TRUE]
          /\ Quit(w)
    /\ UNCHANGED <<hal, cam, posted, photo>>

OnImageBuffer(w) ==
    /\ cam[w] = "run" /\ st[w].triggered /\ ~st[w].captured
    /\ Set(w, "captured")
    /\ Add(w, "flush")
    /\ UNCHANGED <<hal, cam, running, posted, photo>>

(* The file is written after the probe. *)
WriteImage(w) ==
    /\ hal = w /\ st[w].captured /\ photo[w] = "empty"
    /\ photo' = [photo EXCEPT ![w] = "whole"]
    /\ UNCHANGED <<hal, cam, st, running, sources, posted>>

Post(w) ==
    /\ hal = w /\ cam[w] \in {"watch", "enter", "run"} /\ ~posted[w] /\ ~st[w].error
    /\ posted' = [posted EXCEPT ![w] = TRUE]
    /\ UNCHANGED <<hal, cam, st, running, sources, photo>>

(* The end of the stream quits the loop without an error.                   *)
OnBus(w) ==
    /\ posted[w] /\ "bus" \in sources[w]
    /\ posted' = [posted EXCEPT ![w] = FALSE]
    /\ Set(w, "error") \/ UNCHANGED st
    /\ Quit(w)
    /\ UNCHANGED <<hal, cam, sources, photo>>

Flush(w) ==
    /\ "flush" \in sources[w]
    /\ Done(w, "flush") /\ Quit(w)
    /\ UNCHANGED <<hal, cam, st, posted, photo>>

(* Mutant: an error has ended the loop already. *)
OnTimeoutUnlessError(w) ==
    /\ "deadline" \in sources[w] /\ cam[w] = "run"
    /\ Done(w, "deadline")
    /\ IF st[w].captured \/ st[w].error THEN UNCHANGED <<st, running>>
       ELSE Set(w, "error") /\ Quit(w)
    /\ UNCHANGED <<hal, cam, posted, photo>>

(* Twenty seconds. *)
OnTimeout(w) ==
    /\ "deadline" \in sources[w] /\ cam[w] = "run"
    /\ Done(w, "deadline")
    /\ IF st[w].captured THEN UNCHANGED <<st, running>> ELSE Set(w, "error") /\ Quit(w)
    /\ UNCHANGED <<hal, cam, posted, photo>>

CaptureStep(w) ==
    \/ CaptureFails(w) \/ OpenCamera(w) \/ Started(w) \/ StartFails(w)
    \/ Watch(w) \/ RunLoop(w) \/ Finish(w)
CallbackStep(w) == OnBus(w) \/ Flush(w) \/ OnTimeout(w)
PipelineStep(w) == OnReady(w) \/ MaybeCapture(w) \/ OnImageBuffer(w) \/ WriteImage(w) \/ Post(w)

-----------------------------------------------------------------------------
(* Properties. *)

(* A capture ends, though an error may quit the loop before it runs, and    *)
(* has let go of the camera then, in whatever way it went: the next one can *)
(* open it.                                                                 *)
CaptureEnds == \A w \in Workers : cam[w] # "idle" ~> cam[w] = "idle" /\ hal # w
=============================================================================
