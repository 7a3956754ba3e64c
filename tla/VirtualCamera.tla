----------------------------- MODULE VirtualCamera -----------------------------
(***************************************************************************)
(* CameraVirtual and CameraVirtualPreview (virtual/camera_virtual.cpp):    *)
(* one physical camera for a preview and a recording session, and the      *)
(* thread that scales the frames of the one down for the other.            *)
(*                                                                         *)
(*   main thread     startRecording(), stopRecording()                     *)
(*   rtsp thread     startPreview(), stopPreview()                         *)
(*   device thread   callbacks of the physical camera: enqueue()           *)
(*   preview thread  doPreview()                                           *)
(*                                                                         *)
(* The sessions' threads share no lock.  A session calls start once before *)
(* it calls stop, does not look at what start returns, and may call stop   *)
(* without start.  The pool of scaled frames is represented by how many    *)
(* are free, with the preview session, or lost by it (see CameraDrain).    *)
(***************************************************************************)
EXTENDS Naturals, Sequences

CONSTANTS PoolSize,   \* POOL_SIZE_SCALED_DOWN_FRAMES
          MaxPending  \* bound: frames of the camera that may be in pending_

ASSUME VirtualCameraAssumption == PoolSize \in Nat \ {0} /\ MaxPending \in Nat \ {0}

VARIABLES
    up,                   \* the sessions that listen to the camera
    op, pc,               \* the call of each session's thread, and the next step of it
    started,              \* isPreviewStarted_, isRecordingStarted_
    programmed, device,   \* preview-size in the device; size of its frames or "off"
    callback,             \* the device's thread: a frame for enqueue(), or "notify"
    worker, frame,        \* worker_ and srcFrame
    stop, pause, pending, \* stop_, pause_, pending_
    open, avail, held, lost, \* scaled_down_frames_: set, and where the frames are
    overlapped,           \* a call was made while the other session's was in progress
    crashed

callVars == <<up, op, pc, overlapped>>
deviceVars == <<programmed, device>>
workerVars == <<worker, frame>>
poolVars == <<open, avail, held, lost>>
vars == <<callVars, started, deviceVars, callback, workerVars, stop, pause, pending, poolVars, crashed>>

Clients == {"preview", "recording"}
Sizes == {"low", "high"}   \* previewResolution_, recordingResolution_
Steps == {"rest", "check", "start", "params", "device", "flag",   \* starting
          "pause", "pausedHalt", "resume",                        \* changing the resolution
          "teardown", "unflag", "other", "stop", "notify", "join", "drain", "halt"}
Other(c) == IF c = "preview" THEN "recording" ELSE "preview"

(* Types; a free frame is not held or lost as well.                        *)
TypeOK ==
    /\ up \in SUBSET Clients
    /\ op \in [Clients -> {"none", "start", "stop"}]
    /\ pc \in [Clients -> Steps]
    /\ started \in [Clients -> BOOLEAN]
    /\ programmed \in Sizes /\ device \in Sizes \union {"off"}
    /\ callback \in Sizes \union {"none", "notify"}
    /\ worker \in {"none", "lock", "asleep", "alloc", "convert", "deliver", "exited"}
    /\ frame \in Sizes \union {"none"}
    /\ {stop, pause, open, overlapped, crashed} \subseteq BOOLEAN
    /\ pending \in Seq(Sizes) /\ Len(pending) <= MaxPending
    /\ {avail, held, lost} \subseteq 0..PoolSize /\ avail + held + lost <= PoolSize

Init ==
    /\ up = {} /\ op = [c \in Clients |-> "none"] /\ pc = [c \in Clients |-> "rest"]
    /\ started = [c \in Clients |-> FALSE]
    /\ programmed = "low" /\ device = "off" /\ callback = "none"
    /\ worker = "none" /\ frame = "none"
    /\ stop = FALSE /\ pause = FALSE /\ pending = <<>>
    /\ open = FALSE /\ avail = 0 /\ held = 0 /\ lost = 0
    /\ overlapped = FALSE /\ crashed = FALSE

Joinable == worker # "none"

Goto(c, l) == pc' = [pc EXCEPT ![c] = l] /\ UNCHANGED <<up, op, overlapped>>

Return(c) ==
    /\ pc' = [pc EXCEPT ![c] = "rest"] /\ op' = [op EXCEPT ![c] = "none"]
    /\ UNCHANGED <<up, overlapped>>

(* The session's thread is inside a call of the camera.                    *)
Busy(c) == pc[c] \notin {"rest", "teardown"}

-----------------------------------------------------------------------------
(* The sessions *)

StartRequest(c) ==
    /\ pc[c] = "rest" /\ c \notin up
    /\ up' = up \union {c}
    /\ op' = [op EXCEPT ![c] = "start"] /\ pc' = [pc EXCEPT ![c] = "check"]
    /\ overlapped' = (overlapped \/ Busy(Other(c)))
    /\ UNCHANGED <<started, deviceVars, callback, workerVars, stop, pause, pending, poolVars, crashed>>

StopRequest(c) ==
    /\ pc[c] = "rest"
    /\ op' = [op EXCEPT ![c] = "stop"] /\ pc' = [pc EXCEPT ![c] = "teardown"]
    /\ UNCHANGED <<up, overlapped, started, deviceVars, callback, workerVars, stop, pause, pending,
                   poolVars, crashed>>

(* VSession::stop() up to stopPlaying(): the encoder takes no more frames  *)
(* and has given all back, and the session no longer listens.              *)
SessionDown(c) ==
    /\ pc[c] = "teardown"
    /\ c = "preview" => held = 0
    /\ up' = up \ {c}
    /\ pc' = [pc EXCEPT ![c] = "unflag"]
    /\ overlapped' = (overlapped \/ Busy(Other(c)))
    /\ UNCHANGED <<op, started, deviceVars, callback, workerVars, stop, pause, pending, poolVars, crashed>>

(* The preview session is done with a scaled frame.                        *)
GiveBack ==
    /\ held > 0
    /\ held' = held - 1 /\ avail' = avail + 1
    /\ UNCHANGED <<callVars, started, deviceVars, callback, workerVars, stop, pause, pending, open,
                   lost, crashed>>

(* Frames that come back while the session stops are dropped.              *)
Lose ==
    /\ pc["preview"] = "teardown" /\ held > 0
    /\ held' = held - 1 /\ lost' = lost + 1
    /\ UNCHANGED <<callVars, started, deviceVars, callback, workerVars, stop, pause, pending, open,
                   avail, crashed>>

-----------------------------------------------------------------------------
(* startPreview(), startRecording() *)

(* EALREADY, EBUSY, or on to start the worker or switch its resolution.    *)
CheckStarted(c) ==
    /\ pc[c] = "check"
    /\ \/ (started[c] \/ (c = "preview" /\ started["recording"])) /\ Return(c)
       \/ /\ ~started[c]
          /\ \/ c = "preview" /\ ~started["recording"] /\ Goto(c, "start")
             \/ c = "recording" /\ ~started["preview"] /\ Goto(c, "start")
             \/ c = "recording" /\ started["preview"] /\ Goto(c, "pause")
    /\ UNCHANGED <<started, deviceVars, callback, workerVars, stop, pause, pending, poolVars, crashed>>

(* CameraVirtualPreview::start(), after two getResolution() that may fail: *)
(* EALREADY; a pool that is set before its init() fails, and stays set     *)
(* with the scaler, as does what is left of it until a stop() that finds a *)
(* worker; or a worker.                                                    *)
StartWorker(c) ==
    /\ pc[c] = "start"
    /\ \/ Return(c) /\ UNCHANGED <<worker, poolVars>>
       \/ /\ ~Joinable /\ open' = TRUE /\ held' = 0 /\ lost' = 0
          /\ \/ avail' = 0 /\ Return(c) /\ UNCHANGED worker
             \/ avail' = PoolSize /\ worker' = "lock" /\ Goto(c, "params")
    /\ UNCHANGED <<started, deviceVars, callback, frame, stop, pause, pending, crashed>>

(* The size of the frames a call sets the device to.                       *)
TargetSize(c) == IF c = "recording" /\ op[c] = "start" THEN "high" ELSE "low"

SetDeviceParameters(c) ==
    /\ pc[c] = "params"
    /\ \/ programmed' = TargetSize(c) /\ Goto(c, "device")
       \/ Return(c) /\ UNCHANGED programmed
    /\ UNCHANGED <<started, device, callback, workerVars, stop, pause, pending, poolVars, crashed>>

(* icd_->startPreview(); the end of stopRecording(), whose result nobody   *)
(* looks at.                                                               *)
StartDevice(c) ==
    /\ pc[c] = "device"
    /\ \/ device' = programmed /\ op[c] = "start" /\ Goto(c, "flag")
       \/ device' = programmed /\ op[c] = "stop" /\ Return(c)
       \/ Return(c) /\ UNCHANGED device
    /\ UNCHANGED <<started, programmed, callback, workerVars, stop, pause, pending, poolVars, crashed>>

SetStarted(c) ==
    /\ pc[c] = "flag"
    /\ started' = [started EXCEPT ![c] = TRUE]
    /\ Return(c)
    /\ UNCHANGED <<deviceVars, callback, workerVars, stop, pause, pending, poolVars, crashed>>

-----------------------------------------------------------------------------
(* stopPreview(), stopRecording() *)

ClearStarted(c) ==
    /\ pc[c] = "unflag"
    /\ started' = [started EXCEPT ![c] = FALSE]
    /\ Goto(c, "other")
    /\ UNCHANGED <<deviceVars, callback, workerVars, stop, pause, pending, poolVars, crashed>>

(* MUTANT: the worker is stopped whoever else uses it.                     *)
OtherUsesWorkerNever(c) == FALSE

(* MUTANT: the sessions that listen are taken for those that play.         *)
OtherListens(c) == Other(c) \in up

(* Does the other session need the worker?                                 *)
OtherUsesWorker(c) == started[Other(c)]

CheckOther(c) ==
    /\ pc[c] = "other"
    /\ \/ OtherUsesWorker(c) /\ c = "preview" /\ Return(c)
       \/ OtherUsesWorker(c) /\ c = "recording" /\ Goto(c, "pause")
       \/ ~OtherUsesWorker(c) /\ Goto(c, "stop")
    /\ UNCHANGED <<started, deviceVars, callback, workerVars, stop, pause, pending, poolVars, crashed>>

(* MUTANT: there is nothing to stop if the device is off.                  *)
StopWorkerIfOn(c) ==
    /\ pc[c] = "stop"
    /\ \/ Joinable /\ device # "off" /\ stop' = TRUE /\ Goto(c, "notify")
       \/ (~Joinable \/ device = "off") /\ Goto(c, "halt") /\ UNCHANGED stop
    /\ UNCHANGED <<started, deviceVars, callback, workerVars, pause, pending, poolVars, crashed>>

(* CameraVirtualPreview::stop(), which does nothing without a worker.      *)
StopWorker(c) ==
    /\ pc[c] = "stop"
    /\ \/ Joinable /\ stop' = TRUE /\ Goto(c, "notify")
       \/ ~Joinable /\ Goto(c, "halt") /\ UNCHANGED stop
    /\ UNCHANGED <<started, deviceVars, callback, workerVars, pause, pending, poolVars, crashed>>

(* MUTANT: the wait is for a frame only.                                   *)
WokenByFrame == IF worker = "asleep" /\ pending # <<>> THEN "lock" ELSE worker

Woken == IF worker = "asleep" THEN "lock" ELSE worker

NotifyStop(c) ==
    /\ pc[c] = "notify"
    /\ worker' = Woken
    /\ Goto(c, "join")
    /\ UNCHANGED <<started, deviceVars, callback, frame, stop, pause, pending, poolVars, crashed>>

(* Two joins of one thread are undefined, a join of none throws.           *)
Join(c) ==
    /\ pc[c] = "join"
    /\ \/ worker = "exited" /\ worker' = "none" /\ Goto(c, "drain") /\ UNCHANGED crashed
       \/ /\ worker = "none" \/ pc[Other(c)] = "join"
          /\ crashed' = TRUE /\ UNCHANGED <<callVars, worker>>
    /\ UNCHANGED <<started, deviceVars, callback, frame, stop, pause, pending, poolVars>>

(* MUTANT: stop() and pause() keep the queue.                              *)
DropPendingNot == UNCHANGED pending

DropPending == pending' = <<>>

FinishStop(c) ==
    /\ pc[c] = "drain"
    /\ DropPending
    /\ open' = FALSE /\ avail' = 0 /\ held' = 0 /\ lost' = 0
    /\ stop' = FALSE
    /\ Goto(c, "halt")
    /\ UNCHANGED <<started, deviceVars, callback, workerVars, pause, crashed>>

StopDevice(c) ==
    /\ device' = "off"
    /\ \/ pc[c] = "halt" /\ Return(c)
       \/ pc[c] = "pausedHalt" /\ Goto(c, "resume")
    /\ UNCHANGED <<started, programmed, callback, workerVars, stop, pause, pending, poolVars, crashed>>

-----------------------------------------------------------------------------
(* The switch between resolutions *)

PauseWorker(c) ==
    /\ pc[c] = "pause"
    /\ pause' = TRUE
    /\ DropPending
    /\ Goto(c, "pausedHalt")
    /\ UNCHANGED <<started, deviceVars, callback, workerVars, stop, poolVars, crashed>>

(* getResolution() fails and the worker stays paused, for later sessions   *)
(* too; or resume() replaces the scaler without the lock, undefined if the *)
(* worker is using it.                                                     *)
ResumeWorker(c) ==
    /\ pc[c] = "resume"
    /\ \/ Return(c) /\ UNCHANGED <<pause, crashed>>
       \/ pause' = FALSE /\ Goto(c, "params") /\ UNCHANGED crashed
       \/ worker = "convert" /\ crashed' = TRUE /\ UNCHANGED <<callVars, pause>>
    /\ UNCHANGED <<started, deviceVars, callback, workerVars, stop, pending, poolVars>>

-----------------------------------------------------------------------------
(* device thread: onPreviewFrame(); stopping the device does not wait for  *)
(* the callback as far as this code knows *)

Deliver ==
    /\ callback = "none" /\ device # "off" /\ Len(pending) < MaxPending
    /\ callback' = device
    /\ UNCHANGED <<callVars, started, deviceVars, workerVars, stop, pause, pending, poolVars, crashed>>

(* MUTANT: enqueue() looks at pause_ only.                                 *)
AcceptingUnlessPaused == ~pause

Accepting == ~pause /\ Joinable

Enqueue ==
    /\ callback \in Sizes
    /\ \/ /\ Accepting
          /\ pending' = Append(pending, callback) /\ callback' = "notify"
       \/ ~Accepting /\ callback' = "none" /\ UNCHANGED pending
    /\ UNCHANGED <<callVars, started, deviceVars, workerVars, stop, pause, poolVars, crashed>>

NotifyFrame ==
    /\ callback = "notify" /\ callback' = "none"
    /\ worker' = Woken
    /\ UNCHANGED <<callVars, started, deviceVars, frame, stop, pause, pending, poolVars, crashed>>

-----------------------------------------------------------------------------
(* preview thread: doPreview() *)

(* With the lock: at the head of the loop, and after each wakeup.          *)
TakeFrame ==
    /\ worker = "lock"
    /\ \/ stop /\ worker' = "exited" /\ UNCHANGED <<frame, pending>>
       \/ ~stop /\ pending = <<>> /\ worker' = "asleep" /\ UNCHANGED <<frame, pending>>
       \/ /\ ~stop /\ pending # <<>>
          /\ frame' = Head(pending) /\ pending' = Tail(pending) /\ worker' = "alloc"
    /\ UNCHANGED <<callVars, started, deviceVars, callback, stop, pause, poolVars, crashed>>

WakeSpuriously ==
    /\ worker = "asleep" /\ worker' = "lock"
    /\ UNCHANGED <<callVars, started, deviceVars, callback, frame, stop, pause, pending, poolVars, crashed>>

(* alloc() waits for a free frame; scaled_down_frames_ may be null.        *)
AllocScaled ==
    /\ worker = "alloc"
    /\ \/ /\ open /\ avail > 0 /\ avail' = avail - 1
          /\ worker' = "convert" /\ UNCHANGED crashed
       \/ ~open /\ crashed' = TRUE /\ UNCHANGED <<worker, avail>>
    /\ UNCHANGED <<callVars, started, deviceVars, callback, frame, stop, pause, pending, open, held, lost>>

Convert ==
    /\ worker = "convert" /\ worker' = "deliver"
    /\ UNCHANGED <<callVars, started, deviceVars, callback, frame, stop, pause, pending, poolVars, crashed>>

(* MUTANT: onVirtualFrame() takes no notice of whether a session kept the  *)
(* frame.                                                                  *)
ReleaseScaledAlways(kept) == avail' = avail + 1 /\ held' = IF kept THEN held + 1 ELSE held

ReleaseScaled(kept) ==
    IF kept THEN held' = held + 1 /\ UNCHANGED avail ELSE avail' = avail + 1 /\ UNCHANGED held

(* onVirtualFrame(), then both frames are released.  The preview session   *)
(* may keep the scaled one until its encoder is told to stop; what the     *)
(* recording session does with the other one is not followed.              *)
DeliverVirtual ==
    /\ worker = "deliver"
    /\ LET previewing == started["preview"] /\ "preview" \in up /\ pc["preview"] # "teardown"
       IN  \E kept \in {FALSE, previewing} : ReleaseScaled(kept)
    /\ worker' = "lock" /\ frame' = "none"
    /\ UNCHANGED <<callVars, started, deviceVars, callback, stop, pause, pending, open, lost, crashed>>

-----------------------------------------------------------------------------
Call(c) ==
    \/ CheckStarted(c) \/ StartWorker(c) \/ SetDeviceParameters(c) \/ StartDevice(c) \/ SetStarted(c)
    \/ ClearStarted(c) \/ CheckOther(c) \/ StopWorker(c) \/ NotifyStop(c) \/ Join(c)
    \/ FinishStop(c) \/ StopDevice(c) \/ PauseWorker(c) \/ ResumeWorker(c)

Callback == Deliver \/ Enqueue \/ NotifyFrame

DoPreview == TakeFrame \/ AllocScaled \/ Convert \/ DeliverVirtual

Next ==
    /\ ~crashed
    /\ \/ \E c \in Clients : StartRequest(c) \/ StopRequest(c) \/ SessionDown(c) \/ Call(c)
       \/ GiveBack \/ Lose \/ Callback \/ DoPreview \/ WakeSpuriously

Spec == Init /\ [][Next]_vars

(* Threads run on, and the session gives frames back or loses them.        *)
Fairness ==
    /\ \A c \in Clients : WF_vars(~crashed /\ Call(c)) /\ WF_vars(~crashed /\ SessionDown(c))
    /\ WF_vars(~crashed /\ (Enqueue \/ NotifyFrame))
    /\ WF_vars(~crashed /\ DoPreview)
    /\ WF_vars(~crashed /\ (GiveBack \/ Lose))

FairSpec == Spec /\ Fairness

-----------------------------------------------------------------------------
(* No frame of the camera waits in pending_ without a worker to take it,   *)
(* except until the stop() in progress drops it: however the calls of the  *)
(* two sessions overlap.                                                   *)
QueueServed == pending # <<>> => Joinable \/ \E c \in Clients : pc[c] = "drain"

(* The worker is never left asleep over a frame, or over a stop(): whoever *)
(* unlocked after the change is about to notify it.                        *)
WakeupPending ==
    worker = "asleep" =>
        /\ pending # <<>> => callback = "notify" \/ \E c \in Clients : pc[c] = "notify"
        /\ stop => \E c \in Clients : pc[c] = "notify"

(* As long as calls have not overlapped, a session that plays has a worker *)
(* with a pool that nobody is stopping, also while the other one starts,   *)
(* stops or fails.                                                         *)
PlayingHasWorker ==
    ~overlapped /\ (\E c \in Clients : started[c]) =>
        worker \notin {"none", "exited"} /\ open /\ ~stop

Quiet == ~overlapped /\ \A c \in Clients : pc[c] = "rest"

(* Between calls the device has the resolution of the session that plays,  *)
(* recording first, or could not be started again for the preview; and it  *)
(* is off when none plays, whatever has failed.                            *)
RightSize ==
    Quiet =>
        CASE started["recording"] -> device = "high"
          [] ~started["recording"] /\ started["preview"] -> device \in {"low", "off"}
          [] OTHER -> device = "off"

(* When both sessions are down nothing runs on for them, whichever step of *)
(* a start or a change of resolution has failed: no worker, no device, no  *)
(* frame in the queue, and no stop_ for the next worker to find.           *)
DownIsStill ==
    Quiet /\ up = {} => ~Joinable /\ device = "off" /\ pending = <<>> /\ ~stop

(* That the memory is given back as well, and that the next session gets   *)
(* frames, does not hold: a pool whose init() failed is only released by a *)
(* stop() that finds a worker, and stop() does not clear pause_.           *)
NothingKept == Quiet /\ up = {} => ~open
NeverMute == Quiet /\ up = {} => ~pause

(* After a change of resolution at most two frames of the former one are   *)
(* still on their way, the worker's and the one in the callback.           *)
FormerSize ==
    IF device = "off" THEN 0
    ELSE Len(SelectSeq(pending, LAMBDA s : s # device))
         + (IF frame \in Sizes \ {device} THEN 1 ELSE 0)
         + (IF callback \in Sizes \ {device} THEN 1 ELSE 0)

StaleBounded == ~overlapped => FormerSize <= 2

(* Scaled frames that a stopping preview session has lost are missing only *)
(* while a recording goes on.                                              *)
LossesEnd == Quiet /\ lost > 0 => started["recording"]

(* A stop() joins the worker in the end, unless every scaled frame was     *)
(* lost (see CameraDrain), or calls have overlapped.                       *)
StopReturns ==
    \A c \in Clients :
        (op[c] = "stop") ~> (op[c] # "stop" \/ crashed \/ overlapped \/ lost = PoolSize)
=============================================================================
