-------------------------------- MODULE Session --------------------------------
(***************************************************************************)
(* VSession::start(), stop() and the destructor (qcamvid_session.cpp) with *)
(* every failure of the calls they make, and the state handshake with the  *)
(* encoder (omx/encoder_component.h).  start() leaves what it has acquired *)
(* when it fails, for stop(); neither the daemon nor the RTSP server keeps *)
(* a client from starting a session that is running or half started.       *)
(*                                                                         *)
(*   session thread  the requests, one at a time, call by call             *)
(*   codec thread    completes the state transitions (EventCallback)       *)
(*                                                                         *)
(* A buffer pool is represented by the component whose headers it has.     *)
(* The encoder is external: it moves from loaded to idle once both ports   *)
(* have their buffers, and refuses a command to enter the state it is in.  *)
(***************************************************************************)
EXTENDS Naturals, FiniteSets

CONSTANTS Handles,  \* bound: component instances that exist at one time
          None

ASSUME SessionAssumption == None \notin Handles /\ IsFiniteSet(Handles)

VARIABLES
    op,                  \* "none", "start", "stop", "destroy" or "gone"
    at,                  \* the next call of the request
    result,              \* what the last request returned: "none", "ok" or "error"
    camera, listening,   \* camera_, and the listener registered with it
    playing,             \* startPlaying() succeeded
    hEnc,                \* hEncoder_
    est,                 \* the state of each component
    h, current, requested,       \* h_, current_, requested_ of EncoderComponent
    input, output, drainPool,    \* input_, output_, and pool_ of the drain
    sink, ready,         \* outputComponent_ is set, ready_
    restarted,           \* start() was called on a session that was not stopped
    crashed

opVars == <<op, at, result, restarted>>
cameraVars == <<camera, listening, playing>>
waitVars == <<h, current, requested>>
poolVars == <<input, output, drainPool>>
vars == <<opVars, cameraVars, hEnc, est, waitVars, poolVars, sink, ready, crashed>>

EncoderStates == {"absent", "loaded", "wantIdle", "idle", "wantExecuting", "executing", "wantStop"}
Existing == {e \in Handles : est[e] # "absent"}
MaybeHandle == Handles \union {None}

(* Types, and that callbacks are let through only with a camera.           *)
TypeOK ==
    /\ op \in {"none", "start", "stop", "destroy", "gone"}
    /\ at \in {"rest", "camera", "encoder", "configure", "enter", "alloc", "waitIdle", "sink",
               "exec", "waitExec", "fill", "drain", "play", "toidle", "waitStop", "teardown",
               "halt", "free"}
    /\ at = "rest" <=> op \in {"none", "gone"}
    /\ result \in {"none", "ok", "error"}
    /\ {camera, listening, playing, sink, ready, restarted, crashed} \subseteq BOOLEAN
    /\ {hEnc, h, input, output, drainPool} \subseteq MaybeHandle
    /\ est \in [Handles -> EncoderStates]
    /\ {current, requested} \subseteq {"invalid", "idle", "executing"}
    /\ ready => camera

Init ==
    /\ op = "none" /\ at = "rest" /\ result = "none" /\ restarted = FALSE /\ crashed = FALSE
    /\ camera = FALSE /\ listening = FALSE /\ playing = FALSE
    /\ hEnc = None /\ est = [e \in Handles |-> "absent"]
    /\ h = None /\ current = "invalid" /\ requested = "invalid"
    /\ input = None /\ output = None /\ drainPool = None
    /\ sink = FALSE /\ ready = FALSE

Continue(l) == at' = l /\ UNCHANGED <<op, result, restarted>>

Return(r) ==
    /\ op' = IF op = "destroy" THEN "gone" ELSE "none"
    /\ at' = "rest" /\ result' = r
    /\ UNCHANGED restarted

Encoder(e, s) == est' = [est EXCEPT ![e] = s]

-----------------------------------------------------------------------------
(* start() *)

Clean == ~camera /\ hEnc = None

StartRequest ==
    /\ op = "none"
    /\ op' = "start" /\ at' = "camera"
    /\ restarted' = (restarted \/ ~Clean)
    /\ UNCHANGED <<result, cameraVars, hEnc, est, waitVars, poolVars, sink, ready, crashed>>

(* CameraFactory::get() has the camera at hand if the session has it.      *)
InitializeCamera ==
    /\ at = "camera"
    /\ \/ ~camera /\ Return("error") /\ UNCHANGED cameraVars    \* no camera
       \/ /\ camera' = TRUE /\ Return("error")                  \* mCameraParams.init()
          /\ UNCHANGED <<listening, playing>>
       \/ /\ camera' = TRUE /\ listening' = TRUE
          /\ Continue("encoder") \/ Return("error")             \* configureCamera()
          /\ UNCHANGED playing
    /\ UNCHANGED <<hEnc, est, waitVars, poolVars, sink, ready, crashed>>

(* OMX_GetHandle(), OMX_SetParameter(), then EncoderComponent::init().     *)
InitializeEncoder ==
    /\ at = "encoder"
    /\ \/ Return("error") /\ UNCHANGED <<hEnc, est, waitVars>>
       \/ \E e \in Handles \ Existing :
              /\ hEnc' = e /\ Encoder(e, "loaded")
              /\ \/ Return("error") /\ UNCHANGED waitVars
                 \/ /\ h' = e /\ current' = "invalid" /\ requested' = "invalid"
                    /\ Continue("configure")
    /\ UNCHANGED <<cameraVars, poolVars, sink, ready, crashed>>

ConfigureEncoder ==
    /\ at = "configure"
    /\ Continue("enter") \/ Return("error")
    /\ UNCHANGED <<cameraVars, hEnc, est, waitVars, poolVars, sink, ready, crashed>>

(* enter(OMX_StateIdle): requested_ is set even if the command fails.      *)
EnterIdle ==
    /\ at = "enter"
    /\ requested' = "idle"
    /\ \/ Encoder(h, "wantIdle") /\ Continue("alloc")
       \/ Return("error") /\ UNCHANGED est
    /\ UNCHANGED <<cameraVars, hEnc, h, current, poolVars, sink, ready, crashed>>

(* BufferPool::create() replaces the pool even if its init() fails.        *)
AllocOMXBuffers ==
    /\ at = "alloc"
    /\ \/ input' = hEnc /\ output' = hEnc /\ Continue("waitIdle")
       \/ input' = hEnc /\ output' = None /\ Return("error")
       \/ input' = None /\ Return("error") /\ UNCHANGED output
    /\ UNCHANGED <<cameraVars, hEnc, est, waitVars, drainPool, sink, ready, crashed>>

(* wait_until(OMX_StateIdle).                                              *)
WaitUntilIdle ==
    /\ at = "waitIdle" /\ current = "idle"
    /\ Continue("sink")
    /\ UNCHANGED <<cameraVars, hEnc, est, waitVars, poolVars, sink, ready, crashed>>

InitSink ==
    /\ at = "sink"
    /\ \/ sink' = TRUE /\ Continue("exec")
       \/ UNCHANGED sink /\ Return("error")
    /\ UNCHANGED <<cameraVars, hEnc, est, waitVars, poolVars, ready, crashed>>

(* enter_and_wait_until(OMX_StateExecuting).                               *)
EnterExecuting ==
    /\ at = "exec"
    /\ requested' = "executing"
    /\ \/ Encoder(h, "wantExecuting") /\ Continue("waitExec")
       \/ Return("error") /\ UNCHANGED est
    /\ UNCHANGED <<cameraVars, hEnc, h, current, poolVars, sink, ready, crashed>>

WaitUntilExecuting ==
    /\ at = "waitExec" /\ current = "executing"
    /\ ready' = TRUE
    /\ Continue("fill")
    /\ UNCHANGED <<cameraVars, hEnc, est, waitVars, poolVars, sink, crashed>>

(* OMX_FillThisBuffer on the output headers.                               *)
FillBuffers ==
    /\ at = "fill"
    /\ Continue("drain") \/ Return("error")
    /\ UNCHANGED <<cameraVars, hEnc, est, waitVars, poolVars, sink, ready, crashed>>

(* EALREADY if the drain of an earlier start() is open.                    *)
OpenOMXDrain ==
    /\ at = "drain"
    /\ \/ drainPool # None /\ Return("error") /\ UNCHANGED drainPool
       \/ drainPool = None /\ drainPool' = input /\ Continue("play")
    /\ UNCHANGED <<cameraVars, hEnc, est, waitVars, input, output, sink, ready, crashed>>

(* startPlaying(); what it returns is not looked at.                       *)
StartPlaying ==
    /\ at = "play"
    /\ playing' \in {playing, TRUE}
    /\ Return("ok")
    /\ UNCHANGED <<camera, listening, hEnc, est, waitVars, poolVars, sink, ready, crashed>>

-----------------------------------------------------------------------------
(* stop(), and the destructor that calls it *)

(* MUTANT: stop() forgets ready_.                                          *)
ReadyWhenStoppingKept == ready

ReadyWhenStopping == FALSE

StopRequest ==
    /\ op = "none"
    /\ ready' = ReadyWhenStopping
    /\ \/ /\ camera /\ at' = "toidle" /\ op' \in {"stop", "destroy"}
          /\ UNCHANGED result
       \/ /\ ~camera /\ at' = "rest" /\ op' \in {"none", "gone"} /\ result' = "ok"
    /\ UNCHANGED <<restarted, cameraVars, hEnc, est, waitVars, poolVars, sink, crashed>>

(* enter_and_wait_until(OMX_StateIdle) does nothing if the state was       *)
(* requested before.  The result is not looked at.                         *)
AlreadyRequested ==
    /\ at = "toidle" /\ requested = "idle"
    /\ Continue("teardown")
    /\ UNCHANGED <<cameraVars, hEnc, est, waitVars, poolVars, sink, ready, crashed>>

(* OMX_SendCommand() through h_.                                           *)
RequestIdle ==
    /\ at = "toidle" /\ requested # "idle" /\ h # None
    /\ requested' = "idle"
    /\ \/ est[h] = "loaded" /\ Encoder(h, "wantIdle") /\ Continue("waitStop")
       \/ est[h] = "executing" /\ Encoder(h, "wantStop") /\ Continue("waitStop")
       \/ UNCHANGED est /\ Continue("teardown")
    /\ UNCHANGED <<cameraVars, hEnc, h, current, poolVars, sink, ready, crashed>>

RequestThroughNull ==
    /\ at = "toidle" /\ requested # "idle" /\ h = None
    /\ crashed' = TRUE
    /\ UNCHANGED <<opVars, cameraVars, hEnc, est, waitVars, poolVars, sink, ready>>

(* MUTANT: enter() in place of enter_and_wait_until().                     *)
WaitUntilStoppedNot ==
    /\ at = "waitStop"
    /\ Continue("teardown")
    /\ UNCHANGED <<cameraVars, hEnc, est, waitVars, poolVars, sink, ready, crashed>>

WaitUntilStopped ==
    /\ at = "waitStop" /\ current = "idle"
    /\ Continue("teardown")
    /\ UNCHANGED <<cameraVars, hEnc, est, waitVars, poolVars, sink, ready, crashed>>

(* MUTANT: output_ is kept.                                                *)
ReleaseInputOnly == input' = None /\ drainPool' = None /\ UNCHANGED output

ReleasePools == input' = None /\ drainPool' = None /\ output' = None

(* The components are reset, the pools and the sink released.              *)
Teardown ==
    /\ at = "teardown"
    /\ h' = None /\ current' = "invalid" /\ requested' = "invalid"
    /\ listening' = FALSE
    /\ ReleasePools
    /\ sink' = FALSE
    /\ Continue("halt")
    /\ UNCHANGED <<camera, playing, hEnc, est, ready, crashed>>

(* stopPlaying(), which is pure virtual by the time ~VSession() calls it.  *)
StopPlaying ==
    /\ at = "halt"
    /\ \/ op = "stop" /\ playing' = FALSE /\ Continue("free") /\ UNCHANGED crashed
       \/ op = "destroy" /\ crashed' = TRUE /\ UNCHANGED <<opVars, playing>>
    /\ UNCHANGED <<camera, listening, hEnc, est, waitVars, poolVars, sink, ready>>

(* MUTANT: hEncoder_ is cleared before OMX_FreeHandle(hEncoder_).          *)
FreedHandleNone == est

FreedHandle == [e \in Handles |-> IF e = hEnc THEN "absent" ELSE est[e]]

FreeHandle ==
    /\ at = "free"
    /\ est' = FreedHandle
    /\ hEnc' = None /\ camera' = FALSE
    /\ Return("ok")
    /\ UNCHANGED <<listening, playing, waitVars, poolVars, sink, ready, crashed>>

-----------------------------------------------------------------------------
(* codec thread: a transition completes, and EventCallback calls set() *)

Populated(e) == input = e /\ output = e

(* MUTANT: set() of the idle state is missed by the waiter.                *)
SetCurrentNot(s) == UNCHANGED current

SetCurrent(s) == current' = s

Complete(e, s) ==
    /\ Encoder(e, s)
    /\ SetCurrent(s)
    /\ UNCHANGED <<opVars, cameraVars, hEnc, h, requested, poolVars, sink, ready, crashed>>

EncoderIdle(e) ==
    /\ (est[e] = "wantIdle" /\ Populated(e)) \/ est[e] = "wantStop"
    /\ Complete(e, "idle")

EncoderExecuting(e) == est[e] = "wantExecuting" /\ Complete(e, "executing")

-----------------------------------------------------------------------------
Start ==
    \/ InitializeCamera \/ InitializeEncoder \/ ConfigureEncoder \/ EnterIdle
    \/ AllocOMXBuffers \/ WaitUntilIdle \/ InitSink \/ EnterExecuting
    \/ WaitUntilExecuting \/ FillBuffers \/ OpenOMXDrain \/ StartPlaying

Stop ==
    \/ AlreadyRequested \/ RequestIdle \/ RequestThroughNull \/ WaitUntilStopped
    \/ Teardown \/ StopPlaying \/ FreeHandle

Codec == \E e \in Handles : EncoderIdle(e) \/ EncoderExecuting(e)

Next == ~crashed /\ (StartRequest \/ StopRequest \/ Start \/ Stop \/ Codec)

Spec == Init /\ [][Next]_vars

(* A request runs on; the encoder completes the transitions it can.        *)
Fairness == WF_vars(~crashed /\ (Start \/ Stop)) /\ WF_vars(~crashed /\ Codec)

FairSpec == Spec /\ Fairness

-----------------------------------------------------------------------------
(* A component is freed after every pool of its headers: the pools' final()*)
(* calls OMX_FreeBuffer on it.  Whatever start() had acquired when it      *)
(* failed, and however often it was tried.                                 *)
PoolsBeforeHandle == {input, output, drainPool} \ {None} \subseteq Existing

(* FillDoneCallback, which looks at nothing but ready_, never uses a null  *)
(* outputComponent_: not during a start() after one that failed with       *)
(* ready_ set, nor during stop().                                          *)
ReadyHasSink == ready => sink

(* A session that stop() has returned from has nothing left, from whatever *)
(* point start() had reached.                                              *)
StoppedIsClean ==
    op = "none" /\ ~camera =>
        /\ hEnc = None /\ h = None /\ ~listening /\ ~playing /\ ~sink /\ ~ready
        /\ {input, output, drainPool} = {None}

(* The only components are the session's own, unless start() was called    *)
(* again without stop() in between: then the previous one stays for ever.  *)
HandlesAccounted == restarted \/ Existing \subseteq {hEnc}

(* Pools are not freed under a component that uses them: when stop() goes  *)
(* on to free them, a component both of whose ports have their buffers is  *)
(* in no transition, although stop() waits only if it was the one that     *)
(* requested idle.                                                         *)
QuiescentTeardown ==
    at = "teardown" /\ h # None => ~(Populated(h) /\ est[h] \in {"wantIdle", "wantExecuting", "wantStop"})

(* start() always returns, also when it is called again.                   *)
StartReturns == (op = "start") ~> (op # "start")

-----------------------------------------------------------------------------
(* A statement of the docs that the code does not live up to.              *)

(* camera.recording.stop "result : 0 on success. Any non-zero value is an  *)
(* error" (doxy/messages/camera.dox:79): a stop request gets its result.   *)
StopReturns == (op = "stop") ~> (op # "stop")
=============================================================================
