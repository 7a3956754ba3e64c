----------------------------- MODULE CameraDrain -----------------------------
(***************************************************************************)
(* The way of a frame from the camera to the encoder and back:             *)
(* CameraComponent and OmxDrain (omx/camera_component.cpp), the encoder    *)
(* callbacks and the start and stop of VSession (qcamvid_session.cpp),     *)
(* over the input BufferPool of the session.                               *)
(*                                                                         *)
(*   camera thread   ICameraListener callback: processFrame, dispatchOmx   *)
(*   codec thread    EmptyDoneCallback, and the event that ends stop's     *)
(*                   wait; the encoder itself is external                  *)
(*   session thread  start() and stop(), one after the other               *)
(*                                                                         *)
(* The pool is used only with the drain's lock_ held, in dispatchOmx and   *)
(* emptyBufferDone alike, so a thread holds lock_ across steps exactly     *)
(* while it is inside the pool, asleep in allocBuf() included: see         *)
(* LockFree.  A frame is filled, handed to the encoder, and acknowledged;  *)
(* reference counts are those of ICameraFrame.                             *)
(***************************************************************************)
EXTENDS Naturals, Sequences, FiniteSets

CONSTANTS Buffers,       \* input buffer headers (ENCODER_INPUT_BUF_COUNT)
          Frames,        \* the frames the camera cycles through
          NoFrame,       \* pAppPrivate == NULL
          SharedCamera   \* another session keeps the camera streaming

ASSUME DrainAssumption ==
    /\ IsFiniteSet(Buffers) /\ IsFiniteSet(Frames)
    /\ NoFrame \notin Frames /\ SharedCamera \in BOOLEAN

Cam == "camera"
Omx == "codec"
Threads == {Cam, Omx}

VARIABLES
    phase, ready, free, live, out, pc,  \* the pool (BufferPool)
    cam,           \* where the camera thread is
    curF, curB,    \* its frame, and the header it filled
    app,           \* pAppPrivate of each header
    ref,           \* reference count of each frame
    lost,          \* frames whose header was freed with the reference unreleased
    drainOpen,     \* drainer_ and pool_ of the drain are set
    listening,     \* the component is registered with the camera
    streaming,     \* startPlaying() to stopPlaying()
    enc,           \* the encoder's state: "executing", "toidle" or "idle"
    inEnc,         \* headers the encoder holds
    omx, ackB,     \* where the codec thread is, and the header it returns
    sessionReady,  \* VSession::ready_
    inputComp,     \* VSession::inputComponent_ is set
    main,          \* where start() or stop() is
    straddled      \* history: a session started while a callback still had a
                   \* header of an earlier one in hand (see StartSession)

Pool == INSTANCE BufferPool

poolVars == <<phase, ready, free, live, out, pc>>
camVars == <<cam, curF, curB>>
frameVars == <<app, ref, lost>>
drainVars == <<drainOpen, listening, inputComp>>
encVars == <<enc, inEnc, omx, ackB>>
sessVars == <<streaming, sessionReady, main, straddled>>
vars == <<poolVars, camVars, frameVars, drainVars, encVars, sessVars>>

TypeOK ==
    /\ Pool!TypeOK
    /\ cam \in {"idle", "dispatch", "alloc", "empty", "undo", "return"}
    /\ curF \in Frames \union {NoFrame} /\ curB \in Buffers \union {NoFrame}
    /\ app \in [Buffers -> Frames \union {NoFrame}]
    /\ ref \in [Frames -> 0..2] /\ lost \subseteq Frames
    /\ enc \in {"executing", "toidle", "idle"} /\ inEnc \subseteq Buffers
    /\ omx \in {"idle", "ack", "fault"} /\ ackB \in Buffers \union {NoFrame}
    /\ {drainOpen, listening, inputComp, streaming, sessionReady, straddled} \subseteq BOOLEAN
    /\ main \in {"down", "alloc", "attach", "publish", "play", "up", "toidle",
                 "waitIdle", "close", "unlisten", "final", "freeing", "release", "halt"}

Init ==
    /\ Pool!Init
    /\ cam = "idle" /\ curF = NoFrame /\ curB = NoFrame
    /\ app = [b \in Buffers |-> NoFrame] /\ ref = [f \in Frames |-> 0] /\ lost = {}
    /\ drainOpen = FALSE /\ listening = FALSE /\ inputComp = FALSE
    /\ enc = "idle" /\ inEnc = {} /\ omx = "idle" /\ ackB = NoFrame
    /\ streaming = FALSE /\ sessionReady = FALSE /\ main = "down"
    /\ straddled = FALSE

(* Nobody holds the drain's lock_.                                         *)
LockFree == \A t \in Threads : pc[t] = "idle"

-----------------------------------------------------------------------------
(* emptyBufferDone(), by the thread that returns a header *)

(* releaseRef() on a frame without references does nothing.                *)
Released(n) == IF n > 0 THEN n - 1 ELSE n

(* MUTANT: the frame's reference is kept.                                  *)
ReleaseFrameNever(b) == ref' = ref

(* frame->releaseRef() if pAppPrivate is set.                              *)
ReleaseFrame(b) ==
    ref' = IF app[b] \in Frames THEN [ref EXCEPT ![app[b]] = Released(@)] ELSE ref

(* MUTANT: the header is not put back into the pool.                       *)
ReturnHeaderNot(t, b) == UNCHANGED <<poolVars, app>>

(* releaseBuf() also resets pAppPrivate.                                   *)
ReturnHeader(t, b) ==
    /\ Pool!ReleaseBuf(t, b)
    /\ app' = [app EXCEPT ![b] = NoFrame]

EmptyBufferDone(t, b) ==
    /\ LockFree
    /\ \/ /\ ~drainOpen    \* OMX_ErrorInvalidState
          /\ UNCHANGED <<poolVars, app, ref>>
       \/ /\ drainOpen
          /\ ReleaseFrame(b)
          /\ ReturnHeader(t, b)
    /\ UNCHANGED lost

-----------------------------------------------------------------------------
(* camera thread *)

(* A frame nobody refers to any more is filled and delivered: the camera   *)
(* holds a reference during the callback.  processFrame looks at isOpen()  *)
(* without the lock.                                                       *)
DeliverFrame(f) ==
    /\ cam = "idle" /\ listening /\ (streaming \/ SharedCamera)
    /\ ref[f] = 0
    /\ ref' = [ref EXCEPT ![f] = 1]
    /\ curF' = f /\ curB' = NoFrame
    /\ cam' = IF drainOpen THEN "dispatch" ELSE "return"
    /\ UNCHANGED <<poolVars, app, lost, drainVars, encVars, sessVars>>

DispatchClosed ==
    /\ cam = "dispatch" /\ LockFree /\ ~drainOpen    \* EIO
    /\ cam' = "return"
    /\ UNCHANGED <<poolVars, curF, curB, frameVars, drainVars, encVars, sessVars>>

(* MUTANT: the frame is sent without a reference of its own.               *)
HoldFrameNot(f) == UNCHANGED ref

(* frame->acquireRef().                                                    *)
HoldFrame(f) == ref' = [ref EXCEPT ![f] = @ + 1]

(* allocBuf() returns a header, NULL (ENOMEM), or sleeps with lock_ held.  *)
Allocate ==
    \/ /\ Pool!Take(Cam)
       /\ curB' = Head(free)
       /\ app' = [app EXCEPT ![Head(free)] = curF]
       /\ HoldFrame(curF)
       /\ cam' = "empty"
    \/ /\ Pool!TakeNothing(Cam)
       /\ cam' = "return"
       /\ UNCHANGED <<curB, app, ref>>
    \/ /\ Pool!Sleep(Cam)
       /\ cam' = "alloc"
       /\ UNCHANGED <<curB, app, ref>>

Dispatch ==
    /\ cam = "dispatch" /\ LockFree /\ drainOpen
    /\ Allocate
    /\ UNCHANGED <<curF, lost, drainVars, encVars, sessVars>>

DispatchResume ==
    /\ cam = "alloc" /\ pc[Cam] = "woken"
    /\ Allocate
    /\ UNCHANGED <<curF, lost, drainVars, encVars, sessVars>>

WakeSpuriously ==
    /\ Pool!WakeSpuriously(Cam)
    /\ UNCHANGED <<camVars, frameVars, drainVars, encVars, sessVars>>

(* OMX_EmptyThisBuffer, after the unlock: an executing encoder accepts.    *)
EmptyThisBuffer ==
    /\ cam = "empty" /\ enc = "executing"
    /\ inEnc' = inEnc \union {curB}
    /\ cam' = "return"
    /\ UNCHANGED <<poolVars, curF, curB, frameVars, drainVars, enc, omx, ackB, sessVars>>

(* It refuses when it leaves the executing state, and may fail at any time.*)
EmptyThisBufferFails ==
    /\ cam = "empty"
    /\ cam' = "undo"
    /\ UNCHANGED <<poolVars, curF, curB, frameVars, drainVars, encVars, sessVars>>

UndoDispatch ==
    /\ cam = "undo"
    /\ EmptyBufferDone(Cam, curB)
    /\ cam' = "return"
    /\ UNCHANGED <<curF, curB, drainVars, encVars, sessVars>>

(* notify_one() at the end of releaseBuf(), lock_ still held.              *)
Notify(t) ==
    /\ Pool!NotifyOne(t)
    /\ UNCHANGED <<camVars, frameVars, drainVars, encVars, sessVars>>

(* The callback returns, and the camera drops its own reference.           *)
CallbackReturns ==
    /\ cam = "return" /\ pc[Cam] = "idle"
    /\ ref' = [ref EXCEPT ![curF] = Released(@)]
    /\ cam' = "idle" /\ curF' = NoFrame /\ curB' = NoFrame
    /\ UNCHANGED <<poolVars, app, lost, drainVars, encVars, sessVars>>

-----------------------------------------------------------------------------
(* codec thread *)

(* EmptyDoneCallback for a header the encoder consumed or flushed: dropped *)
(* unless the session is ready.                                            *)
EmptyDoneCallback(b) ==
    /\ omx = "idle" /\ pc[Omx] = "idle" /\ b \in inEnc
    /\ inEnc' = inEnc \ {b}
    /\ IF sessionReady THEN omx' = "ack" /\ ackB' = b
                       ELSE UNCHANGED <<omx, ackB>>
    /\ UNCHANGED <<poolVars, camVars, frameVars, drainVars, enc, sessVars>>

(* inputComponent_->emptyBufferDone(), through a null pointer if           *)
(* openOMXDrain has not stored it yet.                                     *)
Acknowledge ==
    /\ omx = "ack"
    /\ IF inputComp THEN EmptyBufferDone(Omx, ackB) /\ omx' = "idle"
                    ELSE omx' = "fault" /\ UNCHANGED <<poolVars, frameVars>>
    /\ ackB' = NoFrame
    /\ UNCHANGED <<camVars, drainVars, enc, inEnc, sessVars>>

(* The encoder has returned every header: OMX_EventCmdComplete.            *)
ReachIdle ==
    /\ enc = "toidle" /\ inEnc = {} /\ omx = "idle" /\ pc[Omx] = "idle"
    /\ enc' = "idle"
    /\ UNCHANGED <<poolVars, camVars, frameVars, drainVars, inEnc, omx, ackB, sessVars>>

-----------------------------------------------------------------------------
(* session thread: start() *)

(* initializeCamera() registers the listener; the encoder goes to Idle     *)
(* while the pool is created.  The drain is the same object in every       *)
(* session, and start() does not wait for a callback that a shared camera  *)
(* runs since an earlier session.  One that is past the unlock in          *)
(* dispatchOmx has a header in hand that is freed by now: its address is   *)
(* used as if the new headers were allocated where the old ones were.      *)
StartSession ==
    /\ main = "down"
    /\ Pool!Create
    /\ listening' = TRUE
    /\ straddled' = (straddled \/ cam \in {"empty", "undo"})
    /\ main' = "alloc"
    /\ UNCHANGED <<camVars, frameVars, drainOpen, inputComp, encVars, streaming, sessionReady>>

AllocateBuffer(b) ==
    /\ main = "alloc"
    /\ Pool!AllocateBuffer(b)
    /\ app' = [app EXCEPT ![b] = NoFrame]
    /\ UNCHANGED <<camVars, ref, lost, drainVars, encVars, sessVars>>

(* The pool is complete, the encoder executes, ready_ is set.              *)
SessionReady ==
    /\ main = "alloc" /\ Pool!InitDone
    /\ enc' = "executing"
    /\ sessionReady' = TRUE
    /\ main' = "attach"
    /\ UNCHANGED <<camVars, frameVars, drainVars, inEnc, omx, ackB, streaming, straddled>>

(* MUTANT: the camera is started before the drain is attached.             *)
OpenDrainWhilePlaying ==
    /\ main = "attach" /\ LockFree
    /\ drainOpen' = TRUE /\ streaming' = TRUE
    /\ main' = "publish"
    /\ UNCHANGED <<poolVars, camVars, frameVars, listening, inputComp, encVars,
                   sessionReady, straddled>>

(* openOMXDrain(): frames are dispatched from here on ...                  *)
OpenDrain ==
    /\ main = "attach" /\ LockFree
    /\ drainOpen' = TRUE
    /\ main' = "publish"
    /\ UNCHANGED <<poolVars, camVars, frameVars, listening, inputComp, encVars,
                   streaming, sessionReady, straddled>>

(* ... and acknowledged from here on: *ppout = OmxDrainPtr(...).           *)
PublishDrain ==
    /\ main = "publish"
    /\ inputComp' = TRUE
    /\ main' = "play"
    /\ UNCHANGED <<poolVars, camVars, frameVars, drainOpen, listening, encVars,
                   streaming, sessionReady, straddled>>

StartPlaying ==
    /\ main = "play"
    /\ streaming' = TRUE
    /\ main' = "up"
    /\ UNCHANGED <<poolVars, camVars, frameVars, drainVars, encVars,
                   sessionReady, straddled>>

-----------------------------------------------------------------------------
(* session thread: stop() *)

StopSession ==
    /\ main = "up"
    /\ sessionReady' = FALSE
    /\ main' = "toidle"
    /\ UNCHANGED <<poolVars, camVars, frameVars, drainVars, encVars, streaming, straddled>>

(* enter_and_wait_until(OMX_StateIdle).                                    *)
RequestIdle ==
    /\ main = "toidle"
    /\ enc' = "toidle"
    /\ main' = "waitIdle"
    /\ UNCHANGED <<poolVars, camVars, frameVars, drainVars, inEnc, omx, ackB,
                   streaming, sessionReady, straddled>>

IdleReached ==
    /\ main = "waitIdle" /\ enc = "idle"
    /\ main' = "close"
    /\ UNCHANGED <<poolVars, camVars, frameVars, drainVars, encVars,
                   streaming, sessionReady, straddled>>

(* MUTANT: the drain is closed without its lock.                           *)
CloseLockFree == TRUE

(* The lock OmxDrain::close() waits for.                                   *)
CloseLock == LockFree

(* MUTANT: the drain is left open.                                         *)
CloseDrainNot ==
    /\ main = "close" /\ CloseLock
    /\ main' = "unlisten"
    /\ UNCHANGED <<poolVars, camVars, frameVars, drainVars, encVars,
                   streaming, sessionReady, straddled>>

(* cameraComponent_.reset(): close the drain, then remove the listener.    *)
CloseDrain ==
    /\ main = "close" /\ CloseLock
    /\ drainOpen' = FALSE
    /\ main' = "unlisten"
    /\ UNCHANGED <<poolVars, camVars, frameVars, listening, inputComp, encVars,
                   streaming, sessionReady, straddled>>

RemoveListener ==
    /\ main = "unlisten"
    /\ listening' = FALSE
    /\ main' = "final"
    /\ UNCHANGED <<poolVars, camVars, frameVars, drainOpen, inputComp, encVars,
                   streaming, sessionReady, straddled>>

(* input_.reset(): the last reference to the pool goes, final() runs.      *)
FreePool ==
    /\ main = "final" /\ Pool!FinalBegin
    /\ main' = "freeing"
    /\ UNCHANGED <<camVars, frameVars, drainVars, encVars,
                   streaming, sessionReady, straddled>>

FreePoolNotify ==
    /\ main = "freeing" /\ Pool!FinalNotify
    /\ UNCHANGED <<camVars, frameVars, drainVars, encVars, sessVars>>

(* A header freed while it is out takes the last pointer to its frame.     *)
FreeBuffer(b) ==
    /\ main = "freeing" /\ Pool!FinalFree(b)
    /\ lost' = IF b \in out THEN lost \union {app[b]} ELSE lost
    /\ UNCHANGED <<camVars, app, ref, drainVars, encVars, sessVars>>

FreePoolDone ==
    /\ main = "freeing" /\ Pool!FinalDone
    /\ main' = "release"
    /\ UNCHANGED <<camVars, frameVars, drainVars, encVars,
                   streaming, sessionReady, straddled>>

(* inputComponent_.reset(): its deleter closes the drain once more.        *)
ReleaseDrain ==
    /\ main = "release" /\ LockFree
    /\ drainOpen' = FALSE /\ inputComp' = FALSE
    /\ main' = "halt"
    /\ UNCHANGED <<poolVars, camVars, frameVars, listening, encVars,
                   streaming, sessionReady, straddled>>

(* stopPlaying(): joins the camera's thread unless another session still   *)
(* uses the camera.                                                        *)
StopPlaying ==
    /\ main = "halt" /\ (SharedCamera \/ cam = "idle")
    /\ streaming' = FALSE
    /\ main' = "down"
    /\ UNCHANGED <<poolVars, camVars, frameVars, drainVars, encVars,
                   sessionReady, straddled>>

-----------------------------------------------------------------------------
CamNext ==
    \/ \E f \in Frames : DeliverFrame(f)
    \/ DispatchClosed \/ Dispatch \/ DispatchResume \/ WakeSpuriously
    \/ EmptyThisBuffer \/ EmptyThisBufferFails \/ UndoDispatch \/ CallbackReturns

OmxNext == (\E b \in Buffers : EmptyDoneCallback(b)) \/ Acknowledge \/ ReachIdle

Start ==
    \/ StartSession \/ SessionReady \/ OpenDrain \/ PublishDrain \/ StartPlaying
    \/ \E b \in Buffers : AllocateBuffer(b)

Stop ==
    \/ StopSession \/ RequestIdle \/ IdleReached \/ CloseDrain \/ RemoveListener
    \/ FreePool \/ FreePoolNotify \/ FreePoolDone \/ ReleaseDrain \/ StopPlaying
    \/ \E b \in Buffers : FreeBuffer(b)

Next == CamNext \/ OmxNext \/ Start \/ Stop \/ \E t \in Threads : Notify(t)

Spec == Init /\ [][Next]_vars

(* What runs is scheduled: a thread that can take its next step takes it,  *)
(* and a mutex it keeps finding free is eventually its own (the strong     *)
(* conditions: the codec's thread and stop() meet the camera's thread at   *)
(* lock_ again and again).  The encoder eventually finishes with each      *)
(* header.  Nothing makes the camera deliver or the user stop or restart.  *)
Fairness ==
    /\ WF_vars(DispatchClosed) /\ WF_vars(Dispatch) /\ WF_vars(DispatchResume)
    /\ WF_vars(EmptyThisBuffer \/ EmptyThisBufferFails)
    /\ WF_vars(UndoDispatch) /\ WF_vars(CallbackReturns)
    /\ \A t \in Threads : WF_vars(Notify(t))
    /\ \A b \in Buffers : SF_vars(EmptyDoneCallback(b))
    /\ SF_vars(Acknowledge) /\ WF_vars(ReachIdle)
    /\ WF_vars(RequestIdle \/ IdleReached \/ RemoveListener \/ FreePool
               \/ FreePoolNotify \/ FreePoolDone \/ StopPlaying
               \/ \E b \in Buffers : FreeBuffer(b))
    /\ SF_vars(CloseDrain) /\ SF_vars(ReleaseDrain)

FairSpec == Spec /\ Fairness

-----------------------------------------------------------------------------
(* Once a callback has straddled a restart (StartSession), its stale       *)
(* header can be in use twice and nothing more is promised about headers:  *)
(* the properties that count them say so.                                  *)

(* A frame is not given back to the camera, which would overwrite it,      *)
(* while the encoder still reads it (camera_component.h:56 "Reference to   *)
(* camera frame is held until the omx component is done with it").         *)
FrameHeldWhileEncoding ==
    ~straddled => \A b \in inEnc : app[b] \in Frames /\ ref[app[b]] > 0

Count(P) == IF P THEN 1 ELSE 0

(* The headers that carry a frame.                                         *)
Carriers == out \intersect live
HeldByHeader(f) == \E b \in Carriers : app[b] = f

(* Every reference is accounted for: one for the callback in progress, one *)
(* for the header the frame is in, one for each header freed under it; no  *)
(* frame is in two headers.                                                *)
RefsAccounted ==
    ~straddled =>
      /\ \A f \in Frames : ref[f] = Count(cam # "idle" /\ curF = f)
                                    + Count(HeldByHeader(f)) + Count(f \in lost)
      /\ \A b1, b2 \in Carriers : app[b1] = app[b2] => b1 = b2

(* From the opening of the drain until stop() gives up the pool, a header  *)
(* that left the pool exists and is with one of dispatchOmx, the encoder   *)
(* and the acknowledgement, although all three use it without the lock:    *)
(* stop() frees none before the drain is closed.  Afterwards it does,      *)
(* under a callback too (HeaderOutlivesDispatch), for it stops the camera  *)
(* last; what a callback does that meets a later session's drain with such *)
(* a header is NoStrayHeader's.                                            *)
OneHolder ==
    ~straddled /\ (drainOpen \/ phase = "open") =>
      /\ inEnc \subseteq Carriers
      /\ cam \in {"empty", "undo"} => curB \in Carriers \ inEnc
      /\ omx = "ack" => ackB \in Carriers \ inEnc
      /\ cam \in {"empty", "undo"} /\ omx = "ack" => curB # ackB

(* With no more frames than headers (7 and 7 in the virtual camera's       *)
(* preview: camera_virtual.cpp:456 "enough buffers for down stream         *)
(* encoding") dispatchOmx finds a header at once.  It has to: it would     *)
(* sleep with the lock that emptyBufferDone needs.                         *)
NeverStarved ==
    ~straddled /\ Cardinality(Frames) <= Cardinality(Buffers) =>
        pc[Cam] \notin {"asleep", "woken"}

(* The codec's thread never acknowledges through a null inputComponent_:   *)
(* if the camera streams only between startPlaying() and stopPlaying(),    *)
(* the drain is published before the first frame.                          *)
AckFindsDrain == ~SharedCamera => omx # "fault"

(* Every frame the encoder gets comes back to the camera, unless the       *)
(* session stops meanwhile.                                                *)
FrameComesBack ==
    \A f \in Frames :
        (ref[f] > 0 /\ f \notin lost /\ sessionReady) ~> (ref[f] = 0 \/ ~sessionReady)

(* stop() ends, whatever callbacks it meets.                               *)
StopCompletes == (main = "toidle") ~> (main = "down")

(* final() never runs under a thread in allocBuf(): while the drain is     *)
(* open its reference keeps the pool open.  So the interruption that       *)
(* final() provides for (buffer_pool.cpp:78) reaches nobody: a camera      *)
(* thread stuck in allocBuf() is not freed by stop().                      *)
PoolOpenUnderDrain ==
    /\ drainOpen => phase = "open"
    /\ pc[Cam] # "idle" => drainOpen

-----------------------------------------------------------------------------
(* Statements of the source that the code does not live up to.             *)

(* "This may block until a buffer becomes available" (buffer_pool.h:109):  *)
(* dispatchOmx that waits for a header gets one once the encoder is done   *)
(* with one.                                                               *)
AllocationEnds ==
    (cam = "alloc" /\ main = "up") ~> (cam # "alloc" \/ main # "up")

(* "Reference to camera frame is held until the omx component is done with *)
(* it" (camera_component.h:56): once the session is down and its headers   *)
(* are gone, the camera has all its frames back.                           *)
FramesReturnedAfterStop ==
    main = "down" /\ cam = "idle" => \A f \in Frames : ref[f] = 0

(* "unlock below might open up the small window if component is reset"     *)
(* (camera_component.cpp:74): the header dispatchOmx passes to             *)
(* OMX_EmptyThisBuffer after the unlock has not been freed.                *)
HeaderOutlivesDispatch == cam \in {"empty", "undo"} => curB \in live

(* No header comes into a pool's free list that is not its own or is there *)
(* already, whatever callback of an earlier session returns it.            *)
NoStrayHeader == phase = "open" => Pool!Conservation
=============================================================================
