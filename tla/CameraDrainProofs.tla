-------------------------- MODULE CameraDrainProofs --------------------------
(***************************************************************************)
(* Theorems about CameraDrain, for every finite set of headers and frames. *)
(* What the pool guarantees is taken from BufferPoolProofs: until a        *)
(* callback straddles a restart, every step of the drain is a step of the  *)
(* pool or leaves it alone.                                                *)
(*                                                                         *)
(* The invariant has two layers.  Control - where the three threads are,   *)
(* and the types - holds whatever the camera does.  Headers - who has each *)
(* header and each reference - holds until a callback straddles a restart. *)
(***************************************************************************)
EXTENDS CameraDrain, FiniteSetTheorems, TLAPS

PP == INSTANCE BufferPoolProofs

(* The parameters given to the pool satisfy its assumption (whose          *)
(* IsFiniteSet is the one of the FiniteSets the pool's module extends).    *)
LEMMA PoolParameters == PP!IsFiniteSet(Buffers) /\ PP!IsFiniteSet(Threads)
<1>1. IsFiniteSet({Cam}) /\ IsFiniteSet({Cam} \union {Omx})
  BY FS_Singleton, FS_AddElement
<1>2. {Cam} \union {Omx} = {Cam, Omx}
  OBVIOUS
<1>3. IsFiniteSet({Cam, Omx})
  BY <1>1, <1>2, Zenon
<1>4. IsFiniteSet(Threads)
  BY <1>3 DEF Threads
<1> QED
  BY <1>4, DrainAssumption DEF PP!IsFiniteSet, IsFiniteSet

(* The pool's invariants are preserved by the pool's steps.                *)
LEMMA PoolInvariant ==
    PP!IInv /\ PP!NoLostWakeup /\ [PP!Next]_(PP!vars) => PP!IInv' /\ PP!NoLostWakeup'
BY PP!NextIInv, PP!NextWakeup, PoolParameters

(* The two instances of BufferPool have the same steps.                    *)
LEMMA SamePool ==
    /\ Pool!Init => PP!Init
    /\ [Pool!Next]_(Pool!vars) => [PP!Next]_(PP!vars)
    /\ PP!TypeOK => Pool!TypeOK
<1>1. ASSUME NEW t \in Threads, Pool!Step(t) PROVE PP!Step(t)
  <2>1. ASSUME NEW b \in out \intersect live, Pool!ReleaseBuf(t, b) PROVE PP!ReleaseBuf(t, b)
    BY <2>1 DEF Pool!ReleaseBuf, PP!ReleaseBuf, Pool!PcAfterPush, PP!PcAfterPush
  <2>2. Pool!Attempt(t) => PP!Attempt(t)
    BY DEF Pool!Attempt, PP!Attempt, Pool!Take, PP!Take, Pool!TakeFront, PP!TakeFront,
           Pool!TakeNothing, PP!TakeNothing, Pool!Sleep, PP!Sleep,
           Pool!WaitOver, PP!WaitOver, Pool!Interrupted, PP!Interrupted
  <2>3. Pool!WakeSpuriously(t) => PP!WakeSpuriously(t)
    BY DEF Pool!WakeSpuriously, PP!WakeSpuriously
  <2>4. Pool!NotifyOne(t) => PP!NotifyOne(t)
    BY DEF Pool!NotifyOne, PP!NotifyOne, Pool!Asleep, PP!Asleep
  <2> QED
    BY <1>1, <2>1, <2>2, <2>3, <2>4
       DEF Pool!Step, PP!Step, Pool!AllocBuf, PP!AllocBuf, Pool!Resume, PP!Resume
<1>2. Pool!Final => PP!Final
  BY DEF Pool!Final, PP!Final, Pool!FinalBegin, PP!FinalBegin, Pool!FinalNotify,
         PP!FinalNotify, Pool!FinalDone, PP!FinalDone, Pool!FinalFree, PP!FinalFree
<1>3. /\ Pool!Create => PP!Create
      /\ Pool!InitDone => PP!InitDone
      /\ \A b \in Buffers : Pool!AllocateBuffer(b) => PP!AllocateBuffer(b)
  BY DEF Pool!Create, PP!Create, Pool!InitDone, PP!InitDone,
         Pool!AllocateBuffer, PP!AllocateBuffer
<1>4. Pool!Init => PP!Init
  BY DEF Pool!Init, PP!Init
<1>5. PP!TypeOK => Pool!TypeOK
  BY DEF Pool!TypeOK, PP!TypeOK
<1>6. [Pool!Next]_(Pool!vars) => [PP!Next]_(PP!vars)
  BY <1>1, <1>2, <1>3 DEF Pool!Next, PP!Next, Pool!vars, PP!vars
<1> QED
  BY <1>4, <1>5, <1>6

-----------------------------------------------------------------------------
(* The inductive invariant, in parts. *)

(* Types of what is not the pool's.                                        *)
Types ==
    /\ cam \in {"idle", "dispatch", "alloc", "empty", "undo", "return"}
    /\ curF \in Frames \union {NoFrame} /\ curB \in Buffers \union {NoFrame}
    /\ app \in [Buffers -> Frames \union {NoFrame}]
    /\ ref \in [Frames -> 0..2] /\ lost \subseteq Frames
    /\ enc \in {"executing", "toidle", "idle"} /\ inEnc \subseteq Buffers
    /\ omx \in {"idle", "ack", "fault"} /\ ackB \in Buffers \union {NoFrame}
    /\ {drainOpen, listening, inputComp, streaming, sessionReady, straddled} \subseteq BOOLEAN
    /\ main \in {"down", "alloc", "attach", "publish", "play", "up", "toidle",
                 "waitIdle", "close", "unlisten", "final", "freeing", "release", "halt"}

Attached == {"publish", "play", "up", "toidle", "waitIdle", "close"}

(* Where start() and stop() are fixes the pool's phase, whether the drain  *)
(* is open, and when the encoder can be other than idle.                   *)
Phases ==
    /\ phase = "init" <=> main = "alloc"
    /\ phase = "open" <=> main \in Attached \union {"attach", "unlisten", "final"}
    /\ phase = "gone" <=> main \in {"down", "release", "halt"}
    /\ phase = "init" => out = {}
    /\ drainOpen <=> main \in Attached
    /\ enc # "idle" => main \in (Attached \ {"close"}) \union {"attach"}
    /\ inputComp <=> main \in (Attached \ {"publish"})
                              \union {"unlisten", "final", "freeing", "release"}

(* The camera thread is in the pool as its own state says, a thread inside *)
(* the pool has the drain open, and the encoder is busy with what it has.  *)
CamInv ==
    /\ cam = "idle" <=> curF = NoFrame
    /\ cam \in {"empty", "undo"} => curB \in Buffers
    /\ cam \in {"dispatch", "alloc"} => ref[curF] <= 1
    /\ cam = "alloc" <=> pc[Cam] \in {"asleep", "woken"}
    /\ pc[Cam] = "notify" => cam = "return"
    /\ pc[Omx] \in {"idle", "notify"}
    /\ omx = "ack" => ackB \in Buffers
    /\ inEnc # {} \/ omx = "ack" => enc # "idle"
    /\ \A b \in out : app[b] \in Frames
    /\ \A t \in Threads : pc[t] # "idle" => drainOpen

(* A camera of the session's own delivers only while the session plays, so *)
(* none of its callbacks sees two sessions.                                *)
OwnCamera ==
    ~SharedCamera =>
      /\ streaming => main \notin {"down", "alloc", "attach", "publish", "play"}
      /\ cam # "idle" => streaming
      /\ inEnc # {} \/ omx = "ack" => main \notin {"attach", "publish"}
      /\ omx # "fault"
      /\ ~straddled

Control == Pool!TypeOK /\ Types /\ Phases /\ CamInv /\ OwnCamera

(* Who holds a header that left the pool: the camera thread about to send  *)
(* it, the encoder, or the codec's thread about to return it - one at a    *)
(* time - and the frame it carries.                                        *)
HeaderInv ==
    /\ \A b \in Carriers : app[b] \in Frames \ lost
    /\ cam \in {"dispatch", "alloc"} => curF \notin lost /\ \A b \in Carriers : app[b] # curF
    /\ cam \in {"empty", "undo"} /\ phase = "open" =>
         curB \in out \ inEnc /\ (omx = "ack" => ackB # curB)
    /\ inEnc \subseteq out
    /\ omx = "ack" => ackB \in out \ inEnc
    /\ inEnc # {} \/ omx = "ack" => drainOpen
    /\ main \in {"alloc", "attach"} => cam \notin {"empty", "undo"}

Headers ==
    PP!IInv /\ PP!NoLostWakeup /\ HeaderInv /\ RefsAccounted /\ NeverStarved

DInv == Control /\ (straddled \/ Headers)

-----------------------------------------------------------------------------
(* Every step of the drain is one of the pool, leaves the pool alone, or   *)
(* gives back a header that is not out: the camera thread or the codec's   *)
(* with a header of an earlier session.                                    *)
Stray(t, b) ==
    /\ Pool!ReleaseBuf(t, b) /\ b \notin Carriers /\ drainOpen
    /\ \/ cam = "undo" /\ b = curB
       \/ omx = "ack" /\ b = ackB

LEMMA PoolStep ==
    Phases /\ CamInv /\ [Next]_vars =>
        [Pool!Next]_(Pool!vars) \/ \E t \in Threads, b \in Buffers : Stray(t, b)
<1> SUFFICES ASSUME Phases, CamInv, [Next]_vars,
                    ~\E t \in Threads, b \in Buffers : Stray(t, b)
             PROVE  [Pool!Next]_(Pool!vars)
  OBVIOUS
<1> USE DEF poolVars, Pool!vars
<1>1. Cam \in Threads /\ Omx \in Threads
  BY DEF Threads
<1>2. ASSUME NEW t \in Threads, Pool!Step(t) PROVE Pool!Next
  BY <1>2 DEF Pool!Next
<1>3. CASE CamNext
  <2>1. ASSUME Allocate PROVE Pool!Attempt(Cam)
    BY <2>1 DEF Allocate, Pool!Attempt
  <2>2. CASE Dispatch
    <3>1. Pool!Attempt(Cam) /\ pc[Cam] = "idle" /\ phase \notin {"gone", "init"}
      BY <2>1, <2>2, <1>1 DEF Dispatch, LockFree, Phases, Attached
    <3> QED
      BY <3>1, <1>1, <1>2 DEF Pool!Step, Pool!AllocBuf
  <2>3. CASE DispatchResume
    <3>1. Pool!Attempt(Cam) /\ pc[Cam] = "woken"
      BY <2>1, <2>3 DEF DispatchResume
    <3> QED
      BY <3>1, <1>1, <1>2 DEF Pool!Step, Pool!Resume
  <2>4. CASE WakeSpuriously
    BY <2>4, <1>1, <1>2 DEF WakeSpuriously, Pool!Step
  <2>5. CASE UndoDispatch
    <3>1. curB \in Buffers /\ cam = "undo"
      BY <2>5 DEF UndoDispatch, CamInv
    <3>2. CASE drainOpen /\ Pool!ReleaseBuf(Cam, curB)
      <4>1. curB \in out \intersect live
        BY <1>1, <3>1, <3>2 DEF Stray, Carriers
      <4> QED
        BY <3>2, <4>1, <1>1, <1>2 DEF Pool!Step
    <3> QED
      BY <2>5, <3>2 DEF UndoDispatch, EmptyBufferDone, ReturnHeader
  <2> QED
    BY <1>3, <2>2, <2>3, <2>4, <2>5 DEF CamNext, DeliverFrame, DispatchClosed,
       EmptyThisBuffer, EmptyThisBufferFails, CallbackReturns
<1>4. CASE OmxNext
  <2>1. CASE Acknowledge
    <3>1. ackB \in Buffers /\ omx = "ack"
      BY <2>1 DEF Acknowledge, CamInv
    <3>2. CASE drainOpen /\ Pool!ReleaseBuf(Omx, ackB)
      <4>1. ackB \in out \intersect live
        BY <1>1, <3>1, <3>2 DEF Stray, Carriers
      <4> QED
        BY <3>2, <4>1, <1>1, <1>2 DEF Pool!Step
    <3> QED
      BY <2>1, <3>2 DEF Acknowledge, EmptyBufferDone, ReturnHeader
  <2> QED
    BY <1>4, <2>1 DEF OmxNext, EmptyDoneCallback, ReachIdle
<1>5. CASE Start
  BY <1>5 DEF Start, StartSession, SessionReady, OpenDrain, PublishDrain, StartPlaying,
     AllocateBuffer, Pool!Next
<1>6. CASE Stop
  BY <1>6 DEF Stop, StopSession, RequestIdle, IdleReached, CloseDrain, RemoveListener,
     FreePool, FreePoolNotify, FreePoolDone, ReleaseDrain, StopPlaying, FreeBuffer,
     Pool!Next, Pool!Final
<1>7. ASSUME NEW t \in Threads, Notify(t)
      PROVE  Pool!Next
  BY <1>7, <1>2 DEF Notify, Pool!Step
<1>8. CASE UNCHANGED vars
  BY <1>8 DEF vars
<1> QED
  BY <1>3, <1>4, <1>5, <1>6, <1>7, <1>8 DEF Next

(* Before any callback has straddled a restart, no header is stray.        *)
LEMMA HeadersPoolStep ==
    Control /\ Headers /\ [Next]_vars => [Pool!Next]_(Pool!vars)
<1> SUFFICES ASSUME Control, Headers, NEW t \in Threads, NEW b \in Buffers, Stray(t, b)
             PROVE  FALSE
  BY PoolStep DEF Control
<1>1. phase = "open" /\ live = Buffers
  BY DEF Stray, Control, Phases, Attached, Headers, PP!IInv, PP!Conservation
<1> QED
  BY <1>1 DEF Stray, Headers, HeaderInv, Carriers

(* Types in the pool survive any step of it, a stray header's too.         *)
LEMMA PoolTypes ==
    ASSUME Pool!TypeOK,
           \/ [Pool!Next]_(Pool!vars)
           \/ \E t \in Threads, b \in Buffers : Pool!ReleaseBuf(t, b)
    PROVE  Pool!TypeOK'
<1> USE DEF Pool!TypeOK
<1>1. ASSUME NEW t \in Threads, NEW b \in Buffers, Pool!ReleaseBuf(t, b) PROVE Pool!TypeOK'
  <2>1. Append(free, b) \in Seq(Buffers)
    OBVIOUS
  <2> QED
    BY <1>1, <2>1 DEF Pool!ReleaseBuf, Pool!PcAfterPush
<1>2. ASSUME NEW t \in Threads, Pool!Attempt(t) PROVE Pool!TypeOK'
  <2>1. free # <<>> => Head(free) \in Buffers /\ Tail(free) \in Seq(Buffers)
    OBVIOUS
  <2> QED
    BY <1>2, <2>1 DEF Pool!Attempt, Pool!Take, Pool!TakeFront, Pool!TakeNothing, Pool!Sleep,
       Pool!WaitOver, Pool!Interrupted
<1>3. ASSUME NEW t \in Threads, Pool!Step(t) PROVE Pool!TypeOK'
  BY <1>1, <1>2, <1>3 DEF Pool!Step, Pool!AllocBuf, Pool!Resume, Pool!WakeSpuriously,
     Pool!NotifyOne, Pool!Asleep
<1>4. ASSUME NEW b \in Buffers, Pool!AllocateBuffer(b) PROVE Pool!TypeOK'
  <2>1. Append(free, b) \in Seq(Buffers)
    OBVIOUS
  <2> QED
    BY <1>4, <2>1 DEF Pool!AllocateBuffer
<1>5. CASE Pool!Create \/ Pool!InitDone
  <2>1. <<>> \in Seq(Buffers)
    OBVIOUS
  <2> QED
    BY <1>5, <2>1 DEF Pool!Create, Pool!InitDone
<1>6. CASE Pool!Final
  BY <1>6 DEF Pool!Final, Pool!FinalBegin, Pool!FinalNotify, Pool!FinalFree, Pool!FinalDone
<1>7. CASE UNCHANGED Pool!vars
  BY <1>7 DEF Pool!vars
<1> QED
  BY <1>1, <1>3, <1>4, <1>5, <1>6, <1>7 DEF Pool!Next

LEMMA NextPoolTypes == Control /\ [Next]_vars => Pool!TypeOK'
BY PoolStep, PoolTypes DEF Control, Stray

-----------------------------------------------------------------------------
(* What allocBuf() under the drain's lock, and emptyBufferDone, do.        *)

LEMMA AllocateControl ==
    ASSUME Pool!TypeOK, Types, Phases, Allocate, drainOpen
    PROVE  /\ phase = "open" /\ UNCHANGED <<phase, live>>
           /\ \/ \E b \in Buffers :
                   /\ out' = out \union {b} /\ pc' = [pc EXCEPT ![Cam] = "idle"]
                   /\ curB' = b /\ app' = [app EXCEPT ![b] = curF]
                   /\ ref' = [ref EXCEPT ![curF] = @ + 1] /\ cam' = "empty"
              \/ /\ pc' = [pc EXCEPT ![Cam] = "asleep"]
                 /\ cam' = "alloc" /\ UNCHANGED <<out, curB, app, ref>>
<1>1. phase = "open" /\ ready /\ free \in Seq(Buffers)
  BY DEF Phases, Attached, Pool!TypeOK
<1>2. free # <<>> => Head(free) \in Buffers
  BY <1>1
<1> QED
  BY <1>1, <1>2 DEF Allocate, Pool!Take, Pool!TakeFront, Pool!TakeNothing, Pool!Sleep,
     Pool!WaitOver, Pool!Interrupted, HoldFrame

LEMMA AllocateEffect ==
    ASSUME PP!IInv, Types, Phases, Allocate, drainOpen
    PROVE  /\ phase = "open" /\ UNCHANGED <<phase, live>>
           /\ \/ \E b \in Buffers \ out :
                   /\ out' = out \union {b} /\ pc' = [pc EXCEPT ![Cam] = "idle"]
                   /\ curB' = b /\ app' = [app EXCEPT ![b] = curF]
                   /\ ref' = [ref EXCEPT ![curF] = @ + 1] /\ cam' = "empty"
              \/ /\ out = Buffers /\ pc' = [pc EXCEPT ![Cam] = "asleep"]
                 /\ cam' = "alloc" /\ UNCHANGED <<out, curB, app, ref>>
<1>1. phase = "open" /\ ready
  BY DEF Phases, Attached, PP!IInv, PP!TypeOK
<1>2. free \in Seq(Buffers)
  BY DEF PP!IInv, PP!TypeOK
<1>3. CASE Pool!Take(Cam) /\ curB' = Head(free) /\ app' = [app EXCEPT ![Head(free)] = curF]
           /\ HoldFrame(curF) /\ cam' = "empty"
  <2>1. free # <<>>
    BY <1>1, <1>3 DEF Pool!Take, Pool!WaitOver
  <2>2. Head(free) \in Buffers /\ Head(free) \in PP!Range(free)
    BY <1>2, <2>1, PP!PopFacts, PoolParameters
  <2>3. Head(free) \notin out
    BY <2>2 DEF PP!IInv, PP!Conservation
  <2> QED
    BY <1>1, <1>3, <2>2, <2>3 DEF Pool!Take, Pool!TakeFront, HoldFrame
<1>4. CASE Pool!Sleep(Cam) /\ cam' = "alloc" /\ UNCHANGED <<curB, app, ref>>
  <2>1. free = <<>>
    BY <1>4 DEF Pool!Sleep, Pool!WaitOver
  <2>2. PP!Range(free) = {}
    BY <2>1 DEF PP!Range
  <2>3. out = Buffers
    BY <1>1, <2>2 DEF PP!IInv, PP!Conservation
  <2> QED
    BY <1>1, <1>4, <2>3 DEF Pool!Sleep
<1> QED
  BY <1>1, <1>3, <1>4 DEF Allocate, Pool!TakeNothing, Pool!Interrupted

LEMMA AcknowledgeEffect ==
    ASSUME Types, NEW t \in Threads, NEW b \in Buffers, EmptyBufferDone(t, b)
    PROVE  \/ ~drainOpen /\ UNCHANGED <<poolVars, frameVars>>
           \/ /\ drainOpen /\ LockFree
              /\ out' = out \ {b} /\ pc' = [pc EXCEPT ![t] = "notify"]
              /\ app' = [app EXCEPT ![b] = NoFrame]
              /\ UNCHANGED <<phase, live, lost>>
              /\ ref' = IF app[b] \in Frames THEN [ref EXCEPT ![app[b]] = Released(@)] ELSE ref
BY DEF EmptyBufferDone, ReturnHeader, ReleaseFrame, Pool!ReleaseBuf, Pool!PcAfterPush,
       frameVars, poolVars

-----------------------------------------------------------------------------
(* Each part of the invariant is preserved. *)

LEMMA NextTypes == Control /\ [Next]_vars => Types'
<1> SUFFICES ASSUME Control, [Next]_vars PROVE Types'
  OBVIOUS
<1> USE DEF Types, poolVars, camVars, frameVars, drainVars, encVars, sessVars
<1>1. /\ Pool!TypeOK /\ Types /\ Phases /\ CamInv
      /\ \A n \in 0..2 : Released(n) \in 0..2
  BY DEF Control, Released
<1>2. CASE CamNext
  <2>1. ASSUME NEW f \in Frames, DeliverFrame(f) PROVE Types'
    BY <1>1, <2>1 DEF DeliverFrame
  <2>2. CASE Dispatch \/ DispatchResume
    <3>1. Allocate /\ drainOpen /\ curF \in Frames
          /\ ref[curF] + 1 \in 0..2
          /\ UNCHANGED <<curF, lost, drainVars, encVars, sessVars>>
      BY <1>1, <2>2 DEF Dispatch, DispatchResume, CamInv, Threads
    <3> QED
      BY <1>1, <3>1, AllocateControl
  <2>3. CASE UndoDispatch
    <3>1. curB \in Buffers /\ EmptyBufferDone(Cam, curB) /\ Cam \in Threads
      BY <1>1, <2>3 DEF UndoDispatch, CamInv, Threads
    <3> QED
      BY <1>1, <2>3, <3>1, AcknowledgeEffect DEF UndoDispatch
  <2>4. CASE EmptyThisBuffer
    BY <1>1, <2>4 DEF EmptyThisBuffer, CamInv
  <2>5. CASE CallbackReturns
    BY <1>1, <2>5 DEF CallbackReturns, CamInv
  <2> QED
    BY <1>1, <1>2, <2>1, <2>2, <2>3, <2>4, <2>5 DEF CamNext, DispatchClosed, WakeSpuriously,
       EmptyThisBufferFails
<1>3. CASE OmxNext
  <2>1. CASE Acknowledge
    <3>1. ackB \in Buffers /\ Omx \in Threads
      BY <1>1, <2>1 DEF Acknowledge, CamInv, Threads
    <3> QED
      BY <1>1, <2>1, <3>1, AcknowledgeEffect DEF Acknowledge
  <2>2. ASSUME NEW b \in Buffers, EmptyDoneCallback(b) PROVE Types'
    BY <1>1, <2>2 DEF EmptyDoneCallback
  <2>3. CASE ReachIdle
    BY <1>1, <2>3 DEF ReachIdle
  <2> QED
    BY <1>3, <2>1, <2>2, <2>3 DEF OmxNext
<1>4. CASE Start
  <2>1. CASE StartSession
    BY <1>1, <2>1 DEF StartSession
  <2>2. CASE SessionReady
    BY <1>1, <2>2 DEF SessionReady
  <2>3. CASE OpenDrain
    BY <1>1, <2>3 DEF OpenDrain
  <2>4. CASE PublishDrain
    BY <1>1, <2>4 DEF PublishDrain
  <2>5. CASE StartPlaying
    BY <1>1, <2>5 DEF StartPlaying
  <2>6. ASSUME NEW b \in Buffers, AllocateBuffer(b) PROVE Types'
    BY <1>1, <2>6 DEF AllocateBuffer
  <2> QED
    BY <1>4, <2>1, <2>2, <2>3, <2>4, <2>5, <2>6 DEF Start
<1>5. CASE Stop
  <2>1. ASSUME NEW b \in Buffers, FreeBuffer(b) PROVE Types'
    <3>1. b \in out => app[b] \in Frames
      BY <1>1 DEF CamInv
    <3> QED
      BY <1>1, <2>1, <3>1 DEF FreeBuffer
  <2>2. CASE StopSession \/ RequestIdle \/ IdleReached
    BY <1>1, <2>2 DEF StopSession, RequestIdle, IdleReached
  <2>3. CASE CloseDrain \/ RemoveListener
    BY <1>1, <2>3 DEF CloseDrain, RemoveListener
  <2>6. CASE ReleaseDrain \/ StopPlaying
    BY <1>1, <2>6 DEF ReleaseDrain, StopPlaying
  <2>4. CASE FreePool
    BY <1>1, <2>4 DEF FreePool
  <2>5. CASE FreePoolNotify \/ FreePoolDone
    BY <1>1, <2>5 DEF FreePoolNotify, FreePoolDone
  <2> QED
    BY <1>5, <2>1, <2>2, <2>3, <2>4, <2>5, <2>6 DEF Stop
<1>6. ASSUME NEW t \in Threads, Notify(t)
      PROVE  Types'
  BY <1>1, <1>6 DEF Notify
<1>7. CASE UNCHANGED vars
  BY <1>1, <1>7 DEF vars
<1> QED
  BY <1>2, <1>3, <1>4, <1>5, <1>6, <1>7 DEF Next

LEMMA NextPhases == Control /\ [Next]_vars => Phases'
<1> SUFFICES ASSUME Control, [Next]_vars PROVE Phases'
  OBVIOUS
<1> USE DEF Phases, Attached, poolVars, camVars, frameVars, drainVars, encVars, sessVars
<1>1. Pool!TypeOK /\ Types /\ Phases /\ CamInv
  BY DEF Control
<1>2. CASE CamNext
  <2>1. UNCHANGED <<phase, drainVars, enc, main>> /\ (phase = "init" => out' \subseteq out)
    <3>1. CASE Dispatch \/ DispatchResume
      BY <1>1, <3>1 DEF Dispatch, DispatchResume, Allocate, Pool!Take, Pool!TakeNothing,
         Pool!Sleep, CamInv, Threads
    <3> QED
      BY <1>2, <3>1 DEF CamNext, DeliverFrame, DispatchClosed, WakeSpuriously, EmptyThisBuffer,
         EmptyThisBufferFails, UndoDispatch, EmptyBufferDone, ReturnHeader, CallbackReturns,
         Pool!WakeSpuriously, Pool!ReleaseBuf
  <2> QED
    BY <1>1, <2>1
<1>3. CASE OmxNext
  BY <1>1, <1>3 DEF OmxNext, EmptyDoneCallback, Acknowledge, EmptyBufferDone, ReturnHeader,
     ReachIdle, Pool!ReleaseBuf
<1>4. CASE Start
  BY <1>1, <1>4 DEF Start, StartSession, SessionReady, OpenDrain, PublishDrain, StartPlaying,
     AllocateBuffer, Pool!Create, Pool!InitDone, Pool!AllocateBuffer
<1>5. CASE Stop
  BY <1>1, <1>5 DEF Stop, StopSession, RequestIdle, IdleReached, CloseDrain, RemoveListener,
     FreePool, FreePoolNotify, FreePoolDone, ReleaseDrain, StopPlaying, FreeBuffer,
     Pool!FinalBegin, Pool!FinalNotify, Pool!FinalDone, Pool!FinalFree, Types
<1>6. ASSUME NEW t \in Threads, Notify(t)
      PROVE  Phases'
  BY <1>1, <1>6 DEF Notify, Pool!NotifyOne
<1>7. CASE UNCHANGED vars
  BY <1>1, <1>7 DEF vars
<1> QED
  BY <1>2, <1>3, <1>4, <1>5, <1>6, <1>7 DEF Next

LEMMA NextCam == Control /\ [Next]_vars => CamInv'
<1> SUFFICES ASSUME Control, [Next]_vars PROVE CamInv'
  OBVIOUS
<1> USE DEF CamInv, Threads, poolVars, camVars, frameVars, drainVars, encVars, sessVars
<1>1. /\ Pool!TypeOK /\ Types /\ Phases /\ CamInv
      /\ pc \in [Threads -> {"idle", "asleep", "woken", "notify"}] /\ out \subseteq Buffers
      /\ app \in [Buffers -> Frames \union {NoFrame}] /\ ref \in [Frames -> 0..2]
      /\ curF \in Frames \union {NoFrame}
      /\ Cam # Omx /\ NoFrame \notin Frames
      /\ \A n \in 0..2 : Released(n) <= n
  BY DrainAssumption DEF Control, Pool!TypeOK, Cam, Omx, Types, Released
<1>2. CASE CamNext
  <2>1. ASSUME NEW f \in Frames, DeliverFrame(f) PROVE CamInv'
    BY <1>1, <2>1 DEF DeliverFrame, Phases, Attached
  <2>2. CASE Dispatch \/ DispatchResume
    <3>1. Allocate /\ drainOpen /\ cam \in {"dispatch", "alloc"}
          /\ UNCHANGED <<curF, lost, drainVars, encVars, sessVars>>
      BY <1>1, <2>2 DEF Dispatch, DispatchResume
    <3> QED
      BY <1>1, <3>1, AllocateControl
  <2>3. CASE UndoDispatch
    <3>1. curB \in Buffers /\ EmptyBufferDone(Cam, curB)
      BY <1>1, <2>3 DEF UndoDispatch
    <3> QED
      BY <1>1, <2>3, <3>1, AcknowledgeEffect DEF UndoDispatch
  <2>4. CASE WakeSpuriously
    BY <1>1, <2>4 DEF WakeSpuriously, Pool!WakeSpuriously
  <2> QED
    BY <1>1, <1>2, <2>1, <2>2, <2>3, <2>4 DEF CamNext, DispatchClosed,
       EmptyThisBuffer, EmptyThisBufferFails, CallbackReturns
<1>3. CASE OmxNext
  <2>1. CASE Acknowledge
    <3>1. ackB \in Buffers
      BY <1>1, <2>1 DEF Acknowledge
    <3>2. /\ UNCHANGED <<camVars, drainVars, enc, inEnc, main>>
          /\ omx' # "ack" /\ Omx \in Threads
      BY <2>1 DEF Acknowledge
    <3>3. CASE EmptyBufferDone(Omx, ackB)
      <4>1. CASE UNCHANGED <<poolVars, frameVars>>
        BY <1>1, <3>1, <3>2, <4>1
      <4>2. /\ \A b \in out \ {ackB} : [app EXCEPT ![ackB] = NoFrame][b] \in Frames
            /\ \A f \in Frames : IF app[ackB] \in Frames
                                 THEN [ref EXCEPT ![app[ackB]] = Released(@)][f] <= ref[f]
                                 ELSE ref[f] <= ref[f]
        BY <1>1, <3>1
      <4>3. ASSUME /\ drainOpen /\ LockFree
                   /\ out' = out \ {ackB} /\ pc' = [pc EXCEPT ![Omx] = "notify"]
                   /\ app' = [app EXCEPT ![ackB] = NoFrame]
                   /\ ref' = IF app[ackB] \in Frames
                             THEN [ref EXCEPT ![app[ackB]] = Released(@)] ELSE ref
            PROVE  CamInv'
        <5>1. \A f \in Frames : ref[f] <= 1 => ref'[f] <= 1
          <6>1. ASSUME NEW f \in Frames, ref[f] <= 1 PROVE ref'[f] <= 1
            BY <1>1, <4>3, <6>1 DEF Released
          <6> QED
            BY <6>1
        <5>2. \A b \in out' : app'[b] \in Frames
          BY <4>2, <4>3
        <5>3. pc'[Cam] = pc[Cam] /\ pc'[Omx] = "notify"
          BY <1>1, <3>2, <4>3
        <5>4. curF \in Frames \/ cam = "idle"
          BY <1>1
        <5> QED
          BY <1>1, <3>2, <4>3, <5>1, <5>2, <5>3, <5>4
      <4> QED
        BY <1>1, <3>1, <3>2, <3>3, <4>1, <4>3, AcknowledgeEffect
    <3>4. CASE UNCHANGED <<poolVars, frameVars>>
      BY <1>1, <3>2, <3>4
    <3> QED
      BY <2>1, <3>3, <3>4 DEF Acknowledge
  <2> QED
    BY <1>1, <1>3, <2>1 DEF OmxNext, EmptyDoneCallback, ReachIdle
<1>4. CASE Start
  BY <1>1, <1>4 DEF Start, StartSession, SessionReady, OpenDrain, PublishDrain, StartPlaying,
     AllocateBuffer, Pool!Create, Pool!InitDone, Pool!AllocateBuffer, Phases, Attached
<1>5. CASE Stop
  <2>1. CASE CloseDrain \/ ReleaseDrain
    BY <1>1, <2>1 DEF CloseDrain, ReleaseDrain, CloseLock, LockFree
  <2>2. CASE FreePoolNotify
    BY <1>1, <2>2 DEF FreePoolNotify, Pool!FinalNotify, Phases, Attached
  <2> QED
    BY <1>1, <1>5, <2>1, <2>2 DEF Stop, StopSession, RequestIdle, IdleReached, RemoveListener,
     FreePool, FreePoolDone, StopPlaying, FreeBuffer,
     Pool!FinalBegin, Pool!FinalDone, Pool!FinalFree
<1>6. ASSUME NEW t \in Threads, Notify(t)
      PROVE  CamInv'
  <2>1. /\ pc[t] = "notify" /\ drainOpen
        /\ UNCHANGED <<camVars, frameVars, drainOpen, encVars, out, main>>
    BY <1>1, <1>6 DEF Notify, Pool!NotifyOne
  <2>2. CASE pc' = [pc EXCEPT ![t] = "idle"]
    BY <1>1, <2>1, <2>2
  <2>3. ASSUME NEW u \in Pool!Asleep, pc' = [pc EXCEPT ![t] = "idle", ![u] = "woken"]
        PROVE  CamInv'
    <3>1. u \in Threads /\ pc[u] = "asleep"
      BY <2>3 DEF Pool!Asleep
    <3> QED
      BY <1>1, <2>1, <2>3, <3>1
  <2> QED
    BY <1>6, <2>2, <2>3 DEF Notify, Pool!NotifyOne
<1>7. CASE UNCHANGED vars
  BY <1>1, <1>7 DEF vars
<1> QED
  BY <1>2, <1>3, <1>4, <1>5, <1>6, <1>7 DEF Next

LEMMA NextOwnCamera == Control /\ [Next]_vars => OwnCamera'
<1> SUFFICES ASSUME Control, [Next]_vars PROVE OwnCamera'
  OBVIOUS
<1> USE DEF OwnCamera, poolVars, camVars, frameVars, drainVars, encVars, sessVars
<1>1. /\ Types /\ Phases /\ CamInv /\ OwnCamera
      /\ SharedCamera \in BOOLEAN
  BY DrainAssumption DEF Control
<1>2. CASE CamNext
  <2>1. CASE Dispatch \/ DispatchResume
    BY <1>1, <2>1 DEF Dispatch, DispatchResume
  <2>2. CASE EmptyThisBuffer
    BY <1>1, <2>2 DEF EmptyThisBuffer
  <2> QED
    BY <1>1, <1>2, <2>1, <2>2 DEF CamNext, DeliverFrame, DispatchClosed, WakeSpuriously,
       EmptyThisBufferFails, UndoDispatch, CallbackReturns
<1>3. CASE OmxNext
  <2>1. CASE Acknowledge
    <3>1. ~SharedCamera => inputComp
      BY <1>1, <2>1 DEF Acknowledge, CamInv, Phases, Attached
    <3> QED
      BY <1>1, <2>1, <3>1 DEF Acknowledge
  <2> QED
    BY <1>1, <1>3, <2>1 DEF OmxNext, EmptyDoneCallback, ReachIdle
<1>4. CASE Start
  <2>1. CASE OpenDrain
    BY <1>1, <2>1 DEF OpenDrain
  <2>2. CASE SessionReady
    BY <1>1, <2>2 DEF SessionReady, CamInv, Phases, Attached
  <2>3. CASE StartSession
    BY <1>1, <2>3 DEF StartSession
  <2> QED
    BY <1>1, <1>4, <2>1, <2>2, <2>3 DEF Start, PublishDrain, StartPlaying, AllocateBuffer
<1>5. CASE Stop
  BY <1>1, <1>5 DEF Stop, StopSession, RequestIdle, IdleReached, CloseDrain, RemoveListener,
     FreePool, FreePoolNotify, FreePoolDone, ReleaseDrain, StopPlaying, FreeBuffer
<1>6. ASSUME NEW t \in Threads, Notify(t)
      PROVE  OwnCamera'
  BY <1>1, <1>6 DEF Notify
<1>7. CASE UNCHANGED vars
  BY <1>1, <1>7 DEF vars
<1> QED
  BY <1>2, <1>3, <1>4, <1>5, <1>6, <1>7 DEF Next

(* A header is in the pool, in dispatch, in the encoder or on its way back.*)
LEMMA NextHeader ==
    Control /\ Headers /\ ~straddled /\ [Next]_vars /\ ~straddled' => HeaderInv'
<1> SUFFICES ASSUME Control, Headers, ~straddled, [Next]_vars, ~straddled'
             PROVE  HeaderInv'
  OBVIOUS
<1> USE DEF HeaderInv, Carriers, poolVars, camVars, frameVars, drainVars, encVars, sessVars
<1>1. /\ PP!IInv /\ Types /\ Phases /\ CamInv /\ HeaderInv
      /\ NoFrame \notin Frames /\ out \subseteq Buffers /\ live \subseteq Buffers
      /\ Cam \in Threads /\ Omx \in Threads
  BY DrainAssumption DEF Control, Headers, PP!IInv, PP!TypeOK, Threads
<1> USE DEF Types
<1>2. CASE CamNext
  <2>1. ASSUME NEW f \in Frames, DeliverFrame(f) PROVE HeaderInv'
    <3>1. f \notin lost /\ \A b \in Carriers : app[b] # f
      BY <2>1 DEF DeliverFrame, Headers, RefsAccounted, Count, HeldByHeader
    <3> QED
      BY <1>1, <2>1, <3>1 DEF DeliverFrame
  <2>2. CASE Dispatch \/ DispatchResume
    <3>1. Allocate /\ drainOpen /\ cam \in {"dispatch", "alloc"} /\ curF \in Frames
          /\ UNCHANGED <<curF, lost, drainVars, encVars, sessVars>>
      BY <1>1, <2>2 DEF Dispatch, DispatchResume, CamInv
    <3>2. /\ phase = "open" /\ live = Buffers /\ UNCHANGED <<phase, live>>
          /\ main \notin {"alloc", "attach"}
      BY <1>1, <3>1, AllocateEffect DEF PP!IInv, PP!Conservation, Phases, Attached
    <3> QED
      BY <1>1, <3>1, <3>2, AllocateEffect
  <2>3. CASE UndoDispatch
    <3>1. curB \in Buffers /\ EmptyBufferDone(Cam, curB) /\ cam' = "return"
          /\ UNCHANGED <<curF, curB, drainVars, encVars, sessVars>>
      BY <1>1, <2>3 DEF UndoDispatch, CamInv
    <3>2. CASE ~drainOpen /\ UNCHANGED <<poolVars, frameVars>>
      BY <1>1, <3>1, <3>2
    <3>3. CASE drainOpen
      <4>1. phase = "open" /\ curB \notin inEnc /\ (omx = "ack" => ackB # curB)
        BY <1>1, <2>3, <3>3 DEF Phases, UndoDispatch
      <4> QED
        BY <1>1, <3>1, <3>3, <4>1, AcknowledgeEffect
    <3> QED
      BY <1>1, <3>1, <3>2, <3>3, AcknowledgeEffect
  <2>4. CASE EmptyThisBuffer
    <3>1. phase = "open" /\ drainOpen
      BY <1>1, <2>4 DEF EmptyThisBuffer, Phases, CamInv, Attached
    <3> QED
      BY <1>1, <2>4, <3>1 DEF EmptyThisBuffer, CamInv
  <2>5. CASE DispatchClosed \/ EmptyThisBufferFails \/ CallbackReturns
    BY <1>1, <2>5 DEF DispatchClosed, EmptyThisBufferFails, CallbackReturns
  <2>6. CASE WakeSpuriously
    BY <1>1, <2>6 DEF WakeSpuriously, Pool!WakeSpuriously
  <2> QED
    BY <1>2, <2>1, <2>2, <2>3, <2>4, <2>5, <2>6 DEF CamNext
<1>3. CASE OmxNext
  <2>1. CASE Acknowledge
    <3>1. ackB \in Buffers /\ drainOpen /\ phase = "open" /\ omx' # "ack"
          /\ UNCHANGED <<camVars, drainVars, enc, inEnc, sessVars>>
      BY <1>1, <2>1 DEF Acknowledge, Phases
    <3>2. CASE EmptyBufferDone(Omx, ackB)
      <4>1. /\ ackB \notin inEnc
            /\ cam \in {"empty", "undo"} => curB # ackB
        BY <1>1, <2>1, <3>1 DEF Acknowledge
      <4>2. /\ out' = out \ {ackB} /\ UNCHANGED <<phase, live, lost>>
            /\ app' = [app EXCEPT ![ackB] = NoFrame]
        BY <1>1, <3>1, <3>2, AcknowledgeEffect
      <4>8. /\ cam' \in {"empty", "undo"} => curB' \in out' \ inEnc'
            /\ inEnc' \subseteq out' /\ omx' # "ack"
            /\ inEnc' # {} => drainOpen'
        BY <1>1, <3>1, <4>1, <4>2
      <4> QED
        BY <1>1, <3>1, <4>2, <4>8
    <3>3. CASE UNCHANGED <<poolVars, frameVars>>
      BY <1>1, <3>1, <3>3
    <3> QED
      BY <2>1, <3>2, <3>3 DEF Acknowledge
  <2>2. ASSUME NEW b \in Buffers, EmptyDoneCallback(b)
        PROVE  HeaderInv'
    BY <1>1, <2>2 DEF EmptyDoneCallback
  <2>3. CASE ReachIdle
    BY <1>1, <2>3 DEF ReachIdle
  <2> QED
    BY <1>3, <2>1, <2>2, <2>3 DEF OmxNext
<1>4. CASE Start
  <2>1. CASE StartSession
    <3>1. live = {} /\ inEnc = {} /\ omx # "ack"
      BY <1>1, <2>1 DEF StartSession, PP!IInv, PP!Building, Pool!Create, Phases, Attached
    <3> QED
      BY <1>1, <2>1, <3>1 DEF StartSession, Pool!Create
  <2>2. ASSUME NEW b \in Buffers, AllocateBuffer(b) PROVE HeaderInv'
    <3>1. out = {}
      BY <1>1, <2>2 DEF AllocateBuffer, Pool!AllocateBuffer, PP!IInv, PP!Building
    <3> QED
      BY <1>1, <2>2, <3>1 DEF AllocateBuffer, Pool!AllocateBuffer
  <2>3. CASE SessionReady
    <3>1. out = {} /\ cam \notin {"empty", "undo"}
      BY <1>1, <2>3 DEF SessionReady, Pool!InitDone, PP!IInv, PP!Building
    <3> QED
      BY <1>1, <2>3, <3>1 DEF SessionReady, Pool!InitDone
  <2>4. CASE OpenDrain \/ PublishDrain \/ StartPlaying
    BY <1>1, <2>4 DEF OpenDrain, PublishDrain, StartPlaying
  <2> QED
    BY <1>4, <2>1, <2>2, <2>3, <2>4 DEF Start
<1>5. CASE Stop
  <2>1. CASE RequestIdle \/ IdleReached \/ StopSession
    BY <1>1, <2>1 DEF StopSession, RequestIdle, IdleReached
  <2>5. CASE RemoveListener \/ StopPlaying
    BY <1>1, <2>5 DEF RemoveListener, StopPlaying
  <2>2. CASE CloseDrain \/ ReleaseDrain
    BY <1>1, <2>2 DEF CloseDrain, ReleaseDrain, Phases, Attached, CamInv
  <2>3. CASE FreePool \/ FreePoolNotify \/ FreePoolDone
    BY <1>1, <2>3 DEF FreePool, FreePoolNotify, FreePoolDone, Pool!FinalBegin,
       Pool!FinalNotify, Pool!FinalDone
  <2>4. ASSUME NEW b \in Buffers, FreeBuffer(b)
        PROVE  HeaderInv'
    <3>1. /\ b \in live /\ live' = live \ {b} /\ phase = "freeing"
          /\ lost' = IF b \in out THEN lost \union {app[b]} ELSE lost
          /\ UNCHANGED <<phase, out, camVars, app, ref, drainVars, encVars, sessVars>>
      BY <2>4 DEF FreeBuffer, Pool!FinalFree
    <3>2. \A c \in Carriers : c # b /\ b \in out => app[c] # app[b]
      BY <3>1 DEF Headers, RefsAccounted
    <3> QED
      BY <1>1, <3>1, <3>2
  <2> QED
    BY <1>5, <2>1, <2>2, <2>3, <2>4, <2>5 DEF Stop
<1>6. ASSUME NEW t \in Threads, Notify(t)
      PROVE  HeaderInv'
  BY <1>1, <1>6 DEF Notify, Pool!NotifyOne
<1>7. CASE UNCHANGED vars
  BY <1>1, <1>7 DEF vars
<1> QED
  BY <1>2, <1>3, <1>4, <1>5, <1>6, <1>7 DEF Next

(* The count of a frame changes with the step that changes its holders.    *)
LEMMA NextRefs ==
    Control /\ Headers /\ ~straddled /\ [Next]_vars /\ ~straddled' => RefsAccounted'
<1> SUFFICES ASSUME Control, Headers, ~straddled, [Next]_vars, ~straddled'
             PROVE  RefsAccounted'
  OBVIOUS
<1> DEFINE InCallback(f) == cam # "idle" /\ curF = f
           Accounted(f) == ref[f] = Count(InCallback(f)) + Count(HeldByHeader(f)) + Count(f \in lost)
           Apart == \A b1, b2 \in Carriers : app[b1] = app[b2] => b1 = b2
<1> USE DEF HeldByHeader, poolVars, camVars, frameVars, drainVars, encVars, sessVars
<1>1. /\ PP!IInv /\ Types /\ Phases /\ CamInv /\ HeaderInv
      /\ \A f \in Frames : Accounted(f)
      /\ Apart
      /\ NoFrame \notin Frames /\ Carriers \subseteq Buffers
      /\ Cam \in Threads /\ Omx \in Threads
      /\ app \in [Buffers -> Frames \union {NoFrame}] /\ ref \in [Frames -> 0..2]
  BY DrainAssumption DEF Control, Headers, RefsAccounted, Carriers, PP!IInv, PP!TypeOK,
     Threads, Types
<1>r. \A f \in Frames : ref[f] \in Int
  BY <1>1
<1>q. ASSUME \A f \in Frames : Accounted(f)', Apart' PROVE RefsAccounted'
  BY <1>q DEF RefsAccounted
<1> HIDE DEF HeldByHeader
<1>2. ASSUME UNCHANGED <<curF, lost, ref>>, cam = "idle" <=> cam' = "idle",
             Carriers' = Carriers, \A b \in Carriers : app'[b] = app[b]
      PROVE  RefsAccounted'
  <2>1. Apart' /\ \A f \in Frames : HeldByHeader(f)' <=> HeldByHeader(f)
    BY <1>1, <1>2 DEF HeldByHeader
  <2>2. ASSUME NEW f \in Frames PROVE Accounted(f)'
    BY <1>1, <1>2, <2>1 DEF Count
  <2> QED
    BY <2>1, <2>2, <1>q
<1>u. UNCHANGED <<out, live, app>> => Carriers' = Carriers /\ \A b \in Carriers : app'[b] = app[b]
  BY DEF Carriers
<1>3. ASSUME NEW b \in Carriers, Carriers' = Carriers \ {b},
             \A c \in Carriers' : app'[c] = app[c]
      PROVE  /\ Apart'
             /\ \A f \in Frames : HeldByHeader(f)' <=> HeldByHeader(f) /\ f # app[b]
  BY <1>1, <1>3 DEF HeldByHeader
(* a header is acknowledged: its frame loses that header and a reference *)
<1>4. ASSUME NEW t \in Threads, NEW b \in Buffers, EmptyBufferDone(t, b),
             drainOpen => b \in Carriers, curF' = curF, cam = "idle" <=> cam' = "idle"
      PROVE  RefsAccounted'
  <2>1. CASE UNCHANGED <<poolVars, frameVars>>
    BY <1>2, <1>4, <1>u, <2>1
  <2>2. CASE /\ b \in Carriers /\ Carriers' = Carriers \ {b} /\ UNCHANGED lost
             /\ app' = [app EXCEPT ![b] = NoFrame]
             /\ ref' = IF app[b] \in Frames THEN [ref EXCEPT ![app[b]] = Released(@)] ELSE ref
    <3>1. app[b] \in Frames /\ HeldByHeader(app[b])
      BY <1>1, <2>2 DEF HeaderInv, HeldByHeader
    <3>3. Released(ref[app[b]]) = ref[app[b]] - 1
      <4>1. Accounted(app[b]) /\ ref[app[b]] \in Int
        BY <1>1, <1>r, <3>1
      <4> QED
        BY <3>1, <4>1 DEF Count, Released
    <3>4. \A c \in Carriers' : app'[c] = app[c]
      BY <1>1, <2>2
    <3>2. ASSUME NEW f \in Frames PROVE Accounted(f)'
      <4>1. ref'[f] = IF f = app[b] THEN ref[f] - 1 ELSE ref[f]
        BY <1>1, <2>2, <3>1, <3>3
      <4>2. HeldByHeader(f)' <=> HeldByHeader(f) /\ f # app[b]
        BY <1>3, <2>2, <3>4
      <4>3. Count(HeldByHeader(f)') = IF f = app[b] THEN 0 ELSE Count(HeldByHeader(f))
        BY <4>2 DEF Count
      <4>4. f = app[b] => Count(HeldByHeader(f)) = 1
        BY <3>1 DEF Count
      <4>5. Count(InCallback(f))' = Count(InCallback(f)) /\ Count(f \in lost)' = Count(f \in lost)
        BY <1>4, <2>2 DEF Count
      <4>6. Accounted(f)
        BY <1>1
      <4> QED
        BY <1>r, <4>1, <4>3, <4>4, <4>5, <4>6 DEF Count
    <3> QED
      BY <1>3, <2>2, <3>2, <3>4, <1>q
  <2> QED
    BY <1>1, <1>4, <2>1, <2>2, AcknowledgeEffect DEF Carriers
<1>c. /\ cam = "undo" /\ drainOpen => curB \in Carriers
      /\ omx = "ack" /\ drainOpen => ackB \in Carriers
  BY <1>1 DEF HeaderInv, Phases, Attached, PP!IInv, PP!Conservation, Carriers
<1>5. CASE CamNext
  <2>1. ASSUME NEW f \in Frames, DeliverFrame(f) PROVE RefsAccounted'
    <3>1. /\ ref[f] = 0 /\ ref' = [ref EXCEPT ![f] = 1] /\ UNCHANGED <<app, lost>>
          /\ cam = "idle" /\ cam' # "idle" /\ curF' = f /\ Carriers' = Carriers
      BY <2>1 DEF DeliverFrame, Carriers
    <3>2. Apart'
      BY <1>1, <3>1
    <3>3. ASSUME NEW g \in Frames PROVE Accounted(g)'
      <4>1. Accounted(f) /\ Accounted(g)
        BY <1>1
      <4>2. ref'[g] = IF g = f THEN 1 ELSE ref[g]
        BY <1>1, <3>1
      <4>3. HeldByHeader(g)' <=> HeldByHeader(g)
        BY <3>1 DEF HeldByHeader
      <4>4. (InCallback(g))' <=> g = f
        BY <3>1
      <4> QED
        BY <3>1, <4>1, <4>2, <4>3, <4>4 DEF Count
    <3> QED
      BY <3>2, <3>3, <1>q
  <2>2. CASE Dispatch \/ DispatchResume
    <3>1. /\ Allocate /\ drainOpen /\ cam \in {"dispatch", "alloc"} /\ curF \in Frames
          /\ UNCHANGED <<curF, lost>>
      BY <1>1, <2>2 DEF Dispatch, DispatchResume, CamInv, Types
    <3>2. CASE cam' = "alloc" /\ UNCHANGED <<out, live, app, ref>>
      BY <1>2, <1>u, <3>1, <3>2
    <3>3. ASSUME NEW b \in Buffers \ out, out' = out \union {b}, live' = Buffers,
                 live = Buffers, app' = [app EXCEPT ![b] = curF],
                 ref' = [ref EXCEPT ![curF] = @ + 1], cam' = "empty"
          PROVE  RefsAccounted'
      <4>1. /\ curF \notin lost /\ ~HeldByHeader(curF)
            /\ b \notin Carriers /\ Carriers' = Carriers \union {b}
        BY <1>1, <3>1, <3>3 DEF HeaderInv, HeldByHeader, Carriers
      <4>2. \A c \in Carriers' : app'[c] = IF c = b THEN curF ELSE app[c]
        BY <1>1, <3>1, <3>3, <4>1
      <4>3. Apart'
        BY <1>1, <4>1, <4>2 DEF HeldByHeader
      <4>4. ASSUME NEW f \in Frames PROVE Accounted(f)'
        <5>1. Accounted(f)
          BY <1>1
        <5>2. HeldByHeader(f)' <=> HeldByHeader(f) \/ f = curF
          BY <1>1, <4>1, <4>2 DEF HeldByHeader
        <5>3. ref'[f] = IF f = curF THEN ref[f] + 1 ELSE ref[f]
          BY <1>1, <3>1, <3>3
        <5>4. (InCallback(f))' <=> InCallback(f)
          BY <3>1, <3>3
        <5> QED
          BY <3>1, <4>1, <5>1, <5>2, <5>3, <5>4 DEF Count
      <4> QED
        BY <4>3, <4>4, <1>q
    <3>4. phase = "open" => live = Buffers
      BY <1>1 DEF PP!IInv, PP!Conservation
    <3> QED
      BY <1>1, <3>1, <3>2, <3>3, <3>4, AllocateEffect
  <2>3. CASE UndoDispatch
    BY <1>1, <1>4, <1>c, <2>3 DEF UndoDispatch, CamInv
  <2>4. CASE CallbackReturns
    <3>0. cam # "idle" /\ curF \in Frames /\ Accounted(curF) /\ ref[curF] \in Int
      BY <1>1, <1>r, <2>4 DEF CallbackReturns, CamInv, Types
    <3>4. Released(ref[curF]) = ref[curF] - 1
      BY <3>0 DEF Count, Released
    <3>1. /\ cam # "idle" /\ cam' = "idle" /\ UNCHANGED <<app, lost>> /\ curF \in Frames
          /\ ref' = [ref EXCEPT ![curF] = @ - 1] /\ Carriers' = Carriers
      BY <3>0, <3>4, <2>4 DEF CallbackReturns, Carriers
    <3>2. Apart'
      BY <1>1, <3>1
    <3>3. ASSUME NEW f \in Frames PROVE Accounted(f)'
      <4>1. Accounted(f)
        BY <1>1
      <4>2. ref'[f] = IF f = curF THEN ref[f] - 1 ELSE ref[f]
        BY <1>1, <3>1
      <4>3. HeldByHeader(f)' <=> HeldByHeader(f)
        BY <3>1 DEF HeldByHeader
      <4>4. ~(InCallback(f))' /\ (InCallback(f) <=> f = curF)
        BY <3>1
      <4> QED
        BY <3>1, <4>1, <4>2, <4>3, <4>4 DEF Count
    <3> QED
      BY <3>2, <3>3, <1>q
  <2>5. CASE DispatchClosed \/ WakeSpuriously \/ EmptyThisBuffer \/ EmptyThisBufferFails
    BY <1>2, <1>u, <2>5 DEF DispatchClosed, WakeSpuriously, EmptyThisBuffer,
       EmptyThisBufferFails, Pool!WakeSpuriously
  <2> QED
    BY <1>5, <2>1, <2>2, <2>3, <2>4, <2>5 DEF CamNext
<1>6. CASE OmxNext
  <2>1. CASE Acknowledge
    <3>1. ackB \in Buffers /\ UNCHANGED camVars
      BY <1>1, <2>1 DEF Acknowledge, CamInv
    <3> QED
      BY <1>1, <1>2, <1>4, <1>c, <1>u, <2>1, <3>1 DEF Acknowledge
  <2> QED
    BY <1>2, <1>u, <1>6, <2>1 DEF OmxNext, EmptyDoneCallback, ReachIdle
<1>7. CASE Start
  <2>1. CASE StartSession
    <3>1. live = {} /\ live' = {}
      BY <1>1, <2>1 DEF StartSession, PP!IInv, PP!Building, Pool!Create, Phases, Attached
    <3> QED
      BY <1>2, <2>1, <3>1 DEF StartSession, Carriers
  <2>2. ASSUME NEW b \in Buffers, AllocateBuffer(b) PROVE RefsAccounted'
    <3>1. out = {} /\ out' = {}
      BY <1>1, <2>2 DEF AllocateBuffer, Pool!AllocateBuffer, PP!IInv, PP!Building
    <3> QED
      BY <1>2, <2>2, <3>1 DEF AllocateBuffer, Carriers
  <2> QED
    BY <1>2, <1>u, <1>7, <2>1, <2>2 DEF Start, SessionReady, OpenDrain, PublishDrain,
       StartPlaying, Pool!InitDone
<1>8. CASE Stop
  <2>1. ASSUME NEW b \in Buffers, FreeBuffer(b)
        PROVE  RefsAccounted'
    <3>1. /\ UNCHANGED <<camVars, ref, app>> /\ Carriers' = Carriers \ {b}
          /\ b \in out <=> b \in Carriers
          /\ lost' = IF b \in out THEN lost \union {app[b]} ELSE lost
      BY <2>1 DEF FreeBuffer, Pool!FinalFree, Carriers
    <3>2. CASE b \notin Carriers
      BY <1>2, <3>1, <3>2
    <3>3. ASSUME b \in Carriers, NEW f \in Frames PROVE Accounted(f)'
      <4>1. Accounted(f) /\ ref' = ref
        BY <1>1, <3>1
      <4>2. HeldByHeader(f)' <=> HeldByHeader(f) /\ f # app[b]
        BY <1>3, <3>1, <3>3
      <4>3. /\ f = app[b] => HeldByHeader(f) /\ f \notin lost
            /\ f \in lost' <=> f \in lost \/ f = app[b]
        BY <1>1, <3>1, <3>3 DEF HeldByHeader, HeaderInv
      <4>4. (InCallback(f))' <=> InCallback(f)
        BY <3>1
      <4> QED
        BY <4>1, <4>2, <4>3, <4>4 DEF Count
    <3> QED
      BY <1>3, <3>1, <3>2, <3>3, <1>q
  <2> QED
    BY <1>2, <1>u, <1>8, <2>1 DEF Stop, StopSession, RequestIdle, IdleReached, CloseDrain,
       RemoveListener, FreePool, FreePoolNotify, FreePoolDone, ReleaseDrain, StopPlaying,
       Pool!FinalBegin, Pool!FinalNotify, Pool!FinalDone
<1>9. ASSUME NEW t \in Threads, Notify(t)
      PROVE  RefsAccounted'
  BY <1>2, <1>u, <1>9 DEF Notify, Pool!NotifyOne
<1>10. CASE UNCHANGED vars
  BY <1>2, <1>u, <1>10 DEF vars
<1> QED
  BY <1>5, <1>6, <1>7, <1>8, <1>9, <1>10 DEF Next

(* If dispatchOmx finds no header, every header carries a frame, no two    *)
(* the same one and none the frame in hand: there are more frames.         *)
LEMMA AllHeadersTaken ==
    ASSUME Control, Headers, ~straddled, out = Buffers, phase = "open", cam \in {"dispatch", "alloc"}
    PROVE  Cardinality(Buffers) < Cardinality(Frames)
<1>1. /\ Types /\ HeaderInv /\ RefsAccounted /\ CamInv
      /\ IsFiniteSet(Buffers) /\ IsFiniteSet(Frames)
  BY DrainAssumption DEF Control, Headers
<1>2. curF \in Frames
  BY <1>1 DEF Types, CamInv
<1>c. Carriers = Buffers
  BY DEF Control, Headers, PP!IInv, PP!Conservation, Carriers
<1>3. app \in [Buffers -> Frames \ {curF}]
  BY <1>1, <1>c DEF Types, HeaderInv
<1>4. app \in Injection(Buffers, Frames \ {curF})
  BY <1>1, <1>c, <1>3, DrainAssumption DEF Injection, IsInjective, RefsAccounted
<1>5. /\ IsFiniteSet(Frames \ {curF})
      /\ Cardinality(Frames \ {curF}) = Cardinality(Frames) - 1
  BY <1>1, <1>2, FS_RemoveElement
<1>6. Cardinality(Buffers) <= Cardinality(Frames \ {curF})
  BY <1>4, <1>5, FS_Injection
<1>7. Cardinality(Buffers) \in Nat /\ Cardinality(Frames) \in Nat
  BY <1>1, FS_CardinalityType
<1> QED
  BY <1>5, <1>6, <1>7

(* dispatchOmx finds a header whenever there is one for every frame.       *)
LEMMA NextStarved ==
    Control /\ Headers /\ ~straddled /\ [Next]_vars => NeverStarved'
<1> SUFFICES ASSUME Control, Headers, ~straddled, [Next]_vars,
                    Cardinality(Frames) <= Cardinality(Buffers)
             PROVE  pc'[Cam] \notin {"asleep", "woken"}
  BY DEF NeverStarved
<1> USE DEF Threads, poolVars
<1>1. /\ PP!IInv /\ Types /\ Phases /\ CamInv
      /\ pc \in [Threads -> {"idle", "asleep", "woken", "notify"}]
      /\ pc[Cam] \notin {"asleep", "woken"} /\ cam # "alloc"
      /\ Cam # Omx
  BY DEF Control, Headers, NeverStarved, CamInv, PP!IInv, PP!TypeOK, Cam, Omx
<1>2. Cardinality(Buffers) \in Nat /\ Cardinality(Frames) \in Nat
  BY DrainAssumption, FS_CardinalityType
<1>3. CASE CamNext
  <2>1. CASE Dispatch
    <3>1. ~(out = Buffers /\ phase = "open")
      BY <1>2, <2>1, AllHeadersTaken DEF Dispatch
    <3> QED
      BY <1>1, <2>1, <3>1, AllocateEffect DEF Dispatch
  <2>2. CASE UndoDispatch
    BY <1>1, <2>2, AcknowledgeEffect DEF UndoDispatch, CamInv
  <2> QED
    BY <1>1, <1>3, <2>1, <2>2 DEF CamNext, DeliverFrame, DispatchClosed, DispatchResume,
       WakeSpuriously, EmptyThisBuffer, EmptyThisBufferFails, CallbackReturns,
       Pool!WakeSpuriously
<1>4. CASE OmxNext
  <2>1. CASE Acknowledge
    BY <1>1, <2>1, AcknowledgeEffect DEF Acknowledge, CamInv
  <2> QED
    BY <1>1, <1>4, <2>1 DEF OmxNext, EmptyDoneCallback, ReachIdle
<1>5. CASE Start
  BY <1>1, <1>5 DEF Start, StartSession, SessionReady, OpenDrain, PublishDrain, StartPlaying,
     AllocateBuffer, Pool!Create, Pool!InitDone, Pool!AllocateBuffer
<1>6. CASE Stop
  BY <1>1, <1>6 DEF Stop, StopSession, RequestIdle, IdleReached, CloseDrain, RemoveListener,
     FreePool, FreePoolNotify, FreePoolDone, ReleaseDrain, StopPlaying, FreeBuffer,
     Pool!FinalBegin, Pool!FinalNotify, Pool!FinalDone, Pool!FinalFree
<1>7. ASSUME NEW t \in Threads, Notify(t)
      PROVE  pc'[Cam] \notin {"asleep", "woken"}
  <2>1. ASSUME NEW u \in Pool!Asleep PROVE u # Cam
    BY <1>1, <2>1 DEF Pool!Asleep
  <2> QED
    BY <1>1, <1>7, <2>1 DEF Notify, Pool!NotifyOne
<1>8. CASE UNCHANGED vars
  BY <1>1, <1>8 DEF vars
<1> QED
  BY <1>3, <1>4, <1>5, <1>6, <1>7, <1>8 DEF Next

-----------------------------------------------------------------------------
(* DInv is inductive.                                                      *)
LEMMA InitDInv == Init => DInv
<1> SUFFICES ASSUME Init PROVE DInv
  OBVIOUS
<1>1. PP!IInv /\ Pool!TypeOK /\ PP!NoLostWakeup
  <2>1. PP!IInv
    BY SamePool, PP!InitIInv, PoolParameters DEF Init
  <2> QED
    BY <2>1, SamePool DEF PP!IInv, PP!NoLostWakeup, Init, Pool!Init
<1>2. Types
  <2>1. {drainOpen, listening, inputComp, streaming, sessionReady, straddled} \subseteq BOOLEAN
    BY DEF Init
  <2>2. app \in [Buffers -> Frames \union {NoFrame}] /\ ref \in [Frames -> 0..2]
    BY DEF Init
  <2> QED
    BY <2>1, <2>2 DEF Init, Types
<1>7. Phases
  BY DEF Init, Pool!Init, Phases, Attached
<1>5. CamInv /\ OwnCamera
  BY DEF Init, Pool!Init, CamInv, OwnCamera, Threads
<1>6. HeaderInv
  BY DEF Init, Pool!Init, HeaderInv, Carriers
<1>3. RefsAccounted
  BY DrainAssumption DEF Init, Pool!Init, RefsAccounted, HeldByHeader, Carriers, Count
<1>4. NeverStarved
  BY DEF Init, Pool!Init, NeverStarved, Threads
<1> QED
  BY <1>1, <1>2, <1>3, <1>4, <1>5, <1>6, <1>7 DEF DInv, Control, Headers

(* The history variable is set by StartSession and never reset.            *)
LEMMA StraddledStays == Types /\ [Next]_vars => straddled \in BOOLEAN /\ (straddled => straddled')
<1> SUFFICES ASSUME Types, [Next]_vars PROVE straddled => straddled'
  BY DEF Types
<1> USE DEF sessVars
<1>1. CASE Start
  BY <1>1 DEF Start, StartSession, SessionReady, OpenDrain, PublishDrain, StartPlaying,
     AllocateBuffer
<1>2. CASE Stop
  BY <1>2 DEF Stop, StopSession, RequestIdle, IdleReached, CloseDrain, RemoveListener,
     FreePool, FreePoolNotify, FreePoolDone, ReleaseDrain, StopPlaying, FreeBuffer
<1>3. CASE CamNext \/ OmxNext
  BY <1>3 DEF CamNext, DeliverFrame, DispatchClosed, Dispatch, DispatchResume, WakeSpuriously,
     EmptyThisBuffer, EmptyThisBufferFails, UndoDispatch, CallbackReturns,
     OmxNext, EmptyDoneCallback, Acknowledge, ReachIdle
<1>4. ASSUME NEW t \in Threads, Notify(t) PROVE straddled => straddled'
  BY <1>4 DEF Notify
<1>5. CASE UNCHANGED vars
  BY <1>5 DEF vars
<1> QED
  BY <1>1, <1>2, <1>3, <1>4, <1>5 DEF Next

LEMMA NextControl == Control /\ [Next]_vars => Control'
BY NextPoolTypes, NextTypes, NextPhases, NextCam, NextOwnCamera DEF Control

LEMMA NextHeaders ==
    Control /\ Headers /\ ~straddled /\ [Next]_vars /\ ~straddled' => Headers'
<1> SUFFICES ASSUME Control, Headers, ~straddled, [Next]_vars, ~straddled'
             PROVE  Headers'
  OBVIOUS
<1>1. [PP!Next]_(PP!vars)
  BY HeadersPoolStep, SamePool
<1>2. PP!IInv' /\ PP!NoLostWakeup'
  BY <1>1, PoolInvariant DEF Headers
<1> QED
  BY <1>2, NextHeader, NextRefs, NextStarved DEF Headers

LEMMA NextDInv == DInv /\ [Next]_vars => DInv'
BY NextControl, NextHeaders, StraddledStays DEF DInv, Control

(* The inductive invariant the results below are read off from: which of   *)
(* the three threads is where, and - until a callback straddles a restart  *)
(* - who has each header and each reference.                               *)
THEOREM Invariance == Spec => []DInv
BY InitDInv, NextDInv, PTL DEF Spec

(* Every variable keeps its type; no count falls below zero or above two,  *)
(* and free_ lists addresses of headers, whatever the camera does.         *)
THEOREM TypeCorrect == Spec => []TypeOK
<1>1. DInv => TypeOK
  BY DEF DInv, Control, Types, TypeOK
<1> QED
  BY <1>1, Invariance, PTL

(* No frame goes back to the camera while the encoder has it, unless a     *)
(* callback straddled a restart.                                           *)
THEOREM FramesHeld == Spec => []FrameHeldWhileEncoding
<1>1. DInv => FrameHeldWhileEncoding
  <2> SUFFICES ASSUME Control, Headers, ~straddled, NEW b \in inEnc
               PROVE  app[b] \in Frames /\ ref[app[b]] > 0
    BY DEF FrameHeldWhileEncoding, DInv
  <2>1. b \in Carriers /\ app[b] \in Frames
    BY DEF Control, Headers, Types, HeaderInv, Phases, Attached, PP!IInv, PP!Conservation,
           Carriers
  <2>2. HeldByHeader(app[b])
    BY <2>1 DEF HeldByHeader
  <2> QED
    BY <2>1, <2>2 DEF Headers, RefsAccounted, Count
<1> QED
  BY <1>1, Invariance, PTL

(* A header in use exists and has one user, from the opening of the drain  *)
(* to the end of the pool, until a callback straddles a restart.           *)
THEOREM HeadersHeldOnce == Spec => []OneHolder
<1>1. DInv => OneHolder
  <2> SUFFICES ASSUME Control, Headers, ~straddled, drainOpen \/ phase = "open" PROVE OneHolder
    BY DEF OneHolder, DInv
  <2>1. phase = "open" /\ live = Buffers /\ out \subseteq Buffers
    BY DEF Control, Headers, Phases, Attached, PP!IInv, PP!Conservation, PP!TypeOK
  <2> QED
    BY <2>1 DEF Headers, HeaderInv, Carriers, OneHolder
<1> QED
  BY <1>1, Invariance, PTL

(* With a camera of its own a session never meets a callback of an earlier *)
(* one: what the theorems say until a callback straddles a restart then    *)
(* holds always.                                                           *)
THEOREM NoneStraddles == ~SharedCamera => (Spec => []~straddled)
<1> SUFFICES ASSUME ~SharedCamera PROVE Spec => []~straddled
  OBVIOUS
<1>1. DInv => ~straddled
  BY DEF DInv, Control, OwnCamera
<1> QED
  BY <1>1, Invariance, PTL

(* References are neither lost count of nor released twice, until a        *)
(* callback straddles a restart.                                           *)
THEOREM ReferencesAccounted == Spec => []RefsAccounted
<1>1. DInv => RefsAccounted
  BY DEF DInv, Headers, RefsAccounted
<1> QED
  BY <1>1, Invariance, PTL

(* dispatchOmx never waits for a header when there are as many headers as  *)
(* frames: the deadlock needs one frame more.                              *)
THEOREM EnoughHeaders == Spec => []NeverStarved
<1>1. DInv => NeverStarved
  BY DEF DInv, Headers, NeverStarved
<1> QED
  BY <1>1, Invariance, PTL

(* A callback finds the drain published when the camera is the session's.  *)
THEOREM AcksFindDrain == Spec => []AckFindsDrain
<1>1. DInv => AckFindsDrain
  BY DEF DInv, Control, OwnCamera, AckFindsDrain
<1> QED
  BY <1>1, Invariance, PTL

(* final() meets no thread in allocBuf(), whatever callbacks straddle.     *)
THEOREM PoolOutlivesCalls == Spec => []PoolOpenUnderDrain
<1>1. DInv => PoolOpenUnderDrain
  BY DEF DInv, Control, Phases, Attached, CamInv, Threads, PoolOpenUnderDrain
<1> QED
  BY <1>1, Invariance, PTL
-----------------------------------------------------------------------------
(* With a camera of the session's own, the camera thread, the codec's      *)
(* thread, start() and stop() together use the pool as its own             *)
(* specification says: they call init() and final() in turn, are in it     *)
(* once each, and give back what they took.                                *)
THEOREM PoolIsUsed == ~SharedCamera => (Spec => Pool!Spec)
<1> SUFFICES ASSUME ~SharedCamera PROVE Spec => Pool!Spec
  OBVIOUS
<1>1. Init => Pool!Init
  BY DEF Init
<1>2. DInv /\ [Next]_vars => [Pool!Next]_(Pool!vars)
  BY HeadersPoolStep DEF DInv, Control, OwnCamera
<1> QED
  BY <1>1, <1>2, Invariance, PTL DEF Spec, Pool!Spec

(* The same of the instance the theorems about the pool come with.         *)
LEMMA PoolSpec == ~SharedCamera => (Spec => PP!Spec)
<1> SUFFICES ASSUME ~SharedCamera PROVE Spec => PP!Spec
  OBVIOUS
<1>1. Init => PP!Init
  BY SamePool DEF Init
<1>2. DInv /\ [Next]_vars => [PP!Next]_(PP!vars)
  BY HeadersPoolStep, SamePool DEF DInv, Control, OwnCamera
<1> QED
  BY <1>1, <1>2, Invariance, PTL DEF Spec, PP!Spec

(* So in the drain, too, the pool keeps its promise: a header is with one  *)
(* holder at a time, is handed out while the pool serves only, and is not  *)
(* handed out once it is freed.                                            *)
THEOREM PoolKeepsPromise == ~SharedCamera => (Spec => PP!Refines)
<1> SUFFICES ASSUME ~SharedCamera PROVE Spec => PP!Refines
  OBVIOUS
<1>1. Spec => PP!Spec
  BY PoolSpec
<1>2. PP!Spec => PP!Refines
  BY PP!Refinement, PoolParameters
<1> QED
  BY <1>1, <1>2

(* And no wakeup is lost, with a shared camera too: until a callback       *)
(* straddles a restart, the camera thread does not sleep in allocBuf()     *)
(* beside a free header, unless somebody is about to wake it.              *)
THEOREM DrainWakeups == Spec => [](~straddled => PP!NoLostWakeup)
<1>1. DInv => (~straddled => PP!NoLostWakeup)
  BY DEF DInv, Headers
<1> QED
  BY <1>1, Invariance, PTL
=============================================================================
