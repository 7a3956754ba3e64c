----------------------------- MODULE SessionProofs -----------------------------
(* What a session holds, whatever fails in start() and in whatever order   *)
(* start() and stop() are requested.                                       *)
EXTENDS Session, TLAPS

(* Calls of start() up to the one that gets the component, and after it.   *)
BeforeHandle == {"camera", "encoder"}
WithHandle == {"configure", "enter", "alloc", "waitIdle", "sink", "exec", "waitExec",
               "fill", "drain", "play"}
WithSink == {"exec", "waitExec", "fill", "drain", "play"}
Stopping == {"toidle", "waitStop", "teardown", "halt", "free"}

Types ==
    /\ op \in {"none", "start", "stop", "destroy", "gone"}
    /\ at \in {"rest"} \union BeforeHandle \union WithHandle \union Stopping
    /\ result \in {"none", "ok", "error"}
    /\ camera \in BOOLEAN /\ listening \in BOOLEAN /\ playing \in BOOLEAN
    /\ sink \in BOOLEAN /\ ready \in BOOLEAN
    /\ restarted \in BOOLEAN /\ crashed \in BOOLEAN
    /\ hEnc \in MaybeHandle /\ h \in MaybeHandle
    /\ input \in MaybeHandle /\ output \in MaybeHandle /\ drainPool \in MaybeHandle
    /\ est \in [Handles -> EncoderStates]
    /\ current \in {"invalid", "idle", "executing"}
    /\ requested \in {"invalid", "idle", "executing"}

(* The call in progress belongs to the request, which has a camera.        *)
Requests ==
    /\ op = "start" <=> at \in BeforeHandle \union WithHandle
    /\ op \in {"stop", "destroy"} <=> at \in Stopping
    /\ at \in {"encoder"} \union WithHandle \union Stopping => camera

(* What the session refers to exists; after OMX_GetHandle() the encoder    *)
(* component has the session's handle.                                     *)
References ==
    /\ hEnc # None => est[hEnc] # "absent"
    /\ h # None => est[h] # "absent"
    /\ input # None => est[input] # "absent"
    /\ output # None => est[output] # "absent"
    /\ drainPool # None => est[drainPool] # "absent"
    /\ at \in WithHandle => h = hEnc /\ hEnc # None

Unwired ==
    /\ h = None /\ ~listening /\ ~sink /\ ~ready
    /\ input = None /\ output = None /\ drainPool = None

(* Nothing is acquired without the camera, and teardown releases the rest. *)
Released ==
    /\ ~camera => Unwired /\ hEnc = None /\ ~playing
    /\ at \in {"halt", "free"} => Unwired
    /\ at = "free" => ~playing

Callbacks ==
    /\ ready => sink
    /\ at \in Stopping => ~ready
    /\ at \in WithSink => sink

Leaks ==
    /\ ~restarted => \A e \in Handles : est[e] # "absent" => e = hEnc
    /\ ~restarted /\ at \in BeforeHandle => hEnc = None

SInv == Types /\ Requests /\ References /\ Released /\ Callbacks /\ Leaks

-----------------------------------------------------------------------------
LEMMA InitSInv == Init => SInv
<1> SUFFICES ASSUME Init PROVE SInv
  OBVIOUS
<1> USE SessionAssumption DEF Init
<1>1. Types
  BY DEF Types, MaybeHandle, EncoderStates
<1>2. Requests
  BY DEF Requests, BeforeHandle, WithHandle, Stopping
<1>3. References
  BY DEF References, WithHandle
<1>4. Released /\ Callbacks
  BY DEF Released, Unwired, Callbacks, Stopping, WithSink
<1>5. Leaks
  BY DEF Leaks
<1> QED
  BY <1>1, <1>2, <1>3, <1>4, <1>5 DEF SInv

(* The five steps whose outcomes differ in a Boolean, for the types alone: *)
(* the Boolean variables apart from the others.                            *)
Flags ==
    /\ camera \in BOOLEAN /\ listening \in BOOLEAN /\ playing \in BOOLEAN
    /\ sink \in BOOLEAN /\ ready \in BOOLEAN
    /\ restarted \in BOOLEAN /\ crashed \in BOOLEAN

Places ==
    /\ op \in {"none", "start", "stop", "destroy", "gone"}
    /\ at \in {"rest"} \union BeforeHandle \union WithHandle \union Stopping
    /\ result \in {"none", "ok", "error"}

Held ==
    /\ hEnc \in MaybeHandle /\ h \in MaybeHandle
    /\ input \in MaybeHandle /\ output \in MaybeHandle /\ drainPool \in MaybeHandle
    /\ est \in [Handles -> EncoderStates]
    /\ current \in {"invalid", "idle", "executing"}
    /\ requested \in {"invalid", "idle", "executing"}

LEMMA OutcomeTypes ==
    ASSUME Types, InitializeCamera \/ InitSink \/ StartPlaying \/ StopPlaying \/ StopRequest
    PROVE  Types'
<1>1. Flags /\ Places /\ Held
  BY DEF Types, Flags, Places, Held
<1>2. Held'
  <2>1. UNCHANGED <<hEnc, est, h, current, requested, input, output, drainPool>>
    BY DEF InitializeCamera, InitSink, StartPlaying, StopPlaying, StopRequest, waitVars,
           poolVars
  <2> QED
    BY <1>1, <2>1 DEF Held, MaybeHandle
<1>3. Places'
  <2> USE DEF Places, BeforeHandle, WithHandle, Stopping, Continue, Return
  <2>1. CASE InitializeCamera
    BY <1>1, <2>1 DEF InitializeCamera
  <2>2. CASE InitSink
    BY <1>1, <2>2 DEF InitSink
  <2>3. CASE StartPlaying
    BY <1>1, <2>3 DEF StartPlaying
  <2>4. CASE StopRequest
    BY <1>1, <2>4 DEF StopRequest
  <2>5. CASE StopPlaying
    BY <1>1, <2>5 DEF StopPlaying, opVars
  <2> QED
    BY <2>1, <2>2, <2>3, <2>4, <2>5
<1>4. Flags'
  <2> USE DEF Flags, Continue, Return, cameraVars, opVars
  <2>1. CASE InitializeCamera
    BY <1>1, <2>1, Zenon DEF InitializeCamera
  <2>2. CASE InitSink
    BY <1>1, <2>2, Zenon DEF InitSink
  <2>3. CASE StartPlaying
    BY <1>1, <2>3, Zenon DEF StartPlaying
  <2>4. CASE StopRequest
    BY <1>1, <2>4, Zenon DEF StopRequest, ReadyWhenStopping
  <2>5. CASE StopPlaying
    BY <1>1, <2>5, Zenon DEF StopPlaying
  <2> QED
    BY <2>1, <2>2, <2>3, <2>4, <2>5
<1> QED
  BY <1>2, <1>3, <1>4 DEF Types, Flags, Places, Held

(* The steps of start() preserve SInv.                                     *)
LEMMA StartSInv == SInv /\ (StartRequest \/ Start) => SInv'
<1> SUFFICES ASSUME SInv, StartRequest \/ Start PROVE SInv'
  OBVIOUS
<1> USE SessionAssumption DEF SInv, Types, Requests, References, Released, Callbacks, Leaks,
        BeforeHandle, WithHandle, WithSink, Stopping, Unwired, MaybeHandle, EncoderStates,
        Continue, Return, Encoder, cameraVars, waitVars, poolVars, opVars
<1>1. CASE StartRequest
  BY <1>1 DEF StartRequest, Clean
<1>2. CASE InitializeCamera
  <2>1. Types'
    BY <1>2, OutcomeTypes
  <2>2. Requests'
    BY <1>2 DEF InitializeCamera
  <2>3. References'
    BY <1>2 DEF InitializeCamera
  <2>4. Released' /\ Callbacks'
    BY <1>2 DEF InitializeCamera
  <2>5. Leaks'
    BY <1>2 DEF InitializeCamera
  <2> QED
    BY <2>1, <2>2, <2>3, <2>4, <2>5
<1>3. CASE InitializeEncoder
  BY <1>3 DEF InitializeEncoder, Existing
<1>4. CASE ConfigureEncoder
  BY <1>4 DEF ConfigureEncoder
<1>5. CASE EnterIdle
  BY <1>5 DEF EnterIdle
<1>6. CASE AllocOMXBuffers
  BY <1>6 DEF AllocOMXBuffers
<1>7. CASE WaitUntilIdle
  BY <1>7 DEF WaitUntilIdle
<1>8. CASE InitSink
  <2>1. Types'
    BY <1>8, OutcomeTypes
  <2>2. Requests'
    BY <1>8 DEF InitSink
  <2>3. References'
    BY <1>8 DEF InitSink
  <2>4. Released' /\ Callbacks'
    BY <1>8 DEF InitSink
  <2>5. Leaks'
    BY <1>8 DEF InitSink
  <2> QED
    BY <2>1, <2>2, <2>3, <2>4, <2>5
<1>9. CASE EnterExecuting
  BY <1>9 DEF EnterExecuting
<1>10. CASE WaitUntilExecuting
  BY <1>10 DEF WaitUntilExecuting
<1>11. CASE FillBuffers
  BY <1>11 DEF FillBuffers
<1>12. CASE OpenOMXDrain
  BY <1>12 DEF OpenOMXDrain
<1>13. CASE StartPlaying
  <2>1. Types'
    BY <1>13, OutcomeTypes
  <2>2. Requests'
    BY <1>13 DEF StartPlaying
  <2>3. References'
    BY <1>13 DEF StartPlaying
  <2>4. Released' /\ Callbacks'
    BY <1>13 DEF StartPlaying
  <2>5. Leaks'
    BY <1>13 DEF StartPlaying
  <2> QED
    BY <2>1, <2>2, <2>3, <2>4, <2>5
<1> QED
  BY <1>1, <1>2, <1>3, <1>4, <1>5, <1>6, <1>7, <1>8, <1>9, <1>10, <1>11, <1>12, <1>13
     DEF Start

(* The steps of stop() and of the codec preserve SInv.                     *)
LEMMA StopSInv == SInv /\ (StopRequest \/ Stop \/ Codec) => SInv'
<1> SUFFICES ASSUME SInv, StopRequest \/ Stop \/ Codec PROVE SInv'
  OBVIOUS
<1> USE SessionAssumption DEF SInv, Types, Requests, References, Released, Callbacks, Leaks,
        BeforeHandle, WithHandle, WithSink, Stopping, Unwired, MaybeHandle, EncoderStates,
        Continue, Return, Encoder, cameraVars, waitVars, poolVars, opVars
<1>1. CASE StopRequest
  <2>1. Types'
    BY <1>1, OutcomeTypes
  <2>2. Requests'
    BY <1>1 DEF StopRequest, ReadyWhenStopping
  <2>3. References'
    BY <1>1 DEF StopRequest, ReadyWhenStopping
  <2>4. Released' /\ Callbacks'
    BY <1>1 DEF StopRequest, ReadyWhenStopping
  <2>5. Leaks'
    BY <1>1 DEF StopRequest, ReadyWhenStopping
  <2> QED
    BY <2>1, <2>2, <2>3, <2>4, <2>5
<1>2. CASE AlreadyRequested
  BY <1>2 DEF AlreadyRequested
<1>3. CASE RequestIdle
  BY <1>3 DEF RequestIdle
<1>4. CASE RequestThroughNull
  BY <1>4 DEF RequestThroughNull
<1>5. CASE WaitUntilStopped
  BY <1>5 DEF WaitUntilStopped
<1>6. CASE Teardown
  <2>1. Types'
    BY <1>6 DEF Teardown, ReleasePools
  <2>2. Requests' /\ References'
    BY <1>6 DEF Teardown, ReleasePools
  <2>3. Released' /\ Callbacks'
    BY <1>6 DEF Teardown, ReleasePools
  <2>4. Leaks'
    BY <1>6 DEF Teardown, ReleasePools
  <2> QED
    BY <2>1, <2>2, <2>3, <2>4
<1>7. CASE StopPlaying
  <2>1. Types'
    BY <1>7, OutcomeTypes
  <2>2. Requests'
    BY <1>7 DEF StopPlaying
  <2>3. References'
    BY <1>7 DEF StopPlaying
  <2>4. Released' /\ Callbacks'
    BY <1>7 DEF StopPlaying
  <2>5. Leaks'
    BY <1>7 DEF StopPlaying
  <2> QED
    BY <2>1, <2>2, <2>3, <2>4, <2>5
<1>8. CASE FreeHandle
  BY <1>8 DEF FreeHandle, FreedHandle
<1>9. ASSUME NEW e \in Handles, EncoderIdle(e) \/ EncoderExecuting(e)
      PROVE  SInv'
  BY <1>9 DEF EncoderIdle, EncoderExecuting, Complete, SetCurrent
<1> QED
  BY <1>1, <1>2, <1>3, <1>4, <1>5, <1>6, <1>7, <1>8, <1>9 DEF Stop, Codec

(* SInv is inductive.                                                      *)
LEMMA NextSInv == SInv /\ [Next]_vars => SInv'
<1>1. SInv /\ UNCHANGED vars => SInv'
  BY DEF vars, opVars, cameraVars, waitVars, poolVars, SInv, Types, Requests, References,
         Released, Unwired, Callbacks, Leaks
<1> QED
  BY <1>1, StartSInv, StopSInv DEF Next

-----------------------------------------------------------------------------
(* The inductive invariant the results below are read off from.            *)
THEOREM Invariance == Spec => []SInv
BY InitSInv, NextSInv, PTL DEF Spec

(* Types, and no callback without a camera.                                *)
THEOREM TypeCorrect == Spec => []TypeOK
<1>1. SInv => TypeOK
  <2> SUFFICES ASSUME SInv PROVE TypeOK
    OBVIOUS
  <2>1. {camera, listening, playing, sink, ready, restarted, crashed} \subseteq BOOLEAN
    BY DEF SInv, Types
  <2>2. ready => camera
    BY DEF SInv, Released, Unwired
  <2>3. at = "rest" <=> op \in {"none", "gone"}
    BY DEF SInv, Types, Requests, BeforeHandle, WithHandle, Stopping
  <2> QED
    BY <2>1, <2>2, <2>3
       DEF SInv, Types, TypeOK, MaybeHandle, BeforeHandle, WithHandle, Stopping
<1> QED
  BY <1>1, Invariance, PTL

(* A component outlives the pools of its headers.                          *)
THEOREM PoolsGoFirst == Spec => []PoolsBeforeHandle
<1>1. SInv => PoolsBeforeHandle
  BY DEF SInv, Types, References, MaybeHandle, PoolsBeforeHandle, Existing
<1> QED
  BY <1>1, Invariance, PTL

(* The callbacks of a ready session find its sink.                         *)
THEOREM SinkWhileReady == Spec => []ReadyHasSink
<1>1. SInv => ReadyHasSink
  BY DEF SInv, Callbacks, ReadyHasSink
<1> QED
  BY <1>1, Invariance, PTL

(* stop() undoes whatever start() had done.                                *)
THEOREM StopCleans == Spec => []StoppedIsClean
<1>1. SInv => StoppedIsClean
  BY DEF SInv, Released, Unwired, StoppedIsClean
<1> QED
  BY <1>1, Invariance, PTL

(* Only a start() without a stop() before it makes a component leak.       *)
THEOREM NoOtherLeak == Spec => []HandlesAccounted
<1>1. SInv => HandlesAccounted
  BY DEF SInv, Types, Leaks, HandlesAccounted, Existing
<1> QED
  BY <1>1, Invariance, PTL

-----------------------------------------------------------------------------
(* Transitions of the encoder, for stop() that waits for the last one.     *)

(* What set() has told the waiter is where the component is.               *)
Reported ==
    h # None =>
        /\ est[h] \in {"loaded", "wantIdle"} => current = "invalid"
        /\ est[h] \in {"idle", "wantExecuting"} => current = "idle"
        /\ est[h] \in {"executing", "wantStop"} => current = "executing"

(* A transition that the encoder can complete is waited for.               *)
Awaited ==
    \A e \in Handles :
        /\ est[e] = "wantExecuting" => e = h /\ at = "waitExec"
        /\ est[e] = "wantStop" => e = h /\ at = "waitStop"
        /\ est[e] = "wantIdle" /\ Populated(e) => e = h /\ at \in {"waitIdle", "waitStop"}

(* Where start() finds the component it has created.                       *)
InOrder ==
    /\ at \in {"configure", "enter", "alloc"} => input # h
    /\ at \in {"configure", "enter"} => est[h] = "loaded"
    /\ at = "alloc" => est[h] = "wantIdle"
    /\ at \in {"sink", "exec"} => est[h] = "idle"

QInv == Reported /\ Awaited /\ InOrder

LEMMA InitQInv == Init => QInv
BY SessionAssumption DEF Init, QInv, Reported, Awaited, InOrder

LEMMA NextQInv == SInv /\ QInv /\ [Next]_vars => QInv'
<1> SUFFICES ASSUME SInv, QInv, [Next]_vars PROVE QInv'
  OBVIOUS
<1> USE SessionAssumption
    DEF SInv, Types, Requests, References, Released, Unwired, QInv, Reported, Awaited, InOrder,
        BeforeHandle, WithHandle, Stopping, MaybeHandle, Populated, Encoder, Continue, Return,
        opVars, cameraVars, waitVars, poolVars
<1>1. CASE StartRequest \/ InitializeCamera
  BY <1>1 DEF StartRequest, InitializeCamera
<1>2. CASE InitializeEncoder
  BY <1>2 DEF InitializeEncoder, Existing
<1>3. CASE ConfigureEncoder
  BY <1>3 DEF ConfigureEncoder
<1>4. CASE EnterIdle
  BY <1>4 DEF EnterIdle
<1>5. CASE AllocOMXBuffers
  BY <1>5 DEF AllocOMXBuffers
<1>6. CASE WaitUntilIdle
  <2>1. h \in Handles /\ est[h] \in EncoderStates /\ est[h] # "absent" /\ current = "idle"
    BY <1>6 DEF WaitUntilIdle
  <2>2. est[h] # "wantExecuting"
    BY <1>6, <2>1 DEF WaitUntilIdle
  <2>3. est[h] = "idle"
    BY <2>1, <2>2 DEF EncoderStates
  <2> QED
    BY <1>6, <2>3 DEF WaitUntilIdle
<1>7. CASE InitSink
  BY <1>7 DEF InitSink
<1>8. CASE EnterExecuting
  BY <1>8 DEF EnterExecuting
<1>9. CASE WaitUntilExecuting
  BY <1>9 DEF WaitUntilExecuting
<1>10. CASE FillBuffers \/ OpenOMXDrain \/ StartPlaying
  BY <1>10 DEF FillBuffers, OpenOMXDrain, StartPlaying
<1>11. CASE StopRequest \/ AlreadyRequested
  BY <1>11 DEF StopRequest, AlreadyRequested
<1>12. CASE RequestIdle
  BY <1>12 DEF RequestIdle
<1>13. CASE RequestThroughNull
  BY <1>13 DEF RequestThroughNull
<1>14. CASE WaitUntilStopped
  BY <1>14 DEF WaitUntilStopped
<1>15. CASE Teardown
  BY <1>15 DEF Teardown, ReleasePools
<1>16. CASE StopPlaying
  BY <1>16 DEF StopPlaying
<1>17. CASE FreeHandle
  BY <1>17 DEF FreeHandle, FreedHandle
<1>18. ASSUME NEW e \in Handles, EncoderIdle(e) \/ EncoderExecuting(e)
       PROVE  QInv'
  BY <1>18 DEF EncoderIdle, EncoderExecuting, Complete, SetCurrent
<1>19. CASE UNCHANGED vars
  BY <1>19 DEF vars
<1> QED
  BY <1>1, <1>2, <1>3, <1>4, <1>5, <1>6, <1>7, <1>8, <1>9, <1>10, <1>11, <1>12, <1>13,
     <1>14, <1>15, <1>16, <1>17, <1>18, <1>19 DEF Next, Start, Stop, Codec

(* stop() frees the pools of a component in no transition, also when the   *)
(* idle state had been requested before and it does not wait itself.       *)
THEOREM TeardownIsQuiescent == Spec => []QuiescentTeardown
<1>1. SInv /\ QInv => QuiescentTeardown
  <2> SUFFICES ASSUME SInv, QInv, at = "teardown", h # None
               PROVE  ~(Populated(h) /\ est[h] \in {"wantIdle", "wantExecuting", "wantStop"})
    BY DEF QuiescentTeardown
  <2> QED
    BY DEF SInv, Types, MaybeHandle, QInv, Awaited
<1> QED
  BY <1>1, Invariance, InitQInv, NextQInv, PTL DEF Spec
=============================================================================
