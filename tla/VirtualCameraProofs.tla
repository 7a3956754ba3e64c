-------------------------- MODULE VirtualCameraProofs --------------------------
(***************************************************************************)
(* Proofs about VirtualCamera, for every size of the pool and the queue.   *)
(***************************************************************************)
EXTENDS VirtualCamera, TLAPS

(* The parts of TypeOK.                                                    *)
CallTypes ==
    /\ up \in SUBSET Clients
    /\ op \in [Clients -> {"none", "start", "stop"}]
    /\ pc \in [Clients -> Steps]

FlagTypes ==
    /\ started \in [Clients -> BOOLEAN]
    /\ {stop, pause, open, overlapped, crashed} \subseteq BOOLEAN

DataTypes ==
    /\ programmed \in Sizes /\ device \in Sizes \union {"off"}
    /\ callback \in Sizes \union {"none", "notify"}
    /\ worker \in {"none", "lock", "asleep", "alloc", "convert", "deliver", "exited"}
    /\ frame \in Sizes \union {"none"}
    /\ pending \in Seq(Sizes) /\ Len(pending) <= MaxPending

PoolTypes == {avail, held, lost} \subseteq 0..PoolSize /\ avail + held + lost <= PoolSize

(* A frame that is handed to enqueue() finds room in the queue.            *)
RoomForCallback == callback \in Sizes => Len(pending) < MaxPending

(* The frame the worker has of the pool is accounted for.                  *)
WorkersFrame == IF worker \in {"convert", "deliver"} THEN 1 ELSE 0

(* Alloc and release keep the pool's balance.                              *)
PoolBalance == avail + held + lost + WorkersFrame <= PoolSize

(* The steps of each call are its own.                                     *)
CallSteps ==
    \A c \in Clients :
        /\ pc[c] \in {"check", "start", "flag"} => op[c] = "start"
        /\ pc[c] \in {"teardown", "unflag", "other"} => op[c] = "stop"
        /\ pc[c] \in {"pause", "pausedHalt", "resume", "params", "device"} =>
              op[c] \in {"start", "stop"}
        /\ pc[c] \in {"pause", "pausedHalt", "resume"} => c = "recording"
        /\ op[c] = "start" => c \in up

Base == TypeOK /\ RoomForCallback /\ PoolBalance /\ CallSteps /\ QueueServed /\ WakeupPending

-----------------------------------------------------------------------------
(* What holds as long as calls have not overlapped. *)

OneCall == ~(Busy("preview") /\ Busy("recording"))

NonePlays == ~started["preview"] /\ ~started["recording"]

Alive == worker \notin {"none", "exited"} /\ open /\ ~stop

(* Who is at which step with which flags and which worker.                 *)
WorkerAt(c) ==
    /\ pc[c] \in {"pause", "pausedHalt", "resume", "params", "device", "flag"} => Alive
    /\ pc[c] \in {"start", "stop", "notify", "join", "drain", "halt"} => NonePlays
    /\ pc[c] = "other" => ~started[c]
    /\ pc[c] \in {"drain", "halt"} => ~Joinable

Stopping == \E c \in Clients : pc[c] \in {"notify", "join", "drain"}

WorkerInv ==
    /\ OneCall
    /\ \A c \in Clients : WorkerAt(c) /\ (started[c] => Alive)
    /\ stop => Stopping
    /\ worker = "exited" => stop
    /\ Joinable => open

(* The worker is there for a session that is up.                           *)
DownInv ==
    /\ \A c \in Clients : started[c] => c \in up \/ pc[c] = "unflag"
    /\ \A c \in Clients : pc[c] \in {"pause", "pausedHalt", "resume"} => started["preview"]
    /\ \A c \in Clients : pc[c] \in {"params", "device"} /\ op[c] = "stop" => started["preview"]
    /\ Joinable =>
          up # {} \/ \E c \in Clients : pc[c] \in {"unflag", "other", "stop", "notify", "join"}

(* The device between calls, and during them.                              *)
DeviceRight ==
    /\ started["recording"] => device = "high"
    /\ ~started["recording"] /\ started["preview"] => device \in {"low", "off"}
    /\ NonePlays => device = "off"

SizeInv ==
    /\ (\A c \in Clients : pc[c] \in {"rest", "teardown", "check", "start", "unflag"}) =>
          DeviceRight
    /\ pc["preview"] = "other" /\ started["recording"] => device = "high"
    /\ \A c \in Clients :
          /\ pc[c] \in {"resume", "params", "device"} => device = "off"
          /\ pc[c] = "device" => programmed = TargetSize(c)
          /\ pc[c] = "flag" => device = TargetSize(c)
          /\ pc[c] \in {"pause", "pausedHalt", "resume", "params", "device", "flag"} =>
                ~started["recording"]
    /\ pc["preview"] \in {"params", "device", "flag"} => NonePlays /\ op["preview"] = "start"

(* Who still has to do with the frames that a preview session has lost.    *)
StopsWorker(c) == pc[c] \in {"unflag", "other", "stop", "notify", "join", "drain"}

LossInv ==
    /\ ~Joinable => (held = 0 /\ lost = 0) \/ \E c \in Clients : pc[c] = "drain"
    /\ lost > 0 => \/ pc["preview"] = "teardown" \/ StopsWorker("preview")
                   \/ ~started["preview"] /\ (started["recording"] \/ StopsWorker("recording"))

Serial == WorkerInv /\ DownInv /\ SizeInv /\ LossInv

IInv == Base /\ (~overlapped => Serial)

-----------------------------------------------------------------------------
(* The steps.  A lemma per conjunct of the invariant. *)

(* A call moves to one of its steps.                                       *)
LEMMA Moves ==
    ASSUME CallTypes, NEW c \in Clients
    PROVE  /\ \A l \in Steps : Goto(c, l) => CallTypes'
           /\ Return(c) => CallTypes'
<1>1. ASSUME NEW l \in Steps, Goto(c, l) PROVE CallTypes'
    BY <1>1 DEF CallTypes, Goto
<1>2. ASSUME Return(c) PROVE CallTypes'
    <2>1. "rest" \in Steps
        BY DEF Steps
    <2> QED
        BY <1>2, <2>1 DEF CallTypes, Return
<1> QED
    BY <1>1, <1>2

(* Requests and calls stay within their steps.                             *)
LEMMA CallTypesStep ==
    ASSUME CallTypes, [Next]_vars
    PROVE  CallTypes'
<1> USE DEF CallTypes, Clients, vars, callVars, deviceVars, workerVars, poolVars
<1>1. ASSUME NEW c \in Clients, StartRequest(c) PROVE CallTypes'
    BY <1>1 DEF StartRequest, Busy, Steps
<1>2. ASSUME NEW c \in Clients, StopRequest(c) PROVE CallTypes'
    BY <1>2 DEF StopRequest, Steps
<1>3. ASSUME NEW c \in Clients, SessionDown(c) PROVE CallTypes'
    BY <1>3 DEF SessionDown, Busy, Steps
<1>4. ASSUME NEW c \in Clients, CheckStarted(c) PROVE CallTypes'
    BY <1>4, Moves DEF CheckStarted, Steps
<1>5. ASSUME NEW c \in Clients, StartWorker(c) PROVE CallTypes'
    BY <1>5, Moves DEF StartWorker, Joinable, Steps
<1>6. ASSUME NEW c \in Clients, SetDeviceParameters(c) PROVE CallTypes'
    BY <1>6, Moves DEF SetDeviceParameters, TargetSize, Steps
<1>7. ASSUME NEW c \in Clients, StartDevice(c) PROVE CallTypes'
    BY <1>7, Moves DEF StartDevice, Steps
<1>8. ASSUME NEW c \in Clients, SetStarted(c) PROVE CallTypes'
    BY <1>8, Moves DEF SetStarted, Steps
<1>9. ASSUME NEW c \in Clients, ClearStarted(c) PROVE CallTypes'
    BY <1>9, Moves DEF ClearStarted, Steps
<1>10. ASSUME NEW c \in Clients, CheckOther(c) PROVE CallTypes'
    BY <1>10, Moves DEF CheckOther, OtherUsesWorker, Steps
<1>11. ASSUME NEW c \in Clients, StopWorker(c) PROVE CallTypes'
    BY <1>11, Moves DEF StopWorker, Joinable, Steps
<1>12. ASSUME NEW c \in Clients, NotifyStop(c) PROVE CallTypes'
    BY <1>12, Moves DEF NotifyStop, Woken, Steps
<1>13. ASSUME NEW c \in Clients, Join(c) PROVE CallTypes'
    BY <1>13, Moves DEF Join, Steps
<1>14. ASSUME NEW c \in Clients, FinishStop(c) PROVE CallTypes'
    BY <1>14, Moves DEF FinishStop, DropPending, Steps
<1>15. ASSUME NEW c \in Clients, StopDevice(c) PROVE CallTypes'
    BY <1>15, Moves DEF StopDevice, Steps
<1>16. ASSUME NEW c \in Clients, PauseWorker(c) PROVE CallTypes'
    BY <1>16, Moves DEF PauseWorker, DropPending, Steps
<1>17. ASSUME NEW c \in Clients, ResumeWorker(c) PROVE CallTypes'
    BY <1>17, Moves DEF ResumeWorker, Steps
<1>18. CASE GiveBack
    BY <1>18 DEF GiveBack
<1>19. CASE Lose
    BY <1>19 DEF Lose
<1>20. CASE Deliver
    BY <1>20 DEF Deliver
<1>21. CASE Enqueue
    BY <1>21 DEF Enqueue, Accepting, Joinable
<1>22. CASE NotifyFrame
    BY <1>22 DEF NotifyFrame, Woken
<1>23. CASE TakeFrame
    BY <1>23 DEF TakeFrame
<1>24. CASE AllocScaled
    BY <1>24 DEF AllocScaled
<1>25. CASE Convert
    BY <1>25 DEF Convert
<1>26. CASE DeliverVirtual
    BY <1>26 DEF DeliverVirtual, ReleaseScaled
<1>27. CASE WakeSpuriously
    BY <1>27 DEF WakeSpuriously
<1>28. CASE UNCHANGED vars
    BY <1>28
<1> QED
    BY <1>1, <1>2, <1>3, <1>4, <1>5, <1>6, <1>7, <1>8, <1>9, <1>10, <1>11, <1>12, <1>13, <1>14,
       <1>15, <1>16, <1>17, <1>18, <1>19, <1>20, <1>21, <1>22, <1>23, <1>24, <1>25, <1>26, <1>27, <1>28
    DEF Next, Call, Callback, DoPreview

(* The flags stay flags.                                                   *)
LEMMA FlagTypesStep ==
    ASSUME FlagTypes, [Next]_vars
    PROVE  FlagTypes'
<1> USE DEF FlagTypes, Clients, Goto, Return, vars, callVars, deviceVars, workerVars,
      poolVars
<1>1. ASSUME NEW c \in Clients, StartRequest(c) PROVE FlagTypes'
    BY <1>1 DEF StartRequest, Busy
<1>2. ASSUME NEW c \in Clients, StopRequest(c) PROVE FlagTypes'
    BY <1>2 DEF StopRequest
<1>3. ASSUME NEW c \in Clients, SessionDown(c) PROVE FlagTypes'
    BY <1>3 DEF SessionDown, Busy
<1>4. ASSUME NEW c \in Clients, CheckStarted(c) PROVE FlagTypes'
    BY <1>4 DEF CheckStarted
<1>5. ASSUME NEW c \in Clients, StartWorker(c) PROVE FlagTypes'
    BY <1>5 DEF StartWorker, Joinable
<1>6. ASSUME NEW c \in Clients, SetDeviceParameters(c) PROVE FlagTypes'
    BY <1>6 DEF SetDeviceParameters, TargetSize
<1>7. ASSUME NEW c \in Clients, StartDevice(c) PROVE FlagTypes'
    BY <1>7 DEF StartDevice
<1>8. ASSUME NEW c \in Clients, SetStarted(c) PROVE FlagTypes'
    BY <1>8 DEF SetStarted
<1>9. ASSUME NEW c \in Clients, ClearStarted(c) PROVE FlagTypes'
    BY <1>9 DEF ClearStarted
<1>10. ASSUME NEW c \in Clients, CheckOther(c) PROVE FlagTypes'
    BY <1>10 DEF CheckOther, OtherUsesWorker
<1>11. ASSUME NEW c \in Clients, StopWorker(c) PROVE FlagTypes'
    BY <1>11 DEF StopWorker, Joinable
<1>12. ASSUME NEW c \in Clients, NotifyStop(c) PROVE FlagTypes'
    BY <1>12 DEF NotifyStop, Woken
<1>13. ASSUME NEW c \in Clients, Join(c) PROVE FlagTypes'
    BY <1>13 DEF Join
<1>14. ASSUME NEW c \in Clients, FinishStop(c) PROVE FlagTypes'
    BY <1>14 DEF FinishStop, DropPending
<1>15. ASSUME NEW c \in Clients, StopDevice(c) PROVE FlagTypes'
    BY <1>15 DEF StopDevice
<1>16. ASSUME NEW c \in Clients, PauseWorker(c) PROVE FlagTypes'
    BY <1>16 DEF PauseWorker, DropPending
<1>17. ASSUME NEW c \in Clients, ResumeWorker(c) PROVE FlagTypes'
    BY <1>17 DEF ResumeWorker
<1>18. CASE GiveBack
    BY <1>18 DEF GiveBack
<1>19. CASE Lose
    BY <1>19 DEF Lose
<1>20. CASE Deliver
    BY <1>20 DEF Deliver
<1>21. CASE Enqueue
    BY <1>21 DEF Enqueue, Accepting, Joinable
<1>22. CASE NotifyFrame
    BY <1>22 DEF NotifyFrame, Woken
<1>23. CASE TakeFrame
    BY <1>23 DEF TakeFrame
<1>24. CASE AllocScaled
    BY <1>24 DEF AllocScaled
<1>25. CASE Convert
    BY <1>25 DEF Convert
<1>26. CASE DeliverVirtual
    BY <1>26 DEF DeliverVirtual, ReleaseScaled
<1>27. CASE WakeSpuriously
    BY <1>27 DEF WakeSpuriously
<1>28. CASE UNCHANGED vars
    BY <1>28
<1> QED
    BY <1>1, <1>2, <1>3, <1>4, <1>5, <1>6, <1>7, <1>8, <1>9, <1>10, <1>11, <1>12, <1>13, <1>14,
       <1>15, <1>16, <1>17, <1>18, <1>19, <1>20, <1>21, <1>22, <1>23, <1>24, <1>25, <1>26, <1>27, <1>28
    DEF Next, Call, Callback, DoPreview

(* The queue never exceeds the camera's frames.                            *)
LEMMA DataTypesStep ==
    ASSUME DataTypes, RoomForCallback, [Next]_vars
    PROVE  (DataTypes /\ RoomForCallback)'
<1> USE DEF DataTypes, RoomForCallback, Sizes, Clients, Goto, Return, vars, callVars,
      deviceVars, workerVars, poolVars
<1>1. ASSUME NEW c \in Clients, StartRequest(c) PROVE (DataTypes /\ RoomForCallback)'
    BY <1>1 DEF StartRequest, Busy
<1>2. ASSUME NEW c \in Clients, StopRequest(c) PROVE (DataTypes /\ RoomForCallback)'
    BY <1>2 DEF StopRequest
<1>3. ASSUME NEW c \in Clients, SessionDown(c) PROVE (DataTypes /\ RoomForCallback)'
    BY <1>3 DEF SessionDown, Busy
<1>4. ASSUME NEW c \in Clients, CheckStarted(c) PROVE (DataTypes /\ RoomForCallback)'
    BY <1>4 DEF CheckStarted
<1>5. ASSUME NEW c \in Clients, StartWorker(c) PROVE (DataTypes /\ RoomForCallback)'
    BY <1>5 DEF StartWorker, Joinable
<1>6. ASSUME NEW c \in Clients, SetDeviceParameters(c) PROVE (DataTypes /\ RoomForCallback)'
    BY <1>6 DEF SetDeviceParameters, TargetSize
<1>7. ASSUME NEW c \in Clients, StartDevice(c) PROVE (DataTypes /\ RoomForCallback)'
    BY <1>7 DEF StartDevice
<1>8. ASSUME NEW c \in Clients, SetStarted(c) PROVE (DataTypes /\ RoomForCallback)'
    BY <1>8 DEF SetStarted
<1>9. ASSUME NEW c \in Clients, ClearStarted(c) PROVE (DataTypes /\ RoomForCallback)'
    BY <1>9 DEF ClearStarted
<1>10. ASSUME NEW c \in Clients, CheckOther(c) PROVE (DataTypes /\ RoomForCallback)'
    BY <1>10 DEF CheckOther, OtherUsesWorker
<1>11. ASSUME NEW c \in Clients, StopWorker(c) PROVE (DataTypes /\ RoomForCallback)'
    BY <1>11 DEF StopWorker, Joinable
<1>12. ASSUME NEW c \in Clients, NotifyStop(c) PROVE (DataTypes /\ RoomForCallback)'
    BY <1>12 DEF NotifyStop, Woken
<1>13. ASSUME NEW c \in Clients, Join(c) PROVE (DataTypes /\ RoomForCallback)'
    BY <1>13 DEF Join
<1>14. ASSUME NEW c \in Clients, FinishStop(c) PROVE (DataTypes /\ RoomForCallback)'
    BY <1>14, VirtualCameraAssumption DEF FinishStop, DropPending
<1>15. ASSUME NEW c \in Clients, StopDevice(c) PROVE (DataTypes /\ RoomForCallback)'
    BY <1>15 DEF StopDevice
<1>16. ASSUME NEW c \in Clients, PauseWorker(c) PROVE (DataTypes /\ RoomForCallback)'
    BY <1>16, VirtualCameraAssumption DEF PauseWorker, DropPending
<1>17. ASSUME NEW c \in Clients, ResumeWorker(c) PROVE (DataTypes /\ RoomForCallback)'
    BY <1>17 DEF ResumeWorker
<1>18. CASE GiveBack
    BY <1>18 DEF GiveBack
<1>19. CASE Lose
    BY <1>19 DEF Lose
<1>20. CASE Deliver
    BY <1>20 DEF Deliver
<1>21. CASE Enqueue
    BY <1>21, VirtualCameraAssumption DEF Enqueue, Accepting, Joinable
<1>22. CASE NotifyFrame
    BY <1>22 DEF NotifyFrame, Woken
<1>23. CASE TakeFrame
    BY <1>23, VirtualCameraAssumption DEF TakeFrame
<1>24. CASE AllocScaled
    BY <1>24 DEF AllocScaled
<1>25. CASE Convert
    BY <1>25 DEF Convert
<1>26. CASE DeliverVirtual
    BY <1>26 DEF DeliverVirtual, ReleaseScaled
<1>27. CASE WakeSpuriously
    BY <1>27 DEF WakeSpuriously
<1>28. CASE UNCHANGED vars
    BY <1>28
<1> QED
    BY <1>1, <1>2, <1>3, <1>4, <1>5, <1>6, <1>7, <1>8, <1>9, <1>10, <1>11, <1>12, <1>13, <1>14,
       <1>15, <1>16, <1>17, <1>18, <1>19, <1>20, <1>21, <1>22, <1>23, <1>24, <1>25, <1>26, <1>27, <1>28
    DEF Next, Call, Callback, DoPreview

(* No scaled frame comes into being.                                       *)
LEMMA PoolStep ==
    ASSUME PoolTypes, PoolBalance, [Next]_vars
    PROVE  (PoolTypes /\ PoolBalance)'
<1> USE DEF PoolTypes, PoolBalance, WorkersFrame, Clients, Goto, Return, vars, callVars,
      deviceVars, workerVars, poolVars
<1>1. ASSUME NEW c \in Clients, StartRequest(c) PROVE (PoolTypes /\ PoolBalance)'
    BY <1>1 DEF StartRequest, Busy
<1>2. ASSUME NEW c \in Clients, StopRequest(c) PROVE (PoolTypes /\ PoolBalance)'
    BY <1>2 DEF StopRequest
<1>3. ASSUME NEW c \in Clients, SessionDown(c) PROVE (PoolTypes /\ PoolBalance)'
    BY <1>3 DEF SessionDown, Busy
<1>4. ASSUME NEW c \in Clients, CheckStarted(c) PROVE (PoolTypes /\ PoolBalance)'
    BY <1>4 DEF CheckStarted
<1>5. ASSUME NEW c \in Clients, StartWorker(c) PROVE (PoolTypes /\ PoolBalance)'
    BY <1>5, VirtualCameraAssumption DEF StartWorker, Joinable
<1>6. ASSUME NEW c \in Clients, SetDeviceParameters(c) PROVE (PoolTypes /\ PoolBalance)'
    BY <1>6 DEF SetDeviceParameters, TargetSize
<1>7. ASSUME NEW c \in Clients, StartDevice(c) PROVE (PoolTypes /\ PoolBalance)'
    BY <1>7 DEF StartDevice
<1>8. ASSUME NEW c \in Clients, SetStarted(c) PROVE (PoolTypes /\ PoolBalance)'
    BY <1>8 DEF SetStarted
<1>9. ASSUME NEW c \in Clients, ClearStarted(c) PROVE (PoolTypes /\ PoolBalance)'
    BY <1>9 DEF ClearStarted
<1>10. ASSUME NEW c \in Clients, CheckOther(c) PROVE (PoolTypes /\ PoolBalance)'
    BY <1>10 DEF CheckOther, OtherUsesWorker
<1>11. ASSUME NEW c \in Clients, StopWorker(c) PROVE (PoolTypes /\ PoolBalance)'
    BY <1>11 DEF StopWorker, Joinable
<1>12. ASSUME NEW c \in Clients, NotifyStop(c) PROVE (PoolTypes /\ PoolBalance)'
    BY <1>12 DEF NotifyStop, Woken
<1>13. ASSUME NEW c \in Clients, Join(c) PROVE (PoolTypes /\ PoolBalance)'
    BY <1>13 DEF Join
<1>14. ASSUME NEW c \in Clients, FinishStop(c) PROVE (PoolTypes /\ PoolBalance)'
    BY <1>14, VirtualCameraAssumption DEF FinishStop, DropPending
<1>15. ASSUME NEW c \in Clients, StopDevice(c) PROVE (PoolTypes /\ PoolBalance)'
    BY <1>15 DEF StopDevice
<1>16. ASSUME NEW c \in Clients, PauseWorker(c) PROVE (PoolTypes /\ PoolBalance)'
    BY <1>16 DEF PauseWorker, DropPending
<1>17. ASSUME NEW c \in Clients, ResumeWorker(c) PROVE (PoolTypes /\ PoolBalance)'
    BY <1>17 DEF ResumeWorker
<1>18. CASE GiveBack
    BY <1>18, VirtualCameraAssumption DEF GiveBack
<1>19. CASE Lose
    BY <1>19, VirtualCameraAssumption DEF Lose
<1>20. CASE Deliver
    BY <1>20 DEF Deliver
<1>21. CASE Enqueue
    BY <1>21 DEF Enqueue, Accepting, Joinable
<1>22. CASE NotifyFrame
    BY <1>22 DEF NotifyFrame, Woken
<1>23. CASE TakeFrame
    BY <1>23 DEF TakeFrame
<1>24. CASE AllocScaled
    BY <1>24, VirtualCameraAssumption DEF AllocScaled
<1>25. CASE Convert
    BY <1>25 DEF Convert
<1>26. CASE DeliverVirtual
    BY <1>26, VirtualCameraAssumption DEF DeliverVirtual, ReleaseScaled
<1>27. CASE WakeSpuriously
    BY <1>27 DEF WakeSpuriously
<1>28. CASE UNCHANGED vars
    BY <1>28
<1> QED
    BY <1>1, <1>2, <1>3, <1>4, <1>5, <1>6, <1>7, <1>8, <1>9, <1>10, <1>11, <1>12, <1>13, <1>14,
       <1>15, <1>16, <1>17, <1>18, <1>19, <1>20, <1>21, <1>22, <1>23, <1>24, <1>25, <1>26, <1>27, <1>28
    DEF Next, Call, Callback, DoPreview

(* Each call goes its own way.                                             *)
LEMMA CallStep ==
    ASSUME CallTypes, CallSteps, [Next]_vars
    PROVE  CallSteps'
<1> USE DEF CallTypes, CallSteps, Clients, Goto, Return, vars, callVars, deviceVars,
      workerVars, poolVars
<1>1. ASSUME NEW c \in Clients, StartRequest(c) PROVE CallSteps'
    BY <1>1 DEF StartRequest, Busy
<1>2. ASSUME NEW c \in Clients, StopRequest(c) PROVE CallSteps'
    BY <1>2 DEF StopRequest
<1>3. ASSUME NEW c \in Clients, SessionDown(c) PROVE CallSteps'
    BY <1>3 DEF SessionDown, Busy
<1>4. ASSUME NEW c \in Clients, CheckStarted(c) PROVE CallSteps'
    BY <1>4 DEF CheckStarted
<1>5. ASSUME NEW c \in Clients, StartWorker(c) PROVE CallSteps'
    BY <1>5 DEF StartWorker, Joinable
<1>6. ASSUME NEW c \in Clients, SetDeviceParameters(c) PROVE CallSteps'
    BY <1>6 DEF SetDeviceParameters, TargetSize
<1>7. ASSUME NEW c \in Clients, StartDevice(c) PROVE CallSteps'
    BY <1>7 DEF StartDevice
<1>8. ASSUME NEW c \in Clients, SetStarted(c) PROVE CallSteps'
    BY <1>8 DEF SetStarted
<1>9. ASSUME NEW c \in Clients, ClearStarted(c) PROVE CallSteps'
    BY <1>9 DEF ClearStarted
<1>10. ASSUME NEW c \in Clients, CheckOther(c) PROVE CallSteps'
    BY <1>10 DEF CheckOther, OtherUsesWorker
<1>11. ASSUME NEW c \in Clients, StopWorker(c) PROVE CallSteps'
    BY <1>11 DEF StopWorker, Joinable
<1>12. ASSUME NEW c \in Clients, NotifyStop(c) PROVE CallSteps'
    BY <1>12 DEF NotifyStop, Woken
<1>13. ASSUME NEW c \in Clients, Join(c) PROVE CallSteps'
    BY <1>13 DEF Join
<1>14. ASSUME NEW c \in Clients, FinishStop(c) PROVE CallSteps'
    BY <1>14 DEF FinishStop, DropPending
<1>15. ASSUME NEW c \in Clients, StopDevice(c) PROVE CallSteps'
    BY <1>15 DEF StopDevice
<1>16. ASSUME NEW c \in Clients, PauseWorker(c) PROVE CallSteps'
    BY <1>16 DEF PauseWorker, DropPending
<1>17. ASSUME NEW c \in Clients, ResumeWorker(c) PROVE CallSteps'
    BY <1>17 DEF ResumeWorker
<1>18. CASE GiveBack
    BY <1>18 DEF GiveBack
<1>19. CASE Lose
    BY <1>19 DEF Lose
<1>20. CASE Deliver
    BY <1>20 DEF Deliver
<1>21. CASE Enqueue
    BY <1>21 DEF Enqueue, Accepting, Joinable
<1>22. CASE NotifyFrame
    BY <1>22 DEF NotifyFrame, Woken
<1>23. CASE TakeFrame
    BY <1>23 DEF TakeFrame
<1>24. CASE AllocScaled
    BY <1>24 DEF AllocScaled
<1>25. CASE Convert
    BY <1>25 DEF Convert
<1>26. CASE DeliverVirtual
    BY <1>26 DEF DeliverVirtual, ReleaseScaled
<1>27. CASE WakeSpuriously
    BY <1>27 DEF WakeSpuriously
<1>28. CASE UNCHANGED vars
    BY <1>28
<1> QED
    BY <1>1, <1>2, <1>3, <1>4, <1>5, <1>6, <1>7, <1>8, <1>9, <1>10, <1>11, <1>12, <1>13, <1>14,
       <1>15, <1>16, <1>17, <1>18, <1>19, <1>20, <1>21, <1>22, <1>23, <1>24, <1>25, <1>26, <1>27, <1>28
    DEF Next, Call, Callback, DoPreview

(* The queue has a worker, and the worker its notification.                *)
LEMMA WakeupStep ==
    ASSUME CallTypes, FlagTypes, DataTypes, QueueServed, WakeupPending, [Next]_vars
    PROVE  (QueueServed /\ WakeupPending)'
<1> USE DEF CallTypes, FlagTypes, DataTypes, QueueServed, WakeupPending, Joinable, Sizes,
      Clients, Goto, Return, vars, callVars, deviceVars, workerVars, poolVars, Other
<1>1. ASSUME NEW c \in Clients, StartRequest(c) PROVE (QueueServed /\ WakeupPending)'
    BY <1>1 DEF StartRequest, Busy
<1>2. ASSUME NEW c \in Clients, StopRequest(c) PROVE (QueueServed /\ WakeupPending)'
    BY <1>2 DEF StopRequest
<1>3. ASSUME NEW c \in Clients, SessionDown(c) PROVE (QueueServed /\ WakeupPending)'
    BY <1>3 DEF SessionDown, Busy
<1>4. ASSUME NEW c \in Clients, CheckStarted(c) PROVE (QueueServed /\ WakeupPending)'
    BY <1>4 DEF CheckStarted
<1>5. ASSUME NEW c \in Clients, StartWorker(c) PROVE (QueueServed /\ WakeupPending)'
    BY <1>5 DEF StartWorker
<1>6. ASSUME NEW c \in Clients, SetDeviceParameters(c) PROVE (QueueServed /\ WakeupPending)'
    BY <1>6 DEF SetDeviceParameters, TargetSize
<1>7. ASSUME NEW c \in Clients, StartDevice(c) PROVE (QueueServed /\ WakeupPending)'
    BY <1>7 DEF StartDevice
<1>8. ASSUME NEW c \in Clients, SetStarted(c) PROVE (QueueServed /\ WakeupPending)'
    BY <1>8 DEF SetStarted
<1>9. ASSUME NEW c \in Clients, ClearStarted(c) PROVE (QueueServed /\ WakeupPending)'
    BY <1>9 DEF ClearStarted
<1>10. ASSUME NEW c \in Clients, CheckOther(c) PROVE (QueueServed /\ WakeupPending)'
    BY <1>10 DEF CheckOther, OtherUsesWorker
<1>11. ASSUME NEW c \in Clients, StopWorker(c) PROVE (QueueServed /\ WakeupPending)'
    BY <1>11 DEF StopWorker
<1>12. ASSUME NEW c \in Clients, NotifyStop(c) PROVE (QueueServed /\ WakeupPending)'
    BY <1>12 DEF NotifyStop, Woken
<1>13. ASSUME NEW c \in Clients, Join(c) PROVE (QueueServed /\ WakeupPending)'
    BY <1>13 DEF Join
<1>14. ASSUME NEW c \in Clients, FinishStop(c) PROVE (QueueServed /\ WakeupPending)'
    BY <1>14 DEF FinishStop, DropPending
<1>15. ASSUME NEW c \in Clients, StopDevice(c) PROVE (QueueServed /\ WakeupPending)'
    BY <1>15 DEF StopDevice
<1>16. ASSUME NEW c \in Clients, PauseWorker(c) PROVE (QueueServed /\ WakeupPending)'
    BY <1>16 DEF PauseWorker, DropPending
<1>17. ASSUME NEW c \in Clients, ResumeWorker(c) PROVE (QueueServed /\ WakeupPending)'
    BY <1>17 DEF ResumeWorker
<1>18. CASE GiveBack
    BY <1>18 DEF GiveBack
<1>19. CASE Lose
    BY <1>19 DEF Lose
<1>20. CASE Deliver
    BY <1>20 DEF Deliver
<1>21. CASE Enqueue
    BY <1>21 DEF Enqueue, Accepting
<1>22. CASE NotifyFrame
    BY <1>22 DEF NotifyFrame, Woken
<1>23. CASE TakeFrame
    BY <1>23 DEF TakeFrame
<1>24. CASE AllocScaled
    BY <1>24 DEF AllocScaled
<1>25. CASE Convert
    BY <1>25 DEF Convert
<1>26. CASE DeliverVirtual
    BY <1>26 DEF DeliverVirtual, ReleaseScaled
<1>27. CASE WakeSpuriously
    BY <1>27 DEF WakeSpuriously
<1>28. CASE UNCHANGED vars
    BY <1>28
<1> QED
    BY <1>1, <1>2, <1>3, <1>4, <1>5, <1>6, <1>7, <1>8, <1>9, <1>10, <1>11, <1>12, <1>13, <1>14,
       <1>15, <1>16, <1>17, <1>18, <1>19, <1>20, <1>21, <1>22, <1>23, <1>24, <1>25, <1>26, <1>27, <1>28
    DEF Next, Call, Callback, DoPreview

(* Without an overlap the worker lives while a session plays.              *)
LEMMA WorkerStep ==
    ASSUME CallTypes, FlagTypes, CallSteps, ~overlapped', WorkerInv, [Next]_vars
    PROVE  WorkerInv'
<1> USE DEF CallTypes, FlagTypes, CallSteps, WorkerInv, WorkerAt, Alive, Stopping,
      Joinable, OneCall, Busy, NonePlays, Other, Clients, Goto, Return, vars, callVars,
      deviceVars, workerVars, poolVars
<1>1. ASSUME NEW c \in Clients, StartRequest(c) PROVE WorkerInv'
    BY <1>1 DEF StartRequest
<1>2. ASSUME NEW c \in Clients, StopRequest(c) PROVE WorkerInv'
    BY <1>2 DEF StopRequest
<1>3. ASSUME NEW c \in Clients, SessionDown(c) PROVE WorkerInv'
    BY <1>3 DEF SessionDown
<1>4. ASSUME NEW c \in Clients, CheckStarted(c) PROVE WorkerInv'
    BY <1>4 DEF CheckStarted
<1>5. ASSUME NEW c \in Clients, StartWorker(c) PROVE WorkerInv'
    BY <1>5 DEF StartWorker
<1>6. ASSUME NEW c \in Clients, SetDeviceParameters(c) PROVE WorkerInv'
    BY <1>6 DEF SetDeviceParameters, TargetSize
<1>7. ASSUME NEW c \in Clients, StartDevice(c) PROVE WorkerInv'
    BY <1>7 DEF StartDevice
<1>8. ASSUME NEW c \in Clients, SetStarted(c) PROVE WorkerInv'
    BY <1>8 DEF SetStarted
<1>9. ASSUME NEW c \in Clients, ClearStarted(c) PROVE WorkerInv'
    BY <1>9 DEF ClearStarted
<1>10. ASSUME NEW c \in Clients, CheckOther(c) PROVE WorkerInv'
    BY <1>10 DEF CheckOther, OtherUsesWorker
<1>11. ASSUME NEW c \in Clients, StopWorker(c) PROVE WorkerInv'
    BY <1>11 DEF StopWorker
<1>12. ASSUME NEW c \in Clients, NotifyStop(c) PROVE WorkerInv'
    BY <1>12 DEF NotifyStop, Woken
<1>13. ASSUME NEW c \in Clients, Join(c) PROVE WorkerInv'
    BY <1>13 DEF Join
<1>14. ASSUME NEW c \in Clients, FinishStop(c) PROVE WorkerInv'
    BY <1>14 DEF FinishStop, DropPending
<1>15. ASSUME NEW c \in Clients, StopDevice(c) PROVE WorkerInv'
    BY <1>15 DEF StopDevice
<1>16. ASSUME NEW c \in Clients, PauseWorker(c) PROVE WorkerInv'
    BY <1>16 DEF PauseWorker, DropPending
<1>17. ASSUME NEW c \in Clients, ResumeWorker(c) PROVE WorkerInv'
    BY <1>17 DEF ResumeWorker
<1>18. CASE GiveBack
    BY <1>18 DEF GiveBack
<1>19. CASE Lose
    BY <1>19 DEF Lose
<1>20. CASE Deliver
    BY <1>20 DEF Deliver
<1>21. CASE Enqueue
    BY <1>21 DEF Enqueue, Accepting
<1>22. CASE NotifyFrame
    BY <1>22 DEF NotifyFrame, Woken
<1>23. CASE TakeFrame
    BY <1>23 DEF TakeFrame
<1>24. CASE AllocScaled
    BY <1>24 DEF AllocScaled
<1>25. CASE Convert
    BY <1>25 DEF Convert
<1>26. CASE DeliverVirtual
    BY <1>26 DEF DeliverVirtual, ReleaseScaled
<1>27. CASE WakeSpuriously
    BY <1>27 DEF WakeSpuriously
<1>28. CASE UNCHANGED vars
    BY <1>28
<1> QED
    BY <1>1, <1>2, <1>3, <1>4, <1>5, <1>6, <1>7, <1>8, <1>9, <1>10, <1>11, <1>12, <1>13, <1>14,
       <1>15, <1>16, <1>17, <1>18, <1>19, <1>20, <1>21, <1>22, <1>23, <1>24, <1>25, <1>26, <1>27, <1>28
    DEF Next, Call, Callback, DoPreview

(* Without an overlap the worker goes when the last session does.          *)
LEMMA DownStep ==
    ASSUME CallTypes, FlagTypes, CallSteps, ~overlapped', WorkerInv, DownInv, [Next]_vars
    PROVE  DownInv'
<1> USE DEF CallTypes, FlagTypes, CallSteps, WorkerInv, WorkerAt, DownInv, Alive, Joinable,
      OneCall, Busy, NonePlays, Other, Clients, Goto, Return, vars, callVars, deviceVars,
      workerVars, poolVars
<1>1. ASSUME NEW c \in Clients, StartRequest(c) PROVE DownInv'
    BY <1>1 DEF StartRequest
<1>2. ASSUME NEW c \in Clients, StopRequest(c) PROVE DownInv'
    BY <1>2 DEF StopRequest
<1>3. ASSUME NEW c \in Clients, SessionDown(c) PROVE DownInv'
    BY <1>3 DEF SessionDown
<1>4. ASSUME NEW c \in Clients, CheckStarted(c) PROVE DownInv'
    BY <1>4 DEF CheckStarted
<1>5. ASSUME NEW c \in Clients, StartWorker(c) PROVE DownInv'
    BY <1>5 DEF StartWorker
<1>6. ASSUME NEW c \in Clients, SetDeviceParameters(c) PROVE DownInv'
    BY <1>6 DEF SetDeviceParameters, TargetSize
<1>7. ASSUME NEW c \in Clients, StartDevice(c) PROVE DownInv'
    BY <1>7 DEF StartDevice
<1>8. ASSUME NEW c \in Clients, SetStarted(c) PROVE DownInv'
    BY <1>8 DEF SetStarted
<1>9. ASSUME NEW c \in Clients, ClearStarted(c) PROVE DownInv'
    BY <1>9 DEF ClearStarted
<1>10. ASSUME NEW c \in Clients, CheckOther(c) PROVE DownInv'
    BY <1>10 DEF CheckOther, OtherUsesWorker
<1>11. ASSUME NEW c \in Clients, StopWorker(c) PROVE DownInv'
    BY <1>11 DEF StopWorker
<1>12. ASSUME NEW c \in Clients, NotifyStop(c) PROVE DownInv'
    BY <1>12 DEF NotifyStop, Woken
<1>13. ASSUME NEW c \in Clients, Join(c) PROVE DownInv'
    BY <1>13 DEF Join
<1>14. ASSUME NEW c \in Clients, FinishStop(c) PROVE DownInv'
    BY <1>14 DEF FinishStop, DropPending
<1>15. ASSUME NEW c \in Clients, StopDevice(c) PROVE DownInv'
    BY <1>15 DEF StopDevice
<1>16. ASSUME NEW c \in Clients, PauseWorker(c) PROVE DownInv'
    BY <1>16 DEF PauseWorker, DropPending
<1>17. ASSUME NEW c \in Clients, ResumeWorker(c) PROVE DownInv'
    BY <1>17 DEF ResumeWorker
<1>18. CASE GiveBack
    BY <1>18 DEF GiveBack
<1>19. CASE Lose
    BY <1>19 DEF Lose
<1>20. CASE Deliver
    BY <1>20 DEF Deliver
<1>21. CASE Enqueue
    BY <1>21 DEF Enqueue, Accepting
<1>22. CASE NotifyFrame
    BY <1>22 DEF NotifyFrame, Woken
<1>23. CASE TakeFrame
    BY <1>23 DEF TakeFrame
<1>24. CASE AllocScaled
    BY <1>24 DEF AllocScaled
<1>25. CASE Convert
    BY <1>25 DEF Convert
<1>26. CASE DeliverVirtual
    BY <1>26 DEF DeliverVirtual, ReleaseScaled
<1>27. CASE WakeSpuriously
    BY <1>27 DEF WakeSpuriously
<1>28. CASE UNCHANGED vars
    BY <1>28
<1> QED
    BY <1>1, <1>2, <1>3, <1>4, <1>5, <1>6, <1>7, <1>8, <1>9, <1>10, <1>11, <1>12, <1>13, <1>14,
       <1>15, <1>16, <1>17, <1>18, <1>19, <1>20, <1>21, <1>22, <1>23, <1>24, <1>25, <1>26, <1>27, <1>28
    DEF Next, Call, Callback, DoPreview

(* Without an overlap the device has the size it should have.              *)
LEMMA SizeStep ==
    ASSUME CallTypes, FlagTypes, CallSteps, ~overlapped', WorkerInv, DownInv, SizeInv, [Next]_vars
    PROVE  SizeInv'
<1> USE DEF CallTypes, FlagTypes, CallSteps, WorkerInv, WorkerAt, DownInv, SizeInv,
      DeviceRight, TargetSize, OneCall, Busy, NonePlays, Other, Clients, Goto, Return,
      vars, callVars, deviceVars, workerVars, poolVars
<1>1. ASSUME NEW c \in Clients, StartRequest(c) PROVE SizeInv'
    BY <1>1 DEF StartRequest
<1>2. ASSUME NEW c \in Clients, StopRequest(c) PROVE SizeInv'
    BY <1>2 DEF StopRequest
<1>3. ASSUME NEW c \in Clients, SessionDown(c) PROVE SizeInv'
    BY <1>3 DEF SessionDown
<1>4. ASSUME NEW c \in Clients, CheckStarted(c) PROVE SizeInv'
    BY <1>4 DEF CheckStarted
<1>5. ASSUME NEW c \in Clients, StartWorker(c) PROVE SizeInv'
    BY <1>5 DEF StartWorker, Joinable
<1>6. ASSUME NEW c \in Clients, SetDeviceParameters(c) PROVE SizeInv'
    BY <1>6 DEF SetDeviceParameters
<1>7. ASSUME NEW c \in Clients, StartDevice(c) PROVE SizeInv'
    BY <1>7 DEF StartDevice
<1>8. ASSUME NEW c \in Clients, SetStarted(c) PROVE SizeInv'
    BY <1>8 DEF SetStarted
<1>9. ASSUME NEW c \in Clients, ClearStarted(c) PROVE SizeInv'
    BY <1>9 DEF ClearStarted
<1>10. ASSUME NEW c \in Clients, CheckOther(c) PROVE SizeInv'
    BY <1>10 DEF CheckOther, OtherUsesWorker
<1>11. ASSUME NEW c \in Clients, StopWorker(c) PROVE SizeInv'
    BY <1>11 DEF StopWorker, Joinable
<1>12. ASSUME NEW c \in Clients, NotifyStop(c) PROVE SizeInv'
    BY <1>12 DEF NotifyStop, Woken
<1>13. ASSUME NEW c \in Clients, Join(c) PROVE SizeInv'
    BY <1>13 DEF Join
<1>14. ASSUME NEW c \in Clients, FinishStop(c) PROVE SizeInv'
    BY <1>14 DEF FinishStop, DropPending
<1>15. ASSUME NEW c \in Clients, StopDevice(c) PROVE SizeInv'
    BY <1>15 DEF StopDevice
<1>16. ASSUME NEW c \in Clients, PauseWorker(c) PROVE SizeInv'
    BY <1>16 DEF PauseWorker, DropPending
<1>17. ASSUME NEW c \in Clients, ResumeWorker(c) PROVE SizeInv'
    BY <1>17 DEF ResumeWorker
<1>18. CASE GiveBack
    BY <1>18 DEF GiveBack
<1>19. CASE Lose
    BY <1>19 DEF Lose
<1>20. CASE Deliver
    BY <1>20 DEF Deliver
<1>21. CASE Enqueue
    BY <1>21 DEF Enqueue, Accepting, Joinable
<1>22. CASE NotifyFrame
    BY <1>22 DEF NotifyFrame, Woken
<1>23. CASE TakeFrame
    BY <1>23 DEF TakeFrame
<1>24. CASE AllocScaled
    BY <1>24 DEF AllocScaled
<1>25. CASE Convert
    BY <1>25 DEF Convert
<1>26. CASE DeliverVirtual
    BY <1>26 DEF DeliverVirtual, ReleaseScaled
<1>27. CASE WakeSpuriously
    BY <1>27 DEF WakeSpuriously
<1>28. CASE UNCHANGED vars
    BY <1>28
<1> QED
    BY <1>1, <1>2, <1>3, <1>4, <1>5, <1>6, <1>7, <1>8, <1>9, <1>10, <1>11, <1>12, <1>13, <1>14,
       <1>15, <1>16, <1>17, <1>18, <1>19, <1>20, <1>21, <1>22, <1>23, <1>24, <1>25, <1>26, <1>27, <1>28
    DEF Next, Call, Callback, DoPreview

(* Without an overlap losses end with the recording.                       *)
LEMMA LossStep ==
    ASSUME CallTypes, FlagTypes, CallSteps, ~overlapped', WorkerInv, DownInv, SizeInv, LossInv, [Next]_vars
    PROVE  LossInv'
<1> USE DEF CallTypes, FlagTypes, CallSteps, WorkerInv, WorkerAt, DownInv, SizeInv,
      LossInv, StopsWorker, Alive, Joinable, OneCall, Busy, NonePlays, Other, Clients,
      Goto, Return, vars, callVars, deviceVars, workerVars, poolVars
<1>1. ASSUME NEW c \in Clients, StartRequest(c) PROVE LossInv'
    BY <1>1 DEF StartRequest
<1>2. ASSUME NEW c \in Clients, StopRequest(c) PROVE LossInv'
    BY <1>2 DEF StopRequest
<1>3. ASSUME NEW c \in Clients, SessionDown(c) PROVE LossInv'
    BY <1>3 DEF SessionDown
<1>4. ASSUME NEW c \in Clients, CheckStarted(c) PROVE LossInv'
    BY <1>4 DEF CheckStarted
<1>5. ASSUME NEW c \in Clients, StartWorker(c) PROVE LossInv'
    BY <1>5 DEF StartWorker
<1>6. ASSUME NEW c \in Clients, SetDeviceParameters(c) PROVE LossInv'
    BY <1>6 DEF SetDeviceParameters, TargetSize
<1>7. ASSUME NEW c \in Clients, StartDevice(c) PROVE LossInv'
    BY <1>7 DEF StartDevice
<1>8. ASSUME NEW c \in Clients, SetStarted(c) PROVE LossInv'
    BY <1>8 DEF SetStarted
<1>9. ASSUME NEW c \in Clients, ClearStarted(c) PROVE LossInv'
    BY <1>9 DEF ClearStarted
<1>10. ASSUME NEW c \in Clients, CheckOther(c) PROVE LossInv'
    BY <1>10 DEF CheckOther, OtherUsesWorker
<1>11. ASSUME NEW c \in Clients, StopWorker(c) PROVE LossInv'
    BY <1>11 DEF StopWorker
<1>12. ASSUME NEW c \in Clients, NotifyStop(c) PROVE LossInv'
    BY <1>12 DEF NotifyStop, Woken
<1>13. ASSUME NEW c \in Clients, Join(c) PROVE LossInv'
    BY <1>13 DEF Join
<1>14. ASSUME NEW c \in Clients, FinishStop(c) PROVE LossInv'
    BY <1>14 DEF FinishStop, DropPending
<1>15. ASSUME NEW c \in Clients, StopDevice(c) PROVE LossInv'
    BY <1>15 DEF StopDevice
<1>16. ASSUME NEW c \in Clients, PauseWorker(c) PROVE LossInv'
    BY <1>16 DEF PauseWorker, DropPending
<1>17. ASSUME NEW c \in Clients, ResumeWorker(c) PROVE LossInv'
    BY <1>17 DEF ResumeWorker
<1>18. CASE GiveBack
    BY <1>18 DEF GiveBack
<1>19. CASE Lose
    BY <1>19 DEF Lose
<1>20. CASE Deliver
    BY <1>20 DEF Deliver
<1>21. CASE Enqueue
    BY <1>21 DEF Enqueue, Accepting
<1>22. CASE NotifyFrame
    BY <1>22 DEF NotifyFrame, Woken
<1>23. CASE TakeFrame
    BY <1>23 DEF TakeFrame
<1>24. CASE AllocScaled
    BY <1>24 DEF AllocScaled
<1>25. CASE Convert
    BY <1>25 DEF Convert
<1>26. CASE DeliverVirtual
    BY <1>26 DEF DeliverVirtual, ReleaseScaled
<1>27. CASE WakeSpuriously
    BY <1>27 DEF WakeSpuriously
<1>28. CASE UNCHANGED vars
    BY <1>28
<1> QED
    BY <1>1, <1>2, <1>3, <1>4, <1>5, <1>6, <1>7, <1>8, <1>9, <1>10, <1>11, <1>12, <1>13, <1>14,
       <1>15, <1>16, <1>17, <1>18, <1>19, <1>20, <1>21, <1>22, <1>23, <1>24, <1>25, <1>26, <1>27, <1>28
    DEF Next, Call, Callback, DoPreview

-----------------------------------------------------------------------------
LEMMA TypeParts == TypeOK <=> CallTypes /\ FlagTypes /\ DataTypes /\ PoolTypes
  BY DEF TypeOK, CallTypes, FlagTypes, DataTypes, PoolTypes

(* Once calls have overlapped that stays recorded.                         *)
LEMMA OverlapStays ==
    ASSUME FlagTypes, [Next]_vars, ~overlapped'
    PROVE  ~overlapped
<1> USE DEF FlagTypes, Goto, Return, vars, callVars
<1>1. ASSUME NEW c \in Clients, StartRequest(c) PROVE ~overlapped
    BY <1>1 DEF StartRequest
<1>2. ASSUME NEW c \in Clients, StopRequest(c) PROVE ~overlapped
    BY <1>2 DEF StopRequest
<1>3. ASSUME NEW c \in Clients, SessionDown(c) PROVE ~overlapped
    BY <1>3 DEF SessionDown
<1>4. ASSUME NEW c \in Clients, CheckStarted(c) PROVE ~overlapped
    BY <1>4 DEF CheckStarted
<1>5. ASSUME NEW c \in Clients, StartWorker(c) PROVE ~overlapped
    BY <1>5 DEF StartWorker
<1>6. ASSUME NEW c \in Clients, SetDeviceParameters(c) PROVE ~overlapped
    BY <1>6 DEF SetDeviceParameters
<1>7. ASSUME NEW c \in Clients, StartDevice(c) PROVE ~overlapped
    BY <1>7 DEF StartDevice
<1>8. ASSUME NEW c \in Clients, SetStarted(c) PROVE ~overlapped
    BY <1>8 DEF SetStarted
<1>9. ASSUME NEW c \in Clients, ClearStarted(c) PROVE ~overlapped
    BY <1>9 DEF ClearStarted
<1>10. ASSUME NEW c \in Clients, CheckOther(c) PROVE ~overlapped
    BY <1>10 DEF CheckOther
<1>11. ASSUME NEW c \in Clients, StopWorker(c) PROVE ~overlapped
    BY <1>11 DEF StopWorker
<1>12. ASSUME NEW c \in Clients, NotifyStop(c) PROVE ~overlapped
    BY <1>12 DEF NotifyStop
<1>13. ASSUME NEW c \in Clients, Join(c) PROVE ~overlapped
    BY <1>13 DEF Join
<1>14. ASSUME NEW c \in Clients, FinishStop(c) PROVE ~overlapped
    BY <1>14 DEF FinishStop
<1>15. ASSUME NEW c \in Clients, StopDevice(c) PROVE ~overlapped
    BY <1>15 DEF StopDevice
<1>16. ASSUME NEW c \in Clients, PauseWorker(c) PROVE ~overlapped
    BY <1>16 DEF PauseWorker
<1>17. ASSUME NEW c \in Clients, ResumeWorker(c) PROVE ~overlapped
    BY <1>17 DEF ResumeWorker
<1>18. CASE GiveBack
    BY <1>18 DEF GiveBack
<1>19. CASE Lose
    BY <1>19 DEF Lose
<1>20. CASE Deliver
    BY <1>20 DEF Deliver
<1>21. CASE Enqueue
    BY <1>21 DEF Enqueue
<1>22. CASE NotifyFrame
    BY <1>22 DEF NotifyFrame
<1>23. CASE TakeFrame
    BY <1>23 DEF TakeFrame
<1>24. CASE AllocScaled
    BY <1>24 DEF AllocScaled
<1>25. CASE Convert
    BY <1>25 DEF Convert
<1>26. CASE DeliverVirtual
    BY <1>26 DEF DeliverVirtual
<1>27. CASE WakeSpuriously
    BY <1>27 DEF WakeSpuriously
<1>28. CASE UNCHANGED vars
    BY <1>28
<1> QED
    BY <1>1, <1>2, <1>3, <1>4, <1>5, <1>6, <1>7, <1>8, <1>9, <1>10, <1>11, <1>12, <1>13, <1>14,
       <1>15, <1>16, <1>17, <1>18, <1>19, <1>20, <1>21, <1>22, <1>23, <1>24, <1>25, <1>26, <1>27, <1>28
    DEF Next, Call, Callback, DoPreview

LEMMA InitInv == Init => IInv
<1> SUFFICES ASSUME Init PROVE IInv
    OBVIOUS
<1>1. CallTypes /\ FlagTypes /\ CallSteps
    BY DEF Init, CallTypes, FlagTypes, CallSteps, Steps
<1>2. DataTypes /\ RoomForCallback /\ PoolTypes /\ PoolBalance
    BY VirtualCameraAssumption
    DEF Init, DataTypes, RoomForCallback, PoolTypes, PoolBalance, WorkersFrame, Sizes
<1>3. QueueServed /\ WakeupPending
    BY DEF Init, QueueServed, WakeupPending
<1>4. WorkerInv
    BY DEF Init, WorkerInv, WorkerAt, OneCall, Busy, Joinable, Clients
<1>5. DownInv
    BY DEF Init, DownInv, Joinable, Clients
<1>6. SizeInv
    BY DEF Init, SizeInv, DeviceRight, NonePlays, Clients
<1>7. LossInv
    BY DEF Init, LossInv
<1> QED
    BY <1>1, <1>2, <1>3, <1>4, <1>5, <1>6, <1>7, TypeParts DEF IInv, Base, Serial

LEMMA StepInv == IInv /\ [Next]_vars => IInv'
<1> SUFFICES ASSUME IInv, [Next]_vars PROVE IInv'
    OBVIOUS
<1>1. CallTypes /\ FlagTypes /\ DataTypes /\ PoolTypes
    BY TypeParts DEF IInv, Base
<1>2. (CallTypes /\ FlagTypes /\ DataTypes /\ RoomForCallback /\ PoolTypes /\ PoolBalance)'
    BY <1>1, CallTypesStep, FlagTypesStep, DataTypesStep, PoolStep DEF IInv, Base
<1>3. TypeOK'
    BY <1>2 DEF TypeOK, CallTypes, FlagTypes, DataTypes, PoolTypes
<1>4. (CallSteps /\ QueueServed /\ WakeupPending)'
    BY <1>1, CallStep, WakeupStep DEF IInv, Base
<1>5. ASSUME ~overlapped' PROVE Serial'
    <2>1. Serial
        BY <1>1, <1>5, OverlapStays DEF IInv
    <2> QED
        BY <1>1, <1>5, <2>1, WorkerStep, DownStep, SizeStep, LossStep DEF IInv, Base, Serial
<1> QED
    BY <1>2, <1>3, <1>4, <1>5 DEF IInv, Base

(* The inductive invariant.                                                *)
THEOREM Invariance == Spec => []IInv
  BY InitInv, StepInv, PTL DEF Spec

(* Types, and scaled frames do not multiply, for every size of the pool    *)
(* and of the queue.                                                       *)
THEOREM TypeCorrect == Spec => []TypeOK
<1>1. IInv => TypeOK
    BY DEF IInv, Base
<1> QED
    BY <1>1, Invariance, PTL

(* No frame waits in pending_ without a worker, however calls overlap.     *)
THEOREM QueueHasWorker == Spec => []QueueServed
<1>1. IInv => QueueServed
    BY DEF IInv, Base
<1> QED
    BY <1>1, Invariance, PTL

(* doPreview() misses no notification of enqueue() and stop(), however     *)
(* calls overlap.                                                          *)
THEOREM NoMissedWakeup == Spec => []WakeupPending
<1>1. IInv => WakeupPending
    BY DEF IInv, Base
<1> QED
    BY <1>1, Invariance, PTL

(* A session that plays has a worker, as long as calls have not            *)
(* overlapped.                                                             *)
THEOREM WorkerForSession == Spec => []PlayingHasWorker
<1>1. IInv => PlayingHasWorker
    BY DEF IInv, Serial, WorkerInv, Alive, PlayingHasWorker
<1> QED
    BY <1>1, Invariance, PTL

(* Between calls that have not overlapped the device has the resolution    *)
(* of the session that plays.                                              *)
THEOREM SizeForSession == Spec => []RightSize
<1>1. IInv => RightSize
    BY DEF IInv, Base, Serial, SizeInv, DeviceRight, NonePlays, RightSize, Quiet, TypeOK, Clients
<1> QED
    BY <1>1, Invariance, PTL

(* After the calls of two sessions that are down, and have not overlapped, *)
(* no worker, device or queue goes on, whichever step of them failed.      *)
THEOREM NothingRuns == Spec => []DownIsStill
<1>1. IInv => DownIsStill
    <2> SUFFICES ASSUME IInv, Quiet, up = {}
                 PROVE  ~Joinable /\ device = "off" /\ pending = <<>> /\ ~stop
        BY DEF DownIsStill
    <2>1. Serial /\ QueueServed /\ \A c \in Clients : pc[c] = "rest"
        BY DEF IInv, Base, Quiet
    <2>2. ~Joinable /\ NonePlays
        BY <2>1 DEF Serial, DownInv, NonePlays, Clients
    <2>3. device = "off"
        BY <2>1, <2>2 DEF Serial, SizeInv, DeviceRight
    <2>4. pending = <<>>
        BY <2>1, <2>2 DEF QueueServed
    <2>5. ~stop
        BY <2>1 DEF Serial, WorkerInv, Stopping
    <2> QED
        BY <2>2, <2>3, <2>4, <2>5
<1> QED
    BY <1>1, Invariance, PTL

(* Frames lost by a preview session are missing only during a recording.   *)
THEOREM LossesBounded == Spec => []LossesEnd
<1>1. IInv => LossesEnd
    BY DEF IInv, Serial, LossInv, StopsWorker, LossesEnd, Quiet, Clients
<1> QED
    BY <1>1, Invariance, PTL
=============================================================================
