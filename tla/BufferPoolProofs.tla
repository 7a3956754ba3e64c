--------------------------- MODULE BufferPoolProofs ---------------------------
(***************************************************************************)
(* Theorems about BufferPool, for every finite set of headers and threads. *)
(***************************************************************************)
EXTENDS BufferPool, SequenceTheorems, FiniteSetTheorems, TLAPS

(* Pushing an element on a list without repetitions that does not hold it. *)
LEMMA PushFacts ==
    ASSUME NEW S, NEW s \in Seq(S), NEW e \in S
    PROVE  /\ Append(s, e) \in Seq(S)
           /\ Len(Append(s, e)) = Len(s) + 1
           /\ Range(Append(s, e)) = Range(s) \union {e}
           /\ IsInjective(s) /\ e \notin Range(s) => IsInjective(Append(s, e))
<1>1. /\ Append(s, e) \in Seq(S)
      /\ Len(Append(s, e)) = Len(s) + 1
      /\ \A i \in 1..Len(s) : Append(s, e)[i] = s[i]
      /\ Append(s, e)[Len(s) + 1] = e
  BY AppendProperties
<1>2. /\ Len(s) \in Nat /\ DOMAIN s = 1..Len(s)
      /\ DOMAIN Append(s, e) = 1..(Len(s) + 1)
  BY <1>1, LenProperties
<1>3. Range(Append(s, e)) = Range(s) \union {e}
  BY <1>1, <1>2 DEF Range
<1>4. ASSUME IsInjective(s), e \notin Range(s)
      PROVE  IsInjective(Append(s, e))
  BY <1>1, <1>2, <1>4 DEF Range, IsInjective
<1> QED
  BY <1>1, <1>3, <1>4

(* Popping the front of a list without repetitions.                        *)
LEMMA PopFacts ==
    ASSUME NEW S, NEW s \in Seq(S), s # <<>>
    PROVE  /\ Head(s) \in S
           /\ Tail(s) \in Seq(S)
           /\ Len(s) \in Nat /\ Len(Tail(s)) = Len(s) - 1
           /\ Range(s) = Range(Tail(s)) \union {Head(s)}
           /\ IsInjective(s) => IsInjective(Tail(s)) /\ Head(s) \notin Range(Tail(s))
<1>1. /\ Head(s) \in S /\ Tail(s) \in Seq(S)
      /\ Len(Tail(s)) = Len(s) - 1
      /\ \A i \in 1..Len(Tail(s)) : Tail(s)[i] = s[i + 1]
  BY HeadTailProperties
<1>2. /\ Len(s) \in Nat \ {0} /\ DOMAIN s = 1..Len(s) /\ Head(s) = s[1]
      /\ DOMAIN Tail(s) = 1..(Len(s) - 1)
  BY <1>1, LenProperties, EmptySeq
<1>3. Range(s) = Range(Tail(s)) \union {Head(s)}
  <2>1. ASSUME NEW i \in DOMAIN s
        PROVE  s[i] \in Range(Tail(s)) \union {Head(s)}
    <3>1. CASE i = 1
      BY <3>1, <1>2
    <3>2. CASE i # 1
      <4>1. i - 1 \in DOMAIN Tail(s) /\ Tail(s)[i - 1] = s[i]
        BY <3>2, <1>1, <1>2
      <4> QED
        BY <4>1 DEF Range
    <3> QED
      BY <3>1, <3>2
  <2>2. ASSUME NEW i \in DOMAIN Tail(s)
        PROVE  Tail(s)[i] \in Range(s)
    <3>1. i + 1 \in DOMAIN s /\ Tail(s)[i] = s[i + 1]
      BY <1>1, <1>2
    <3> QED
      BY <3>1 DEF Range
  <2>3. Head(s) \in Range(s)
    BY <1>2 DEF Range
  <2> QED
    BY <2>1, <2>2, <2>3 DEF Range
<1>4. ASSUME IsInjective(s)
      PROVE  IsInjective(Tail(s)) /\ Head(s) \notin Range(Tail(s))
  BY <1>1, <1>2, <1>4 DEF Range, IsInjective
<1> QED
  BY <1>1, <1>2, <1>3, <1>4

-----------------------------------------------------------------------------
(* While init() runs, free_ lists exactly the headers made so far and no   *)
(* thread is in the pool; a destroyed pool owns nothing.                   *)
Building ==
    /\ phase = "init" =>
         Range(free) = live /\ out = {} /\ \A t \in Threads : pc[t] = "idle"
    /\ phase = "gone" => live = {}

IInv == TypeOK /\ Conservation /\ Building

LEMMA InitIInv == Init => IInv
<1> SUFFICES ASSUME Init PROVE IInv
  OBVIOUS
<1>1. free \in Seq(Buffers) /\ Range(free) = {} /\ IsInjective(free)
  BY EmptySeq DEF Init, Range, IsInjective
<1> QED
  BY <1>1 DEF Init, IInv, TypeOK, Conservation, Building

(* The cases of allocBuf(), entered or resumed with lock_ held.            *)
LEMMA AttemptIInv ==
    ASSUME IInv, NEW t \in Threads, Attempt(t), phase \notin {"gone", "init"}
    PROVE  IInv'
<1> USE DEF IInv, TypeOK, Building
<1>1. CASE Take(t)
  <2>1. free # <<>> /\ phase = "open"
    BY <1>1 DEF Take, WaitOver, Interrupted
  <2>2. /\ Head(free) \in Buffers /\ Tail(free) \in Seq(Buffers)
        /\ Range(free) = Range(Tail(free)) \union {Head(free)}
        /\ IsInjective(Tail(free)) /\ Head(free) \notin Range(Tail(free))
    BY <2>1, PopFacts DEF Conservation
  <2>3. /\ out' = out \union {Head(free)} /\ free' = Tail(free)
        /\ pc' = [pc EXCEPT ![t] = "idle"]
        /\ UNCHANGED <<phase, ready, live>>
    BY <1>1 DEF Take, TakeFront
  <2>4. TypeOK'
    BY <2>2, <2>3
  <2>5. Conservation'
    BY <2>1, <2>2, <2>3 DEF Conservation
  <2> QED
    BY <2>1, <2>3, <2>4, <2>5
<1>2. CASE TakeNothing(t)
  BY <1>2 DEF TakeNothing, Conservation
<1>3. CASE Sleep(t)
  BY <1>3 DEF Sleep, Conservation
<1> QED
  BY <1>1, <1>2, <1>3 DEF Attempt

LEMMA ReleaseIInv ==
    ASSUME IInv, NEW t \in Threads, NEW b \in out \intersect live, ReleaseBuf(t, b)
    PROVE  IInv'
<1> USE DEF IInv, TypeOK, Building
<1>1. /\ phase \notin {"gone", "init"} /\ b \in out /\ b \in Buffers
      /\ out' = out \ {b} /\ free' = Append(free, b)
      /\ pc' = [pc EXCEPT ![t] = "notify"]
      /\ UNCHANGED <<phase, ready, live>>
  BY DEF ReleaseBuf, PcAfterPush
<1>2. b \notin Range(free)
  BY <1>1 DEF Conservation
<1>3. /\ Append(free, b) \in Seq(Buffers)
      /\ Range(Append(free, b)) = Range(free) \union {b}
      /\ IsInjective(Append(free, b))
  BY <1>2, PushFacts DEF Conservation
<1>4. TypeOK'
  BY <1>1, <1>3
<1>5. Conservation'
  BY <1>1, <1>3 DEF Conservation
<1> QED
  BY <1>1, <1>4, <1>5

LEMMA NextIInv == IInv /\ [Next]_vars => IInv'
<1> SUFFICES ASSUME IInv, [Next]_vars PROVE IInv'
  OBVIOUS
<1> USE DEF IInv, TypeOK, Building
<1>1. CASE Create
  <2>1. free' \in Seq(Buffers) /\ Range(free') = {} /\ IsInjective(free')
    BY <1>1, EmptySeq DEF Create, Range, IsInjective
  <2> QED
    BY <1>1, <2>1 DEF Create, Conservation
<1>2. CASE InitDone
  BY <1>2 DEF InitDone, Conservation
<1>3. CASE Final
  BY <1>3 DEF Final, FinalBegin, FinalNotify, FinalFree, FinalDone, Conservation
<1>4. ASSUME NEW b \in Buffers, AllocateBuffer(b)
      PROVE  IInv'
  <2>1. /\ phase = "init" /\ b \notin live
        /\ live' = live \union {b} /\ free' = Append(free, b)
        /\ UNCHANGED <<phase, ready, out, pc>>
    BY <1>4 DEF AllocateBuffer
  <2>2. /\ Append(free, b) \in Seq(Buffers)
        /\ Range(Append(free, b)) = Range(free) \union {b}
        /\ IsInjective(Append(free, b))
    BY <2>1, PushFacts DEF Conservation
  <2>3. TypeOK'
    BY <2>1, <2>2
  <2>4. Conservation' /\ Building'
    BY <2>1, <2>2 DEF Conservation
  <2> QED
    BY <2>3, <2>4
<1>5. ASSUME NEW t \in Threads, Step(t)
      PROVE  IInv'
  <2>1. CASE AllocBuf(t)
    BY <2>1, AttemptIInv DEF AllocBuf
  <2>2. CASE WakeSpuriously(t)
    BY <2>2 DEF WakeSpuriously, Conservation
  <2>3. CASE Resume(t)
    <3>1. phase # "init"
      BY <2>3 DEF Resume
    <3>2. CASE phase = "gone"
      BY <2>3, <3>2 DEF Resume, Attempt, Take, TakeNothing, Sleep, WaitOver,
                        Interrupted, Conservation
    <3>3. CASE phase # "gone"
      BY <2>3, <3>1, <3>3, AttemptIInv DEF Resume
    <3> QED
      BY <3>2, <3>3
  <2>4. CASE NotifyOne(t)
    BY <2>4 DEF NotifyOne, Asleep, Conservation
  <2>5. ASSUME NEW b \in out \intersect live, ReleaseBuf(t, b)
        PROVE  IInv'
    BY <2>5, ReleaseIInv
  <2> QED
    BY <1>5, <2>1, <2>2, <2>3, <2>4, <2>5 DEF Step
<1>6. CASE UNCHANGED vars
  BY <1>6 DEF vars, Conservation
<1> QED
  BY <1>1, <1>2, <1>3, <1>4, <1>5, <1>6 DEF Next

(* The invariant all other results rest on.                                *)
THEOREM Invariance == Spec => []IInv
BY InitIInv, NextIInv, PTL DEF Spec

(* Every variable keeps its type, and ready_ is set exactly while the pool *)
(* is open (between the end of init() and the start of final()).           *)
THEOREM TypeCorrect == Spec => []TypeOK
BY Invariance, PTL DEF IInv

(* allocBuf() and releaseBuf() lose, duplicate or share no header, for any *)
(* number of threads and headers.                                          *)
THEOREM NoneLostOrShared == Spec => []Conservation
BY Invariance, PTL DEF IInv

-----------------------------------------------------------------------------
(* Counting the threads on their way to the free list or to a sleeper.     *)
LEMMA AwakeFacts ==
    /\ IsFiniteSet(Awake) /\ Cardinality(Awake) \in Nat
    /\ \A t \in Awake : Cardinality(Awake \ {t}) = Cardinality(Awake) - 1
    /\ \A t \in Threads \ Awake : Cardinality(Awake \union {t}) = Cardinality(Awake) + 1
<1>1. IsFiniteSet(Awake)
  BY PoolAssumption, FS_Subset DEF Awake
<1> QED
  BY <1>1, FS_CardinalityType, FS_AddElement, FS_RemoveElement

(* One critical section of allocBuf() keeps NoLostWakeup: only a thread    *)
(* that finds the list empty goes to sleep.                                *)
LEMMA AttemptWakeup ==
    ASSUME IInv, NoLostWakeup, NEW t \in Threads, Attempt(t),
           pc[t] \in {"idle", "woken"}
    PROVE  NoLostWakeup'
<1> USE DEF IInv, TypeOK
<1>1. CASE Take(t)
  <2>1. /\ free # <<>> /\ free' = Tail(free)
        /\ pc' = [pc EXCEPT ![t] = "idle"] /\ ready' = ready
    BY <1>1 DEF Take, TakeFront, WaitOver, Interrupted
  <2>2. Len(free) \in Nat /\ Len(free') = Len(free) - 1
    BY <2>1, PopFacts
  <2>3. Asleep' = Asleep /\ Awake' = Awake \ {t}
    BY <2>1 DEF Asleep, Awake
  <2>4. /\ Cardinality(Awake) \in Nat
        /\ Cardinality(Awake') >= Cardinality(Awake) - 1
    <3>1. CASE t \in Awake
      BY <3>1, <2>3, AwakeFacts
    <3>2. CASE t \notin Awake
      <4>1. Awake' = Awake
        BY <3>2, <2>3
      <4> QED
        BY <4>1, AwakeFacts
    <3> QED
      BY <3>1, <3>2
  <2>5. Cardinality(Awake') \in Nat
    BY <2>3, PoolAssumption, FS_Subset, FS_CardinalityType DEF Awake
  <2> QED
    BY <2>1, <2>2, <2>3, <2>4, <2>5 DEF NoLostWakeup
<1>2. CASE TakeNothing(t)
  BY <1>2 DEF TakeNothing, Interrupted, NoLostWakeup
<1>3. CASE Sleep(t)
  <2>1. free' = <<>> /\ Len(free') = 0
    BY <1>3 DEF Sleep, WaitOver
  <2>2. IsFiniteSet(Awake')
    BY <1>3, PoolAssumption, FS_Subset DEF Awake, Sleep
  <2> QED
    BY <2>1, <2>2, FS_CardinalityType DEF NoLostWakeup
<1> QED
  BY <1>1, <1>2, <1>3 DEF Attempt

(* No step leaves more headers in the free list than threads on their way. *)
LEMMA NextWakeup == IInv /\ NoLostWakeup /\ [Next]_vars => NoLostWakeup'
<1> SUFFICES ASSUME IInv, NoLostWakeup, [Next]_vars PROVE NoLostWakeup'
  OBVIOUS
<1> USE DEF IInv, TypeOK
<1>1. CASE Create
  BY <1>1 DEF Create, NoLostWakeup
<1>2. CASE InitDone
  <2>1. Asleep' = {}
    BY <1>2 DEF InitDone, Asleep, Building
  <2> QED
    BY <2>1 DEF NoLostWakeup
<1>3. CASE Final
  BY <1>3 DEF Final, FinalBegin, FinalNotify, FinalFree, FinalDone, NoLostWakeup
<1>4. ASSUME NEW b \in Buffers, AllocateBuffer(b)
      PROVE  NoLostWakeup'
  BY <1>4 DEF AllocateBuffer, NoLostWakeup
<1>5. ASSUME NEW t \in Threads, Step(t)
      PROVE  NoLostWakeup'
  <2>1. CASE AllocBuf(t)
    BY <2>1, AttemptWakeup DEF AllocBuf
  <2>2. CASE WakeSpuriously(t)
    <3>1. /\ pc[t] = "asleep" /\ pc' = [pc EXCEPT ![t] = "woken"]
          /\ UNCHANGED <<free, ready>>
      BY <2>2 DEF WakeSpuriously
    <3>2. t \in Asleep /\ t \notin Awake /\ Awake' = Awake \union {t}
      BY <3>1 DEF Awake, Asleep
    <3>3. Cardinality(Awake') = Cardinality(Awake) + 1 /\ Cardinality(Awake) \in Nat
      BY <3>2, AwakeFacts
    <3>4. Len(free) \in Nat
      BY LenProperties
    <3> QED
      BY <3>1, <3>2, <3>3, <3>4 DEF NoLostWakeup
  <2>3. CASE Resume(t)
    BY <2>3, AttemptWakeup DEF Resume
  <2>4. CASE NotifyOne(t)
    <3>1. pc[t] = "notify" /\ UNCHANGED <<free, ready>>
      BY <2>4 DEF NotifyOne
    <3>2. CASE Asleep = {}
      <4>1. pc' = [pc EXCEPT ![t] = "idle"]
        BY <2>4, <3>2 DEF NotifyOne
      <4>2. Asleep' = {}
        BY <3>2, <4>1 DEF Asleep
      <4> QED
        BY <4>2 DEF NoLostWakeup
    <3>3. ASSUME NEW s \in Asleep, pc' = [pc EXCEPT ![t] = "idle", ![s] = "woken"]
          PROVE  NoLostWakeup'
      <4>1. t \in Awake /\ s \notin Awake /\ s \in Threads /\ s # t
        BY <3>1, <3>3 DEF Awake, Asleep
      <4>2. Awake' = (Awake \ {t}) \union {s}
        BY <4>1, <3>3 DEF Awake
      <4>3. IsFiniteSet(Awake \ {t}) /\ Cardinality(Awake \ {t}) = Cardinality(Awake) - 1
        BY <4>1, AwakeFacts, FS_RemoveElement
      <4>4. Cardinality(Awake') = Cardinality(Awake \ {t}) + 1
        BY <4>1, <4>2, <4>3, FS_AddElement
      <4>5. Cardinality(Awake') = Cardinality(Awake)
        BY <4>3, <4>4, AwakeFacts
      <4>6. Asleep # {}
        BY <3>3
      <4> QED
        BY <3>1, <3>3, <4>2, <4>5, <4>6 DEF NoLostWakeup
    <3> QED
      BY <2>4, <3>2, <3>3 DEF NotifyOne
  <2>5. ASSUME NEW b \in out \intersect live, ReleaseBuf(t, b)
        PROVE  NoLostWakeup'
    <3>1. /\ pc[t] = "idle" /\ pc' = [pc EXCEPT ![t] = "notify"]
          /\ free' = Append(free, b) /\ ready' = ready
      BY <2>5 DEF ReleaseBuf, PcAfterPush
    <3>2. t \notin Awake /\ Awake' = Awake \union {t} /\ Asleep' = Asleep
      BY <3>1 DEF Awake, Asleep
    <3>3. Cardinality(Awake') = Cardinality(Awake) + 1 /\ Cardinality(Awake) \in Nat
      BY <3>2, AwakeFacts
    <3>4. Len(free) \in Nat /\ Len(free') = Len(free) + 1
      BY <3>1, PushFacts, LenProperties
    <3> QED
      BY <3>1, <3>2, <3>3, <3>4 DEF NoLostWakeup
  <2> QED
    BY <1>5, <2>1, <2>2, <2>3, <2>4, <2>5 DEF Step
<1>6. CASE UNCHANGED vars
  BY <1>6 DEF vars, NoLostWakeup, Asleep, Awake
<1> QED
  BY <1>1, <1>2, <1>3, <1>4, <1>5, <1>6 DEF Next

(* No wakeup is lost, for any number of threads and headers: notify_one()  *)
(* after the unlock is enough, spurious wakeups and barging included.      *)
THEOREM WakeupsSuffice == Spec => []NoLostWakeup
<1>1. Init => NoLostWakeup
  BY DEF Init, NoLostWakeup
<1> QED
  BY <1>1, Invariance, NextWakeup, PTL DEF Spec

-----------------------------------------------------------------------------
(* Every step of the pool is a step of ResourcePool or leaves it alone.    *)
LEMMA StepSimulation == IInv /\ [Next]_vars => [Abstract!Next]_(Abstract!vars)
<1> SUFFICES ASSUME IInv, [Next]_vars PROVE [Abstract!Next]_(Abstract!vars)
  OBVIOUS
<1> USE DEF IInv, TypeOK, Building, Abstract!vars
<1>1. CASE Create
  BY <1>1 DEF Create, Abstract!Next, Abstract!Renew
<1>2. CASE InitDone
  BY <1>2 DEF InitDone, Abstract!Next, Abstract!Open
<1>3. CASE Final
  <2>1. CASE FinalBegin
    BY <2>1 DEF FinalBegin, Abstract!Next, Abstract!Close
  <2>2. CASE FinalNotify \/ FinalDone
    BY <2>2 DEF FinalNotify, FinalDone
  <2>3. ASSUME NEW b \in Buffers, FinalFree(b)
        PROVE  Abstract!Destroy(b)
    BY <2>3 DEF FinalFree, Abstract!Destroy
  <2> QED
    BY <1>3, <2>1, <2>2, <2>3 DEF Final, Abstract!Next
<1>4. ASSUME NEW b \in Buffers, AllocateBuffer(b)
      PROVE  Abstract!Next
  <2>1. Abstract!Make(b)
    BY <1>4 DEF AllocateBuffer, Abstract!Make
  <2> QED
    BY <2>1 DEF Abstract!Next
<1>5. ASSUME NEW t \in Threads, Step(t)
      PROVE  [Abstract!Next]_(Abstract!vars)
  <2>1. ASSUME Attempt(t)
        PROVE  [Abstract!Next]_(Abstract!vars)
    <3>1. CASE Take(t)
      <4>1. /\ free # <<>> /\ phase = "open" /\ UNCHANGED <<phase, live>>
            /\ out' = out \union {Head(free)}
        BY <3>1 DEF Take, TakeFront, WaitOver, Interrupted
      <4>2. Head(free) \in Buffers /\ Head(free) \in Range(free)
        BY <4>1, PopFacts
      <4>3. Abstract!Acquire(Head(free))
        BY <4>1, <4>2 DEF Abstract!Acquire, Conservation
      <4> QED
        BY <4>2, <4>3 DEF Abstract!Next
    <3>2. CASE TakeNothing(t) \/ Sleep(t)
      BY <3>2 DEF TakeNothing, Sleep
    <3> QED
      BY <2>1, <3>1, <3>2 DEF Attempt
  <2>2. CASE WakeSpuriously(t) \/ NotifyOne(t)
    BY <2>2 DEF WakeSpuriously, NotifyOne
  <2>3. ASSUME NEW b \in out \intersect live, ReleaseBuf(t, b)
        PROVE  Abstract!Next
    <3>1. Abstract!Release(b)
      BY <2>3 DEF ReleaseBuf, Abstract!Release
    <3> QED
      BY <3>1 DEF Abstract!Next
  <2> QED
    BY <1>5, <2>1, <2>2, <2>3 DEF Step, AllocBuf, Resume
<1>6. CASE UNCHANGED vars
  BY <1>6 DEF vars
<1> QED
  BY <1>1, <1>2, <1>3, <1>4, <1>5, <1>6 DEF Next

(* The pool implements ResourcePool: it hands a header to one holder at a  *)
(* time, only while it serves, and never one it has freed.                 *)
THEOREM Refinement == Spec => Refines
<1>1. Init => Abstract!Init
  BY DEF Init, Abstract!Init
<1> QED
  BY <1>1, Invariance, StepSimulation, PTL DEF Spec, Refines, Abstract!Spec
=============================================================================
