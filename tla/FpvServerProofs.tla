--------------------------- MODULE FpvServerProofs ---------------------------
(***************************************************************************)
(* Proofs about the RTSP server and the stream's sink, for any number of   *)
(* headers, streams, triggers and requests, and for whatever the encoder   *)
(* puts into the headers.                                                  *)
(*                                                                         *)
(* The sink's count of its data, pending_data_size_, is what isReadable()  *)
(* looks at.  That it is the size of what the headers hold is an invariant *)
(* of its own, a sum over the queue whose partial sums are a witness; it   *)
(* needs that copyOneNAL() scans no more octets than there are, which is   *)
(* shown by the least number principle.                                    *)
(*                                                                         *)
(* That data is cut at its start codes holds for data of any length: the   *)
(* scanner and the cutting are recursive functions, which are shown to     *)
(* exist from the end backwards and then followed step by step.            *)
(***************************************************************************)
EXTENDS FpvServer, WellFoundedInduction, SequenceTheorems, TLAPS

(* The rtsp thread runs only for a server that is ready; a stream of that  *)
(* server is open for a DESCRIBE or for a viewer, one at a time, while one *)
(* that an earlier server left is neither's; and a DESCRIBE's loop is not  *)
(* left by the thread's end.                                               *)
StreamOwned ==
    /\ server # "ready" => loop = "off"
    /\ loop = "off" => ~nested
    /\ Read <=> (nested \/ playing)
    /\ ~(nested /\ playing)

(* isReadable() may miss data that is being queued; but a source that was  *)
(* asked for a unit is then told of it: its trigger is set, or             *)
(* emptyBuffer() is on its way to set it, unless the thread sleeps in      *)
(* getOneNalUnit().                                                        *)
CountSignalled ==
    (source = "signals" /\ awaiting /\ loop \notin {"asleep", "woken"} /\ 0 < pendingSize)
        => (trigger \/ callback # "idle")

Inv == StreamOwned /\ CountSignalled /\ SleeperWoken

-----------------------------------------------------------------------------

LEMMA InitInv == Init => Inv
BY DEF Init, RtpInit, Inv, StreamOwned, CountSignalled, SleeperWoken, Open, Read

(* getOneNalUnit() delivers a unit, or sleeps on a sink without data.      *)
LEMMA Delivered ==
    ASSUME GetOneNalUnit
    PROVE  \/ loop' = "check" /\ ~awaiting'
           \/ /\ loop' = "asleep" /\ inUse = NoHeader /\ pending = <<>>
              /\ inUse' = inUse /\ pending' = pending
<1>1. CASE inUse # NoHeader
  BY <1>1 DEF GetOneNalUnit, Consume
<1>2. CASE inUse = NoHeader /\ pending # <<>>
  BY <1>2 DEF GetOneNalUnit, Consume
<1>3. CASE inUse = NoHeader /\ pending = <<>>
  BY <1>3 DEF GetOneNalUnit
<1> QED BY <1>1, <1>2, <1>3

(* The codec thread's part of the sink.                                    *)
LEMMA CodecInv == ASSUME Inv, Codec, ServerStill PROVE Inv'
<1> USE DEF Inv, StreamOwned, CountSignalled, SleeperWoken, Open, Read, ServerStill,
            serverVars, describeVars
<1>1. CASE NotifyOne
  BY <1>1 DEF NotifyOne, Woken, sourceVars
<1>2. CASE SignalOutput
  BY <1>2 DEF SignalOutput, Triggered
<1>3. ASSUME NEW b \in Headers, NEW d \in Contents, EmptyBuffer(b, d) PROVE Inv'
  <2>1. CASE d = <<>>
    BY <1>3, <2>1 DEF EmptyBuffer, sinkVars, sourceVars
  <2>2. CASE d # <<>>
    BY <1>3, <2>2 DEF EmptyBuffer, sourceVars
  <2> QED BY <2>1, <2>2
<1> QED BY <1>1, <1>2, <1>3 DEF Codec

(* The rtsp thread's part of the sink.                                     *)
LEMMA ReaderInv == ASSUME Inv, Reader, ServerStill PROVE Inv'
<1> USE DEF Inv, StreamOwned, CountSignalled, SleeperWoken, Open, Read, ServerStill,
            serverVars, describeVars
<1>1. CASE Ask
  <2>1. CASE IsReadable
    BY <1>1, <2>1, Delivered DEF Ask
  <2>2. CASE ~IsReadable
    BY <1>1, <2>2 DEF Ask, IsReadable
  <2> QED BY <2>1, <2>2
<1>2. CASE HandleTrigger
  <2>1. CASE awaiting
    BY <1>2, <2>1, Delivered DEF HandleTrigger
  <2>2. CASE ~awaiting
    BY <1>2, <2>2 DEF HandleTrigger
  <2> QED BY <2>1, <2>2
<1>3. CASE Awake
  BY <1>3, Delivered DEF Awake
<1> QED BY <1>1, <1>2, <1>3 DEF Reader

(* What closes the stream leaves no owner of it.                           *)
LEMMA CheckInv == ASSUME Inv, Check PROVE Inv'
<1> USE DEF Inv, StreamOwned, CountSignalled, SleeperWoken, Open, Read, Check, serverVars
<1>1. CASE nested /\ Watched /\ Described
  BY <1>1 DEF Described, CloseSource
<1>2. CASE ~Watched /\ loop' = "select" /\ UNCHANGED <<sinkVars, sourceVars, describeVars>>
  BY <1>2 DEF sinkVars, sourceVars, describeVars
<1>3. CASE ~nested /\ loop' = "off" /\ UNCHANGED <<sinkVars, sourceVars, describeVars>>
  BY <1>3 DEF sinkVars, sourceVars, describeVars
<1> QED BY <1>1, <1>2, <1>3

LEMMA NextInv == Inv /\ [Next]_vars => Inv'
<1> SUFFICES ASSUME Inv, [Next]_vars PROVE Inv'
  OBVIOUS
<1> USE DEF Inv, StreamOwned, CountSignalled, SleeperWoken, Open, Read, serverVars,
            describeVars, rtpVars, sinkVars, sourceVars
<1>1. CASE Start
  BY <1>1 DEF Start
<1>2. CASE Started
  BY <1>2 DEF Started, AddSession, Push
<1>3. CASE Stop
  BY <1>3 DEF Stop
<1>4. CASE Stopped
  BY <1>4 DEF Stopped, LeaveSource
<1>5. CASE DoRTSP
  BY <1>5 DEF DoRTSP
<1>6. CASE Check
  BY <1>6, CheckInv
<1>7. CASE Tick
  BY <1>7 DEF Tick
<1>8. CASE DoSession
  BY <1>8 DEF DoSession
<1>9. CASE CheckSDP
  BY <1>9 DEF CheckSDP, Found
<1>10. CASE Describe
  BY <1>10 DEF Describe, CreateNewStreamSource, OpenSource
<1>11. CASE Play
  BY <1>11 DEF Play, CreateNewStreamSource, OpenSource
<1>12. CASE Teardown
  BY <1>12 DEF Teardown, CloseSource
<1>13. CASE RtpStep
  BY <1>13, CodecInv, ReaderInv DEF RtpStep
<1>14. CASE UNCHANGED vars
  BY <1>14 DEF vars
<1> QED
  BY <1>1, <1>2, <1>3, <1>4, <1>5, <1>6, <1>7, <1>8, <1>9, <1>10, <1>11, <1>12,
     <1>13, <1>14 DEF Next

(* The server's inductive invariant.                                       *)
THEOREM Invariance == Spec => []Inv
BY InitInv, NextInv, PTL DEF Spec

(* The rtsp thread never sleeps in getOneNalUnit() on a sink that has a    *)
(* header in use, or one queued that nobody is about to announce: a        *)
(* notification that follows the unlock is not lost, nor one that comes    *)
(* while the thread is elsewhere.                                          *)
THEOREM SleeperIsWoken == Spec => []SleeperWoken
<1>1. Inv => SleeperWoken
  BY DEF Inv
<1> QED BY <1>1, Invariance, PTL

(* No unit is forgotten between isReadable(), which looks without the      *)
(* lock, and the trigger.                                                  *)
THEOREM CountIsSignalled == Spec => []CountSignalled
<1>1. Inv => CountSignalled
  BY DEF Inv
<1> QED BY <1>1, Invariance, PTL

(* A server's stream is open exactly while a DESCRIBE or a viewer has it,  *)
(* never both, also after earlier servers were stopped under a viewer and  *)
(* left theirs; and the rtsp thread does not end inside a DESCRIBE.        *)
THEOREM StreamIsOwned == Spec => []StreamOwned
<1>1. Inv => StreamOwned
  BY DEF Inv
<1> QED BY <1>1, Invariance, PTL

-----------------------------------------------------------------------------
(* the scan *)

(* A set of numbers that is not empty has a least one.                     *)
LEMMA Least ==
    ASSUME NEW T \in SUBSET Nat, T # {}
    PROVE  \E m \in T : \A k \in T : m <= k
<1>1. PICK m \in T : \A k \in T : <<k, m>> \notin OpToRel(<, Nat)
  BY NatLessThanWellFounded, WFMin
<1>2. ASSUME NEW k \in T PROVE m <= k
  <2>1. SUFFICES ASSUME k < m PROVE FALSE
    OBVIOUS
  <2>2. <<k, m>> \in OpToRel(<, Nat)
    BY <2>1 DEF OpToRel
  <2> QED
    BY <1>1, <2>2
<1> QED
  BY <1>2

(* The scan does not leave the data.                                       *)
LEMMA StrideBounds ==
    ASSUME NEW d \in Seq(0..2), NEW j \in 0..Len(d), j # Len(d)
    PROVE  j + Stride(d, j) \in (j + 1)..Len(d)
BY DEF Stride

(* A recursive function on lo..hi with values in W, which is base at the   *)
(* positions Ends and otherwise made by step of its own value at the next  *)
(* one, further on; and what f has to meet to be it.                       *)
Onward(lo, hi, Ends, next) == \A j \in lo..hi : j \notin Ends => next[j] \in (j + 1)..hi
Follows(f, lo, hi, Ends, next, base, step) ==
    \A j \in lo..hi : f[j] = IF j \in Ends THEN base[j] ELSE step[j][f[next[j]]]

(* Such a function exists: it can be defined from the end backwards.       *)
LEMMA BackwardsDefined ==
    ASSUME NEW lo \in Nat, NEW hi \in Nat, lo <= hi,
           NEW Ends \in SUBSET (lo..hi), hi \in Ends,
           NEW next \in [lo..hi -> Nat], Onward(lo, hi, Ends, next),
           NEW W, NEW base \in [lo..hi -> W], NEW step \in [lo..hi -> [W -> W]]
    PROVE  \E f \in [lo..hi -> W] : Follows(f, lo, hi, Ends, next, base, step)
<1> USE DEF Onward, Follows
<1> DEFINE Upto(k) == (hi - k)..hi
           Made(f, j) == IF j \in Ends THEN base[j] ELSE step[j][f[next[j]]]
           Met(f, k) == \A j \in Upto(k) : f[j] = Made(f, j) /\ f[j] \in W
           T == {k \in 0..(hi - lo) : ~\E f : Met(f, k)}
<1>1. T = {}
  <2>1. SUFFICES ASSUME T # {} PROVE FALSE
    OBVIOUS
  <2>2. PICK m \in T : \A k \in T : m <= k
    <3>1. T \in SUBSET Nat
      OBVIOUS
    <3> HIDE DEF T
    <3> QED
      BY <2>1, <3>1, Least
  <2>3. m \in 0..(hi - lo) /\ ~\E f : Met(f, m)
    OBVIOUS
  <2>4. CASE m = 0
    <3>1. Upto(0) = {hi} /\ base[hi] \in W
      OBVIOUS
    <3>2. Met([j \in {hi} |-> base[hi]], 0)
      BY <3>1
    <3> QED
      BY <2>3, <2>4, <3>2
  <2>5. CASE m # 0
    <3>1. m - 1 \in 0..(hi - lo) /\ m - 1 \notin T
      <4>1. m \in Nat /\ m - 1 \in Nat /\ m - 1 \in 0..(hi - lo) /\ ~(m <= m - 1)
        BY <2>3, <2>5
      <4> HIDE DEF T
      <4> QED
        BY <2>2, <4>1
    <3>2. PICK f : Met(f, m - 1)
      BY <3>1
    <3> DEFINE here == hi - m
               g == [j \in Upto(m) |-> IF j # here THEN f[j] ELSE Made(f, here)]
    <3>3. here \in lo..hi /\ (here \notin Ends => next[here] \in Upto(m - 1))
      BY <2>3, <2>5
    <3>4. ASSUME NEW j \in Upto(m), j # here
          PROVE  j \in Upto(m - 1)
      <4>1. m \in Int
        BY <2>3
      <4> HIDE DEF T
      <4> QED
        BY <3>4, <4>1
    <3>5. ASSUME NEW j \in Upto(m - 1)
          PROVE  /\ j \in Upto(m) /\ j # here /\ j \in lo..hi
                 /\ j \notin Ends => next[j] \in Upto(m - 1)
      <4>1. j \in Upto(m) /\ j # here /\ j \in lo..hi
        BY <2>3, <2>5
      <4>2. j \notin Ends => next[j] \in (j + 1)..hi
        BY <4>1
      <4> QED
        BY <2>3, <2>5, <4>1, <4>2
    <3>6. \A j \in Upto(m - 1) : g[j] = f[j]
      BY <3>5
    <3>7. Made(f, here) \in W
      <4>1. base[here] \in W /\ step[here] \in [W -> W]
        BY <3>3
      <4>2. here \notin Ends => f[next[here]] \in W
        BY <3>2, <3>3
      <4> QED
        BY <4>1, <4>2
    <3>8. here \in Upto(m) /\ g[here] = Made(f, here)
      BY <2>3
    <3>9. ASSUME NEW j \in Upto(m)
          PROVE  g[j] = Made(g, j) /\ g[j] \in W
      <4> HIDE DEF Upto
      <4>1. CASE j = here
        <5>1. here \notin Ends => g[next[here]] = f[next[here]]
          BY <3>3, <3>6
        <5> HIDE DEF g, here
        <5> QED
          BY <3>7, <3>8, <4>1, <5>1
      <4>2. CASE j \in Upto(m - 1)
        <5>1. f[j] = Made(f, j) /\ f[j] \in W
          BY <3>2, <4>2
        <5>2. g[j] = f[j] /\ (j \notin Ends => g[next[j]] = f[next[j]])
          BY <3>5, <3>6, <4>2, Zenon
        <5> HIDE DEF g
        <5> QED
          BY <5>1, <5>2
      <4> QED
        BY <3>4, <4>1, <4>2
    <3> HIDE DEF g
    <3> QED
      BY <2>3, <3>9
  <2> QED
    BY <2>4, <2>5
<1>2. hi - lo \in 0..(hi - lo) /\ lo = hi - (hi - lo)
  OBVIOUS
<1>3. PICK f : Met(f, hi - lo)
  <2> HIDE DEF Met
  <2> QED
    BY <1>1, <1>2
<1> DEFINE g == [j \in lo..hi |-> f[j]]
<1>4. \A j \in lo..hi : f[j] = Made(f, j) /\ f[j] \in W
  BY <1>2, <1>3
<1>5. g \in [lo..hi -> W]
  BY <1>4
<1>6. ASSUME NEW j \in lo..hi PROVE g[j] = Made(g, j)
  <2>1. j \notin Ends => next[j] \in lo..hi
    OBVIOUS
  <2>2. g[j] = f[j] /\ (j \notin Ends => g[next[j]] = f[next[j]])
    BY <2>1
  <2> HIDE DEF g
  <2> QED
    BY <1>4, <2>2
<1> HIDE DEF g
<1> QED
  BY <1>5, <1>6

(* The octets of a start code.                                             *)
Long(d, j) == d[j + 1] = 0 /\ d[j + 2] = 0 /\ d[j + 3] = 0 /\ d[j + 4] = 1
Short(d, j) == d[j + 1] = 0 /\ d[j + 2] = 0 /\ d[j + 3] = 1

LEMMA PrefixOctets ==
    ASSUME NEW d \in Seq(0..2), NEW j \in 0..(Len(d) - 4)
    PROVE  /\ PrefixSize(d, j) = 4 <=> Long(d, j)
           /\ PrefixSize(d, j) = 3 <=> Short(d, j)
           /\ PrefixSize(d, j) \in {0, 3, 4}
<1> DEFINE four == SubSeq(d, j + 1, j + 4)
           three == SubSeq(d, j + 1, j + 3)
<1>1. /\ four \in Seq(0..2) /\ Len(four) = 4
      /\ four[1] = d[j + 1] /\ four[2] = d[j + 2] /\ four[3] = d[j + 3] /\ four[4] = d[j + 4]
  OBVIOUS
<1>2. /\ three \in Seq(0..2) /\ Len(three) = 3
      /\ three[1] = d[j + 1] /\ three[2] = d[j + 2] /\ three[3] = d[j + 3]
  OBVIOUS
<1>3. PrefixSize(d, j) = CASE four = <<0, 0, 0, 1>> -> 4
                           [] three = <<0, 0, 1>>   -> 3
                           [] OTHER                 -> 0
  BY DEF PrefixSize
<1> HIDE DEF four, three
<1>4. four = <<0, 0, 0, 1>> <=> Long(d, j)
  <2>1. four = <<0, 0, 0, 1>> => Long(d, j)
    BY <1>1 DEF Long
  <2>2. ASSUME Long(d, j) PROVE four = <<0, 0, 0, 1>>
    BY <1>1, <2>2, SeqEqual DEF Long
  <2> QED
    BY <2>1, <2>2
<1>5. three = <<0, 0, 1>> <=> Short(d, j)
  <2>1. three = <<0, 0, 1>> => Short(d, j)
    BY <1>2 DEF Short
  <2>2. ASSUME Short(d, j) PROVE three = <<0, 0, 1>>
    BY <1>2, <2>2, SeqEqual DEF Short
  <2> QED
    BY <2>1, <2>2
<1>6. ~(Long(d, j) /\ Short(d, j))
  BY DEF Long, Short
<1> QED
  BY <1>3, <1>4, <1>5, <1>6

LEMMA Codes ==
    ASSUME NEW d \in Seq(0..2), NEW j \in Int
    PROVE  /\ j \in LongCodes(d) <=> j \in 0..(Len(d) - 4) /\ Long(d, j)
           /\ j \in ShortCodes(d) <=> j \in 0..(Len(d) - 4) /\ Short(d, j)
BY PrefixOctets DEF LongCodes, ShortCodes

(* The positions at which a unit ends: with the data, or before a start    *)
(* code with an octet behind it.                                           *)
Stops(d, j) == j = Len(d) \/ (Len(d) - j >= 4 /\ PrefixSize(d, j) > 0)

(* No start code of four octets begins in the octets from a to b.          *)
NoneIn(d, a, b) == \A i \in a..(b - 1) : i \notin LongCodes(d)

(* The scan goes over no start code of four octets, though it looks at     *)
(* every fourth octet only.                                                *)
LEMMA StrideSkipsNone ==
    ASSUME NEW d \in Seq(0..2), NEW j \in 0..Len(d), ~Stops(d, j)
    PROVE  NoneIn(d, j, j + Stride(d, j))
<1>1. Len(d) \in Nat /\ j # Len(d)
  BY DEF Stops
<1>2. Stride(d, j) \in Int
  BY DEF Stride
<1> SUFFICES ASSUME NEW i \in LongCodes(d), i \in j..(j + Stride(d, j) - 1) PROVE FALSE
  BY <1>2 DEF NoneIn
<1>3. CASE Len(d) - j < 4
  <2>1. i \in Int /\ i \notin 0..(Len(d) - 4)
    BY <1>1, <1>3 DEF Stride
  <2> QED
    BY <2>1, Codes
<1>4. CASE Len(d) - j >= 4
  <2>1. j \in 0..(Len(d) - 4) /\ ~Long(d, j)
    BY <1>1, <1>4, PrefixOctets DEF Stops
  <2>2. CASE i = j
    BY <2>1, <2>2, Codes
  <2>3. CASE i # j
    <3>1. d[j + 4] # 0 /\ i \in {j + 1, j + 2, j + 3}
      BY <1>1, <1>4, <2>3 DEF Stride
    <3>2. ~Long(d, i)
      <4>1. CASE i = j + 1
        BY <3>1, <4>1 DEF Long
      <4>2. CASE i = j + 2
        BY <3>1, <4>2 DEF Long
      <4>3. CASE i = j + 3
        BY <3>1, <4>3 DEF Long
      <4> QED
        BY <3>1, <4>1, <4>2, <4>3
    <3> QED
      BY <3>1, <3>2, Codes
  <2> QED
    BY <2>2, <2>3
<1> QED
  BY <1>1, <1>3, <1>4

(* UnitEnd() is defined: it is a value of a function that meets its        *)
(* recursion.                                                              *)
LEMMA UnitEndRecursion ==
    ASSUME NEW d \in Seq(0..2), NEW s \in 0..Len(d)
    PROVE  \E end : /\ UnitEnd(d, s) = end[s]
                    /\ \A j \in s..Len(d) :
                          end[j] = IF Stops(d, j) THEN j ELSE end[j + Stride(d, j)]
<1> DEFINE Body(f) == [j \in s..Len(d) |-> IF Stops(d, j) THEN j ELSE f[j + Stride(d, j)]]
           end == CHOOSE f : f = Body(f)
<1>1. Len(d) \in Nat /\ s \in Nat /\ s <= Len(d)
  OBVIOUS
<1>2. ASSUME NEW j \in s..Len(d), ~Stops(d, j)
      PROVE  j + Stride(d, j) \in (j + 1)..Len(d)
  <2>1. j \in 0..Len(d) /\ j # Len(d)
    BY <1>1, <1>2 DEF Stops
  <2> QED
    BY <2>1, StrideBounds
<1>3. \E f : f = Body(f)
  <2> DEFINE ends == {j \in s..Len(d) : Stops(d, j)}
             next == [j \in s..Len(d) |-> IF Stops(d, j) THEN 0 ELSE j + Stride(d, j)]
             base == [j \in s..Len(d) |-> j]
             step == [j \in s..Len(d) |-> [k \in Nat |-> k]]
  <2>1. ends \in SUBSET (s..Len(d))
    OBVIOUS
  <2>2. Len(d) \in ends
    BY <1>1 DEF Stops
  <2>3. next \in [s..Len(d) -> Nat]
    <3>1. ASSUME NEW j \in s..Len(d) PROVE next[j] \in Nat
      BY <1>1, <1>2
    <3> QED
      BY <3>1
  <2>4. Onward(s, Len(d), ends, next)
    BY <1>2 DEF Onward
  <2>5. base \in [s..Len(d) -> Nat] /\ step \in [s..Len(d) -> [Nat -> Nat]]
    BY <1>1
  <2> HIDE DEF next, ends, base, step
  <2>6. PICK f \in [s..Len(d) -> Nat] : Follows(f, s, Len(d), ends, next, base, step)
    BY <1>1, <2>1, <2>2, <2>3, <2>4, <2>5, BackwardsDefined
  <2>7. ASSUME NEW j \in s..Len(d)
        PROVE  f[j] = IF Stops(d, j) THEN j ELSE f[j + Stride(d, j)]
    <3>1. f[j] = IF j \in ends THEN base[j] ELSE step[j][f[next[j]]]
      BY <2>6 DEF Follows
    <3>2. CASE Stops(d, j)
      BY <3>1, <3>2 DEF ends, base
    <3>3. CASE ~Stops(d, j)
      <4>1. next[j] = j + Stride(d, j) /\ next[j] \in s..Len(d)
        BY <1>1, <1>2, <3>3 DEF next
      <4>2. f[next[j]] \in Nat
        BY <4>1
      <4>3. step[j][f[next[j]]] = f[next[j]]
        BY <4>2 DEF step
      <4> QED
        BY <3>1, <3>3, <4>1, <4>3 DEF ends
    <3> QED
      BY <3>2, <3>3
  <2>8. f = Body(f)
    BY <2>7
  <2> QED
    BY <2>8
<1>4. end = Body(end)
  <2> HIDE DEF Body
  <2> QED
    BY <1>3
<1>5. UnitEnd(d, s) = end[s]
  BY DEF UnitEnd, Stops
<1> HIDE DEF end
<1>6. ASSUME NEW j \in s..Len(d)
      PROVE  end[j] = IF Stops(d, j) THEN j ELSE end[j + Stride(d, j)]
  BY <1>4
<1> QED
  BY <1>5, <1>6

(* A unit ends where it may, and no start code of four octets is in it.    *)
LEMMA UnitEndStops ==
    ASSUME NEW d \in Seq(0..2), NEW s \in 0..Len(d)
    PROVE  /\ UnitEnd(d, s) \in s..Len(d)
           /\ Stops(d, UnitEnd(d, s))
           /\ NoneIn(d, s, UnitEnd(d, s))
<1>1. PICK end : /\ UnitEnd(d, s) = end[s]
                 /\ \A j \in s..Len(d) :
                       end[j] = IF Stops(d, j) THEN j ELSE end[j + Stride(d, j)]
  BY UnitEndRecursion
<1> DEFINE n == Len(d)
           Good(j, e) == e \in j..n /\ Stops(d, e) /\ NoneIn(d, j, e)
           T == {k \in 0..(n - s) : ~Good(n - k, end[n - k])}
<1>2. n \in Nat /\ s \in Nat /\ s <= n
  OBVIOUS
<1>3. T = {}
  <2>1. SUFFICES ASSUME T # {} PROVE FALSE
    OBVIOUS
  <2>2. PICK m \in T : \A k \in T : m <= k
    <3>1. T \in SUBSET Nat
      OBVIOUS
    <3> HIDE DEF T
    <3> QED
      BY <2>1, <3>1, Least
  <2> DEFINE j == n - m
             i == j + Stride(d, j)
             e == end[i]
  <2> HIDE DEF n, Good
  <2>3. m \in 0..(n - s) /\ ~Good(j, end[j])
    OBVIOUS
  <2>4. j \in s..n /\ j \in 0..n
    BY <1>2, <2>3
  <2>5. CASE Stops(d, j)
    <3>1. end[j] = j
      BY <1>1, <2>4, <2>5 DEF n
    <3>2. Good(j, j)
      BY <1>2, <2>4, <2>5 DEF Good, NoneIn
    <3> QED
      BY <2>3, <3>1, <3>2
  <2>6. CASE ~Stops(d, j)
    <3>1. end[j] = e
      BY <1>1, <2>4, <2>6 DEF n
    <3>2. i \in (j + 1)..n
      <4>1. j # n
        BY <2>6 DEF Stops, n
      <4> QED
        BY <2>4, <4>1, StrideBounds DEF n
    <3>3. Good(i, e)
      <4>1. n - i \in 0..(n - s) /\ ~(m <= n - i) /\ n - (n - i) = i
        <5> HIDE DEF i
        <5> QED
          BY <1>2, <2>3, <2>4, <3>2
      <4>2. n - i \notin T
        <5> HIDE DEF T, i
        <5> QED
          BY <2>2, <4>1
      <4> HIDE DEF i, j
      <4> QED
        BY <4>1, <4>2
    <3>4. NoneIn(d, j, i)
      <4>1. j \in 0..Len(d)
        BY <2>4 DEF n
      <4> HIDE DEF j, T
      <4> QED
        BY <2>6, <4>1, StrideSkipsNone
    <3> HIDE DEF i, j, e, T
    <3>5. Good(j, e)
      <4>1. e \in j..n /\ Stops(d, e)
        BY <1>2, <2>4, <3>2, <3>3 DEF Good
      <4>2. NoneIn(d, j, e)
        BY <1>2, <2>4, <3>2, <3>3, <3>4, <4>1 DEF Good, NoneIn
      <4> QED
        BY <4>1, <4>2 DEF Good
    <3> QED
      BY <2>3, <3>1, <3>5
  <2> QED
    BY <2>5, <2>6
<1>4. n - s \in 0..(n - s) /\ n - (n - s) = s
  BY <1>2
<1>5. Good(s, end[s])
  <2> HIDE DEF Good, n
  <2> QED
    BY <1>3, <1>4
<1> QED
  BY <1>1, <1>5

(* copyOneNAL() scans no more than there is, and something if there is     *)
(* anything: getOneNalUnit() always gets on.                               *)
LEMMA ScanBounds ==
    ASSUME NEW d \in Seq(0..2)
    PROVE  /\ CopyOneNAL(d).scanned \in 0..Len(d)
           /\ d # <<>> => CopyOneNAL(d).scanned > 0
           /\ CopyOneNAL(d).begin \in 0..Len(d)
<1> DEFINE codes == {j \in 0..(Len(d) - 4) : PrefixSize(d, j) > 0}
           first == Min(codes)
           begin == first + PrefixSize(d, first)
<1>1. Len(d) \in Nat
  OBVIOUS
<1>2. CASE Len(d) < 4 \/ codes = {}
  <2>1. CopyOneNAL(d).scanned = Len(d) /\ CopyOneNAL(d).begin = Len(d)
    BY <1>2 DEF CopyOneNAL
  <2> QED
    BY <2>1
<1>3. CASE ~(Len(d) < 4 \/ codes = {})
  <2>1. first \in codes
    <3>1. codes \in SUBSET Nat /\ codes # {}
      BY <1>3
    <3> HIDE DEF codes
    <3>2. PICK m \in codes : \A k \in codes : m <= k
      BY <3>1, Least
    <3> QED
      BY <3>2 DEF Min
  <2>2. first \in 0..(Len(d) - 4) /\ PrefixSize(d, first) > 0
    <3> HIDE DEF first
    <3> QED
      BY <2>1
  <2>3. PrefixSize(d, first) \in {3, 4}
    BY <2>2, PrefixOctets
  <2>4. begin \in 1..Len(d)
    <3> HIDE DEF first
    <3> QED
      BY <1>1, <2>2, <2>3
  <2>5. CopyOneNAL(d).scanned = UnitEnd(d, begin) /\ CopyOneNAL(d).begin = begin
    BY <1>3 DEF CopyOneNAL
  <2> HIDE DEF begin
  <2>6. UnitEnd(d, begin) \in begin..Len(d)
    BY <2>4, UnitEndStops
  <2> QED
    BY <1>1, <2>4, <2>5, <2>6
<1> QED
  BY <1>2, <1>3

-----------------------------------------------------------------------------
(* the units of a buffer *)

Coded(d) == LongCodes(d) \union ShortCodes(d)

LEMMA CodedSize ==
    ASSUME NEW d \in Seq(0..2), NEW j \in Int
    PROVE  /\ j \in Coded(d) <=> j \in 0..(Len(d) - 4) /\ PrefixSize(d, j) > 0
           /\ j \in LongCodes(d) => PrefixSize(d, j) = 4
           /\ j \in ShortCodes(d) => PrefixSize(d, j) = 3
<1>1. ASSUME j \in 0..(Len(d) - 4) PROVE PrefixSize(d, j) \in {0, 3, 4}
  BY <1>1, PrefixOctets
<1> QED
  BY <1>1 DEF Coded, LongCodes, ShortCodes

(* Start codes do not overlap, but for one of three octets that ends one   *)
(* of four.                                                                *)
LEMMA CodesApart ==
    ASSUME NEW d \in Seq(0..2), NEW f \in Coded(d), NEW i \in LongCodes(d), i > f
    PROVE  i >= f + PrefixSize(d, f)
<1>1. Len(d) \in Nat /\ f \in Int /\ i \in Int
  BY DEF Coded, LongCodes, ShortCodes
<1>2. Long(d, i)
  BY <1>1, Codes
<1>3. CASE f \in LongCodes(d)
  <2>1. Long(d, f) /\ PrefixSize(d, f) = 4
    BY <1>1, <1>3, Codes, CodedSize
  <2>2. i # f + 1 /\ i # f + 2 /\ i # f + 3
    BY <1>1, <1>2, <2>1 DEF Long
  <2> QED
    BY <1>1, <2>1, <2>2
<1>4. CASE f \in ShortCodes(d)
  <2>1. Short(d, f) /\ PrefixSize(d, f) = 3
    BY <1>1, <1>4, Codes, CodedSize
  <2>2. i # f + 1 /\ i # f + 2
    BY <1>1, <1>2, <2>1 DEF Long, Short
  <2> QED
    BY <1>1, <2>1, <2>2
<1> QED
  BY <1>3, <1>4 DEF Coded

(* copyOneNAL() stops at the first start code, and again where the unit    *)
(* may end.                                                                *)
FirstUnit(d, p, begin, end) ==
    \E f \in Coded(d) :
        /\ p <= f /\ \A i \in Coded(d) : p <= i => f <= i
        /\ begin = f + PrefixSize(d, f)
        /\ end \in begin..Len(d) /\ Stops(d, end) /\ NoneIn(d, begin, end)

LEMMA ScanFirst ==
    ASSUME NEW t \in Seq(0..2), Coded(t) # {}
    PROVE  FirstUnit(t, 0, CopyOneNAL(t).begin, CopyOneNAL(t).scanned)
<1> DEFINE codes == {j \in 0..(Len(t) - 4) : PrefixSize(t, j) > 0}
           first == Min(codes)
           begin == first + PrefixSize(t, first)
<1>1. Len(t) \in Nat
  OBVIOUS
<1>2. codes = Coded(t)
  <2>1. Coded(t) \in SUBSET Int
    BY DEF Coded, LongCodes, ShortCodes
  <2> QED
    BY <2>1, CodedSize
<1>3. first \in codes /\ \A i \in codes : first <= i
  <2>1. codes \in SUBSET Nat /\ codes # {}
    BY <1>2
  <2> HIDE DEF codes
  <2>2. PICK m \in codes : \A k \in codes : m <= k
    BY <2>1, Least
  <2>3. \A k \in codes : k \in Nat
    BY <2>1
  <2> QED
    BY <2>2, <2>3 DEF Min
<1>4. ~(Len(t) < 4 \/ codes = {})
  BY <1>1, <1>3
<1>5. CopyOneNAL(t).scanned = UnitEnd(t, begin) /\ CopyOneNAL(t).begin = begin
  BY <1>4 DEF CopyOneNAL
<1>6. first \in 0..(Len(t) - 4) /\ first \in Coded(t) /\ PrefixSize(t, first) \in {3, 4}
  <2>1. first \in 0..(Len(t) - 4) /\ PrefixSize(t, first) > 0 /\ first \in Coded(t)
    <3> HIDE DEF first
    <3> QED
      BY <1>2, <1>3
  <2> HIDE DEF first
  <2> QED
    BY <2>1, PrefixOctets
<1> HIDE DEF first, codes
<1>7. begin \in 0..Len(t) /\ begin \in Nat
  BY <1>1, <1>6
<1>8. \A i \in Coded(t) : 0 <= i => first <= i
  BY <1>2, <1>3
<1> HIDE DEF begin
<1>9. /\ UnitEnd(t, begin) \in begin..Len(t) /\ Stops(t, UnitEnd(t, begin))
      /\ NoneIn(t, begin, UnitEnd(t, begin))
  BY <1>7, UnitEndStops
<1>10. FirstUnit(t, 0, begin, UnitEnd(t, begin))
  BY <1>6, <1>8, <1>9 DEF FirstUnit, begin
<1> QED
  BY <1>5, <1>10

(* What is left of the data has its start codes.                           *)
Rest(d, p, t) ==
    /\ t \in Seq(0..2) /\ Len(t) = Len(d) - p
    /\ \A j \in Int : j \in Coded(t) <=> j >= 0 /\ p + j \in Coded(d)
    /\ \A j \in Int : j \in LongCodes(t) <=> j >= 0 /\ p + j \in LongCodes(d)
    /\ \A j \in 0..(Len(t) - 4) : PrefixSize(t, j) = PrefixSize(d, p + j)

LEMMA Shifted ==
    ASSUME NEW d \in Seq(0..2), NEW p \in 0..Len(d)
    PROVE  Rest(d, p, SubSeq(d, p + 1, Len(d)))
<1> DEFINE t == SubSeq(d, p + 1, Len(d))
<1>1. t \in Seq(0..2) /\ Len(t) = Len(d) - p /\ Len(d) \in Nat
  OBVIOUS
<1>2. \A i \in 1..Len(t) : t[i] = d[p + i]
  OBVIOUS
<1> HIDE DEF t
<1>3. ASSUME NEW j \in Int, j >= 0
      PROVE  /\ j \in LongCodes(t) <=> p + j \in LongCodes(d)
             /\ j \in ShortCodes(t) <=> p + j \in ShortCodes(d)
  <2>1. p + j \in Int /\ (j \in 0..(Len(t) - 4) <=> p + j \in 0..(Len(d) - 4))
    BY <1>1, <1>3
  <2>2. ASSUME j \in 0..(Len(t) - 4)
        PROVE  (Long(t, j) <=> Long(d, p + j)) /\ (Short(t, j) <=> Short(d, p + j))
    <3>1. /\ t[j + 1] = d[p + j + 1] /\ t[j + 2] = d[p + j + 2]
          /\ t[j + 3] = d[p + j + 3] /\ t[j + 4] = d[p + j + 4]
      <4> HIDE DEF PrefixSize
      <4>1. j + 1 \in 1..Len(t) /\ j + 2 \in 1..Len(t) /\ j + 3 \in 1..Len(t) /\ j + 4 \in 1..Len(t)
        BY <1>1, <2>2
      <4>2. /\ t[j + 1] = d[p + (j + 1)] /\ t[j + 2] = d[p + (j + 2)]
            /\ t[j + 3] = d[p + (j + 3)] /\ t[j + 4] = d[p + (j + 4)]
        BY <1>2, <4>1
      <4>3. /\ p + (j + 1) = p + j + 1 /\ p + (j + 2) = p + j + 2
            /\ p + (j + 3) = p + j + 3 /\ p + (j + 4) = p + j + 4
        BY <1>3
      <4> QED
        BY <4>2, <4>3
    <3> QED
      BY <3>1 DEF Long, Short
  <2> QED
    BY <1>1, <2>1, <2>2, Codes
<1>4. \A j \in LongCodes(t) \union ShortCodes(t) : j \in Int /\ j >= 0
  BY DEF LongCodes, ShortCodes
<1>5. ASSUME NEW j \in 0..(Len(t) - 4) PROVE PrefixSize(t, j) = PrefixSize(d, p + j)
  <2>1. p + j \in 0..(Len(d) - 4)
    BY <1>1
  <2>2. /\ PrefixSize(t, j) \in {0, 3, 4} /\ PrefixSize(d, p + j) \in {0, 3, 4}
    BY <1>1, <2>1, PrefixOctets
  <2>3. /\ PrefixSize(t, j) = 4 <=> j \in LongCodes(t)
        /\ PrefixSize(t, j) = 3 <=> j \in ShortCodes(t)
        /\ PrefixSize(d, p + j) = 4 <=> p + j \in LongCodes(d)
        /\ PrefixSize(d, p + j) = 3 <=> p + j \in ShortCodes(d)
    BY <2>1 DEF LongCodes, ShortCodes
  <2>4. j \in Int /\ j >= 0
    BY <1>1
  <2>5. /\ j \in LongCodes(t) <=> p + j \in LongCodes(d)
        /\ j \in ShortCodes(t) <=> p + j \in ShortCodes(d)
    BY <1>3, <2>4
  <2> QED
    BY <2>2, <2>3, <2>5
<1>6. Rest(d, p, t)
  BY <1>1, <1>3, <1>4, <1>5 DEF Rest, Coded
<1> QED
  BY <1>6 DEF t

(* The first unit of what is left of d from p on.                          *)
UnitAt(d, p) == CopyOneNAL(SubSeq(d, p + 1, Len(d)))

LEMMA UnitFrom ==
    ASSUME NEW d \in Seq(0..2), NEW p \in 0..Len(d), \E c \in Coded(d) : p <= c
    PROVE  FirstUnit(d, p, p + UnitAt(d, p).begin, p + UnitAt(d, p).scanned)
<1> DEFINE t == SubSeq(d, p + 1, Len(d))
           b == UnitAt(d, p).begin
           e == UnitAt(d, p).scanned
<1>0. t = SubSeq(d, p + 1, Len(d)) /\ UnitAt(d, p) = CopyOneNAL(t)
  BY DEF UnitAt
<1> HIDE DEF t
<1>1. /\ t \in Seq(0..2) /\ Len(t) = Len(d) - p /\ Len(t) \in Nat /\ Len(d) \in Nat
      /\ \A j \in Int : j \in Coded(t) <=> j >= 0 /\ p + j \in Coded(d)
      /\ \A j \in Int : j \in LongCodes(t) <=> j >= 0 /\ p + j \in LongCodes(d)
      /\ \A j \in 0..(Len(t) - 4) : PrefixSize(t, j) = PrefixSize(d, p + j)
  <2>1. Rest(d, p, t) /\ Len(d) \in Nat /\ Len(t) \in Nat
    BY <1>0, Shifted
  <2> QED
    BY <2>1 DEF Rest
<1>2. Coded(t) \in SUBSET (0..(Len(t) - 4)) /\ Coded(d) \in SUBSET (0..(Len(d) - 4))
  BY DEF Coded, LongCodes, ShortCodes
<1>3. Coded(t) # {}
  <2>1. PICK c \in Coded(d) : p <= c
    OBVIOUS
  <2>2. c - p \in Int /\ c - p >= 0 /\ p + (c - p) = c
    BY <1>1, <1>2, <2>1
  <2>3. c - p \in Coded(t)
    BY <1>1, <2>1, <2>2
  <2> QED
    BY <2>3
<1>4. FirstUnit(t, 0, b, e)
  BY <1>0, <1>1, <1>3, ScanFirst
<1> HIDE DEF b, e
<1>5. PICK f \in Coded(t) :
          /\ 0 <= f /\ \A i \in Coded(t) : 0 <= i => f <= i
          /\ b = f + PrefixSize(t, f)
          /\ e \in b..Len(t) /\ Stops(t, e) /\ NoneIn(t, b, e)
  BY <1>4 DEF FirstUnit
<1>6. f \in 0..(Len(t) - 4) /\ p + f \in Coded(d) /\ PrefixSize(t, f) = PrefixSize(d, p + f)
  <2>1. f \in 0..(Len(t) - 4) /\ f \in Int
    BY <1>1, <1>2
  <2> QED
    BY <1>1, <2>1
<1>7. PrefixSize(d, p + f) \in {3, 4}
  <2>1. p + f \in Int
    BY <1>6
  <2> QED
    BY <1>6, <2>1, CodedSize DEF Coded
<1>8. ASSUME NEW i \in Coded(d), p <= i PROVE p + f <= i
  <2>1. i - p \in Int /\ i - p >= 0 /\ p + (i - p) = i
    BY <1>1, <1>2, <1>8
  <2>2. i - p \in Coded(t)
    BY <1>1, <2>1
  <2>3. f <= i - p
    BY <1>5, <2>1, <2>2
  <2> QED
    BY <1>6, <2>1, <2>3
<1>9. p + b = p + f + PrefixSize(d, p + f) /\ b \in Nat /\ p <= p + f
  BY <1>5, <1>6, <1>7
<1>10. p + e \in (p + b)..Len(d) /\ e \in Nat
  BY <1>1, <1>5, <1>9
<1>11. Stops(d, p + e)
  <2>1. CASE e = Len(t)
    BY <1>1, <1>10, <2>1 DEF Stops
  <2>2. CASE Len(t) - e >= 4 /\ PrefixSize(t, e) > 0
    <3>1. e \in 0..(Len(t) - 4)
      BY <1>1, <1>10, <2>2
    <3>2. PrefixSize(t, e) = PrefixSize(d, p + e)
      BY <1>1, <3>1
    <3> QED
      BY <1>1, <1>10, <2>2, <3>2 DEF Stops
  <2> QED
    BY <1>5, <2>1, <2>2 DEF Stops
<1>12. NoneIn(d, p + b, p + e)
  <2> SUFFICES ASSUME NEW i \in LongCodes(d), i \in (p + b)..(p + e - 1) PROVE FALSE
    BY <1>9, <1>10 DEF NoneIn
  <2>2. i - p \in b..(e - 1) /\ i - p \in Int /\ i - p >= 0 /\ p + (i - p) = i
    BY <1>9, <1>10
  <2>3. i - p \notin LongCodes(t)
    BY <1>5, <2>2 DEF NoneIn
  <2> QED
    BY <1>1, <2>2, <2>3
<1> QED
  <2>1. FirstUnit(d, p, p + b, p + e)
    BY <1>6, <1>8, <1>9, <1>10, <1>11, <1>12 DEF FirstUnit
  <2> QED
    BY <2>1 DEF b, e

Cells == Seq(Nat \X Nat)
Cell(d, p) == <<p + UnitAt(d, p).begin, p + UnitAt(d, p).scanned>>

(* UnitsOf() is defined, like UnitEnd().                                   *)
LEMMA UnitsOfRecursion ==
    ASSUME NEW d \in Seq(0..2)
    PROVE  \E from \in [0..Len(d) -> Cells] :
               /\ UnitsOf(d) = from[0]
               /\ \A p \in 0..Len(d) :
                      from[p] = IF p = Len(d) THEN <<>>
                                ELSE <<Cell(d, p)>> \o from[p + UnitAt(d, p).scanned]
<1> DEFINE n == Len(d)
           Body(f) == [p \in 0..n |-> IF p = n THEN <<>>
                                      ELSE <<Cell(d, p)>> \o f[p + UnitAt(d, p).scanned]]
           from == CHOOSE f : f = Body(f)
<1>1. n \in Nat
  OBVIOUS
<1>2. ASSUME NEW p \in 0..n, p # n
      PROVE  p + UnitAt(d, p).scanned \in (p + 1)..n /\ Cell(d, p) \in Nat \X Nat
  <2> DEFINE t == SubSeq(d, p + 1, n)
  <2>1. t \in Seq(0..2) /\ Len(t) = n - p
    OBVIOUS
  <2> HIDE DEF t
  <2>2. t # <<>>
    BY <1>1, <1>2, <2>1
  <2>3. CopyOneNAL(t).scanned \in 1..(n - p) /\ CopyOneNAL(t).begin \in 0..(n - p)
    BY <1>1, <2>1, <2>2, ScanBounds
  <2>4. UnitAt(d, p) = CopyOneNAL(t)
    BY DEF UnitAt, t
  <2> QED
    BY <1>1, <2>3, <2>4 DEF Cell
<1>3. PICK g \in [0..n -> Cells] :
          \A p \in 0..n : g[p] = IF p = n THEN <<>>
                                 ELSE <<Cell(d, p)>> \o g[p + UnitAt(d, p).scanned]
  <2> DEFINE next == [p \in 0..n |-> IF p = n THEN 0 ELSE p + UnitAt(d, p).scanned]
             base == [p \in 0..n |-> <<>>]
             step == [p \in 0..n |-> [w \in Cells |-> IF p = n THEN <<>> ELSE <<Cell(d, p)>> \o w]]
  <2>1. next \in [0..n -> Nat]
    <3>1. ASSUME NEW p \in 0..n PROVE next[p] \in Nat
      BY <1>1, <1>2
    <3> QED
      BY <3>1
  <2>2. Onward(0, n, {n}, next)
    BY <1>2 DEF Onward
  <2>3. base \in [0..n -> Cells]
    BY DEF Cells
  <2>4. step \in [0..n -> [Cells -> Cells]]
    <3>1. ASSUME NEW p \in 0..n, NEW w \in Cells
          PROVE  (IF p = n THEN <<>> ELSE <<Cell(d, p)>> \o w) \in Cells
      <4>1. CASE p = n
        BY <4>1 DEF Cells
      <4>2. CASE p # n
        <5>1. Cell(d, p) \in Nat \X Nat
          BY <1>2, <4>2
        <5> DEFINE c == Cell(d, p)
        <5> HIDE DEF c, n
        <5>2. <<c>> \o w \in Cells
          BY <5>1 DEF Cells, c
        <5> QED
          BY <4>2, <5>2 DEF c
      <4> QED
        BY <4>1, <4>2
    <3> QED
      BY <3>1
  <2>5. {n} \in SUBSET (0..n) /\ n \in {n} /\ 0 \in Nat /\ 0 <= n
    BY <1>1
  <2> HIDE DEF n, next, base, step
  <2>6. PICK g \in [0..n -> Cells] : Follows(g, 0, n, {n}, next, base, step)
    BY <1>1, <2>1, <2>2, <2>3, <2>4, <2>5, BackwardsDefined
  <2>7. ASSUME NEW p \in 0..n
        PROVE  g[p] = IF p = n THEN <<>>
                      ELSE <<Cell(d, p)>> \o g[p + UnitAt(d, p).scanned]
    <3>1. g[p] = IF p \in {n} THEN base[p] ELSE step[p][g[next[p]]]
      BY <2>6 DEF Follows
    <3>2. CASE p = n
      BY <3>1, <3>2 DEF base
    <3>3. CASE p # n
      <4>1. next[p] = p + UnitAt(d, p).scanned /\ next[p] \in 0..n
        BY <1>1, <1>2, <3>3 DEF next
      <4>2. g[next[p]] \in Cells
        BY <4>1
      <4>3. step[p][g[next[p]]] = <<Cell(d, p)>> \o g[next[p]]
        BY <3>3, <4>2 DEF step
      <4> QED
        BY <3>1, <3>3, <4>1, <4>3
    <3> QED
      BY <3>2, <3>3
  <2> QED
    BY <2>7
<1>4. g = Body(g)
  BY <1>3
<1>5. from = Body(from)
  <2> HIDE DEF Body
  <2> QED
    BY <1>4
<1>6. UnitsOf(d) = from[0]
  BY DEF UnitsOf, Cell, UnitAt
<1> QED
  OBVIOUS

(* A start code that is not the end of one of four octets.                 *)
Clean(d, j) == j \in Coded(d) /\ ~(j \in ShortCodes(d) /\ j > 0 /\ d[j] = 0)

(* Where copyOneNAL() is called: at the begin of the data, and then at the *)
(* start code that ended the unit before.                                  *)
CalledAt(d, p) == (p = 0 /\ Coded(d) # {}) \/ Clean(d, p)

(* w are the units of what is left of d from p on, cut as they should be.  *)
CutFrom(d, p, w) ==
    /\ Len(w) >= 1 /\ w[Len(w)][2] = Len(d)
    /\ \A i \in 1..(Len(w) - 1) : PrefixSize(d, w[i][2]) = w[i + 1][1] - w[i][2]
    /\ p \in Coded(d) => w[1][1] = p + PrefixSize(d, p)
    /\ \A j \in LongCodes(d) : p <= j => \E i \in 1..Len(w) : w[i][1] = j + 4
    /\ \A i \in 1..Len(w) : \E j \in Coded(d) : Clean(d, j) /\ w[i][1] = j + PrefixSize(d, j)

(* No unit goes over a start code of four octets, and the next one does    *)
(* not begin within it.                                                    *)
LEMMA UnitIsCut ==
    ASSUME NEW d \in Seq(0..2), NEW p \in 0..Len(d), CalledAt(d, p),
           NEW b, NEW e, FirstUnit(d, p, b, e)
    PROVE  /\ b \in Nat /\ e \in (p + 1)..Len(d)
           /\ p \in Coded(d) => b = p + PrefixSize(d, p)
           /\ \E f \in Coded(d) : Clean(d, f) /\ b = f + PrefixSize(d, f)
           /\ \A j \in LongCodes(d) : p <= j => b = j + 4 \/ e <= j
           /\ e # Len(d) => Clean(d, e)
<1>1. PICK f \in Coded(d) :
          /\ p <= f /\ \A i \in Coded(d) : p <= i => f <= i
          /\ b = f + PrefixSize(d, f)
          /\ e \in b..Len(d) /\ Stops(d, e) /\ NoneIn(d, b, e)
  BY DEF FirstUnit
<1>2. /\ Len(d) \in Nat /\ Coded(d) \in SUBSET (0..(Len(d) - 4))
      /\ LongCodes(d) \in SUBSET Coded(d) /\ ShortCodes(d) \in SUBSET Coded(d)
  BY DEF Coded, LongCodes, ShortCodes
<1>3. f \in Nat /\ f <= Len(d) - 4 /\ PrefixSize(d, f) \in {3, 4}
  <2>1. f \in Nat /\ f \in Int /\ f <= Len(d) - 4
    BY <1>2
  <2> QED
    BY <2>1, CodedSize DEF Coded
<1>4. b \in Nat /\ e \in Nat /\ e \in (p + 3)..Len(d)
  BY <1>1, <1>2, <1>3
<1>5. p \in Coded(d) => f = p
  BY <1>1, <1>3
<1>6. ASSUME NEW j \in LongCodes(d), p <= j PROVE (f = j /\ b = j + 4) \/ e <= j
  <2>1. j \in Coded(d) /\ j \in Int /\ f <= j
    BY <1>1, <1>2, <1>6
  <2>2. CASE j = f
    BY <1>1, <2>1, <2>2, CodedSize
  <2>3. CASE j > f
    <3>1. j >= b
      BY <1>1, <2>3, CodesApart
    <3>2. ~(j \in b..(e - 1))
      BY <1>1 DEF NoneIn
    <3> QED
      BY <1>4, <2>1, <3>1, <3>2
  <2> QED
    BY <1>3, <2>1, <2>2, <2>3
<1>7. ASSUME NEW j \in ShortCodes(d), j > 0, d[j] = 0 PROVE j - 1 \in LongCodes(d) /\ j \in Nat
  <2>1. j \in 0..(Len(d) - 4) /\ j \in Int /\ Short(d, j)
    BY <1>2, Codes
  <2>2. j - 1 \in Int /\ j - 1 \in 0..(Len(d) - 4)
    BY <1>2, <1>7, <2>1
  <2>3. (j - 1) + 1 = j /\ (j - 1) + 2 = j + 1 /\ (j - 1) + 3 = j + 2 /\ (j - 1) + 4 = j + 3
    BY <2>1
  <2>4. Long(d, j - 1)
    BY <1>7, <2>1, <2>3 DEF Long, Short
  <2> QED
    BY <2>1, <2>2, <2>4, Codes
<1>8. Clean(d, f)
  <2>1. CASE p \in Coded(d) /\ p > 0
    BY <1>5, <2>1 DEF CalledAt
  <2>2. CASE p \in Coded(d) /\ ~(p > 0)
    BY <1>5, <2>2 DEF Clean
  <2>3. CASE p \notin Coded(d)
    <3>1. p = 0
      BY <2>3 DEF CalledAt, Clean
    <3>2. SUFFICES ASSUME f \in ShortCodes(d), f > 0, d[f] = 0 PROVE FALSE
      BY DEF Clean
    <3>3. f - 1 \in Coded(d) /\ p <= f - 1
      BY <1>2, <1>3, <1>7, <3>1, <3>2
    <3> QED
      BY <1>1, <1>3, <3>3
  <2> QED
    BY <2>1, <2>2, <2>3
<1>9. ASSUME e # Len(d) PROVE Clean(d, e)
  <2>1. e \in Coded(d)
    <3>1. e \in 0..(Len(d) - 4) /\ PrefixSize(d, e) > 0 /\ e \in Int
      BY <1>1, <1>2, <1>4, <1>9 DEF Stops
    <3> QED
      BY <3>1, CodedSize
  <2>2. SUFFICES ASSUME e \in ShortCodes(d), e > 0, d[e] = 0 PROVE FALSE
    BY <2>1 DEF Clean
  <2>3. e - 1 \in LongCodes(d) /\ p <= e - 1
    BY <1>4, <1>7, <2>2
  <2>4. f = e - 1 /\ b = e - 1 + 4
    BY <1>4, <1>6, <2>3
  <2> QED
    BY <1>1, <1>4, <2>4
<1> QED
  BY <1>1, <1>4, <1>5, <1>6, <1>8, <1>9

(* A unit before units that are cut as they should be.                     *)
LEMMA CutStep ==
    ASSUME NEW d \in Seq(0..2), NEW p \in 0..Len(d), CalledAt(d, p),
           NEW b, NEW e, FirstUnit(d, p, b, e), NEW rest \in Cells, e \in Nat,
           IF e = Len(d) THEN rest = <<>> ELSE CutFrom(d, e, rest)
    PROVE  CutFrom(d, p, <<<<b, e>>>> \o rest)
<1> DEFINE w == <<<<b, e>>>> \o rest
           m == Len(rest)
<1>1. /\ b \in Nat /\ e \in (p + 1)..Len(d)
      /\ p \in Coded(d) => b = p + PrefixSize(d, p)
      /\ \E f \in Coded(d) : Clean(d, f) /\ b = f + PrefixSize(d, f)
      /\ \A j \in LongCodes(d) : p <= j => b = j + 4 \/ e <= j
      /\ e # Len(d) => Clean(d, e)
  BY UnitIsCut
<1>2. /\ m \in Nat /\ Len(w) = m + 1 /\ w[1] = <<b, e>>
      /\ \A i \in 1..m : w[i + 1] = rest[i]
  <2>1. <<<<b, e>>>> \in Seq(Nat \X Nat) /\ Len(<<<<b, e>>>>) = 1 /\ <<<<b, e>>>>[1] = <<b, e>>
    BY <1>1
  <2> DEFINE c == <<<<b, e>>>>
  <2> HIDE DEF c
  <2>2. c \in Seq(Nat \X Nat) /\ Len(c) = 1 /\ c[1] = <<b, e>>
    BY <2>1 DEF c
  <2>3. rest \in Seq(Nat \X Nat)
    BY DEF Cells
  <2>4. /\ Len(c \o rest) = m + 1 /\ (c \o rest)[1] = c[1]
        /\ \A i \in 1..m : (c \o rest)[i + 1] = rest[i]
    <3>1. m \in Nat /\ Len(c) + m = m + 1
      BY <2>2, <2>3
    <3>2. /\ Len(c \o rest) = Len(c) + m
          /\ \A i \in 1..(Len(c) + m) :
                (c \o rest)[i] = IF i <= Len(c) THEN c[i] ELSE rest[i - Len(c)]
      BY <2>2, <2>3, ConcatProperties
    <3>3. ASSUME NEW i \in 1..m PROVE (c \o rest)[i + 1] = rest[i]
      <4>1. i + 1 \in 1..(m + 1) /\ ~(i + 1 <= Len(c)) /\ i + 1 - Len(c) = i
        BY <2>2, <3>1
      <4> QED
        BY <3>1, <3>2, <4>1
    <3>4. 1 \in 1..(m + 1) /\ 1 <= Len(c)
      BY <2>2, <3>1
    <3> QED
      BY <3>1, <3>2, <3>3, <3>4
  <2> QED
    BY <2>2, <2>3, <2>4 DEF c
<1>3. w[1][1] = b /\ w[1][2] = e
  BY <1>2
<1>4. Len(d) \in Nat /\ LongCodes(d) \in SUBSET (0..(Len(d) - 4)) /\ LongCodes(d) \in SUBSET Coded(d)
  BY DEF Coded, LongCodes
<1> HIDE DEF w, m
<1>5. CASE e = Len(d)
  <2>1. m = 0
    BY <1>5 DEF m
  <2>2. \A j \in LongCodes(d) : p <= j => b = j + 4
    BY <1>1, <1>4, <1>5
  <2>3. CutFrom(d, p, w)
    BY <1>1, <1>2, <1>3, <1>5, <2>1, <2>2 DEF CutFrom
  <2> QED
    BY <2>3 DEF w
<1>6. CASE e # Len(d)
  <2>1. /\ m >= 1 /\ rest[m][2] = Len(d)
        /\ \A i \in 1..(m - 1) : PrefixSize(d, rest[i][2]) = rest[i + 1][1] - rest[i][2]
        /\ rest[1][1] = e + PrefixSize(d, e)
        /\ \A j \in LongCodes(d) : e <= j => \E i \in 1..m : rest[i][1] = j + 4
        /\ \A i \in 1..m : \E j \in Coded(d) : Clean(d, j) /\ rest[i][1] = j + PrefixSize(d, j)
    BY <1>1, <1>6 DEF CutFrom, m, Clean
  <2>2. w[m + 1] = rest[m] /\ w[2] = rest[1]
    <3>1. m \in 1..m /\ 1 \in 1..m /\ 1 + 1 = 2
      BY <1>2, <2>1
    <3> QED
      BY <1>2, <3>1
  <2>3. ASSUME NEW i \in 1..m PROVE PrefixSize(d, w[i][2]) = w[i + 1][1] - w[i][2]
    <3>1. CASE i = 1
      <4>1. PrefixSize(d, e) \in {0, 3, 4}
        <5>1. e \in Coded(d) /\ e \in 0..(Len(d) - 4)
          BY <1>1, <1>6 DEF Clean, Coded, LongCodes, ShortCodes
        <5> QED
          BY <5>1, PrefixOctets
      <4> QED
        BY <1>3, <2>1, <2>2, <3>1, <4>1
    <3>2. CASE i # 1
      <4>1. i - 1 \in 1..(m - 1) /\ i \in 1..m /\ (i - 1) + 1 = i /\ i - 1 \in 1..m
        BY <1>2, <3>2
      <4>2. w[i] = rest[i - 1] /\ w[i + 1] = rest[i]
        BY <1>2, <4>1
      <4>3. PrefixSize(d, rest[i - 1][2]) = rest[i][1] - rest[i - 1][2]
        BY <2>1, <4>1
      <4> QED
        BY <4>2, <4>3
    <3> QED
      BY <3>1, <3>2
  <2>4. ASSUME NEW j \in LongCodes(d), p <= j PROVE \E i \in 1..(m + 1) : w[i][1] = j + 4
    <3>1. CASE b = j + 4
      BY <1>2, <1>3, <3>1
    <3>2. CASE e <= j
      <4>1. PICK i \in 1..m : rest[i][1] = j + 4
        BY <2>1, <3>2
      <4>2. i + 1 \in 1..(m + 1) /\ w[i + 1] = rest[i]
        BY <1>2
      <4> QED
        BY <4>1, <4>2
    <3> QED
      BY <1>1, <2>4, <3>1, <3>2
  <2>5. ASSUME NEW i \in 1..(m + 1)
        PROVE  \E j \in Coded(d) : Clean(d, j) /\ w[i][1] = j + PrefixSize(d, j)
    <3>1. CASE i = 1
      BY <1>1, <1>3, <3>1
    <3>2. CASE i # 1
      <4>1. i - 1 \in 1..m /\ (i - 1) + 1 = i
        BY <1>2, <3>2
      <4>2. w[i] = rest[i - 1]
        BY <1>2, <4>1
      <4> QED
        BY <2>1, <4>1, <4>2
    <3> QED
      BY <3>1, <3>2
  <2>6. m + 1 >= 1 /\ (m + 1) - 1 = m
    BY <1>2
  <2>7. CutFrom(d, p, w)
    BY <1>1, <1>2, <1>3, <2>1, <2>2, <2>3, <2>4, <2>5, <2>6 DEF CutFrom
  <2> QED
    BY <2>7 DEF w
<1> QED
  BY <1>5, <1>6

(* The units of data of any length are cut as they should be.              *)
LEMMA WellCutAlways == ASSUME NEW d \in Seq(0..2) PROVE WellCut(d)
<1> DEFINE n == Len(d)
           u == UnitsOf(d)
<1>1. SUFFICES ASSUME Coded(d) # {} PROVE WellCut(d)
  BY DEF WellCut, Coded
<1>2. /\ n \in Nat /\ n >= 4 /\ Coded(d) \in SUBSET (0..(n - 4))
      /\ LongCodes(d) \in SUBSET Coded(d) /\ ShortCodes(d) \in SUBSET Coded(d)
  BY <1>1 DEF Coded, LongCodes, ShortCodes
<1>3. PICK from \in [0..n -> Cells] :
          /\ u = from[0]
          /\ \A p \in 0..n : from[p] = IF p = n THEN <<>>
                                       ELSE <<Cell(d, p)>> \o from[p + UnitAt(d, p).scanned]
  BY UnitsOfRecursion
<1> DEFINE Wrong(p) == CalledAt(d, p) /\ p # n /\ ~CutFrom(d, p, from[p])
           T == {k \in 0..n : Wrong(n - k)}
<1>4. T = {}
  <2>1. SUFFICES ASSUME T # {} PROVE FALSE
    OBVIOUS
  <2>2. PICK m \in T : \A k \in T : m <= k
    <3>1. T \in SUBSET Nat
      OBVIOUS
    <3> HIDE DEF T
    <3> QED
      BY <2>1, <3>1, Least
  <2> DEFINE p == n - m
             b == p + UnitAt(d, p).begin
             e == p + UnitAt(d, p).scanned
  <2>3. m \in 0..n /\ Wrong(p)
    OBVIOUS
  <2> HIDE DEF n, Wrong, T
  <2>4. p \in 0..n /\ CalledAt(d, p) /\ p # n
    BY <1>2, <2>3 DEF Wrong
  <2>5. \E c \in Coded(d) : p <= c
    <3>1. CASE p = 0 /\ Coded(d) # {}
      BY <1>2, <3>1
    <3>2. CASE Clean(d, p)
      BY <1>2, <2>4, <3>2 DEF Clean
    <3> QED
      BY <2>4, <3>1, <3>2 DEF CalledAt
  <2> HIDE DEF p
  <2>6. FirstUnit(d, p, b, e)
    BY <2>4, <2>5, UnitFrom DEF n
  <2> HIDE DEF b, e
  <2>7. e \in (p + 1)..n /\ (e # n => Clean(d, e))
    BY <2>4, <2>6, UnitIsCut DEF n
  <2>8. from[p] = <<<<b, e>>>> \o from[e]
    BY <1>3, <2>4 DEF Cell, b, e
  <2>9. e \in Nat /\ e \in 0..n /\ from[e] \in Cells
    BY <1>2, <1>3, <2>4, <2>7
  <2>10. IF e = n THEN from[e] = <<>> ELSE CutFrom(d, e, from[e])
    <3>1. CASE e = n
      BY <1>3, <2>9, <3>1
    <3>2. CASE e # n
      <4>1. n - e \in 0..n /\ ~(m <= n - e) /\ n - (n - e) = e
        BY <1>2, <2>3, <2>4, <2>7, <2>9 DEF p
      <4>2. n - e \notin T
        BY <2>2, <4>1
      <4>3. ~Wrong(e)
        BY <4>1, <4>2 DEF T
      <4> QED
        BY <2>7, <3>2, <4>3 DEF Wrong, CalledAt
    <3> QED
      BY <3>1, <3>2
  <2>11. CutFrom(d, p, <<<<b, e>>>> \o from[e])
    BY <2>4, <2>6, <2>9, <2>10, CutStep DEF n
  <2> QED
    BY <2>3, <2>8, <2>11 DEF Wrong
<1>5. CutFrom(d, 0, u)
  <2>1. n \in 0..n /\ n - n = 0 /\ 0 # n
    BY <1>2
  <2>2. ~Wrong(0)
    <3> HIDE DEF Wrong, n
    <3> QED
      BY <1>4, <2>1
  <2> QED
    BY <1>1, <1>3, <2>1, <2>2 DEF CalledAt
<1> HIDE DEF u
<1>6. /\ Len(u) >= 1 /\ u[Len(u)][2] = n
      /\ \A i \in 1..(Len(u) - 1) : PrefixSize(d, u[i][2]) = u[i + 1][1] - u[i][2]
      /\ \A j \in LongCodes(d) : \E i \in 1..Len(u) : u[i][1] = j + 4
      /\ \A i \in 1..Len(u) :
             \E j \in Coded(d) : Clean(d, j) /\ u[i][1] = j + PrefixSize(d, j)
  <2>1. \A j \in LongCodes(d) : 0 <= j
    BY <1>2
  <2> QED
    BY <1>5, <2>1 DEF CutFrom
<1>7. DOMAIN u = 1..Len(u) /\ Last(u) = u[Len(u)]
  <2>1. u \in Cells
    BY <1>2, <1>3
  <2> QED
    BY <2>1 DEF Cells, Last
<1> DEFINE begins == {u[i][1] : i \in DOMAIN u}
           long == {j + 4 : j \in LongCodes(d)}
<1>8. long \subseteq begins
  BY <1>6, <1>7
<1>9. ASSUME NEW i \in 1..Len(u)
      PROVE  /\ u[i][1] \in long \/ \E j \in ShortCodes(d) : Clean(d, j) /\ u[i][1] = j + 3
  <2>1. PICK j \in Coded(d) : Clean(d, j) /\ u[i][1] = j + PrefixSize(d, j)
    BY <1>6
  <2>2. j \in Int
    BY <1>2
  <2> QED
    BY <2>1, <2>2, CodedSize DEF Coded
<1>10. begins \ long \subseteq {j + 3 : j \in ShortCodes(d)}
  BY <1>7, <1>9
<1>11. ASSUME \A j \in ShortCodes(d) : j > 0 /\ d[j] = 0 PROVE begins = long
  <2>1. \A i \in 1..Len(u) : u[i][1] \in long
    BY <1>9, <1>11 DEF Clean
  <2> QED
    BY <1>7, <1>8, <2>1
<1> HIDE DEF begins, long
<1> QED
  BY <1>6, <1>7, <1>8, <1>10, <1>11 DEF WellCut, u, begins, long

(* The boundaries are right for data of any length, not only up to         *)
(* MaxOctets: copyOneNAL()'s scan, which looks at every fourth octet only, *)
(* misses no start code of four octets, and begins units only behind start *)
(* codes.  It may take one of three octets for data of a unit.             *)
THEOREM AllDataWellCut == \A d \in Seq(0..2) : WellCut(d)
BY WellCutAlways

(* What the runs look at, data of up to MaxOctets octets, for any bound.   *)
THEOREM UnitsAreWellCut == Spec => []UnitsWellCut
<1>1. ASSUME NEW n \in 4..MaxOctets, NEW d \in [1..n -> 0..2] PROVE WellCut(d)
  <2>1. d \in Seq(0..2)
    BY ScanAssumption
  <2> QED
    BY <2>1, AllDataWellCut
<1>2. UnitsWellCut
  BY <1>1 DEF UnitsWellCut, UnitsCut
<1> QED
  BY <1>2, PTL

-----------------------------------------------------------------------------
(* the sink *)

(* S holds the sums of the sizes f gives to the headers of q, one header   *)
(* after the other, with those before q adding up to base; size is the     *)
(* last one.                                                               *)
Counts(S, q, base, f, size) ==
    /\ S \in [0..Len(q) -> Nat] /\ S[0] = base /\ size = S[Len(q)]
    /\ \A i \in 1..Len(q) : S[i] = S[i - 1] + Len(f[q[i]])
    /\ \A i, j \in 0..Len(q) : i <= j => S[i] <= S[j]

InUseSize(u, f) == IF u = NoHeader THEN 0 ELSE Len(f[u])

SinkTypes ==
    /\ data \in [Headers -> Seq(0..2)] /\ inEnc \subseteq Headers
    /\ pending \in Seq(Headers) /\ inUse \in Headers \union {NoHeader}

(* A header that is queued or in use is that once, has data, and is not    *)
(* with the encoder.                                                       *)
SinkPlaces ==
    /\ \A i \in 1..Len(pending) :
           pending[i] \notin inEnc /\ pending[i] # inUse /\ data[pending[i]] # <<>>
    /\ \A i, j \in 1..Len(pending) : pending[i] = pending[j] => i = j
    /\ inUse # NoHeader => inUse \notin inEnc /\ data[inUse] # <<>>

(* pending_data_size_ is the size of the data in use and queued.           *)
SinkCounted == \E S : Counts(S, pending, InUseSize(inUse, data), data, pendingSize)

SinkInv == SinkTypes /\ SinkPlaces /\ SinkCounted

LEMMA CountsAppend ==
    ASSUME NEW f \in [Headers -> Seq(0..2)], NEW q \in Seq(Headers), NEW base, NEW size,
           NEW S, Counts(S, q, base, f, size),
           NEW b \in Headers, NEW d \in Seq(0..2), \A i \in 1..Len(q) : q[i] # b
    PROVE  \E R : Counts(R, Append(q, b), base, [f EXCEPT ![b] = d], size + Len(d))
<1> DEFINE n == Len(q)
           p == Append(q, b)
           g == [f EXCEPT ![b] = d]
           R == [i \in 0..(n + 1) |-> IF i = n + 1 THEN size + Len(d) ELSE S[i]]
<1>1. /\ n \in Nat /\ Len(p) = n + 1 /\ p[n + 1] = b /\ \A i \in 1..n : p[i] = q[i]
      /\ \A i \in 1..n : q[i] \in Headers
  OBVIOUS
<1>2. g[b] = d /\ \A i \in 1..n : g[q[i]] = f[q[i]]
  BY <1>1
<1>3. /\ S \in [0..n -> Nat] /\ S[0] = base /\ size = S[n]
      /\ \A i \in 1..n : S[i] = S[i - 1] + Len(f[q[i]])
      /\ \A i, j \in 0..n : i <= j => S[i] <= S[j]
  BY DEF Counts
<1>4. Len(d) \in Nat /\ size \in Nat
  <2> HIDE DEF n
  <2> QED
    BY <1>1, <1>3
<1> HIDE DEF n, p, g
<1>5. R \in [0..(n + 1) -> Nat] /\ R[0] = base /\ R[n + 1] = size + Len(d)
  BY <1>1, <1>3, <1>4
<1>6. ASSUME NEW i \in 1..(n + 1) PROVE R[i] = R[i - 1] + Len(g[p[i]])
  <2>1. CASE i = n + 1
    BY <1>1, <1>2, <1>3, <2>1
  <2>2. CASE i \in 1..n
    <3>1. R[i] = S[i] /\ R[i - 1] = S[i - 1]
      BY <1>1, <2>2
    <3>2. g[p[i]] = f[q[i]]
      BY <1>1, <1>2, <2>2
    <3>3. S[i] = S[i - 1] + Len(f[q[i]])
      BY <1>3, <2>2
    <3> QED
      BY <3>1, <3>2, <3>3
  <2> QED
    BY <1>1, <2>1, <2>2
<1>7. ASSUME NEW i \in 0..(n + 1), NEW j \in 0..(n + 1), i <= j PROVE R[i] <= R[j]
  <2>1. CASE j = n + 1
    <3>1. CASE i = n + 1
      BY <1>3, <1>4, <2>1, <3>1
    <3>2. CASE i \in 0..n
      <4>1. S[i] <= S[n] /\ S[i] \in Nat
        BY <1>1, <1>3, <3>2
      <4>2. R[i] = S[i] /\ R[j] = size + Len(d)
        BY <1>1, <2>1, <3>2
      <4> QED
        BY <1>3, <1>4, <4>1, <4>2
    <3> QED
      BY <1>1, <3>1, <3>2
  <2>2. CASE j \in 0..n
    BY <1>1, <1>3, <1>7, <2>2
  <2> QED
    BY <1>1, <2>1, <2>2
<1> HIDE DEF R
<1>8. Counts(R, p, base, g, size + Len(d))
  BY <1>1, <1>5, <1>6, <1>7 DEF Counts
<1> QED
  BY <1>8 DEF p, g

LEMMA CountsTail ==
    ASSUME NEW f \in [Headers -> Seq(0..2)], NEW q \in Seq(Headers), q # <<>>, NEW size,
           NEW S, Counts(S, q, 0, f, size)
    PROVE  \E R : Counts(R, Tail(q), Len(f[Head(q)]), f, size)
<1> DEFINE n == Len(q)
           p == Tail(q)
           R == [i \in 0..(n - 1) |-> S[i + 1]]
<1>1. /\ n \in Nat /\ n >= 1 /\ Len(p) = n - 1 /\ Head(q) = q[1] /\ q[1] \in Headers
      /\ \A i \in 1..(n - 1) : p[i] = q[i + 1]
  OBVIOUS
<1>2. /\ S \in [0..n -> Nat] /\ S[0] = 0 /\ size = S[n]
      /\ \A i \in 1..n : S[i] = S[i - 1] + Len(f[q[i]])
      /\ \A i, j \in 0..n : i <= j => S[i] <= S[j]
  BY DEF Counts
<1>3. Len(f[q[1]]) \in Nat
  BY <1>1
<1> HIDE DEF n, p
<1>4. R \in [0..(n - 1) -> Nat] /\ R[0] = Len(f[q[1]]) /\ R[n - 1] = size
  BY <1>1, <1>2, <1>3
<1>5. ASSUME NEW i \in 1..(n - 1) PROVE R[i] = R[i - 1] + Len(f[p[i]])
  <2>1. i + 1 \in 1..n /\ i + 1 - 1 = i
    BY <1>1
  <2>2. S[i + 1] = S[i] + Len(f[q[i + 1]])
    BY <1>2, <2>1
  <2>3. R[i] = S[i + 1] /\ R[i - 1] = S[i] /\ p[i] = q[i + 1]
    BY <1>1
  <2> QED
    BY <2>2, <2>3
<1>6. ASSUME NEW i \in 0..(n - 1), NEW j \in 0..(n - 1), i <= j PROVE R[i] <= R[j]
  BY <1>1, <1>2, <1>6
<1> HIDE DEF R
<1>7. Counts(R, p, Len(f[Head(q)]), f, size)
  BY <1>1, <1>4, <1>5, <1>6 DEF Counts
<1> QED
  BY <1>7 DEF p

LEMMA CountsLess ==
    ASSUME NEW f \in [Headers -> Seq(0..2)], NEW g \in [Headers -> Seq(0..2)],
           NEW q \in Seq(Headers), \A i \in 1..Len(q) : g[q[i]] = f[q[i]],
           NEW base \in Nat, NEW k \in 0..base, NEW size, NEW S, Counts(S, q, base, f, size)
    PROVE  \E R : Counts(R, q, base - k, g, size - k)
<1> DEFINE n == Len(q)
           R == [i \in 0..n |-> S[i] - k]
<1>1. n \in Nat /\ \A i \in 1..n : q[i] \in Headers
  OBVIOUS
<1>2. /\ S \in [0..n -> Nat] /\ S[0] = base /\ size = S[n]
      /\ \A i \in 1..n : S[i] = S[i - 1] + Len(f[q[i]])
      /\ \A i, j \in 0..n : i <= j => S[i] <= S[j]
  BY DEF Counts
<1>3. \A i \in 1..n : g[q[i]] = f[q[i]] /\ Len(f[q[i]]) \in Nat
  BY <1>1
<1> HIDE DEF n
<1>4. ASSUME NEW i \in 0..n PROVE S[i] - k \in Nat
  BY <1>1, <1>2
<1>5. R \in [0..n -> Nat] /\ R[0] = base - k /\ R[n] = size - k
  BY <1>1, <1>2, <1>4
<1>6. ASSUME NEW i \in 1..n PROVE R[i] = R[i - 1] + Len(g[q[i]])
  <2>1. R[i] = S[i] - k /\ R[i - 1] = S[i - 1] - k
    BY <1>1
  <2>2. S[i] = S[i - 1] + Len(f[q[i]]) /\ S[i - 1] \in Nat
    BY <1>1, <1>2
  <2>3. Len(g[q[i]]) = Len(f[q[i]]) /\ Len(f[q[i]]) \in Nat
    BY <1>3
  <2> QED
    BY <2>1, <2>2, <2>3
<1>7. ASSUME NEW i \in 0..n, NEW j \in 0..n, i <= j PROVE R[i] <= R[j]
  BY <1>1, <1>2, <1>7
<1> HIDE DEF R
<1>8. Counts(R, q, base - k, g, size - k)
  BY <1>5, <1>6, <1>7 DEF Counts, n
<1> QED
  BY <1>8

(* getOneNalUnit() for the header b, with the queue as it leaves it: b is  *)
(* in use, or was the queue's head.                                        *)
LEMMA Consumed ==
    ASSUME SinkTypes, NEW b \in Headers, data[b] # <<>>, b \notin inEnc,
           pending' \in Seq(Headers),
           \A i \in 1..Len(pending') :
               pending'[i] \notin inEnc /\ pending'[i] # b /\ data[pending'[i]] # <<>>,
           \A i, j \in 1..Len(pending') : pending'[i] = pending'[j] => i = j,
           NEW S, Counts(S, pending', Len(data[b]), data, pendingSize),
           Consume(b)
    PROVE  SinkInv'
<1> DEFINE q == pending'
           d == data[b]
           k == CopyOneNAL(d).scanned
           rest == SubSeq(d, k + 1, Len(d))
<1>1. /\ pendingSize' = pendingSize - k /\ data' = [data EXCEPT ![b] = rest]
      /\ rest = <<>> => inUse' = NoHeader /\ inEnc' = inEnc \union {b}
      /\ rest # <<>> => inUse' = b /\ inEnc' = inEnc
  BY DEF Consume, HandBack
<1>2. d \in Seq(0..2) /\ data \in [Headers -> Seq(0..2)] /\ inEnc \subseteq Headers
  BY DEF SinkTypes
<1> HIDE DEF d
<1>3. k \in 0..Len(d)
  BY <1>2, ScanBounds
<1> HIDE DEF k
<1>4. rest \in Seq(0..2) /\ Len(rest) = Len(d) - k /\ Len(d) \in Nat
  BY <1>2, <1>3
<1>5. rest = <<>> <=> Len(rest) = 0
  <2> HIDE DEF rest
  <2> QED
    BY <1>4, EmptySeq
<1>6. /\ q \in Seq(Headers) /\ \A i \in 1..Len(q) : q[i] \in Headers
      /\ \A i \in 1..Len(q) : q[i] \notin inEnc /\ q[i] # b /\ data[q[i]] # <<>>
      /\ \A i, j \in 1..Len(q) : q[i] = q[j] => i = j
  OBVIOUS
<1> HIDE DEF q, rest
<1>7. data' \in [Headers -> Seq(0..2)] /\ data'[b] = rest
      /\ \A i \in 1..Len(q) : data'[q[i]] = data[q[i]]
  BY <1>1, <1>2, <1>4, <1>6
<1>8. \E R : Counts(R, q, Len(d) - k, data', pendingSize')
  <2>1. Counts(S, q, Len(d), data, pendingSize)
    BY DEF q, d
  <2> QED
    BY <1>1, <1>2, <1>3, <1>4, <1>6, <1>7, <2>1, CountsLess
<1>9. InUseSize(inUse', data') = Len(d) - k
  BY <1>1, <1>4, <1>5, <1>7, RtpAssumption DEF InUseSize
<1>10. SinkTypes'
  BY <1>1, <1>2, <1>6, <1>7 DEF SinkTypes, q
<1>11. SinkPlaces'
  <2>1. inUse' # NoHeader => inUse' \notin inEnc' /\ data'[inUse'] # <<>>
    BY <1>1, <1>7
  <2>2. ASSUME NEW i \in 1..Len(q)
        PROVE  q[i] \notin inEnc' /\ q[i] # inUse' /\ data'[q[i]] # <<>>
    BY <1>1, <1>6, <1>7, RtpAssumption
  <2> QED
    BY <1>6, <2>1, <2>2 DEF SinkPlaces, q
<1>12. SinkCounted'
  BY <1>8, <1>9 DEF SinkCounted, q
<1> QED
  BY <1>10, <1>11, <1>12 DEF SinkInv

LEMMA GetOneNalUnitSink == ASSUME SinkInv, GetOneNalUnit PROVE SinkInv'
<1>1. SinkTypes /\ SinkPlaces
  BY DEF SinkInv
<1>2. PICK S : Counts(S, pending, InUseSize(inUse, data), data, pendingSize)
  BY DEF SinkInv, SinkCounted
<1>3. CASE inUse # NoHeader
  <2>1. Consume(inUse) /\ pending' = pending
    BY <1>3 DEF GetOneNalUnit
  <2>2. inUse \in Headers /\ data[inUse] # <<>> /\ inUse \notin inEnc
    BY <1>1, <1>3 DEF SinkTypes, SinkPlaces
  <2>3. Counts(S, pending', Len(data[inUse]), data, pendingSize)
    BY <1>2, <1>3, <2>1 DEF InUseSize
  <2>4. /\ pending' \in Seq(Headers)
        /\ \A i \in 1..Len(pending') :
               pending'[i] \notin inEnc /\ pending'[i] # inUse /\ data[pending'[i]] # <<>>
        /\ \A i, j \in 1..Len(pending') : pending'[i] = pending'[j] => i = j
    BY <1>1, <2>1 DEF SinkTypes, SinkPlaces
  <2> QED
    BY <1>1, <2>1, <2>2, <2>3, <2>4, Consumed
<1>4. CASE inUse = NoHeader /\ pending # <<>>
  <2> DEFINE b == Head(pending)
             q == Tail(pending)
  <2>1. Consume(b) /\ pending' = q
    BY <1>4 DEF GetOneNalUnit
  <2>2. /\ pending \in Seq(Headers) /\ data \in [Headers -> Seq(0..2)]
        /\ \A i \in 1..Len(pending) : pending[i] \notin inEnc /\ data[pending[i]] # <<>>
        /\ \A i, j \in 1..Len(pending) : pending[i] = pending[j] => i = j
    BY <1>1 DEF SinkTypes, SinkPlaces
  <2>3. /\ q \in Seq(Headers) /\ Len(q) = Len(pending) - 1 /\ Len(pending) \in Nat \ {0}
        /\ \A i \in 1..Len(q) : q[i] = pending[i + 1]
        /\ b = pending[1] /\ b \in Headers
    BY <1>4, <2>2
  <2> HIDE DEF b, q
  <2>4. 1 \in 1..Len(pending) /\ data[b] # <<>> /\ b \notin inEnc
    BY <2>2, <2>3
  <2>7. ASSUME NEW i \in 1..Len(q)
        PROVE  q[i] \notin inEnc /\ q[i] # b /\ data[q[i]] # <<>>
    <3>1. i + 1 \in 1..Len(pending) /\ i + 1 # 1 /\ q[i] = pending[i + 1]
      BY <2>3
    <3> QED
      BY <2>2, <2>3, <2>4, <3>1
  <2>5. ASSUME NEW i \in 1..Len(q), NEW j \in 1..Len(q), q[i] = q[j]
        PROVE  i = j
    <3>1. i + 1 \in 1..Len(pending) /\ j + 1 \in 1..Len(pending)
      BY <2>3
    <3>2. pending[i + 1] = pending[j + 1]
      BY <2>3, <2>5
    <3>3. i + 1 = j + 1
      BY <2>2, <3>1, <3>2
    <3> QED
      BY <3>3
  <2>6. \E R : Counts(R, q, Len(data[b]), data, pendingSize)
    <3>1. Counts(S, pending, 0, data, pendingSize)
      BY <1>2, <1>4 DEF InUseSize
    <3> QED
      BY <1>4, <2>2, <3>1, CountsTail DEF b, q
  <2> QED
    BY <1>1, <2>1, <2>3, <2>4, <2>5, <2>6, <2>7, Consumed
<1>5. CASE inUse = NoHeader /\ pending = <<>>
  BY <1>5 DEF GetOneNalUnit, SinkInv, SinkTypes, SinkPlaces, SinkCounted
<1> QED
  BY <1>3, <1>4, <1>5

LEMMA EmptyBufferSink ==
    ASSUME SinkInv, NEW b \in Headers, NEW d \in Contents, EmptyBuffer(b, d)
    PROVE  SinkInv'
<1>1. CASE d = <<>>
  BY <1>1 DEF EmptyBuffer, sinkVars, SinkInv, SinkTypes, SinkPlaces, SinkCounted
<1>2. CASE d # <<>>
  <2>1. /\ pending' = Append(pending, b) /\ pendingSize' = pendingSize + Len(d)
        /\ data' = [data EXCEPT ![b] = d] /\ inEnc' = inEnc \ {b} /\ inUse' = inUse
        /\ b \in inEnc
    BY <1>2 DEF EmptyBuffer, Queue
  <2>2. SinkTypes /\ SinkPlaces
    BY DEF SinkInv
  <2>3. d \in Seq(0..2) /\ pending \in Seq(Headers) /\ data \in [Headers -> Seq(0..2)]
    BY <2>2, RtpAssumption DEF SinkTypes
  <2>4. \A i \in 1..Len(pending) : pending[i] # b
    BY <2>1, <2>2 DEF SinkPlaces
  <2>5. inUse # b
    BY <2>1, <2>2, RtpAssumption DEF SinkPlaces
  <2>6. InUseSize(inUse', data') = InUseSize(inUse, data)
    BY <2>1, <2>2, <2>3, <2>5 DEF InUseSize, SinkTypes
  <2>7. SinkCounted'
    <3>1. PICK S : Counts(S, pending, InUseSize(inUse, data), data, pendingSize)
      BY DEF SinkInv, SinkCounted
    <3>2. \E R : Counts(R, Append(pending, b), InUseSize(inUse, data),
                        [data EXCEPT ![b] = d], pendingSize + Len(d))
      BY <2>3, <2>4, <3>1, CountsAppend
    <3> QED
      BY <2>1, <2>6, <3>2 DEF SinkCounted
  <2>8. SinkTypes'
    BY <2>1, <2>2, <2>3 DEF SinkTypes
  <2>9. SinkPlaces'
    <3> DEFINE p == pending'
    <3>1. /\ Len(p) = Len(pending) + 1 /\ p[Len(p)] = b /\ Len(pending) \in Nat
          /\ \A i \in 1..Len(pending) : p[i] = pending[i] /\ p[i] \in Headers
      BY <2>1, <2>3
    <3>2. /\ data'[b] = d /\ \A i \in 1..Len(pending) : data'[pending[i]] = data[pending[i]]
      BY <2>1, <2>3, <2>4, <3>1
    <3>3. inUse' # NoHeader => inUse' \notin inEnc' /\ data'[inUse'] # <<>>
      BY <2>1, <2>2, <2>3, <2>5 DEF SinkPlaces, SinkTypes
    <3> HIDE DEF p
    <3>4. \A i \in 1..Len(p) : i = Len(p) \/ i \in 1..Len(pending)
      BY <3>1
    <3>5. ASSUME NEW i \in 1..Len(p)
          PROVE  p[i] \notin inEnc' /\ p[i] # inUse' /\ data'[p[i]] # <<>>
      <4>1. CASE i = Len(p)
        BY <1>2, <2>1, <2>5, <3>1, <3>2, <4>1
      <4>2. CASE i \in 1..Len(pending)
        BY <2>1, <2>2, <3>1, <3>2, <4>2 DEF SinkPlaces
      <4> QED
        BY <3>4, <4>1, <4>2
    <3>6. ASSUME NEW i \in 1..Len(p), NEW j \in 1..Len(p), p[i] = p[j]
          PROVE  i = j
      BY <2>2, <2>4, <3>1, <3>4, <3>6 DEF SinkPlaces
    <3> QED
      BY <3>3, <3>5, <3>6 DEF SinkPlaces, p
  <2> QED
    BY <2>7, <2>8, <2>9 DEF SinkInv
<1> QED
  BY <1>1, <1>2

(* A new stream's sink, or none, is empty.                                 *)
LEMMA EmptySink ==
    ASSUME data' = [b \in Headers |-> <<>>], inEnc' \subseteq Headers, pending' = <<>>,
           inUse' = NoHeader, pendingSize' = 0
    PROVE  SinkInv'
<1>1. Counts([i \in 0..0 |-> 0], <<>>, 0, data', 0)
  BY DEF Counts
<1>2. SinkCounted'
  BY <1>1 DEF SinkCounted, InUseSize
<1>3. SinkTypes' /\ SinkPlaces'
  BY DEF SinkTypes, SinkPlaces
<1> QED
  BY <1>2, <1>3 DEF SinkInv

LEMMA SameSink ==
    ASSUME SinkInv, UNCHANGED <<data, inEnc, pending, inUse, pendingSize>>
    PROVE  SinkInv'
BY DEF SinkInv, SinkTypes, SinkPlaces, SinkCounted

LEMMA NextSinkInv == SinkInv /\ [Next]_vars => SinkInv'
<1> SUFFICES ASSUME SinkInv, [Next]_vars PROVE SinkInv'
  OBVIOUS
<1>1. CASE Start \/ Started \/ Stop \/ Stopped \/ DoRTSP \/ Tick \/ DoSession \/ CheckSDP
  <2>1. UNCHANGED sinkVars
    BY <1>1 DEF Start, Started, Stop, Stopped, DoRTSP, Tick, DoSession, CheckSDP, rtpVars
  <2> QED
    BY <2>1, SameSink DEF sinkVars
<1>2. CASE Teardown
  BY <1>2, EmptySink DEF Teardown, CloseSource
<1>3. CASE Check
  <2>1. CASE UNCHANGED sinkVars
    BY <2>1, SameSink DEF sinkVars
  <2>2. CASE CloseSource
    BY <2>2, EmptySink DEF CloseSource
  <2> QED
    BY <1>3, <2>1, <2>2 DEF Check, Described
<1>4. CASE Describe \/ Play
  BY <1>4, EmptySink DEF Describe, Play, CreateNewStreamSource, OpenSource
<1>5. CASE RtpStep
  <2>1. CASE NotifyOne \/ SignalOutput
    BY <2>1, SameSink DEF NotifyOne, SignalOutput
  <2>2. ASSUME NEW b \in Headers, NEW d \in Contents, EmptyBuffer(b, d) PROVE SinkInv'
    BY <2>2, EmptyBufferSink
  <2>3. CASE Reader
    <3>1. GetOneNalUnit \/ UNCHANGED <<data, inEnc, pending, inUse, pendingSize>>
      BY <2>3 DEF Reader, Ask, HandleTrigger, Awake
    <3> QED
      BY <3>1, GetOneNalUnitSink, SameSink
  <2> QED
    BY <1>5, <2>1, <2>2, <2>3 DEF RtpStep, Codec
<1>6. CASE UNCHANGED vars
  BY <1>6, SameSink DEF vars, rtpVars, sinkVars
<1> QED
  BY <1>1, <1>2, <1>3, <1>4, <1>5, <1>6 DEF Next

-----------------------------------------------------------------------------
(* types, and the sink and the server together *)

(* TypeOK in parts: beside the sink's, where the threads are, the flags,   *)
(* and the numbers.  The queue is empty when start() puts a server's one   *)
(* request into it.                                                        *)
Modes ==
    /\ callback \in {"idle", "notify", "signal"}
    /\ source \in {"none", "signals", "mute", "left"}
    /\ loop \in {"off", "check", "select", "asleep", "woken"}
    /\ daemon \in {"idle", "start", "stop"} /\ server \in {"none", "made", "ready"}

Flags ==
    /\ trigger \in BOOLEAN /\ awaiting \in BOOLEAN /\ seen \in BOOLEAN
    /\ listening \in BOOLEAN /\ stopflag \in BOOLEAN /\ signalled \in BOOLEAN
    /\ media \in BOOLEAN /\ nested \in BOOLEAN /\ sdp \in BOOLEAN
    /\ done \in BOOLEAN /\ timer \in BOOLEAN /\ playing \in BOOLEAN

Numbers ==
    /\ requests \in 0..1 /\ asked \in 0..MaxRequests
    /\ daemon = "start" \/ server = "none" => requests = 0
    /\ opened \in 0..MaxStreams /\ triggers \in 0..MaxTriggers

LEMMA TypeOKParts ==
    ASSUME SinkTypes, Modes, Flags, Numbers
    PROVE  TypeOK
<1> QED
  BY DEF TypeOK, SinkTypes, Modes, Flags, Numbers

LEMMA NextModes == Modes /\ [Next]_vars => Modes'
<1> SUFFICES ASSUME Modes, [Next]_vars PROVE Modes'
  OBVIOUS
<1> USE DEF Modes, serverVars, describeVars, rtpVars, sinkVars, sourceVars
<1>1. CASE Start \/ Started \/ Stop \/ DoRTSP \/ Tick \/ DoSession \/ CheckSDP
  BY <1>1 DEF Start, Started, Stop, DoRTSP, Tick, DoSession, CheckSDP
<1>2. CASE Stopped \/ Teardown
  BY <1>2 DEF Stopped, LeaveSource, Teardown, CloseSource
<1>3. CASE Check
  BY <1>3 DEF Check, Described, CloseSource
<1>4. CASE Describe \/ Play
  BY <1>4 DEF Describe, Play, CreateNewStreamSource, OpenSource
<1>5. CASE RtpStep
  <2>1. CASE NotifyOne
    BY <1>5, <2>1 DEF RtpStep, ServerStill, NotifyOne, Woken
  <2>2. CASE SignalOutput
    BY <1>5, <2>2 DEF RtpStep, ServerStill, SignalOutput
  <2>3. ASSUME NEW b \in Headers, NEW d \in Contents, EmptyBuffer(b, d) PROVE Modes'
    BY <1>5, <2>3 DEF RtpStep, ServerStill, EmptyBuffer
  <2>4. CASE Reader
    <3>1. callback' = callback /\ source' = source
      BY <2>4 DEF Reader, Ask, HandleTrigger, Awake
    <3>2. GetOneNalUnit \/ loop' = "check"
      BY <2>4 DEF Reader, Ask, HandleTrigger, Awake
    <3>3. loop' \in {"check", "asleep"}
      BY <3>2, Delivered
    <3> QED
      BY <1>5, <3>1, <3>3 DEF RtpStep, ServerStill
  <2> QED
    BY <1>5, <2>1, <2>2, <2>3, <2>4 DEF RtpStep, Codec
<1>6. CASE UNCHANGED vars
  BY <1>6 DEF vars
<1> QED
  BY <1>1, <1>2, <1>3, <1>4, <1>5, <1>6 DEF Next

LEMMA NextFlags == Flags /\ [Next]_vars => Flags'
<1> SUFFICES ASSUME Flags, [Next]_vars PROVE Flags'
  OBVIOUS
<1> USE DEF Flags, serverVars, describeVars, rtpVars, sinkVars, sourceVars
<1>15. AddSession => signalled' \in BOOLEAN
  BY DEF AddSession, Push
<1>1. CASE Start
  <2>1. UNCHANGED <<rtpVars, listening, media, describeVars, playing>>
    BY <1>1 DEF Start
  <2>2. stopflag' \in BOOLEAN /\ signalled' \in BOOLEAN
    BY <1>1 DEF Start
  <2> QED
    BY <2>1, <2>2
<1>2. CASE Started
  BY <1>2, <1>15 DEF Started
<1>3. CASE Stop
  BY <1>3 DEF Stop
<1>14. CASE Tick
  BY <1>14 DEF Tick
<1>4. CASE Stopped
  BY <1>4 DEF Stopped, LeaveSource
<1>5. CASE DoRTSP
  BY <1>5 DEF DoRTSP
<1>6. CASE Check
  <2>1. CASE Described
    BY <1>6, <2>1 DEF Check, Described, CloseSource
  <2>2. CASE UNCHANGED <<sinkVars, sourceVars, describeVars>>
    BY <1>6, <2>2 DEF Check
  <2> QED
    BY <1>6, <2>1, <2>2 DEF Check
<1>7. CASE DoSession
  BY <1>7 DEF DoSession
<1>8. CASE CheckSDP
  BY <1>8 DEF CheckSDP, Found
<1>9. CASE Describe
  BY <1>9 DEF Describe, CreateNewStreamSource, OpenSource
<1>10. CASE Play
  BY <1>10 DEF Play, CreateNewStreamSource, OpenSource
<1>11. CASE Teardown
  BY <1>11 DEF Teardown, CloseSource
<1>12. CASE RtpStep
  <2>1. UNCHANGED <<listening, stopflag, signalled, media, nested, sdp, done, timer, playing>>
    BY <1>12 DEF RtpStep, ServerStill
  <2>2. trigger' \in BOOLEAN
    BY <1>12, Zenon DEF RtpStep, Codec, Reader, NotifyOne, SignalOutput, Triggered,
       EmptyBuffer, Ask, HandleTrigger, Awake
  <2>3. GetOneNalUnit => awaiting' \in BOOLEAN /\ seen' \in BOOLEAN
    BY Zenon DEF GetOneNalUnit, Consume
  <2>4. awaiting' \in BOOLEAN /\ seen' \in BOOLEAN
    BY <1>12, <2>3 DEF RtpStep, Codec, Reader, NotifyOne, SignalOutput,
       EmptyBuffer, Ask, HandleTrigger, Awake
  <2> QED
    BY <2>1, <2>2, <2>4
<1>13. CASE UNCHANGED vars
  BY <1>13 DEF vars
<1> QED
  BY <1>1, <1>2, <1>3, <1>4, <1>5, <1>6, <1>7, <1>8, <1>9, <1>10, <1>11, <1>12, <1>13,
     <1>14 DEF Next

LEMMA NextNumbers == Numbers /\ [Next]_vars => Numbers'
<1> SUFFICES ASSUME Numbers, [Next]_vars PROVE Numbers'
  OBVIOUS
<1> USE ServerAssumption DEF Numbers
<1>1. CASE Start
  BY <1>1 DEF Start
<1>2. CASE Started
  BY <1>2 DEF Started, AddSession, Push
<1>3. CASE Stop \/ Check \/ Tick \/ CheckSDP \/ Teardown
  BY <1>3 DEF Stop, Check, Tick, CheckSDP, Teardown, serverVars
<1>4. CASE Stopped \/ DoRTSP
  BY <1>4 DEF Stopped, DoRTSP
<1>5. CASE DoSession
  BY <1>5 DEF DoSession
<1>6. CASE Describe \/ Play
  BY <1>6 DEF Describe, Play, CreateNewStreamSource, serverVars
<1>7. CASE RtpStep
  BY <1>7 DEF RtpStep, ServerStill, serverVars
<1>8. CASE UNCHANGED vars
  BY <1>8 DEF vars, serverVars
<1> QED
  BY <1>1, <1>2, <1>3, <1>4, <1>5, <1>6, <1>7, <1>8 DEF Next

LEMMA InitTypes == Init => SinkInv /\ Modes /\ Flags /\ Numbers
<1> SUFFICES ASSUME Init PROVE SinkInv /\ Modes /\ Flags /\ Numbers
  OBVIOUS
<1>1. Modes /\ Flags /\ Numbers
  <2>1. Modes
    BY DEF Init, RtpInit, Modes
  <2>2. Flags
    BY DEF Init, RtpInit, Flags
  <2>3. Numbers
    BY ServerAssumption DEF Init, RtpInit, Numbers
  <2> QED
    BY <2>1, <2>2, <2>3
<1>2. /\ data = [b \in Headers |-> <<>>] /\ inEnc = {} /\ pending = <<>>
      /\ inUse = NoHeader /\ pendingSize = 0
  BY DEF Init, RtpInit
<1>3. Counts([i \in 0..0 |-> 0], pending, InUseSize(inUse, data), data, pendingSize)
  BY <1>2 DEF Counts, InUseSize
<1>4. SinkCounted
  BY <1>3 DEF SinkCounted
<1>5. SinkTypes /\ SinkPlaces
  BY <1>2 DEF SinkTypes, SinkPlaces
<1> QED
  BY <1>1, <1>4, <1>5 DEF SinkInv

(* The count is positive when there is data.                               *)
LEMMA DataCounted ==
    ASSUME SinkInv, inUse # NoHeader \/ pending # <<>>
    PROVE  0 < pendingSize
<1>1. SinkTypes /\ SinkPlaces
  BY DEF SinkInv
<1>2. PICK S : Counts(S, pending, InUseSize(inUse, data), data, pendingSize)
  BY DEF SinkInv, SinkCounted
<1> DEFINE n == Len(pending)
<1>3. /\ n \in Nat /\ S \in [0..n -> Nat] /\ S[0] = InUseSize(inUse, data)
      /\ pendingSize = S[n]
      /\ \A i \in 1..n : S[i] = S[i - 1] + Len(data[pending[i]])
      /\ \A i, j \in 0..n : i <= j => S[i] <= S[j]
  BY <1>1, <1>2 DEF Counts, SinkTypes
<1> HIDE DEF n
<1>4. \A b \in Headers : data[b] # <<>> => Len(data[b]) \in Nat \ {0}
  BY <1>1, EmptySeq DEF SinkTypes
<1>5. CASE inUse # NoHeader
  <2>1. 0 < S[0]
    BY <1>1, <1>3, <1>4, <1>5 DEF InUseSize, SinkTypes, SinkPlaces
  <2>2. S[0] <= S[n] /\ S[0] \in Nat /\ S[n] \in Nat
    BY <1>3
  <2> QED
    BY <1>3, <2>1, <2>2
<1>6. CASE pending # <<>>
  <2>1. n >= 1 /\ pending[1] \in Headers /\ data[pending[1]] # <<>>
    BY <1>1, <1>6 DEF SinkTypes, SinkPlaces, n
  <2>2. S[1] = S[0] + Len(data[pending[1]]) /\ S[1] <= S[n]
        /\ S[0] \in Nat /\ S[1] \in Nat /\ S[n] \in Nat
    <3>1. 1 \in 1..n /\ 0 \in 0..n /\ 1 \in 0..n /\ n \in 0..n /\ 1 - 1 = 0
      BY <1>3, <2>1
    <3> QED
      BY <1>3, <2>1, <3>1
  <2> QED
    BY <1>3, <1>4, <2>1, <2>2
<1> QED
  BY <1>5, <1>6

(* The sink's bookkeeping and the types, together with Inv.                *)
FullInv == Inv /\ SinkInv /\ Modes /\ Flags /\ Numbers

(* The inductive invariant of the server and the sink.                     *)
THEOREM FullInvariance == Spec => []FullInv
<1>1. Init => FullInv
  BY InitInv, InitTypes DEF FullInv
<1>2. FullInv /\ [Next]_vars => FullInv'
  BY NextInv, NextSinkInv, NextModes, NextFlags, NextNumbers DEF FullInv
<1> QED
  BY <1>1, <1>2, PTL DEF Spec

(* Every variable has its type, whatever the threads do; there is never    *)
(* more than one request in a server's queue, and there are never more     *)
(* event triggers in use than live555 has.                                 *)
THEOREM TypeCorrect == Spec => []TypeOK
<1>1. FullInv => TypeOK
  BY TypeOKParts DEF FullInv, SinkInv
<1> QED
  BY <1>1, FullInvariance, PTL

(* pending_data_size_, which the codec thread adds to and the rtsp thread  *)
(* takes from, is the size of the data in use and queued: never negative,  *)
(* and positive if a header is in use or queued.  No header is queued      *)
(* twice, or while the encoder or getOneNalUnit() has it.                  *)
THEOREM SizeIsCounted == Spec => []SinkInv
<1>1. FullInv => SinkInv
  BY DEF FullInv
<1> QED
  BY <1>1, FullInvariance, PTL

(* A source that was asked for a unit, and can signal, is not left waiting *)
(* in the event loop while a header with data is there, though             *)
(* isReadable() looks at the size without the lock: its trigger is set, or *)
(* emptyBuffer() is about to set it.                                       *)
THEOREM DataIsSignalled == Spec => []DataSignalled
<1>1. FullInv => DataSignalled
  BY DataCounted DEF FullInv, Inv, CountSignalled, DataSignalled
<1> QED
  BY <1>1, FullInvariance, PTL

=============================================================================
