---------------------------- MODULE FileSinkProofs ----------------------------
(***************************************************************************)
(* What is recorded reaches the file, for every number of headers and any  *)
(* length of a session: as long as the sink's headers exist, each is in    *)
(* one place, and the file, the header being written, the queue and the    *)
(* header being delivered are together what the encoder has produced.      *)
(***************************************************************************)
EXTENDS FileSink, SequenceTheorems, FiniteSetTheorems, TLAPS

Flags ==
    /\ opened \in BOOLEAN /\ source \in BOOLEAN /\ ready \in BOOLEAN
    /\ stale \in BOOLEAN /\ fault \in BOOLEAN

Types ==
    /\ pending \in Seq(Headers) /\ file \in Seq(0..MaxData)
    /\ sinkRefs \subseteq {"file", "session"}
    /\ writer \in {"none", "lock", "asleep", "write", "refill", "done"}
    /\ wbuf \in Headers \union {NoHeader} /\ cbuf \in Headers \union {NoHeader}
    /\ data \in [Headers -> 0..MaxData] /\ n \in 0..MaxData
    /\ inEnc \subseteq Headers /\ unsent \subseteq Headers
    /\ enc \in {"idle", "executing", "toidle"}
    /\ cb \in {"idle", "deliver", "notify"}
    /\ main \in {"down", "init", "notify", "join", "open", "execute", "submit", "up",
                 "failed", "toidle", "waitIdle", "free", "release"}

(* An idle encoder has no header and no callback in progress; headers are  *)
(* in hand exactly where the threads' places say so.                       *)
Places ==
    /\ enc = "idle" => inEnc = {} /\ cb = "idle"
    /\ cb = "deliver" <=> cbuf # NoHeader
    /\ writer \in {"write", "refill"} <=> wbuf # NoHeader
    /\ main \in {"down", "init", "notify", "join", "open", "execute", "free", "release"}
         => enc = "idle"
    /\ main = "submit" => enc = "executing"
    /\ main \in {"down", "release"} => unsent = {}
    /\ main \in {"init", "notify", "join", "open", "execute"} => n = 0

(* The writer belongs to a sink that start() left behind or has opened;    *)
(* only a writer that outlives its session has stale headers.              *)
WriterLife ==
    /\ writer = "none" => enc = "idle" /\ pending = <<>> /\ file = <<>>
    /\ writer # "none" => "file" \in sinkRefs
    /\ main \in {"down", "init"} => "session" \notin sinkRefs
    /\ main = "open" => writer = "none"
    /\ main \in {"notify", "join", "execute", "submit"} => writer # "none"
    /\ stale => /\ writer # "none" /\ enc = "idle"
                /\ main \notin {"open", "execute", "submit", "up"}
    /\ main \in {"release", "down", "init", "notify", "join"} /\ ~stale
         => writer = "none"

(* No header is twice in the queue, nor in two places.                     *)
Placed ==
    /\ IsInjective(pending)
    /\ ~stale =>
         /\ \A b \in unsent : b \notin inEnc /\ b # cbuf /\ b # wbuf
         /\ \A b \in inEnc : b # cbuf /\ b # wbuf
         /\ cbuf # NoHeader => cbuf # wbuf
         /\ \A i \in DOMAIN pending :
               pending[i] \notin inEnc \union unsent \union {cbuf, wbuf}

(* What is queued or being written is not empty.                           *)
Filled ==
    ~stale => /\ \A i \in DOMAIN pending : data[pending[i]] # 0
              /\ writer = "write" => data[wbuf] # 0

IInv == Flags /\ Types /\ Places /\ WriterLife /\ Placed /\ Filled /\ NothingLost

-----------------------------------------------------------------------------
LEMMA InitIInv == Init => IInv
<1> SUFFICES ASSUME Init PROVE IInv
  OBVIOUS
<1> USE SinkAssumption DEF Init
<1>1. Flags
  BY Zenon DEF Flags
<1>0. Types
  <2>1. pending \in Seq(Headers) /\ file \in Seq(0..MaxData)
    BY EmptySeq
  <2>2. data \in [Headers -> 0..MaxData] /\ n \in 0..MaxData
    OBVIOUS
  <2> QED
    BY <2>1, <2>2 DEF Types
<1>2. Places /\ WriterLife
  BY DEF Places, WriterLife
<1>3. DOMAIN pending = {}
  OBVIOUS
<1>4. Placed /\ Filled
  BY <1>3 DEF Placed, Filled, IsInjective
<1>5. NothingLost
  <2>1. Queued = <<>>
    BY <1>3 DEF Queued
  <2>2. [i \in 1..n |-> i] = <<>>
    OBVIOUS
  <2> QED
    BY <2>1, <2>2 DEF NothingLost, Inside
<1> QED
  BY <1>0, <1>1, <1>2, <1>4, <1>5 DEF IInv

(* Types: the Boolean variables apart from the others.                     *)
LEMMA NextFlags == IInv /\ [Next]_vars => Flags'
<1> SUFFICES ASSUME IInv, [Next]_vars PROVE Flags'
  OBVIOUS
<1> USE DEF IInv, Flags, sinkVars, writerVars, codecVars, sessVars
<1>1. ASSUME NEW b \in Headers, Fill(b) PROVE Flags'
  BY <1>1, Zenon DEF Fill, FillBufferDone
<1>2. CASE Deliver \/ NotifyWriter \/ EncoderIdle
  BY <1>2, Zenon DEF Deliver, EmptyBuffer, NotifyWriter, EncoderIdle
<1>3. CASE WriterLoop \/ WakeSpuriously \/ Write
  BY <1>3, Zenon DEF WriterLoop, WakeSpuriously, Write
<1>4. CASE Refill \/ WriterFaults
  BY <1>4, Zenon DEF Refill, WriterFaults
<1>5. CASE StartSession \/ NotifyAll \/ Join
  BY <1>5, Zenon DEF StartSession, NotifyAll, Join
<1>6. CASE InitSink
  BY <1>6, Zenon DEF InitSink, CloseLocked
<1>7. CASE OpenSink \/ OpenSinkFails
  BY <1>7, Zenon DEF OpenSink, OpenSinkFails, CloseLocked
<1>8. CASE Execute \/ StartFails
  BY <1>8, Zenon DEF Execute, StartFails
<1>9. ASSUME NEW b \in Headers, Submit(b) PROVE Flags'
  BY <1>9, Zenon DEF Submit
<1>10. CASE StopSession \/ RequestIdle \/ IdleReached
  BY <1>10, Zenon DEF StopSession, RequestIdle, IdleReached
<1>11. CASE FreeHeaders
  <2>1. (writer # "none") \in BOOLEAN
    OBVIOUS
  <2> QED
    BY <1>11, <2>1, Zenon DEF FreeHeaders
<1>12. CASE ReleaseSink
  BY <1>12, Zenon DEF ReleaseSink
<1>13. CASE UNCHANGED vars
  BY <1>13, Zenon DEF vars
<1> QED
  BY <1>1, <1>2, <1>3, <1>4, <1>5, <1>6, <1>7, <1>8, <1>9, <1>10, <1>11, <1>12, <1>13
     DEF Next, CodecNext, WriterNext, Start, Stop

LEMMA NextTypes == IInv /\ [Next]_vars => Types'
<1> SUFFICES ASSUME IInv, [Next]_vars PROVE Types'
  OBVIOUS
<1> USE SinkAssumption DEF IInv, Types, Places, sinkVars, writerVars, codecVars, sessVars
<1>1. ASSUME NEW b \in Headers, Fill(b) PROVE Types'
  <2>1. n < MaxData => n + 1 \in 0..MaxData
    OBVIOUS
  <2>2. ASSUME NEW d \in 0..MaxData, FillBufferDone(b, d) PROVE Types'
    BY <2>2 DEF FillBufferDone
  <2>3. 0 \in 0..MaxData
    OBVIOUS
  <2> QED
    BY <1>1, <2>1, <2>2, <2>3 DEF Fill
<1>2. CASE Deliver
  <2>1. cbuf \in Headers
    BY <1>2 DEF Deliver
  <2>2. Append(pending, cbuf) \in Seq(Headers)
    BY <2>1, AppendProperties
  <2> QED
    BY <1>2, <2>1, <2>2 DEF Deliver, EmptyBuffer
<1>3. CASE NotifyWriter \/ EncoderIdle
  BY <1>3 DEF NotifyWriter, Notified, Woken, EncoderIdle
<1>4. CASE WriterLoop
  <2>1. pending # <<>> => Head(pending) \in Headers /\ Tail(pending) \in Seq(Headers)
    BY HeadTailProperties
  <2> QED
    BY <1>4, <2>1 DEF WriterLoop, DrainOldest
<1>5. CASE WakeSpuriously \/ Refill \/ WriterFaults
  BY <1>5 DEF WakeSpuriously, Refill, WriterFaults
<1>6. CASE Write
  BY <1>6, AppendProperties DEF Write
<1>7. CASE StartSession \/ NotifyAll
  <2>1. [b \in Headers |-> 0] \in [Headers -> 0..MaxData] /\ 0 \in 0..MaxData
    OBVIOUS
  <2> QED
    BY <1>7, <2>1 DEF StartSession, NotifyAll, Woken
<1>8. CASE InitSink
  BY <1>8 DEF InitSink, CloseLocked
<1>9. CASE Join
  BY <1>9 DEF Join
<1>10. CASE OpenSink \/ OpenSinkFails
  BY <1>10 DEF OpenSink, OpenSinkFails, CloseLocked
<1>11. CASE Execute \/ StartFails
  BY <1>11 DEF Execute, StartFails
<1>12. ASSUME NEW b \in Headers, Submit(b) PROVE Types'
  BY <1>12 DEF Submit
<1>13. CASE StopSession \/ RequestIdle \/ IdleReached
  BY <1>13 DEF StopSession, RequestIdle, IdleReached
<1>14. CASE FreeHeaders \/ ReleaseSink
  BY <1>14 DEF FreeHeaders, ReleaseSink
<1>15. CASE UNCHANGED vars
  BY <1>15 DEF vars
<1> QED
  BY <1>1, <1>2, <1>3, <1>4, <1>5, <1>6, <1>7, <1>8, <1>9, <1>10, <1>11, <1>12, <1>13,
     <1>14, <1>15 DEF Next, CodecNext, WriterNext, Start, Stop

(* The threads' places.                                                    *)
LEMMA NextPlaces == IInv /\ [Next]_vars => Places' /\ WriterLife'
<1> SUFFICES ASSUME IInv, [Next]_vars PROVE Places' /\ WriterLife'
  OBVIOUS
<1> USE SinkAssumption
    DEF IInv, Types, Places, WriterLife, sinkVars, writerVars, codecVars, sessVars
<1>1. ASSUME NEW b \in Headers, Fill(b) PROVE Places' /\ WriterLife'
  BY <1>1 DEF Fill, FillBufferDone
<1>2. CASE Deliver
  BY <1>2 DEF Deliver, EmptyBuffer
<1>3. CASE NotifyWriter \/ EncoderIdle
  BY <1>3 DEF NotifyWriter, Notified, Woken, EncoderIdle
<1>4. CASE WriterLoop
  BY <1>4, HeadTailProperties DEF WriterLoop, DrainOldest, LeaveLoop
<1>5. CASE WakeSpuriously \/ Refill \/ WriterFaults
  BY <1>5 DEF WakeSpuriously, Refill, WriterFaults
<1>6. CASE Write
  BY <1>6 DEF Write
<1>7. CASE StartSession \/ NotifyAll
  BY <1>7 DEF StartSession, NotifyAll, Woken
<1>8. CASE InitSink
  <2>1. CASE sinkRefs = {"file"} /\ writer # "none"
    BY <1>8, <2>1 DEF InitSink, CloseLocked
  <2>2. CASE ~(sinkRefs = {"file"} /\ writer # "none")
    BY <1>8, <2>2 DEF InitSink
  <2> QED
    BY <2>1, <2>2
<1>9. CASE Join
  BY <1>9 DEF Join
<1>10. CASE OpenSink \/ OpenSinkFails
  BY <1>10 DEF OpenSink, OpenSinkFails, CloseLocked
<1>11. CASE Execute \/ StartFails
  BY <1>11 DEF Execute, StartFails
<1>12. ASSUME NEW b \in Headers, Submit(b) PROVE Places' /\ WriterLife'
  BY <1>12 DEF Submit
<1>13. CASE StopSession \/ RequestIdle \/ IdleReached
  BY <1>13 DEF StopSession, RequestIdle, IdleReached
<1>14. CASE FreeHeaders
  <2>1. stale' <=> writer # "none"
    BY <1>14 DEF FreeHeaders
  <2>2. Places'
    BY <1>14 DEF FreeHeaders
  <2>3. WriterLife'
    BY <1>14, <2>1 DEF FreeHeaders
  <2> QED
    BY <2>2, <2>3
<1>16. CASE ReleaseSink
  BY <1>16 DEF ReleaseSink
<1>15. CASE UNCHANGED vars
  BY <1>15 DEF vars
<1> QED
  BY <1>1, <1>2, <1>3, <1>4, <1>5, <1>6, <1>7, <1>8, <1>9, <1>10, <1>11, <1>12, <1>13,
     <1>14, <1>15, <1>16 DEF Next, CodecNext, WriterNext, Start, Stop

(* What the steps leave alone that concern neither headers nor the file.   *)
Untouched ==
    /\ UNCHANGED <<pending, file, data, n, wbuf, inEnc, cbuf, unsent, stale>>
    /\ (writer = "write")' <=> writer = "write"
    /\ (cb = "deliver")' <=> cb = "deliver"

LEMMA Steps ==
    ASSUME WriterLife, [Next]_vars
    PROVE  \/ \E b \in Headers : Fill(b) \/ Submit(b)
           \/ Deliver \/ WriterLoop \/ Write \/ Refill
           \/ StartSession \/ Join \/ FreeHeaders
           \/ Untouched
<1> USE DEF Untouched, sinkVars, writerVars, codecVars, sessVars
<1>1. CodecNext => (\E b \in Headers : Fill(b)) \/ Deliver \/ Untouched
  BY DEF CodecNext, NotifyWriter, Notified, Woken, EncoderIdle
<1>2. WriterNext => WriterLoop \/ Write \/ Refill \/ Untouched
  BY DEF WriterNext, WakeSpuriously, WriterFaults
<1>3. Start => \/ StartSession \/ Join \/ Untouched
               \/ \E b \in Headers : Submit(b)
  <2>1. NotifyAll \/ OpenSinkFails \/ Execute \/ StartFails => Untouched
    BY DEF NotifyAll, Woken, OpenSinkFails, CloseLocked, Execute, StartFails
  <2>2. InitSink => Untouched
    BY DEF InitSink, CloseLocked
  <2>3. OpenSink => Untouched
    BY DEF OpenSink, WriterLife
  <2> QED
    BY <2>1, <2>2, <2>3 DEF Start
<1>4. Stop => FreeHeaders \/ Untouched
  BY DEF Stop, StopSession, RequestIdle, IdleReached, ReleaseSink
<1>5. UNCHANGED vars => Untouched
  BY DEF vars
<1> QED
  BY <1>1, <1>2, <1>3, <1>4, <1>5 DEF Next

-----------------------------------------------------------------------------
(* Sequences.                                                              *)

(* Queueing an element behind others.                                      *)
LEMMA AppendFacts ==
    ASSUME NEW S, NEW s \in Seq(S), NEW e \in S
    PROVE  /\ Append(s, e) \in Seq(S)
           /\ DOMAIN s = 1..Len(s) /\ Len(s) \in Nat
           /\ DOMAIN Append(s, e) = 1..(Len(s) + 1)
           /\ \A i \in DOMAIN s : Append(s, e)[i] = s[i]
           /\ Append(s, e)[Len(s) + 1] = e
BY AppendProperties, LenProperties

(* Taking the first element.                                               *)
LEMMA TailFacts ==
    ASSUME NEW S, NEW s \in Seq(S), s # <<>>
    PROVE  /\ Head(s) \in S /\ Tail(s) \in Seq(S)
           /\ Len(s) \in Nat \ {0} /\ DOMAIN s = 1..Len(s)
           /\ DOMAIN Tail(s) = 1..(Len(s) - 1)
           /\ Head(s) = s[1]
           /\ \A i \in DOMAIN Tail(s) : Tail(s)[i] = s[i + 1]
<1>1. /\ Head(s) \in S /\ Tail(s) \in Seq(S)
      /\ Len(Tail(s)) = Len(s) - 1
      /\ \A i \in 1..Len(Tail(s)) : Tail(s)[i] = s[i + 1]
  BY HeadTailProperties
<1>2. Len(s) \in Nat \ {0} /\ DOMAIN s = 1..Len(s) /\ DOMAIN Tail(s) = 1..Len(Tail(s))
  BY <1>1, LenProperties, EmptySeq
<1>3. Head(s) = s[1]
  BY <1>2
<1> QED
  BY <1>1, <1>2, <1>3

(* What the headers of a queue contain.                                    *)
Contents(f, s) == [i \in DOMAIN s |-> f[s[i]]]

LEMMA ContentsSeq ==
    ASSUME NEW f \in [Headers -> Nat], NEW s \in Seq(Headers)
    PROVE  /\ Contents(f, s) \in Seq(Nat)
           /\ Len(Contents(f, s)) = Len(s)
<1>1. DOMAIN s = 1..Len(s) /\ Len(s) \in Nat /\ \A i \in 1..Len(s) : s[i] \in Headers
  BY LenProperties, ElementOfSeq
<1>2. Contents(f, s) \in [1..Len(s) -> Nat]
  BY <1>1 DEF Contents
<1>3. Contents(f, s) \in Seq(Nat)
  BY <1>1, <1>2, SeqDef
<1> QED
  BY <1>1, <1>2, <1>3, LenProperties

LEMMA ContentsAppend ==
    ASSUME NEW f \in [Headers -> Nat], NEW s \in Seq(Headers), NEW b \in Headers
    PROVE  Contents(f, Append(s, b)) = Contents(f, s) \o <<f[b]>>
<1>1. Append(s, b) \in Seq(Headers) /\ f[b] \in Nat
  BY AppendFacts
<1>2. /\ Contents(f, s) \in Seq(Nat) /\ Len(Contents(f, s)) = Len(s)
      /\ Contents(f, Append(s, b)) \in Seq(Nat)
      /\ Len(Contents(f, Append(s, b))) = Len(Append(s, b))
  BY <1>1, ContentsSeq
<1>3. /\ Append(Contents(f, s), f[b]) \in Seq(Nat)
      /\ DOMAIN Contents(f, s) = 1..Len(s)
      /\ \A i \in 1..Len(s) : Append(Contents(f, s), f[b])[i] = f[s[i]]
      /\ Append(Contents(f, s), f[b])[Len(s) + 1] = f[b]
      /\ Len(Append(Contents(f, s), f[b])) = Len(s) + 1
  <2>1. DOMAIN Contents(f, s) = 1..Len(s) /\ \A i \in 1..Len(s) : Contents(f, s)[i] = f[s[i]]
    BY AppendFacts DEF Contents
  <2> QED
    BY <1>1, <1>2, <2>1, AppendProperties
<1>4. /\ Len(Append(s, b)) = Len(s) + 1 /\ Len(s) \in Nat
      /\ \A i \in 1..(Len(s) + 1) :
            Contents(f, Append(s, b))[i] = IF i = Len(s) + 1 THEN f[b] ELSE f[s[i]]
  <2>1. /\ DOMAIN Append(s, b) = 1..(Len(s) + 1) /\ Len(s) \in Nat
        /\ Len(Append(s, b)) = Len(s) + 1
        /\ \A i \in 1..Len(s) : Append(s, b)[i] = s[i]
        /\ Append(s, b)[Len(s) + 1] = b
    BY AppendProperties, LenProperties
  <2> QED
    BY <2>1 DEF Contents
<1>5. Contents(f, Append(s, b)) = Append(Contents(f, s), f[b])
  BY <1>2, <1>3, <1>4, SeqEqual
<1> QED
  BY <1>1, <1>2, <1>5, AppendIsConcat

LEMMA ContentsTail ==
    ASSUME NEW f \in [Headers -> Nat], NEW s \in Seq(Headers), s # <<>>
    PROVE  Contents(f, s) = <<f[Head(s)]>> \o Contents(f, Tail(s))
<1>1. /\ Head(s) \in Headers /\ Tail(s) \in Seq(Headers)
      /\ Len(s) \in Nat \ {0} /\ DOMAIN s = 1..Len(s)
      /\ DOMAIN Tail(s) = 1..(Len(s) - 1) /\ Head(s) = s[1]
      /\ \A i \in 1..(Len(s) - 1) : Tail(s)[i] = s[i + 1]
      /\ Len(Tail(s)) = Len(s) - 1
  BY TailFacts, HeadTailProperties
<1>2. /\ Contents(f, s) \in Seq(Nat) /\ Len(Contents(f, s)) = Len(s)
      /\ Contents(f, Tail(s)) \in Seq(Nat)
      /\ Len(Contents(f, Tail(s))) = Len(s) - 1
  BY <1>1, ContentsSeq
<1>3. <<f[Head(s)]>> \in Seq(Nat) /\ Len(<<f[Head(s)]>>) = 1 /\ <<f[Head(s)]>>[1] = f[Head(s)]
  BY <1>1
<1>4. /\ <<f[Head(s)]>> \o Contents(f, Tail(s)) \in Seq(Nat)
      /\ Len(<<f[Head(s)]>> \o Contents(f, Tail(s))) = 1 + (Len(s) - 1)
      /\ \A i \in 1..(1 + (Len(s) - 1)) :
            (<<f[Head(s)]>> \o Contents(f, Tail(s)))[i] =
                IF i <= 1 THEN <<f[Head(s)]>>[i] ELSE Contents(f, Tail(s))[i - 1]
  BY <1>2, <1>3, ConcatProperties
<1>5. \A i \in 1..Len(s) :
         Contents(f, s)[i] = (<<f[Head(s)]>> \o Contents(f, Tail(s)))[i]
  <2>1. \A i \in 1..Len(s) : Contents(f, s)[i] = f[s[i]]
    BY <1>1 DEF Contents
  <2>2. \A i \in 1..(Len(s) - 1) : Contents(f, Tail(s))[i] = f[s[i + 1]]
    BY <1>1 DEF Contents
  <2>3. ASSUME NEW i \in 1..Len(s)
        PROVE  Contents(f, s)[i] = (<<f[Head(s)]>> \o Contents(f, Tail(s)))[i]
    <3>1. CASE i = 1
      BY <3>1, <1>1, <1>3, <1>4, <2>1
    <3>2. CASE i # 1
      <4>1. i - 1 \in 1..(Len(s) - 1) /\ (i - 1) + 1 = i /\ ~(i <= 1)
            /\ i \in 1..(1 + (Len(s) - 1))
        BY <3>2, <1>1
      <4>2. Contents(f, Tail(s))[i - 1] = f[s[i]]
        BY <4>1, <2>2
      <4> QED
        BY <4>1, <4>2, <1>4, <2>1
    <3> QED
      BY <3>1, <3>2
  <2> QED
    BY <2>3
<1> QED
  <2> DEFINE q == Contents(f, s)
             r == <<f[Head(s)]>> \o Contents(f, Tail(s))
  <2>1. q \in Seq(Nat) /\ Len(q) = Len(s)
    BY <1>2
  <2>2. r \in Seq(Nat) /\ Len(r) = 1 + (Len(s) - 1)
    BY <1>4, Zenon
  <2>3. \A i \in 1..Len(s) : q[i] = r[i]
    BY <1>5, Zenon
  <2> HIDE DEF q, r
  <2>4. Len(q) = Len(r) /\ \A i \in 1..Len(q) : q[i] = r[i]
    BY <1>1, <2>1, <2>2, <2>3
  <2>5. q = r
    BY <2>1, <2>2, <2>4, SeqEqual
  <2> QED
    BY <2>5 DEF q, r

(* The first numbers.                                                      *)
LEMMA CountTo ==
    ASSUME NEW k \in Nat
    PROVE  /\ [i \in 1..k |-> i] \in Seq(Nat)
           /\ [i \in 1..(k + 1) |-> i] = [i \in 1..k |-> i] \o <<k + 1>>
<1>1. /\ [i \in 1..k |-> i] \in Seq(Nat) /\ Len([i \in 1..k |-> i]) = k
      /\ [i \in 1..(k + 1) |-> i] \in Seq(Nat) /\ Len([i \in 1..(k + 1) |-> i]) = k + 1
  <2>1. [i \in 1..k |-> i] \in [1..k -> Nat] /\ [i \in 1..(k + 1) |-> i] \in [1..(k + 1) -> Nat]
    OBVIOUS
  <2>2. [i \in 1..k |-> i] \in Seq(Nat) /\ [i \in 1..(k + 1) |-> i] \in Seq(Nat)
    BY <2>1, SeqDef
  <2> QED
    BY <2>1, <2>2, LenProperties
<1>2. /\ Append([i \in 1..k |-> i], k + 1) \in Seq(Nat)
      /\ Len(Append([i \in 1..k |-> i], k + 1)) = k + 1
      /\ \A j \in 1..k : Append([i \in 1..k |-> i], k + 1)[j] = [i \in 1..k |-> i][j]
      /\ Append([i \in 1..k |-> i], k + 1)[k + 1] = k + 1
  BY <1>1, AppendProperties
<1>3. [i \in 1..(k + 1) |-> i] = Append([i \in 1..k |-> i], k + 1)
  <2>1. \A j \in 1..(k + 1) :
           [i \in 1..(k + 1) |-> i][j] = Append([i \in 1..k |-> i], k + 1)[j]
    BY <1>2
  <2> QED
    BY <1>1, <1>2, <2>1, SeqEqual
<1> QED
  BY <1>1, <1>3, AppendIsConcat

-----------------------------------------------------------------------------
(* A header moves from one place to the next.                              *)
LEMMA NextPlaced == IInv /\ [Next]_vars => Placed'
<1> SUFFICES ASSUME IInv, [Next]_vars PROVE Placed'
  OBVIOUS
<1> USE SinkAssumption
    DEF IInv, Types, Places, WriterLife, Placed, sinkVars, writerVars, codecVars, sessVars
<1>1. ASSUME NEW b \in Headers, Fill(b) PROVE Placed'
  BY <1>1 DEF Fill, FillBufferDone
<1>2. ASSUME NEW b \in Headers, Submit(b) PROVE Placed'
  BY <1>2 DEF Submit
<1>3. CASE Deliver
  <2>1. cbuf \in Headers /\ ~stale
    BY <1>3 DEF Deliver
  <2>2. CASE data[cbuf] = 0
    BY <1>3, <2>1, <2>2 DEF Deliver, EmptyBuffer
  <2>3. CASE data[cbuf] # 0
    <3>1. /\ pending' = Append(pending, cbuf) /\ cbuf' = NoHeader
          /\ UNCHANGED <<inEnc, unsent, wbuf, stale>>
      BY <1>3, <2>3 DEF Deliver, EmptyBuffer
    <3>2. /\ DOMAIN pending = 1..Len(pending) /\ Len(pending) \in Nat
          /\ DOMAIN pending' = 1..(Len(pending) + 1)
          /\ \A i \in DOMAIN pending : pending'[i] = pending[i]
          /\ pending'[Len(pending) + 1] = cbuf
      BY <2>1, <3>1, AppendFacts
    <3>3. \A i \in DOMAIN pending : pending[i] # cbuf /\ pending[i] \in Headers
      BY <2>1, <3>2, ElementOfSeq
    <3>4. IsInjective(pending')
      BY <3>2, <3>3 DEF IsInjective
    <3> QED
      BY <2>1, <3>1, <3>2, <3>3, <3>4
  <2> QED
    BY <2>2, <2>3
<1>4. CASE WriterLoop
  <2>1. CASE UNCHANGED <<pending, wbuf>>
    BY <1>4, <2>1 DEF WriterLoop
  <2>2. CASE pending # <<>> /\ DrainOldest
    <3>1. /\ wbuf' = pending[1] /\ wbuf' \in Headers
          /\ Len(pending) \in Nat \ {0} /\ DOMAIN pending = 1..Len(pending)
          /\ DOMAIN pending' = 1..(Len(pending) - 1)
          /\ \A i \in DOMAIN pending' : pending'[i] = pending[i + 1]
      BY <2>2, TailFacts DEF DrainOldest
    <3>2. UNCHANGED <<inEnc, unsent, cbuf, stale>>
      BY <1>4 DEF WriterLoop
    <3>3. \A i, j \in 1..Len(pending) : pending[i] = pending[j] => i = j
      BY <3>1 DEF IsInjective
    <3>4. IsInjective(pending')
      <4>1. ASSUME NEW i \in DOMAIN pending', NEW j \in DOMAIN pending',
                   pending'[i] = pending'[j]
            PROVE  i = j
        <5>1. i + 1 \in 1..Len(pending) /\ j + 1 \in 1..Len(pending)
          BY <3>1
        <5>2. i + 1 = j + 1
          BY <3>1, <3>3, <4>1, <5>1
        <5> QED
          BY <3>1, <5>2
      <4> QED
        BY <4>1, Zenon DEF IsInjective
    <3>7. ASSUME NEW i \in DOMAIN pending' PROVE pending'[i] # wbuf'
      <4>1. i + 1 \in 1..Len(pending) /\ 1 \in 1..Len(pending) /\ i + 1 # 1
        BY <3>1
      <4> QED
        BY <3>1, <3>3, <4>1
    <3>5. ASSUME ~stale, NEW i \in DOMAIN pending'
          PROVE  pending'[i] \notin inEnc \union unsent \union {cbuf}
      <4>1. i + 1 \in DOMAIN pending /\ pending'[i] = pending[i + 1]
        BY <3>1
      <4> QED
        BY <3>5, <4>1
    <3>6. ~stale => wbuf' \notin inEnc \union unsent \union {cbuf}
      BY <3>1
    <3> QED
      BY <3>2, <3>4, <3>5, <3>6, <3>7
  <2> QED
    BY <1>4, <2>1, <2>2 DEF WriterLoop
<1>5. CASE Write
  BY <1>5 DEF Write
<1>6. CASE Refill
  BY <1>6 DEF Refill
<1>7. CASE StartSession
  <2>1. ~stale => inEnc = {} /\ cbuf = NoHeader /\ wbuf = NoHeader /\ DOMAIN pending = {}
    BY <1>7 DEF StartSession
  <2> QED
    BY <1>7, <2>1 DEF StartSession
<1>8. CASE Join
  <2>1. DOMAIN pending' = {}
    BY <1>8 DEF Join
  <2>2. inEnc' = {} /\ cbuf' = NoHeader /\ wbuf' = NoHeader /\ unsent' \subseteq Headers
    BY <1>8 DEF Join
  <2>3. IsInjective(pending')
    BY <2>1, Zenon DEF IsInjective
  <2> QED
    BY <2>1, <2>2, <2>3
<1>9. CASE FreeHeaders
  <2>1. ~stale' => ~stale
    BY <1>9 DEF FreeHeaders
  <2>2. unsent' = {} /\ UNCHANGED <<pending, inEnc, cbuf, wbuf>>
    BY <1>9 DEF FreeHeaders
  <2> QED
    BY <2>1, <2>2
<1>10. CASE Untouched
  BY <1>10 DEF Untouched
<1> QED
  BY <1>1, <1>2, <1>3, <1>4, <1>5, <1>6, <1>7, <1>8, <1>9, <1>10, Steps

(* Only a header with data is queued, and none is filled while it is.      *)
LEMMA NextFilled == IInv /\ [Next]_vars => Filled'
<1> SUFFICES ASSUME IInv, [Next]_vars PROVE Filled'
  OBVIOUS
<1> USE SinkAssumption
    DEF IInv, Types, Places, WriterLife, Placed, Filled, sinkVars, writerVars, codecVars,
        sessVars
<1>1. ASSUME NEW b \in Headers, Fill(b) PROVE Filled'
  <2>1. ~stale /\ b \in inEnc /\ UNCHANGED <<pending, writer, wbuf>>
    BY <1>1 DEF Fill, FillBufferDone
  <2>2. ASSUME NEW h \in Headers, h # b PROVE data'[h] = data[h]
    BY <1>1, <2>2 DEF Fill, FillBufferDone
  <2>3. \A i \in DOMAIN pending : pending[i] \in Headers /\ pending[i] # b
    BY <2>1, ElementOfSeq, LenProperties
  <2>4. writer = "write" => wbuf \in Headers /\ wbuf # b
    BY <2>1
  <2> QED
    BY <2>1, <2>2, <2>3, <2>4
<1>2. ASSUME NEW b \in Headers, Submit(b) PROVE Filled'
  BY <1>2 DEF Submit
<1>3. CASE Deliver
  <2>1. cbuf \in Headers /\ ~stale /\ UNCHANGED <<data, writer, wbuf, stale>>
    BY <1>3 DEF Deliver
  <2>2. CASE data[cbuf] = 0
    BY <1>3, <2>1, <2>2 DEF Deliver, EmptyBuffer
  <2>3. CASE data[cbuf] # 0
    <3>1. pending' = Append(pending, cbuf)
      BY <1>3, <2>3 DEF Deliver, EmptyBuffer
    <3>2. /\ DOMAIN pending = 1..Len(pending) /\ Len(pending) \in Nat
          /\ DOMAIN pending' = 1..(Len(pending) + 1)
          /\ \A i \in DOMAIN pending : pending'[i] = pending[i]
          /\ pending'[Len(pending) + 1] = cbuf
      BY <2>1, <3>1, AppendFacts
    <3> QED
      BY <2>1, <2>3, <3>2
  <2> QED
    BY <2>2, <2>3
<1>4. CASE WriterLoop
  <2>1. CASE UNCHANGED <<pending, wbuf>> /\ writer' # "write"
    BY <1>4, <2>1 DEF WriterLoop
  <2>2. CASE pending # <<>> /\ DrainOldest
    <3>1. /\ wbuf' = pending[1]
          /\ Len(pending) \in Nat \ {0} /\ DOMAIN pending = 1..Len(pending)
          /\ DOMAIN pending' = 1..(Len(pending) - 1)
          /\ \A i \in DOMAIN pending' : pending'[i] = pending[i + 1]
      BY <2>2, TailFacts DEF DrainOldest
    <3>2. UNCHANGED <<data, stale>>
      BY <1>4 DEF WriterLoop
    <3>3. ASSUME ~stale, NEW i \in DOMAIN pending' PROVE data[pending'[i]] # 0
      <4>1. i + 1 \in DOMAIN pending /\ pending'[i] = pending[i + 1]
        BY <3>1
      <4> QED
        BY <3>3, <4>1
    <3>4. ~stale => data[wbuf'] # 0
      BY <3>1
    <3> QED
      BY <3>2, <3>3, <3>4
  <2> QED
    BY <1>4, <2>1, <2>2 DEF WriterLoop
<1>5. CASE Write
  BY <1>5 DEF Write
<1>6. CASE Refill
  BY <1>6 DEF Refill
<1>7. CASE StartSession
  <2>1. ~stale => DOMAIN pending = {} /\ writer = "none"
    BY <1>7 DEF StartSession
  <2>2. UNCHANGED <<pending, writer, stale>>
    BY <1>7 DEF StartSession
  <2> QED
    BY <2>1, <2>2
<1>8. CASE Join
  <2>1. DOMAIN pending' = {} /\ writer' = "none"
    BY <1>8 DEF Join
  <2> QED
    BY <2>1
<1>9. CASE FreeHeaders
  <2>1. ~stale' => ~stale
    BY <1>9 DEF FreeHeaders
  <2>2. UNCHANGED <<pending, data, writer, wbuf>>
    BY <1>9 DEF FreeHeaders
  <2> QED
    BY <2>1, <2>2
<1>10. CASE Untouched
  BY <1>10 DEF Untouched
<1> QED
  BY <1>1, <1>2, <1>3, <1>4, <1>5, <1>6, <1>7, <1>8, <1>9, <1>10, Steps

-----------------------------------------------------------------------------
(* The four pieces of what the encoder has produced.                       *)
InWriter == Inside(writer = "write", wbuf)
InCallback == Inside(cb = "deliver", cbuf)

LEMMA Pieces ==
    ASSUME Types, Places
    PROVE  /\ file \in Seq(Nat) /\ InWriter \in Seq(Nat)
           /\ Queued = Contents(data, pending) /\ Queued \in Seq(Nat)
           /\ InCallback \in Seq(Nat)
           /\ data \in [Headers -> Nat]
<1> USE SinkAssumption
<1>1. data \in [Headers -> Nat]
  BY DEF Types
<1>2. 0..MaxData \subseteq Nat
  OBVIOUS
<1>3. file \in Seq(Nat)
  BY <1>2, SeqMonotonic DEF Types
<1>4. Queued = Contents(data, pending) /\ Queued \in Seq(Nat)
  BY <1>1, ContentsSeq DEF Types, Queued, Contents
<1>5. <<>> \in Seq(Nat)
  BY EmptySeq
<1>6. InWriter \in Seq(Nat)
  <2>1. writer = "write" => data[wbuf] \in Nat
    BY <1>1 DEF Types, Places
  <2> QED
    BY <1>5, <2>1 DEF InWriter, Inside
<1>7. InCallback \in Seq(Nat)
  <2>1. cb = "deliver" => data[cbuf] \in Nat
    BY <1>1 DEF Types, Places
  <2> QED
    BY <1>5, <2>1 DEF InCallback, Inside
<1> QED
  BY <1>1, <1>3, <1>4, <1>6, <1>7

LEMMA Associative ==
    \A a, b, c \in Seq(Nat) : (a \o b) \o c = a \o (b \o c)
BY ConcatAssociative

(* Data moves from the callback to the queue, to the writer, to the file.  *)
LEMMA NextNothingLost == IInv /\ [Next]_vars => NothingLost'
<1> SUFFICES ASSUME IInv, [Next]_vars, ~stale' PROVE NothingLost'
  BY DEF NothingLost
<1> DEFINE all == [i \in 1..n |-> i]
<1>a. Types /\ Types' /\ Places /\ Places' /\ WriterLife /\ WriterLife' /\ Placed /\ Filled
  BY NextTypes, NextPlaces DEF IInv
<1>b. /\ file \in Seq(Nat) /\ InWriter \in Seq(Nat) /\ InCallback \in Seq(Nat)
      /\ Queued = Contents(data, pending) /\ Queued \in Seq(Nat)
      /\ data \in [Headers -> Nat]
  BY <1>a, Pieces
<1>c. Queued' = [i \in DOMAIN pending' |-> data'[pending'[i]]]
  BY DEF Queued
<1>d. ~stale => ((file \o InWriter) \o Queued) \o InCallback = all
  BY DEF IInv, NothingLost, InWriter, InCallback
<1>e. SUFFICES ((file \o InWriter) \o Queued)' \o InCallback' = all'
  BY DEF NothingLost, InWriter, InCallback
<1>f. <<>> \in Seq(Nat)
  BY EmptySeq
<1>g. (file \o InWriter) \in Seq(Nat) /\ (file \o InWriter) \o Queued \in Seq(Nat)
  BY <1>b, ConcatProperties
(* A step that leaves every piece as it is.                                *)
<1>h. ASSUME ~stale, UNCHANGED <<file, n>>, InWriter' = InWriter, Queued' = Queued,
             InCallback' = InCallback
      PROVE  ((file \o InWriter) \o Queued)' \o InCallback' = all'
  BY <1>d, <1>h
(* Every piece is empty, and so is what the session has produced.          *)
<1>i. ASSUME file' = <<>>, InWriter' = <<>>, DOMAIN pending' = {}, InCallback' = <<>>,
             n' = 0
      PROVE  ((file \o InWriter) \o Queued)' \o InCallback' = all'
  <2>1. Queued' = <<>>
    BY <1>i, <1>c
  <2>2. all' = <<>>
    BY <1>i
  <2> QED
    BY <1>i, <1>f, <2>1, <2>2, ConcatEmptySeq
<1>1. ASSUME NEW b \in Headers, Fill(b)
      PROVE  ((file \o InWriter) \o Queued)' \o InCallback' = all'
  <2>1. /\ ~stale /\ b \in inEnc /\ cb = "idle" /\ n \in Nat
        /\ UNCHANGED <<file, pending, writer, wbuf>>
    BY <1>1, <1>a DEF Fill, FillBufferDone, Types, WriterLife, sinkVars, writerVars
  <2>2. ASSUME NEW h \in Headers, h # b PROVE data'[h] = data[h]
    BY <1>1, <2>2, <1>b DEF Fill, FillBufferDone
  <2>3. InWriter' = InWriter
    <3>1. writer = "write" => wbuf \in Headers /\ wbuf # b
      BY <2>1, <1>a DEF Types, Places, Placed
    <3> QED
      BY <2>1, <2>2, <3>1 DEF InWriter, Inside
  <2>4. Queued' = Queued
    <3>1. \A i \in DOMAIN pending : pending[i] \in Headers /\ pending[i] # b
      BY <2>1, <1>a, ElementOfSeq, LenProperties DEF Types, Placed
    <3> QED
      BY <2>1, <2>2, <3>1, <1>b, <1>c DEF Contents
  <2>5. InCallback = <<>>
    BY <2>1 DEF InCallback, Inside
  <2>6. ((file \o InWriter) \o Queued)' = (file \o InWriter) \o Queued
    BY <2>1, <2>3, <2>4
  <2>7. (file \o InWriter) \o Queued = all
    BY <1>d, <1>g, <2>1, <2>5, ConcatEmptySeq
  <2>8. CASE cb' = "deliver" /\ cbuf' = b /\ data'[b] = n + 1 /\ n' = n + 1
    <3>1. InCallback' = <<n + 1>>
      BY <2>1, <2>8 DEF InCallback, Inside
    <3>2. all' = all \o <<n + 1>>
      BY <2>1, <2>8, CountTo
    <3> QED
      BY <2>6, <2>7, <3>1, <3>2
  <2>9. CASE (cb' # "deliver" \/ (cbuf' = b /\ data'[b] = 0)) /\ n' = n
    <3>1. InCallback' = <<>>
      BY <2>9 DEF InCallback, Inside
    <3> QED
      BY <1>h, <2>1, <2>3, <2>4, <2>5, <2>9, <3>1
  <2>10. \/ cb' = "deliver" /\ cbuf' = b /\ data'[b] = n + 1 /\ n' = n + 1
         \/ (cb' # "deliver" \/ (cbuf' = b /\ data'[b] = 0)) /\ n' = n
    <3>1. ASSUME NEW d \in Nat, FillBufferDone(b, d)
          PROVE  \/ cb' = "deliver" /\ cbuf' = b /\ data'[b] = d
                    /\ n' = IF d = 0 THEN n ELSE d
                 \/ cb' = "idle" /\ n' = n
      BY <3>1, <1>b DEF FillBufferDone
    <3>2. n + 1 \in Nat /\ n + 1 # 0 /\ 0 \in Nat
      BY <2>1
    <3>3. CASE FillBufferDone(b, n + 1)
      BY <3>1, <3>2, <3>3
    <3>4. CASE FillBufferDone(b, 0)
      BY <3>1, <3>2, <3>4
    <3> QED
      BY <1>1, <3>3, <3>4 DEF Fill
  <2> QED
    BY <2>8, <2>9, <2>10
<1>2. ASSUME NEW b \in Headers, Submit(b)
      PROVE  ((file \o InWriter) \o Queued)' \o InCallback' = all'
  <2>1. UNCHANGED <<file, pending, writer, wbuf, data, n, cb, cbuf, stale>>
    BY <1>2 DEF Submit, sinkVars, writerVars
  <2> QED
    BY <2>1, <1>h DEF InWriter, InCallback, Inside, Queued
<1>3. CASE Deliver
  <2>1. /\ cb = "deliver" /\ cb' # "deliver" /\ cbuf \in Headers /\ ~stale
        /\ UNCHANGED <<file, writer, wbuf, data, n>>
    BY <1>3, <1>a DEF Deliver, EmptyBuffer, writerVars, sessVars, Types, Places
  <2>2. InWriter' = InWriter /\ InCallback' = <<>>
    BY <2>1 DEF InWriter, InCallback, Inside
  <2>3. CASE data[cbuf] = 0
    <3>1. InCallback = <<>>
      BY <2>3 DEF InCallback, Inside
    <3>2. Queued' = Queued
      BY <1>3, <2>1, <2>3 DEF Deliver, EmptyBuffer, Queued
    <3> QED
      BY <1>h, <2>1, <2>2, <3>1, <3>2
  <2>4. CASE data[cbuf] # 0
    <3>1. InCallback = <<data[cbuf]>>
      BY <2>1, <2>4 DEF InCallback, Inside
    <3>2. pending' = Append(pending, cbuf)
      BY <1>3, <2>4 DEF Deliver, EmptyBuffer
    <3>3. Queued' = Queued \o InCallback
      <4>1. pending \in Seq(Headers) /\ cbuf \in Headers
        BY <1>a, <2>1 DEF Types
      <4>2. Contents(data, Append(pending, cbuf)) = Contents(data, pending) \o <<data[cbuf]>>
        BY <1>b, <4>1, ContentsAppend
      <4>3. Queued' = Contents(data, Append(pending, cbuf))
        BY <1>c, <2>1, <3>2 DEF Contents
      <4> QED
        BY <1>b, <3>1, <4>2, <4>3
    <3>4. (file \o InWriter)' = file \o InWriter
      BY <2>1, <2>2
    <3>5. (file \o InWriter) \o (Queued \o InCallback) = all
      <4>1. ((file \o InWriter) \o Queued) \o InCallback
              = (file \o InWriter) \o (Queued \o InCallback)
        <5> DEFINE written == file \o InWriter
        <5>1. written \in Seq(Nat) /\ Queued \in Seq(Nat) /\ InCallback \in Seq(Nat)
          BY <1>b, <1>g
        <5> HIDE DEF written
        <5>2. (written \o Queued) \o InCallback = written \o (Queued \o InCallback)
          BY <5>1, Associative
        <5> QED
          BY <5>2 DEF written
      <4> QED
        BY <1>d, <2>1, <4>1, Zenon
    <3>6. all \in Seq(Nat) /\ all' = all
      BY <2>1, <1>a, CountTo DEF Types
    <3> QED
      BY <2>2, <3>3, <3>4, <3>5, <3>6, ConcatEmptySeq
  <2> QED
    BY <2>3, <2>4
<1>4. CASE WriterLoop
  <2>1. /\ UNCHANGED <<file, data, n, cb, cbuf, stale>> /\ writer = "lock"
    BY <1>4 DEF WriterLoop, codecVars, sessVars
  <2>2. InWriter = <<>> /\ InCallback' = InCallback
    BY <2>1 DEF InWriter, InCallback, Inside
  <2>3. CASE UNCHANGED <<pending, wbuf>> /\ writer' # "write"
    <3>1. InWriter' = <<>> /\ Queued' = Queued
      BY <2>1, <2>3 DEF InWriter, Inside, Queued
    <3> QED
      BY <1>h, <2>1, <2>2, <3>1
  <2>4. CASE pending # <<>> /\ DrainOldest /\ writer' = "write"
    <3>1. /\ wbuf' = Head(pending) /\ pending' = Tail(pending)
          /\ Head(pending) \in Headers /\ Head(pending) = pending[1]
          /\ 1 \in DOMAIN pending
      BY <2>4, <1>a, TailFacts DEF DrainOldest, Types
    <3>2. data[Head(pending)] # 0
      BY <2>1, <3>1, <1>a DEF Filled
    <3>3. InWriter' = <<data[Head(pending)]>>
      BY <2>1, <2>4, <3>1, <3>2 DEF InWriter, Inside
    <3>4. Queued = InWriter' \o Queued'
      <4>1. pending \in Seq(Headers) /\ pending # <<>>
        BY <1>a, <2>4 DEF Types
      <4>2. Contents(data, pending)
              = <<data[Head(pending)]>> \o Contents(data, Tail(pending))
        BY <1>b, <4>1, ContentsTail, Zenon
      <4>3. Queued' = Contents(data, Tail(pending))
        BY <1>c, <2>1, <3>1 DEF Contents
      <4> QED
        BY <1>b, <3>3, <4>2, <4>3
    <3>5. InWriter' \in Seq(Nat) /\ Queued' \in Seq(Nat)
      <4>1. data[Head(pending)] \in Nat
        BY <1>b, <3>1
      <4>2. Contents(data, Tail(pending)) \in Seq(Nat)
        BY <1>a, <1>b, <2>4, TailFacts, ContentsSeq DEF Types
      <4>3. Queued' = Contents(data, Tail(pending))
        BY <1>c, <2>1, <3>1 DEF Contents
      <4> QED
        BY <3>3, <4>1, <4>2, <4>3
    <3>6. (file \o InWriter) \o Queued = (file \o InWriter') \o Queued'
      <4>1. file \o InWriter = file
        BY <1>b, <2>2, ConcatEmptySeq
      <4> DEFINE first == InWriter'
                 others == Queued'
      <4>2. file \in Seq(Nat) /\ first \in Seq(Nat) /\ others \in Seq(Nat)
        BY <1>b, <3>5
      <4>3. Queued = first \o others
        BY <3>4
      <4> HIDE DEF first, others
      <4>4. (file \o first) \o others = file \o (first \o others)
        BY <4>2, Associative
      <4>5. (file \o InWriter) \o Queued = (file \o first) \o others
        BY <4>1, <4>3, <4>4
      <4> QED
        BY <4>5 DEF first, others
    <3>7. InCallback = InCallback' /\ all' = all /\ file' = file
      BY <2>1, <2>2
    <3>8. ((file \o InWriter) \o Queued)' = (file \o InWriter) \o Queued
      BY <3>6, <3>7
    <3>9. ((file \o InWriter) \o Queued) \o InCallback = all
      BY <1>d, <2>1
    <3> QED
      BY <3>7, <3>8, <3>9
  <2> QED
    BY <1>4, <2>3, <2>4 DEF WriterLoop
<1>5. CASE Write
  <2>1. /\ UNCHANGED <<pending, data, n, cb, cbuf, wbuf, stale>>
        /\ writer = "write" /\ writer' = "refill"
    BY <1>5 DEF Write, codecVars, sessVars
  <2>2. /\ InWriter' = <<>> /\ InCallback' = InCallback /\ Queued' = Queued
    BY <2>1 DEF InWriter, InCallback, Inside, Queued
  <2>3. wbuf \in Headers /\ data[wbuf] \in Nat /\ data[wbuf] # 0
    BY <1>a, <1>b, <2>1 DEF Types, Places, Filled
  <2>4. InWriter = <<data[wbuf]>>
    BY <2>1, <2>3 DEF InWriter, Inside
  <2>5. file' = Append(file, data[wbuf])
    BY <1>5, <2>1 DEF Write
  <2>6. file' = file \o InWriter
    BY <1>b, <2>3, <2>4, <2>5, AppendIsConcat
  <2>7. file' \o InWriter' = file \o InWriter
    BY <1>g, <2>2, <2>6, ConcatEmptySeq
  <2> QED
    BY <1>d, <2>1, <2>2, <2>7
<1>6. CASE Refill
  <2>1. UNCHANGED <<file, pending, data, n, cb, cbuf, stale>>
        /\ writer # "write" /\ writer' # "write"
    BY <1>6 DEF Refill, sinkVars, sessVars
  <2>2. InWriter' = InWriter /\ InCallback' = InCallback /\ Queued' = Queued
    BY <2>1 DEF InWriter, InCallback, Inside, Queued
  <2> QED
    BY <1>h, <2>1, <2>2
<1>7. CASE StartSession
  <2>1. /\ UNCHANGED <<file, pending, writer, cb, stale>> /\ n' = 0
        /\ main = "down"
    BY <1>7 DEF StartSession, sinkVars, writerVars
  <2>2. writer = "none" /\ cb = "idle" /\ pending = <<>> /\ file = <<>>
    BY <1>a, <2>1 DEF WriterLife, Places
  <2> QED
    BY <1>i, <2>1, <2>2 DEF InWriter, InCallback, Inside
<1>8. CASE Join
  <2>1. /\ pending' = <<>> /\ file' = <<>> /\ writer' = "none"
        /\ UNCHANGED <<cb, n>> /\ main = "join"
    BY <1>8 DEF Join, codecVars
  <2>2. cb = "idle" /\ n = 0
    BY <1>a, <2>1 DEF Places
  <2> QED
    BY <1>i, <2>1, <2>2 DEF InWriter, InCallback, Inside
<1>9. CASE FreeHeaders
  <2>1. ~stale /\ UNCHANGED <<file, pending, data, n, cb, cbuf, wbuf, writer>>
    BY <1>9, <1>a DEF FreeHeaders, WriterLife, sinkVars, writerVars, codecVars
  <2> QED
    BY <1>h, <2>1 DEF InWriter, InCallback, Inside, Queued
<1>10. CASE Untouched
  <2>1. /\ UNCHANGED <<file, pending, data, n, cbuf, wbuf, stale>>
        /\ (writer = "write")' <=> writer = "write"
        /\ (cb = "deliver")' <=> cb = "deliver"
    BY <1>10 DEF Untouched
  <2>2. InWriter' = InWriter /\ InCallback' = InCallback /\ Queued' = Queued
    BY <2>1 DEF InWriter, InCallback, Inside, Queued
  <2> QED
    BY <1>h, <2>1, <2>2
<1> QED
  BY <1>a, <1>1, <1>2, <1>3, <1>4, <1>5, <1>6, <1>7, <1>8, <1>9, <1>10, Steps

LEMMA NextIInv == IInv /\ [Next]_vars => IInv'
BY NextFlags, NextTypes, NextPlaces, NextPlaced, NextFilled, NextNothingLost DEF IInv

-----------------------------------------------------------------------------
(* The inductive invariant the results below are read off from.            *)
THEOREM Invariance == Spec => []IInv
BY InitIInv, NextIInv, PTL DEF Spec

(* A set whose elements are all the same.                                  *)
LEMMA AtMostOne ==
    ASSUME NEW S, \A v, w \in S : v = w
    PROVE  Cardinality(S) <= 1
<1>1. CASE S = {}
  BY <1>1, FS_EmptySet
<1>2. CASE S # {}
  <2>1. PICK v \in S : TRUE
    BY <1>2
  <2>2. S = {v}
    BY <2>1
  <2> QED
    BY <2>2, FS_Singleton
<1> QED
  BY <1>1, <1>2

(* A queue that holds nothing twice.                                       *)
LEMMA QueueSize ==
    ASSUME NEW s \in Seq(Headers), IsInjective(s)
    PROVE  /\ Cardinality(ToSet(s)) = Len(s)
           /\ Len(s) <= Cardinality(Headers)
<1>1. /\ Len(s) \in Nat /\ DOMAIN s = 1..Len(s) /\ s \in [1..Len(s) -> Headers]
  BY LenProperties
<1>2. ToSet(s) \subseteq Headers
  BY <1>1 DEF ToSet
<1>3. s \in [1..Len(s) -> ToSet(s)]
  BY <1>1 DEF ToSet
<1>4. s \in Surjection(1..Len(s), ToSet(s))
  BY <1>1, <1>3 DEF Surjection, ToSet
<1>5. s \in Injection(1..Len(s), ToSet(s))
  BY <1>1, <1>3 DEF Injection, IsInjective
<1>6. IsFiniteSet(1..Len(s)) /\ Cardinality(1..Len(s)) = Len(s)
  BY <1>1, FS_Interval
<1>7. Cardinality(ToSet(s)) = Len(s)
  BY <1>4, <1>5, <1>6, FS_Surjection
<1>8. Cardinality(ToSet(s)) <= Cardinality(Headers)
  BY <1>2, SinkAssumption, FS_Subset
<1> QED
  BY <1>7, <1>8

(* Types, and the queue never has more headers than there are.             *)
THEOREM TypeCorrect == Spec => []TypeOK
<1>1. IInv => TypeOK
  <2> SUFFICES ASSUME IInv PROVE TypeOK
    OBVIOUS
  <2>1. {opened, source, ready, stale, fault} \subseteq BOOLEAN
    BY DEF IInv, Flags
  <2>2. pending \in Seq(Headers) /\ Len(pending) <= Cardinality(Headers)
    BY QueueSize DEF IInv, Types, Placed
  <2> QED
    BY <2>1, <2>2 DEF IInv, Types, TypeOK
<1> QED
  BY <1>1, Invariance, PTL

(* No header is in two places: what the writer reads without the lock      *)
(* nobody writes to.                                                       *)
THEOREM HeadersOwnedOnce == Spec => []OneOwner
<1>1. IInv => OneOwner
  <2> SUFFICES ASSUME IInv, ~stale PROVE OneOwner
    BY DEF OneOwner
  <2>1. Cardinality(ToSet(pending)) = Len(pending)
    BY QueueSize DEF IInv, Types, Placed
  <2>2. ASSUME NEW b \in Headers
        PROVE  Cardinality({w \in {"encoder", "callback", "queue", "writer", "start"} :
                   \/ w = "encoder" /\ b \in inEnc
                   \/ w = "callback" /\ b = cbuf
                   \/ w = "queue" /\ b \in ToSet(pending)
                   \/ w = "writer" /\ b = wbuf
                   \/ w = "start" /\ b \in unsent}) <= 1
    <3>1. b # NoHeader
      BY SinkAssumption
    <3>2. b \in ToSet(pending) => b \notin inEnc \union unsent \union {cbuf, wbuf}
      BY DEF IInv, Placed, ToSet
    <3>3. b \in unsent => b \notin inEnc /\ b # cbuf /\ b # wbuf
      BY DEF IInv, Placed
    <3>4. b \in inEnc => b # cbuf /\ b # wbuf
      BY DEF IInv, Placed
    <3>5. b = cbuf => b # wbuf
      BY <3>1 DEF IInv, Placed
    <3> DEFINE places == {w \in {"encoder", "callback", "queue", "writer", "start"} :
                   \/ w = "encoder" /\ b \in inEnc
                   \/ w = "callback" /\ b = cbuf
                   \/ w = "queue" /\ b \in ToSet(pending)
                   \/ w = "writer" /\ b = wbuf
                   \/ w = "start" /\ b \in unsent}
    <3>6. \A v, w \in places : v = w
      BY <3>2, <3>3, <3>4, <3>5
    <3> QED
      BY <3>6, AtMostOne
  <2> QED
    BY <2>1, <2>2 DEF OneOwner
<1> QED
  BY <1>1, Invariance, PTL

(* While its headers exist, the recording has no gap, nothing twice and    *)
(* nothing out of order, wherever the three threads are.                   *)
THEOREM RecordingComplete == Spec => []NothingLost
<1>1. IInv => NothingLost
  BY DEF IInv
<1> QED
  BY <1>1, Invariance, PTL
=============================================================================
