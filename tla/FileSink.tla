------------------------------- MODULE FileSink -------------------------------
(***************************************************************************)
(* The recording's way to the file: OmxFileSink and FileComponent          *)
(* (omx/file_component.cpp), the FillBufferDone callback and the part of   *)
(* VSession's start() and stop() that concerns them (qcamvid_session.cpp). *)
(*                                                                         *)
(*   codec thread    fills a header and calls back: emptyBuffer() queues   *)
(*                   it, or hands it back at once when it is empty         *)
(*   writer thread   doWrite(): takes a header off the queue under lock_,  *)
(*                   and without it writes the data and hands it back      *)
(*   session thread  start(), stop(), and start() again                    *)
(*                                                                         *)
(* What is in a header is the number of the data in the encoder's output,  *)
(* 0 for none; the file is the sequence of the numbers written.            *)
(***************************************************************************)
EXTENDS Naturals, Sequences, FiniteSets, SequencesExt

CONSTANTS Headers,   \* output buffer headers (ENCODER_OUTPUT_BUF_COUNT)
          NoHeader,
          MaxData    \* bound: data the encoder produces in one session

ASSUME SinkAssumption ==
    IsFiniteSet(Headers) /\ NoHeader \notin Headers /\ MaxData \in Nat

VARIABLES
    opened, source,  \* opened_, and whether source_ is set
    pending,         \* pending_
    writer, wbuf,    \* where doWrite() is, and the header it drains
    file,            \* what fs_ has written
    sinkRefs,        \* who refers to the sink: "file" (sink_), "session"
    data,            \* what each header contains
    n,               \* data handed to the sink in this session
    inEnc, enc,      \* the encoder's headers and its state
    cb, cbuf,        \* where the codec's callback is, and its header
    ready,           \* VSession::ready_
    unsent,          \* headers start() has still to submit
    stale,           \* the sink's headers were freed by stop()
    main,            \* where start() or stop() is
    fault            \* the process died of an invalid pointer

sinkVars == <<opened, source, pending, file, sinkRefs>>
writerVars == <<writer, wbuf>>
codecVars == <<data, n, inEnc, enc, cb, cbuf>>
sessVars == <<ready, unsent, stale, main>>
vars == <<sinkVars, writerVars, codecVars, sessVars, fault>>

(* Types, and that the queue never has more headers than there are.       *)
TypeOK ==
    /\ {opened, source, ready, stale, fault} \subseteq BOOLEAN
    /\ pending \in Seq(Headers) /\ Len(pending) <= Cardinality(Headers)
    /\ file \in Seq(0..MaxData)
    /\ sinkRefs \subseteq {"file", "session"}
    /\ writer \in {"none", "lock", "asleep", "write", "refill", "done"}
    /\ wbuf \in Headers \union {NoHeader} /\ cbuf \in Headers \union {NoHeader}
    /\ data \in [Headers -> 0..MaxData] /\ n \in 0..MaxData
    /\ inEnc \subseteq Headers /\ unsent \subseteq Headers
    /\ enc \in {"idle", "executing", "toidle"}
    /\ cb \in {"idle", "deliver", "notify"}
    /\ main \in {"down", "init", "notify", "join", "open", "execute", "submit", "up",
                 "failed", "toidle", "waitIdle", "free", "release"}

Init ==
    /\ opened = FALSE /\ source = FALSE /\ pending = <<>> /\ file = <<>> /\ sinkRefs = {}
    /\ writer = "none" /\ wbuf = NoHeader
    /\ data = [b \in Headers |-> 0] /\ n = 0 /\ inEnc = {} /\ enc = "idle"
    /\ cb = "idle" /\ cbuf = NoHeader
    /\ ready = FALSE /\ unsent = {} /\ stale = FALSE /\ main = "down" /\ fault = FALSE

-----------------------------------------------------------------------------
(* codec thread *)

(* FillDoneCallback: the sink gets the header while the session is ready.  *)
FillBufferDone(b, d) ==
    /\ cb = "idle" /\ b \in inEnc
    /\ inEnc' = inEnc \ {b}
    /\ IF ready THEN /\ cb' = "deliver" /\ cbuf' = b
                     /\ data' = [data EXCEPT ![b] = d]
                     /\ n' = IF d = 0 THEN n ELSE d
                ELSE UNCHANGED <<cb, cbuf, data, n>>
    /\ UNCHANGED <<sinkVars, writerVars, enc, sessVars, fault>>

(* The encoder fills headers in any order, with the next data or nothing.  *)
Fill(b) ==
    \/ enc = "executing" /\ n < MaxData /\ FillBufferDone(b, n + 1)
    \/ enc \in {"executing", "toidle"} /\ FillBufferDone(b, 0)

(* MUTANT: the return after OMX_FillThisBuffer is missing.                 *)
EmptyBufferFallsThrough ==
    /\ pending' = Append(pending, cbuf) /\ cb' = "notify"
    /\ inEnc' = IF data[cbuf] = 0 THEN inEnc \union {cbuf} ELSE inEnc

(* emptyBuffer(): queue the header, or give it back if it is empty; an     *)
(* encoder that leaves the executing state does not take it.               *)
EmptyBuffer ==
    IF data[cbuf] = 0
    THEN /\ inEnc' = IF enc = "executing" THEN inEnc \union {cbuf} ELSE inEnc
         /\ cb' = "idle" /\ UNCHANGED pending
    ELSE /\ pending' = Append(pending, cbuf) /\ cb' = "notify"
         /\ UNCHANGED inEnc

Deliver ==
    /\ cb = "deliver"
    /\ EmptyBuffer
    /\ cbuf' = NoHeader
    /\ UNCHANGED <<opened, source, file, sinkRefs, writerVars, data, n, enc, sessVars, fault>>

Woken == IF writer = "asleep" THEN "lock" ELSE writer

(* MUTANT: notify_one() does not reach the writer.                         *)
NotifiedNot == writer

(* notify_one(), after the unlock.                                         *)
Notified == Woken

NotifyWriter ==
    /\ cb = "notify"
    /\ writer' = Notified
    /\ cb' = "idle"
    /\ UNCHANGED <<sinkVars, wbuf, data, n, inEnc, enc, cbuf, sessVars, fault>>

EncoderIdle ==
    /\ enc = "toidle" /\ inEnc = {} /\ cb = "idle"
    /\ enc' = "idle"
    /\ UNCHANGED <<sinkVars, writerVars, data, n, inEnc, cb, cbuf, sessVars, fault>>

-----------------------------------------------------------------------------
(* writer thread *)

(* MUTANT: the wait predicate and the loop forget opened_.                 *)
LeaveLoopNever == FALSE

LeaveLoop == ~opened

(* MUTANT: the newest header is drained first.                             *)
DrainNewest == wbuf' = Last(pending) /\ pending' = Front(pending)

(* pending_.front(), pending_.pop().                                       *)
DrainOldest == wbuf' = Head(pending) /\ pending' = Tail(pending)

(* With lock_: leave, wait, or take a header.                              *)
WriterLoop ==
    /\ writer = "lock"
    /\ \/ LeaveLoop /\ writer' = "done" /\ UNCHANGED <<pending, wbuf>>
       \/ /\ ~LeaveLoop /\ pending = <<>>
          /\ writer' = "asleep" /\ UNCHANGED <<pending, wbuf>>
       \/ ~LeaveLoop /\ pending # <<>> /\ DrainOldest /\ writer' = "write"
    /\ UNCHANGED <<opened, source, file, sinkRefs, codecVars, sessVars, fault>>

WakeSpuriously ==
    /\ writer = "asleep"
    /\ writer' = "lock"
    /\ UNCHANGED <<sinkVars, wbuf, codecVars, sessVars, fault>>

(* fs_.write(); the data of a freed header is anything, if it can be read. *)
Write ==
    /\ writer = "write"
    /\ file' = Append(file, IF stale THEN 0 ELSE data[wbuf])
    /\ writer' = "refill"
    /\ UNCHANGED <<opened, source, pending, sinkRefs, wbuf, codecVars, sessVars, fault>>

(* OMX_FillThisBuffer(source_, buffer).                                    *)
Refill ==
    /\ writer = "refill" /\ source
    /\ inEnc' = IF ~stale /\ enc = "executing" THEN inEnc \union {wbuf} ELSE inEnc
    /\ writer' = "lock" /\ wbuf' = NoHeader
    /\ UNCHANGED <<sinkVars, data, n, enc, cb, cbuf, sessVars, fault>>

(* A freed header or component, or a null source_, may end the process.    *)
WriterFaults ==
    /\ \/ writer \in {"write", "refill"} /\ stale
       \/ writer = "refill" /\ ~source
    /\ fault' = TRUE
    /\ UNCHANGED <<sinkVars, writerVars, codecVars, sessVars>>

-----------------------------------------------------------------------------
(* session thread: start() *)

StartSession ==
    /\ main = "down"
    /\ data' = [b \in Headers |-> 0] /\ n' = 0    \* allocOMXBuffers()
    /\ unsent' = Headers
    /\ main' = "init"
    /\ UNCHANGED <<sinkVars, writerVars, inEnc, enc, cb, cbuf, ready, stale, fault>>

(* close_locked().                                                         *)
CloseLocked == source' = FALSE /\ opened' = FALSE

(* FileComponent::init() replaces sink_.  The old sink, if nobody else     *)
(* refers to it, is closed by its destructor.                              *)
InitSink ==
    /\ main = "init"
    /\ IF sinkRefs = {"file"} /\ writer # "none"
       THEN CloseLocked /\ main' = "notify" /\ UNCHANGED <<pending, file, sinkRefs>>
       ELSE /\ sinkRefs' = {"file"} /\ main' = "open"
            /\ UNCHANGED <<opened, source, pending, file>>
    /\ UNCHANGED <<writerVars, codecVars, ready, unsent, stale, fault>>

NotifyAll ==
    /\ main = "notify"
    /\ writer' = Woken
    /\ main' = "join"
    /\ UNCHANGED <<sinkVars, wbuf, codecVars, ready, unsent, stale, fault>>

(* writer_.join() returns; the old sink and its queue are gone.            *)
Join ==
    /\ main = "join" /\ writer = "done"
    /\ writer' = "none" /\ wbuf' = NoHeader
    /\ pending' = <<>> /\ file' = <<>> /\ sinkRefs' = {"file"} /\ stale' = FALSE
    /\ main' = "open"
    /\ UNCHANGED <<opened, source, codecVars, ready, unsent, fault>>

(* openOMXSink(): *ppout = sink_.                                          *)
OpenSink ==
    /\ main = "open"
    /\ opened' = TRUE /\ source' = TRUE /\ writer' = "lock"
    /\ sinkRefs' = {"file", "session"}
    /\ main' = "execute"
    /\ UNCHANGED <<pending, file, wbuf, codecVars, ready, unsent, stale, fault>>

(* The file cannot be opened: EIO, and start() fails.                      *)
OpenSinkFails ==
    /\ main = "open"
    /\ CloseLocked
    /\ main' = "failed"
    /\ UNCHANGED <<pending, file, sinkRefs, writerVars, codecVars, ready, unsent, stale, fault>>

(* The encoder executes, ready_ is set.                                    *)
Execute ==
    /\ main = "execute"
    /\ enc' = "executing" /\ ready' = TRUE
    /\ main' = "submit"
    /\ UNCHANGED <<sinkVars, writerVars, data, n, inEnc, cb, cbuf, unsent, stale, fault>>

(* OMX_FillThisBuffer on every header of the output pool.                  *)
Submit(b) ==
    /\ main = "submit" /\ b \in unsent
    /\ unsent' = unsent \ {b}
    /\ inEnc' = inEnc \union {b}
    /\ main' = IF unsent = {b} THEN "up" ELSE "submit"
    /\ UNCHANGED <<sinkVars, writerVars, data, n, enc, cb, cbuf, ready, stale, fault>>

(* The file cannot be created, or the encoder refuses to execute or to     *)
(* take a header: start() returns an error and leaves the rest to stop().  *)
StartFails ==
    /\ main \in {"init", "execute", "submit"}
    /\ main' = "failed"
    /\ UNCHANGED <<sinkVars, writerVars, codecVars, ready, unsent, stale, fault>>

-----------------------------------------------------------------------------
(* session thread: stop() *)

StopSession ==
    /\ main \in {"up", "failed"}
    /\ ready' = FALSE
    /\ main' = "toidle"
    /\ UNCHANGED <<sinkVars, writerVars, codecVars, unsent, stale, fault>>

(* enter_and_wait_until(OMX_StateIdle): at once if it is idle already.     *)
RequestIdle ==
    /\ main = "toidle"
    /\ enc' = IF enc = "executing" THEN "toidle" ELSE enc
    /\ main' = "waitIdle"
    /\ UNCHANGED <<sinkVars, writerVars, data, n, inEnc, cb, cbuf, ready, unsent, stale, fault>>

IdleReached ==
    /\ main = "waitIdle" /\ enc = "idle"
    /\ main' = "free"
    /\ UNCHANGED <<sinkVars, writerVars, codecVars, ready, unsent, stale, fault>>

(* output_.reset(): every header is freed, wherever the sink still has it. *)
FreeHeaders ==
    /\ main = "free"
    /\ unsent' = {} /\ stale' = (writer # "none")
    /\ main' = "release"
    /\ UNCHANGED <<sinkVars, writerVars, codecVars, ready, fault>>

(* outputComponent_.reset(): a sink nobody else refers to would close.     *)
ReleaseSink ==
    /\ main = "release"
    /\ sinkRefs' = sinkRefs \ {"session"}
    /\ main' = "down"
    /\ UNCHANGED <<opened, source, pending, file, writerVars, codecVars, ready, unsent,
                   stale, fault>>

-----------------------------------------------------------------------------
CodecNext == (\E b \in Headers : Fill(b)) \/ Deliver \/ NotifyWriter \/ EncoderIdle

WriterNext == WriterLoop \/ WakeSpuriously \/ Write \/ Refill \/ WriterFaults

Start ==
    \/ StartSession \/ InitSink \/ NotifyAll \/ Join \/ OpenSink \/ OpenSinkFails \/ Execute
    \/ StartFails \/ \E b \in Headers : Submit(b)

Stop == StopSession \/ RequestIdle \/ IdleReached \/ FreeHeaders \/ ReleaseSink

Next == ~fault /\ (CodecNext \/ WriterNext \/ Start \/ Stop)

Spec == Init /\ [][Next]_vars

(* Threads that can run do; the encoder returns the headers it is to give  *)
(* up.  Nothing makes it produce data, or the user stop or start.          *)
Fairness ==
    /\ WF_vars(~fault /\ (WriterLoop \/ Write \/ Refill \/ WriterFaults))
    /\ WF_vars(~fault /\ (Deliver \/ NotifyWriter \/ EncoderIdle))
    /\ WF_vars(~fault /\ (NotifyAll \/ Join))

FairSpec == Spec /\ Fairness

-----------------------------------------------------------------------------
Inside(where, b) == IF where /\ data[b] # 0 THEN <<data[b]>> ELSE <<>>
Queued == [i \in DOMAIN pending |-> data[pending[i]]]

(* No data is lost, repeated or reordered on its way to the file: what is  *)
(* written, being written, queued and being delivered is, in this order,   *)
(* everything the encoder has produced.  The header the writer drains      *)
(* without the lock is not refilled under it, and callbacks meanwhile      *)
(* queue behind it.                                                        *)
NothingLost ==
    ~stale =>
        file \o Inside(writer = "write", wbuf) \o Queued \o Inside(cb = "deliver", cbuf)
        = [i \in 1..n |-> i]

(* A header is in one place: with the encoder, in the callback, queued,    *)
(* with the writer or not submitted yet; so nothing is written to it while *)
(* it is read.                                                             *)
OneOwner ==
    ~stale =>
        /\ Cardinality(ToSet(pending)) = Len(pending)
        /\ \A b \in Headers :
               Cardinality({w \in {"encoder", "callback", "queue", "writer", "start"} :
                   \/ w = "encoder" /\ b \in inEnc
                   \/ w = "callback" /\ b = cbuf
                   \/ w = "queue" /\ b \in ToSet(pending)
                   \/ w = "writer" /\ b = wbuf
                   \/ w = "start" /\ b \in unsent}) <= 1

(* Every queued header goes back to the encoder, which would starve        *)
(* without, as long as the session runs: no notification is lost between   *)
(* the unlock and notify_one() of emptyBuffer().                           *)
HeaderRecycled ==
    \A b \in Headers :
        (b \in ToSet(pending) /\ ready) ~> (b \in inEnc \/ ~ready \/ fault)

(* close() gets its writer thread to return, wherever it finds it.         *)
CloseEnds == (main = "join") ~> (main # "join" \/ fault)

-----------------------------------------------------------------------------
(* A statement of the source that the code does not live up to.            *)

(* "buffers when drained will be released back to this omx component"      *)
(* (file_component.cpp:89): the header being drained is one of a component *)
(* that exists.                                                            *)
DrainedHeaderLives == writer \in {"write", "refill"} => ~stale
=============================================================================
