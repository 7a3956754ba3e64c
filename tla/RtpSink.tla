------------------------------- MODULE RtpSink -------------------------------
(***************************************************************************)
(* The stream's way to live555: RtpComponent and PreviewDiscreteSource     *)
(* (omx/preview_component.cpp).                                            *)
(*                                                                         *)
(*   codec thread    emptyBuffer() queues a filled header under lock_,     *)
(*                   then wakes a sleeper and then sets the source's       *)
(*                   event trigger, both without the lock                  *)
(*   rtsp thread     live555's event loop: the stream asks for a unit, or  *)
(*                   the trigger is handled; either delivers one unit, and *)
(*                   sleeps on cv_ if there is none                        *)
(*                                                                         *)
(* The event loop and the event triggers are live555's: FpvServer runs the *)
(* loop, and opens and closes the source.                                  *)
(***************************************************************************)
EXTENDS NalScan, FiniteSets, SequencesExt

CONSTANTS Headers,   \* output buffer headers of the encoder
          NoHeader,
          Contents   \* what the encoder may put into a header: octet sequences

ASSUME RtpAssumption ==
    /\ IsFiniteSet(Headers) /\ NoHeader \notin Headers
    /\ Contents \subseteq Seq(0..2)

VARIABLES
    data,         \* the octets of each header from nOffset on
    inEnc,        \* the headers the encoder has
    pending,      \* pending_
    inUse,        \* buffer_in_use_
    pendingSize,  \* pending_data_size_
    callback,     \* where emptyBuffer() is
    source,       \* the PreviewSource: "none", if it "signals" or is "mute", or "left"
    trigger,      \* its event trigger is set
    awaiting,     \* isCurrentlyAwaitingData()
    seen,         \* the reader got a unit from this source
    loop          \* where the rtsp thread is

sinkVars == <<data, inEnc, pending, inUse, pendingSize, callback>>
sourceVars == <<source, trigger, awaiting, seen>>
rtpVars == <<sinkVars, sourceVars, loop>>

Open == source # "none"

(* The event loop that runs has the source; one that was left belongs to   *)
(* another that ran before.                                                *)
Read == source \in {"signals", "mute"}

RtpInit ==
    /\ data = [b \in Headers |-> <<>>] /\ inEnc = {}
    /\ pending = <<>> /\ inUse = NoHeader /\ pendingSize = 0
    /\ callback = "idle" /\ source = "none" /\ trigger = FALSE
    /\ awaiting = FALSE /\ seen = FALSE

-----------------------------------------------------------------------------
(* codec thread *)

(* MUTANT: the size is not counted.                                        *)
QueueUncounted(b, d) == pending' = Append(pending, b) /\ UNCHANGED pendingSize

Queue(b, d) ==
    /\ pending' = Append(pending, b)
    /\ pendingSize' = pendingSize + Len(d)

(* emptyBuffer() up to the unlock, for a header the encoder filled with d; *)
(* an empty header goes back at once.                                      *)
EmptyBuffer(b, d) ==
    /\ Open /\ callback = "idle" /\ b \in inEnc
    /\ IF d = <<>>
       THEN UNCHANGED sinkVars
       ELSE /\ Queue(b, d)
            /\ data' = [data EXCEPT ![b] = d]
            /\ inEnc' = inEnc \ {b}
            /\ callback' = "notify"
            /\ UNCHANGED inUse
    /\ UNCHANGED <<sourceVars, loop>>

(* MUTANT: there is no notify_one().                                       *)
WokenNot == loop

Woken == IF loop = "asleep" THEN "woken" ELSE loop

NotifyOne ==
    /\ callback = "notify"
    /\ callback' = "signal"
    /\ loop' = Woken
    /\ UNCHANGED <<data, inEnc, pending, inUse, pendingSize, sourceVars>>

(* triggerEvent() by a source that got an event trigger.                   *)
Triggered == trigger \/ source = "signals"

SignalOutput ==
    /\ callback = "signal"
    /\ callback' = "idle"
    /\ trigger' = Triggered
    /\ UNCHANGED <<data, inEnc, pending, inUse, pendingSize, source, awaiting, seen, loop>>

-----------------------------------------------------------------------------
(* rtsp thread *)

(* MUTANT: OMX_FillThisBuffer is missing.                                  *)
HandBackNot(b) == inEnc

(* OMX_FillThisBuffer().                                                   *)
HandBack(b) == inEnc \union {b}

(* getOneNalUnit() for the header b: one unit, and the header goes back    *)
(* when all of it was scanned; then afterGetting().                        *)
Consume(b) ==
    LET got == CopyOneNAL(data[b])
        rest == SubSeq(data[b], got.scanned + 1, Len(data[b]))
    IN  /\ pendingSize' = pendingSize - got.scanned
        /\ data' = [data EXCEPT ![b] = rest]
        /\ IF rest = <<>> THEN inUse' = NoHeader /\ inEnc' = HandBack(b)
                          ELSE inUse' = b /\ UNCHANGED inEnc
        /\ seen' = (seen \/ got.unit # <<>>)
        /\ awaiting' = FALSE
        /\ loop' = "check"

(* deliverFrame() from the lock on: it waits on cv_ if there is nothing.   *)
GetOneNalUnit ==
    IF inUse # NoHeader
    THEN Consume(inUse) /\ UNCHANGED pending
    ELSE IF pending # <<>>
         THEN Consume(Head(pending)) /\ pending' = Tail(pending)
         ELSE /\ awaiting' = TRUE /\ loop' = "asleep"
              /\ UNCHANGED <<data, inEnc, pending, inUse, pendingSize, seen>>

(* MUTANT: the source delivers only what its trigger announced.            *)
UnreadableSource == FALSE

IsReadable == 0 < pendingSize

(* getNextFrame(), and doGetNextFrame(): deliver now, or when triggered.   *)
Ask ==
    /\ Read /\ loop = "select" /\ ~awaiting
    /\ IF IsReadable
       THEN GetOneNalUnit
       ELSE /\ awaiting' = TRUE /\ loop' = "check"
            /\ UNCHANGED <<data, inEnc, pending, inUse, pendingSize, seen>>
    /\ UNCHANGED <<callback, source, trigger>>

(* deliverFrame0(), by the event loop: nothing if no unit is asked for.    *)
HandleTrigger ==
    /\ loop = "select" /\ trigger
    /\ trigger' = FALSE
    /\ IF awaiting
       THEN GetOneNalUnit
       ELSE /\ loop' = "check"
            /\ UNCHANGED <<data, inEnc, pending, inUse, pendingSize, awaiting, seen>>
    /\ UNCHANGED <<callback, source>>

(* The wait's predicate is looked at again after a wakeup, spurious or not. *)
Awake ==
    /\ \/ loop = "woken"
       \/ loop = "asleep" /\ pending # <<>>
    /\ GetOneNalUnit
    /\ UNCHANGED <<callback, source, trigger>>

-----------------------------------------------------------------------------
(* the session's part, in the rtsp thread *)

(* start() of the session and openFramedSource(): all headers are with the *)
(* encoder, the component and its source are new.                          *)
OpenSource(kind) ==
    /\ inEnc' = Headers /\ data' = [b \in Headers |-> <<>>]
    /\ pending' = <<>> /\ inUse' = NoHeader /\ pendingSize' = 0
    /\ source' = kind /\ awaiting' = FALSE /\ seen' = FALSE
    /\ UNCHANGED <<callback, trigger>>

(* stop() of the session: it waits for the encoder to be idle, which its   *)
(* thread announces after the callback it is in.  A trigger that is still  *)
(* set would find a source that nobody asks.                               *)
CloseSource ==
    /\ callback = "idle"
    /\ source' = "none" /\ trigger' = FALSE /\ awaiting' = FALSE /\ seen' = FALSE
    /\ inEnc' = {} /\ data' = [b \in Headers |-> <<>>]
    /\ pending' = <<>> /\ inUse' = NoHeader /\ pendingSize' = 0
    /\ UNCHANGED callback

(* The event loop has ended for good.  The session goes on, and encodes    *)
(* until its headers are all in pending_; what its source then triggers    *)
(* or waits for no one looks at.                                           *)
LeaveSource ==
    /\ source' = IF Open THEN "left" ELSE "none"
    /\ trigger' = FALSE /\ awaiting' = FALSE /\ seen' = FALSE

Codec == NotifyOne \/ SignalOutput \/ \E b \in Headers, d \in Contents : EmptyBuffer(b, d)

Reader == Ask \/ HandleTrigger \/ Awake

-----------------------------------------------------------------------------
(* properties of the sink, kept by whatever composes it                    *)

(* A source that was asked for a unit and has an event trigger is not left *)
(* waiting while a header with data is there: isReadable(), which looks at *)
(* the size without the lock, had not seen it yet, and the trigger is set, *)
(* or emptyBuffer() is on its way to set it.                               *)
DataSignalled ==
    (source = "signals" /\ awaiting /\ loop = "select" /\ (inUse # NoHeader \/ pending # <<>>))
        => (trigger \/ callback # "idle")

(* The rtsp thread sleeps in getOneNalUnit() only while the sink has no    *)
(* header in use and, but for a callback about to wake it, none queued.    *)
SleeperWoken ==
    loop = "asleep" => /\ inUse = NoHeader
                       /\ (pending # <<>> => callback = "notify")

=============================================================================
