------------------------------ MODULE FpvServer ------------------------------
(***************************************************************************)
(* The RTSP server: FpvServer (fpv_server.cpp) and the subsession fpvH264  *)
(* (fpv_h264.cpp), which opens and closes the stream of RtpSink.           *)
(*                                                                         *)
(*   daemon thread   rtsp.start: start() and addSession(); rtsp.stop:      *)
(*                   stop(), which joins the rtsp thread                   *)
(*   rtsp thread     doRTSP(): live555's event loop, until stopflag_.  A   *)
(*                   DESCRIBE plays the stream into a dummy sink and runs  *)
(*                   a loop of its own inside the handler, until a timer   *)
(*                   finds the stream's parameters                         *)
(*                                                                         *)
(* live555 is external: its loop handles a socket, a trigger or a timer    *)
(* and looks at its watch variable; it never sleeps for good.  The dummy   *)
(* sink knows the parameters once the first unit went through it.  All     *)
(* viewers share the one media session, "fpvview", and its source; one of  *)
(* them at a time asks for its description.                                *)
(***************************************************************************)
EXTENDS RtpSink

CONSTANTS MaxTriggers,  \* live555's event triggers, which nothing gives back
          MaxRequests,  \* bound: rtsp.start requests that start a server
          MaxStreams    \* bound: how often the source is opened

ASSUME ServerAssumption ==
    MaxTriggers \in Nat \ {0} /\ MaxRequests \in Nat /\ MaxStreams \in Nat

VARIABLES
    daemon,       \* what the daemon's thread does: "idle", "start", "stop"
    server,       \* fpv_: "none", "made", "ready" (start_promise_ is set)
    listening,    \* rtsp_, NULL if the port could not be had
    stopflag,     \* stopflag_
    requests,     \* requests_
    signalled,    \* the event trigger signal_ is set
    media,        \* "fpvview" was published
    nested,       \* the rtsp thread is in getAuxSDPLine()'s event loop
    sdp, done,    \* m_pSDPLine, m_done
    timer,        \* chkForAuxSDPLine() is scheduled
    playing,      \* a viewer's sink plays the stream
    triggers,     \* event triggers the scheduler gave away
    asked, opened \* requests and streams so far

serverVars == <<daemon, server, listening, stopflag, requests, signalled, media, asked>>
describeVars == <<nested, sdp, done, timer>>
vars == <<rtpVars, serverVars, describeVars, playing, triggers, opened>>

TypeOK ==
    /\ data \in [Headers -> Seq(0..2)] /\ inEnc \subseteq Headers
    /\ pending \in Seq(Headers) /\ inUse \in Headers \union {NoHeader}
    /\ callback \in {"idle", "notify", "signal"}
    /\ source \in {"none", "signals", "mute", "left"}
    /\ loop \in {"off", "check", "select", "asleep", "woken"}
    /\ daemon \in {"idle", "start", "stop"} /\ server \in {"none", "made", "ready"}
    /\ {trigger, awaiting, seen, listening, stopflag, signalled, media, nested, sdp,
        done, timer, playing} \subseteq BOOLEAN
    /\ requests \in 0..1 /\ asked \in 0..MaxRequests
    /\ opened \in 0..MaxStreams /\ triggers \in 0..MaxTriggers

Init ==
    /\ RtpInit /\ loop = "off"
    /\ daemon = "idle" /\ server = "none" /\ listening = FALSE /\ stopflag = FALSE
    /\ requests = 0 /\ signalled = FALSE /\ media = FALSE /\ asked = 0
    /\ nested = FALSE /\ sdp = FALSE /\ done = FALSE /\ timer = FALSE
    /\ playing = FALSE /\ triggers = 0 /\ opened = 0

-----------------------------------------------------------------------------
(* daemon thread *)

(* MUTANT: the trigger is not set.                                         *)
PushSilently == requests' = requests + 1 /\ UNCHANGED signalled

(* A request is queued and the trigger is set.                             *)
Push == requests' = requests + 1 /\ signalled' = TRUE

(* addSession(), under lock_: ENOSR without an RTSP server.                *)
AddSession == IF listening THEN Push ELSE UNCHANGED <<requests, signalled>>

(* rtsp.start: a server's thread is started and waited for.  While there   *)
(* is a server the request is answered with EALREADY, and changes nothing. *)
Start ==
    /\ daemon = "idle" /\ server = "none" /\ asked < MaxRequests
    /\ asked' = asked + 1
    /\ daemon' = "start" /\ server' = "made"
    /\ stopflag' = FALSE
    /\ UNCHANGED <<rtpVars, listening, requests, signalled, media, describeVars, playing,
                   triggers, opened>>

(* The promise is set: start() returns and the session is added, the one   *)
(* request of this server.  What addSession() returns nobody looks at.     *)
Started ==
    /\ daemon = "start" /\ server = "ready"
    /\ AddSession
    /\ daemon' = "idle"
    /\ UNCHANGED <<rtpVars, server, listening, stopflag, media, asked, describeVars,
                   playing, triggers, opened>>

(* rtsp.stop: the flag is set, and the rtsp thread joined.                 *)
Stop ==
    /\ daemon = "idle" /\ server = "ready"
    /\ stopflag' = TRUE /\ daemon' = "stop"
    /\ UNCHANGED <<rtpVars, server, listening, requests, signalled, media, asked,
                   describeVars, playing, triggers, opened>>

(* The join returns and the server is deleted.  Its scheduler and its      *)
(* media session stay behind, out of reach, and so does the session of a   *)
(* viewer: it is not stopped, and it is the one that the next server gets. *)
Stopped ==
    /\ daemon = "stop" /\ loop = "off"
    /\ daemon' = "idle" /\ server' = "none"
    /\ requests' = 0 /\ signalled' = FALSE /\ listening' = FALSE /\ media' = FALSE
    /\ sdp' = FALSE /\ done' = FALSE /\ timer' = FALSE
    /\ playing' = FALSE /\ triggers' = 0
    /\ LeaveSource
    /\ UNCHANGED <<sinkVars, loop, stopflag, asked, nested, opened>>

-----------------------------------------------------------------------------
(* rtsp thread *)

(* doRTSP(): scheduler, server and signal_ are there before the promise.   *)
DoRTSP ==
    /\ server = "made"
    /\ listening' \in BOOLEAN
    /\ triggers' = 1
    /\ server' = "ready" /\ loop' = "check"
    /\ UNCHANGED <<sinkVars, sourceVars, daemon, stopflag, requests, signalled, media,
                   asked, describeVars, playing, opened>>

(* What the innermost doEventLoop() watches.                               *)
Watched == IF nested THEN done ELSE stopflag

(* The inner loop has ended: DESCRIBE is answered, and the stream, which   *)
(* only the dummy sink played, is closed: closeStreamSource().             *)
Described ==
    /\ nested' = FALSE /\ loop' = "check"
    /\ CloseSource
    /\ UNCHANGED <<sdp, done, timer>>

(* doEventLoop() looks at the watch variable between two events.           *)
Check ==
    /\ loop = "check"
    /\ \/ ~Watched /\ loop' = "select" /\ UNCHANGED <<sinkVars, sourceVars, describeVars>>
       \/ Watched /\ nested /\ Described
       \/ /\ Watched /\ ~nested /\ loop' = "off"
          /\ UNCHANGED <<sinkVars, sourceVars, describeVars>>
    /\ UNCHANGED <<serverVars, playing, triggers, opened>>

(* select() returns without an event.                                      *)
Tick ==
    /\ loop = "select" /\ loop' = "check"
    /\ UNCHANGED <<sinkVars, sourceVars, serverVars, describeVars, playing, triggers, opened>>

(* doSession(), by the event loop, under lock_: every request of the queue *)
(* publishes "fpvview".                                                    *)
DoSession ==
    /\ loop = "select" /\ signalled
    /\ signalled' = FALSE
    /\ requests' = 0 /\ media' = (media \/ requests > 0)
    /\ loop' = "check"
    /\ UNCHANGED <<sinkVars, sourceVars, daemon, server, listening, stopflag, asked,
                   describeVars, playing, triggers, opened>>

(* createNewStreamSource(): start() of the session, and a new source, that *)
(* takes a new event trigger, if there is one left.  If start() fails, the *)
(* viewer's request does, and nothing changes.  It fails with EALREADY,    *)
(* openOMXDrain()'s, for a session that was left running; what it replaces *)
(* of that session before is not followed.                                 *)
CreateNewStreamSource ==
    /\ opened < MaxStreams /\ opened' = opened + 1
    /\ OpenSource(IF triggers < MaxTriggers THEN "signals" ELSE "mute")
    /\ triggers' = IF triggers < MaxTriggers THEN triggers + 1 ELSE triggers

(* DESCRIBE: the stream is played into the dummy sink, its parameters are  *)
(* looked for at once, then every 34 ms in an event loop of this handler's. *)
Describe ==
    /\ loop = "select" /\ media /\ ~nested /\ ~Open /\ ~sdp
    /\ CreateNewStreamSource
    /\ nested' = TRUE /\ timer' = TRUE
    /\ loop' = "check"
    /\ UNCHANGED <<serverVars, sdp, done, playing>>

(* MUTANT: m_done is not set when the parameters are found.                *)
FoundSilently == sdp' = TRUE /\ UNCHANGED done

(* The parameters are kept and the loop is told to end.                    *)
Found == sdp' = TRUE /\ done' = TRUE

(* chkForAuxSDPLine1(), by the timer, which it may set again.              *)
CheckSDP ==
    /\ loop = "select" /\ timer
    /\ IF seen THEN Found /\ timer' = FALSE
               ELSE UNCHANGED <<sdp, done, timer>>
    /\ loop' = "check"
    /\ UNCHANGED <<sinkVars, sourceVars, serverVars, nested, playing, triggers, opened>>

(* SETUP and PLAY by the first viewer.                                     *)
Play ==
    /\ loop = "select" /\ media /\ sdp /\ ~nested /\ ~Open
    /\ CreateNewStreamSource
    /\ playing' = TRUE /\ loop' = "check"
    /\ UNCHANGED <<serverVars, describeVars>>

(* The last viewer leaves, or times out.                                   *)
Teardown ==
    /\ loop = "select" /\ playing /\ ~nested
    /\ CloseSource
    /\ playing' = FALSE /\ loop' = "check"
    /\ UNCHANGED <<serverVars, describeVars, triggers, opened>>

ServerStill == UNCHANGED <<serverVars, describeVars, playing, triggers, opened>>

RtpStep == (Codec \/ Reader) /\ ServerStill

(* The encoder fills a header with a unit, at least.                       *)
FillUnit ==
    /\ \E b \in Headers, d \in {c \in Contents : CopyOneNAL(c).unit # <<>>} : EmptyBuffer(b, d)
    /\ ServerStill

Next ==
    \/ Start \/ Started \/ Stop \/ Stopped
    \/ DoRTSP \/ Check \/ Tick \/ DoSession \/ CheckSDP
    \/ Describe \/ Play \/ Teardown
    \/ RtpStep

Spec == Init /\ [][Next]_vars

(* Every thread goes on.  The event loop comes back to each socket, trigger *)
(* and timer; a sink asks for the next unit in its turn; and an encoder     *)
(* that has headers now and then fills one with a unit.                     *)
Fairness ==
    /\ WF_vars(Started) /\ WF_vars(Stopped) /\ WF_vars(DoRTSP)
    /\ WF_vars(Check) /\ WF_vars(Tick)
    /\ WF_vars(NotifyOne /\ ServerStill) /\ WF_vars(SignalOutput /\ ServerStill)
    /\ WF_vars(Awake /\ ServerStill)
    /\ SF_vars(DoSession) /\ SF_vars(CheckSDP)
    /\ SF_vars(Ask /\ ServerStill) /\ SF_vars(HandleTrigger /\ ServerStill)
    /\ SF_vars(FillUnit)

FairSpec == Spec /\ Fairness

-----------------------------------------------------------------------------
(* The cutting into units, for all data of up to MaxOctets octets: it is    *)
(* the same in every state, and looked at before the first request.        *)
UnitsWellCut == asked = 0 => UnitsCut

(* A header with data goes through the sink and back to the encoder as     *)
(* long as the stream is open and its source has an event trigger.         *)
HeadersGoRound ==
    \A b \in Headers :
        (source = "signals" /\ data[b] # <<>>)
            ~> (b \in inEnc \/ source # "signals")

(* "When successfully added, the session becomes visible over RTSP": once  *)
(* rtsp.start is through with a server that has its port, "fpvview" will   *)
(* be published, unless the server is stopped first.                       *)
SessionPublished ==
    (server = "ready" /\ daemon = "idle" /\ listening) ~> (media \/ stopflag)

(* stop() returns: the loops end, though a DESCRIBE may be in progress and *)
(* the thread asleep for a unit - unless the stream's source found no      *)
(* event trigger left, of which every stream takes one for good.           *)
ServerStops == daemon = "stop" ~> (daemon # "stop" \/ source = "mute")

(* That rtsp.stop stops the stream does not hold: no one stops the session *)
(* of a viewer who was still there.                                        *)
StopEndsStream == server = "none" => source = "none"

=============================================================================
