-------------------------- MODULE EncoderConfigure --------------------------
(***************************************************************************)
(* Encoder::Configure() (omx/encoder_configure.cpp), which a session calls *)
(* in each start() with its encoder configuration.  It goes through the    *)
(* configuration section by section; in each one it reads a parameter of   *)
(* the encoder, changes it and writes it back, and what comes after an     *)
(* error is left out - unless a later call overwrites the result first.    *)
(*                                                                         *)
(* The encoder is external: it may refuse any call, and what it takes is   *)
(* in effect.  Setting the frame size of a port may change the buffers the *)
(* port needs.                                                             *)
(***************************************************************************)
EXTENDS Naturals

CONSTANTS Configs,   \* the configurations sessions use
          PortDefs,  \* the buffer requirements a port may have
          MaxStarts  \* bound: how often a session is started

(* What Configure() looks at in a configuration: refresh says that less    *)
(* than all macroblocks are to be refreshed; in and out are buffer counts. *)
ConfigType ==
    [codec : {"avc", "mpeg4", "h263"}, idr : BOOLEAN,
     marker : {"none", "bits", "mb", "gob"}, extradata : BOOLEAN, ltr : BOOLEAN,
     refresh : BOOLEAN, in : Nat, out : Nat]

(* A port needs at least min buffers, and has actual ones.                 *)
PortDefType == {d \in [min : Nat, actual : Nat] : d.min <= d.actual}

ASSUME EncoderAssumption ==
    Configs \subseteq ConfigType /\ PortDefs \subseteq PortDefType /\ MaxStarts \in Nat \ {0}

VARIABLES
    config,             \* encoderConfig_ of the session, and the counts it is given back
    at,                 \* the next section
    result,             \* the result so far
    made,               \* the settings in effect
    port,               \* the encoder's two port definitions
    starts              \* the start() this is

vars == <<config, at, result, made, port, starts>>

Settings == {"codec", "idr", "resync", "extradata", "ltrMode", "ltrCount", "ltrPeriod",
             "inSize", "inCount", "outSize", "outCount", "bitrate", "qp", "qpRange",
             "framerate", "intraRefresh", "rotation"}

TypeOK ==
    /\ config \in ConfigType
    /\ at \in {"codec", "idr", "resilience", "extradata", "ltr", "inPort", "outPort", "bitrate",
               "qp", "qpRange", "framerate", "intraRefresh", "rotation", "done"}
    /\ result \in {"ok", "error"} /\ made \subseteq Settings
    /\ port \in [{"in", "out"} -> PortDefType]
    /\ starts \in 1..MaxStarts

Init ==
    /\ config \in Configs /\ port \in [{"in", "out"} -> PortDefs]
    /\ at = "codec" /\ result = "ok" /\ made = {} /\ starts = 1

(* The session is started again: another encoder, the same configuration.  *)
Restart ==
    /\ at = "done" /\ starts < MaxStarts /\ starts' = starts + 1
    /\ port' \in [{"in", "out"} -> PortDefs]
    /\ at' = "codec" /\ result' = "ok" /\ made' = {}
    /\ UNCHANGED config

-----------------------------------------------------------------------------

Accept(s) == made' = made \union s /\ result' = "ok"
Refuse == UNCHANGED made /\ result' = "error"

(* MUTANT: the next section comes whatever the result.                     *)
ThenAnyway(l) == at' = l

(* The next section, if there is no error.                                 *)
Then(l) == at' = IF result' = "ok" THEN l ELSE "done"

Elsewhere == UNCHANGED <<config, port, starts>>

(* The parameters of the codec.  The result is not looked at.              *)
Codec ==
    /\ at = "codec"
    /\ Refuse \/ Accept({"codec"})
    /\ at' = IF config.codec = "avc" /\ config.idr THEN "idr" ELSE "resilience"
    /\ Elsewhere

(* SetIDRPeriod(), whether the codec's parameters were taken or not.       *)
IDRPeriod ==
    /\ at = "idr"
    /\ Refuse \/ Accept({"idr"})
    /\ at' = "resilience"
    /\ Elsewhere

(* What there are resynchronisation markers for.                           *)
Resync ==
    IF <<config.marker, config.codec>> \in
           {<<"bits", "mpeg4">>, <<"bits", "avc">>, <<"gob", "h263">>,
            <<"mb", "avc">>, <<"mb", "mpeg4">>}
    THEN {"resync"} ELSE {}

(* Error resilience: reading its parameter overwrites the result so far.   *)
Resilience ==
    /\ at = "resilience"
    /\ Refuse \/ Accept(Resync)
    /\ Then("extradata")
    /\ Elsewhere

Extradata ==
    /\ at = "extradata"
    /\ \/ ~config.extradata /\ Accept({})
       \/ config.extradata /\ (Refuse \/ Accept({"extradata"}))
    /\ Then("ltr")
    /\ Elsewhere

(* Long term reference: mode, then count, then period.                     *)
LTR ==
    /\ at = "ltr"
    /\ \/ ~config.ltr /\ Accept({})
       \/ /\ config.ltr
          /\ \/ \E s \in {{}, {"ltrMode"}, {"ltrMode", "ltrCount"}} :
                    made' = made \union s /\ result' = "error"
             \/ Accept({"ltrMode", "ltrCount", "ltrPeriod"})
    /\ Then("inPort")
    /\ Elsewhere

-----------------------------------------------------------------------------
(* Ports: the frame size is written, and the buffers the port then needs   *)
(* are read; the number of buffers is written, and read again.  Each       *)
(* result but the first and the last is overwritten.  inSize and outSize   *)
(* are in effect when the size is and what it needs has been read.         *)

Given(taken, s) == IF taken THEN {s} ELSE {}

(* The frame size is taken or not, and the port is now as it is; what is   *)
(* read may still be what it was before.                                   *)
Resize(p, sized, now, read) ==
    /\ sized \/ now = port[p]
    /\ read \in {port[p], now}

(* The number of buffers is taken or not; too few are not.                 *)
Recount(p, counted, now, n) ==
    /\ counted => n >= now.min
    /\ port' = [port EXCEPT ![p] = IF counted THEN [now EXCEPT !.actual = n] ELSE now]

(* MUTANT: the number of buffers is written as it was read.                *)
WantedAsRead(n, read) == read.actual

(* nBufferCountActual: the count if it is more than the minimum.           *)
Wanted(n, read) == IF n > read.min THEN n ELSE read.actual

(* That the port has other buffers than the session is only logged.        *)
InputPort ==
    /\ at = "inPort"
    /\ \/ Refuse /\ UNCHANGED port
       \/ \E sized \in BOOLEAN, counted \in BOOLEAN, now \in PortDefs, read \in PortDefs :
             /\ Resize("in", sized, now, read)
             /\ Recount("in", counted, now, Wanted(config.in, read))
             /\ Refuse \/ Accept(Given(sized /\ read = now, "inSize") \union Given(counted, "inCount"))
    /\ Then("outPort")
    /\ UNCHANGED <<config, starts>>

(* The count, or the minimum if that is more.                              *)
AtLeast(n, read) == IF n > read.min THEN n ELSE read.min

(* The count, or the minimum if the port has another number of buffers.    *)
Agreed(n, def) == IF n # def.actual THEN def.min ELSE n

(* The session's count follows the port's.                                 *)
OutputPort ==
    /\ at = "outPort"
    /\ \/ Refuse /\ UNCHANGED <<port, config>>
       \/ \E sized \in BOOLEAN, counted \in BOOLEAN, now \in PortDefs, read \in PortDefs :
             /\ Resize("out", sized, now, read)
             /\ Recount("out", counted, now, Wanted(config.out, read))
             /\ \/ Refuse /\ config' = [config EXCEPT !.out = AtLeast(@, read)]
                \/ /\ Accept(Given(sized /\ read = now, "outSize") \union Given(counted, "outCount"))
                   /\ config' = [config EXCEPT !.out = Agreed(AtLeast(@, read), port'["out"])]
    /\ Then("bitrate")
    /\ UNCHANGED starts

-----------------------------------------------------------------------------

(* Sections that read a parameter and write it back.                       *)
Section(l, next) ==
    /\ at = l
    /\ Refuse \/ Accept({l})
    /\ Then(next)
    /\ Elsewhere

Bitrate == Section("bitrate", "qp")
Framerate == Section("framerate", "intraRefresh")
Rotation == Section("rotation", "done")

(* Quantization may not be supported: a refused read is not an error.      *)
Optional(l, next) ==
    /\ at = l
    /\ Refuse \/ Accept({}) \/ Accept({l})
    /\ Then(next)
    /\ Elsewhere

Quantization == Optional("qp", "qpRange")
QPRange == Optional("qpRange", "framerate")

(* Nothing is set when all macroblocks are to be refreshed.                *)
IntraRefresh ==
    /\ at = "intraRefresh"
    /\ Refuse \/ Accept(Given(config.refresh, "intraRefresh"))
    /\ Then("rotation")
    /\ Elsewhere

Next ==
    \/ Codec \/ IDRPeriod \/ Resilience \/ Extradata \/ LTR
    \/ InputPort \/ OutputPort
    \/ Bitrate \/ Quantization \/ QPRange \/ Framerate \/ IntraRefresh \/ Rotation
    \/ Restart

Spec == Init /\ [][Next]_vars

-----------------------------------------------------------------------------

(* What a configuration asks for.                                          *)
AskedFor ==
    {"codec", "inSize", "inCount", "outSize", "outCount", "bitrate", "qp", "qpRange",
     "framerate", "rotation"}
    \union Given(config.codec = "avc" /\ config.idr, "idr")
    \union Resync
    \union Given(config.extradata, "extradata")
    \union (IF config.ltr THEN {"ltrMode", "ltrCount", "ltrPeriod"} ELSE {})
    \union Given(config.refresh, "intraRefresh")

(* What may be missing though Configure() says all is well: the codec's    *)
(* parameters, what is set through the ports, and the optional settings.   *)
Maskable == {"codec", "idr", "inSize", "inCount", "outSize", "outCount", "qp", "qpRange"}

(* A session that goes on has an encoder in which all it asked for is in   *)
(* effect, but for the settings whose refusal is hidden: no other section  *)
(* is left out or has its error overwritten.                               *)
SuccessIsConfigured ==
    at = "done" /\ result = "ok" => AskedFor \ made \subseteq Maskable

(* The session makes as many headers as the port has buffers - the encoder *)
(* waits for all of them before it becomes idle - when it asked for more   *)
(* than the minimum and nothing was refused.  An output port that has no   *)
(* more than its minimum fits whatever is refused; an input port of which  *)
(* the minimum has grown past the count does not, and nobody is told.      *)
HeadersFit ==
    at = "done" /\ result = "ok" =>
        /\ {"inSize", "inCount"} \subseteq made /\ config.in > port["in"].min
               => port["in"].actual = config.in
        /\ config.out # port["out"].actual
               => config.out = port["out"].min /\ port["out"].min < port["out"].actual

=============================================================================
