----------------------- MODULE EncoderConfigureProofs -----------------------
(* Proofs about EncoderConfigure, for every set of configurations, every    *)
(* buffer requirement of the ports and any number of restarts.              *)
EXTENDS EncoderConfigure, TLAPS

(* The sections whose result the next one overwrites.                      *)
Overwritten == {"codec", "idr", "resilience"}

(* The settings that are still to be made in the sections from l on.       *)
Pending(l) ==
    CASE l = "extradata"    -> {"extradata", "ltrMode", "ltrCount", "ltrPeriod", "bitrate",
                                "framerate", "intraRefresh", "rotation"}
      [] l = "ltr"          -> {"ltrMode", "ltrCount", "ltrPeriod", "bitrate", "framerate",
                                "intraRefresh", "rotation"}
      [] l \in {"inPort", "outPort", "bitrate"}
                            -> {"bitrate", "framerate", "intraRefresh", "rotation"}
      [] l \in {"qp", "qpRange", "framerate"}
                            -> {"framerate", "intraRefresh", "rotation"}
      [] l = "intraRefresh" -> {"intraRefresh", "rotation"}
      [] l = "rotation"     -> {"rotation"}
      [] OTHER              -> {}

(* Up to each section, what is asked for is made, masked or to come; and   *)
(* a section is reached only without an error.                             *)
Progress ==
    at \notin Overwritten =>
        /\ at # "done" => result = "ok"
        /\ result = "ok" => AskedFor \ made \subseteq Maskable \union Pending(at)

(* What HeadersFit says of each port, from the port's section on.          *)
InFits ==
    {"inSize", "inCount"} \subseteq made /\ config.in > port["in"].min
        => port["in"].actual = config.in

OutFits ==
    config.out # port["out"].actual
        => config.out = port["out"].min /\ port["out"].min < port["out"].actual

BeforeIn == Overwritten \union {"extradata", "ltr", "inPort"}
BeforeOut == BeforeIn \union {"outPort"}

Fitting ==
    /\ at \in BeforeIn => made \intersect {"inSize", "inCount"} = {}
    /\ at \notin BeforeIn /\ result = "ok" => InFits
    /\ at \notin BeforeOut /\ result = "ok" => OutFits

EInv == TypeOK /\ Progress /\ Fitting

-----------------------------------------------------------------------------

LEMMA InitEInv == Init => EInv
BY EncoderAssumption DEF Init, EInv, TypeOK, Progress, Fitting, Overwritten, BeforeIn, BeforeOut

(* Every port definition that is read or made has its minimum.             *)
LEMMA RecountTyped ==
    ASSUME TypeOK, NEW p \in {"in", "out"}, NEW counted \in BOOLEAN, NEW now \in PortDefs,
           NEW n \in Nat, Recount(p, counted, now, n)
    PROVE  /\ port' \in [{"in", "out"} -> PortDefType]
           /\ port'[p] = IF counted THEN [now EXCEPT !.actual = n] ELSE now
           /\ \A q \in {"in", "out"} : q # p => port'[q] = port[q]
BY EncoderAssumption DEF Recount, TypeOK, PortDefType

LEMMA NextTypes == EInv /\ Next => TypeOK'
<1> SUFFICES ASSUME EInv, Next PROVE TypeOK'
  OBVIOUS
<1> USE EncoderAssumption DEF EInv, TypeOK, Accept, Refuse, Then, Elsewhere, Given, Settings
<1>1. CASE Codec
  BY <1>1 DEF Codec
<1>2. CASE IDRPeriod
  BY <1>2 DEF IDRPeriod
<1>3. CASE Resilience
  BY <1>3 DEF Resilience, Resync
<1>4. CASE Extradata
  BY <1>4 DEF Extradata
<1>5. CASE LTR
  BY <1>5 DEF LTR
<1>6. CASE InputPort
  <2>1. CASE Refuse /\ UNCHANGED port
    BY <1>6, <2>1 DEF InputPort
  <2>2. CASE ~(Refuse /\ UNCHANGED port)
    <3>1. PICK sized \in BOOLEAN, counted \in BOOLEAN, now \in PortDefs, read \in PortDefs :
              /\ Resize("in", sized, now, read)
              /\ Recount("in", counted, now, Wanted(config.in, read))
              /\ Refuse \/ Accept(Given(sized /\ read = now, "inSize")
                                    \union Given(counted, "inCount"))
      BY <1>6, <2>2 DEF InputPort
    <3>2. Wanted(config.in, read) \in Nat
      BY DEF Wanted, ConfigType, PortDefType
    <3>3. port' \in [{"in", "out"} -> PortDefType]
      BY <3>1, <3>2, RecountTyped
    <3> QED
      BY <1>6, <3>1, <3>3 DEF InputPort
  <2> QED
    BY <2>1, <2>2
<1>7. CASE OutputPort
  <2>1. CASE Refuse /\ UNCHANGED <<port, config>>
    BY <1>7, <2>1 DEF OutputPort
  <2>2. CASE ~(Refuse /\ UNCHANGED <<port, config>>)
    <3>1. PICK sized \in BOOLEAN, counted \in BOOLEAN, now \in PortDefs, read \in PortDefs :
              /\ Resize("out", sized, now, read)
              /\ Recount("out", counted, now, Wanted(config.out, read))
              /\ \/ Refuse /\ config' = [config EXCEPT !.out = AtLeast(@, read)]
                 \/ /\ Accept(Given(sized /\ read = now, "outSize")
                                \union Given(counted, "outCount"))
                    /\ config' = [config EXCEPT !.out = Agreed(AtLeast(@, read), port'["out"])]
      BY <1>7, <2>2 DEF OutputPort
    <3>2. Wanted(config.out, read) \in Nat /\ AtLeast(config.out, read) \in Nat
      BY DEF Wanted, AtLeast, ConfigType, PortDefType
    <3>3. port' \in [{"in", "out"} -> PortDefType]
      BY <3>1, <3>2, RecountTyped
    <3>4. Agreed(AtLeast(config.out, read), port'["out"]) \in Nat
      BY <3>2, <3>3 DEF Agreed, PortDefType
    <3>5. config' \in ConfigType
      BY <3>1, <3>2, <3>4 DEF ConfigType
    <3> QED
      BY <1>7, <3>1, <3>3, <3>5 DEF OutputPort
  <2> QED
    BY <2>1, <2>2
<1>8. CASE Bitrate \/ Framerate \/ Rotation
  BY <1>8 DEF Bitrate, Framerate, Rotation, Section
<1>9. CASE Quantization \/ QPRange
  BY <1>9 DEF Quantization, QPRange, Optional
<1>10. CASE IntraRefresh
  BY <1>10 DEF IntraRefresh
<1>11. CASE Restart
  BY <1>11 DEF Restart
<1> QED
  BY <1>1, <1>2, <1>3, <1>4, <1>5, <1>6, <1>7, <1>8, <1>9, <1>10, <1>11 DEF Next

-----------------------------------------------------------------------------
(* AskedFor does not depend on the counts.                                 *)
LEMMA AskedForKept ==
    ASSUME TypeOK, NEW n, config' = [config EXCEPT !.out = n] \/ config' = config
    PROVE  AskedFor' = AskedFor
BY DEF TypeOK, ConfigType, AskedFor, Resync, Given

LEMMA NextProgress == EInv /\ Next => Progress'
<1> SUFFICES ASSUME EInv, Next PROVE Progress'
  OBVIOUS
<1>a. AskedFor' = AskedFor \/ Restart
  <2>1. CASE OutputPort
    <3>1. \E n : config' = [config EXCEPT !.out = n] \/ config' = config
      BY <2>1 DEF OutputPort
    <3> QED
      BY <3>1, AskedForKept DEF EInv
  <2>2. CASE ~OutputPort /\ ~Restart
    <3>1. config' = config
      BY <2>2 DEF Next, Codec, IDRPeriod, Resilience, Extradata, LTR, InputPort, Bitrate,
         Framerate, Rotation, Section, Quantization, QPRange, Optional, IntraRefresh, Elsewhere
    <3> QED
      BY <3>1 DEF AskedFor, Resync
  <2> QED
    BY <2>1, <2>2
<1> USE DEF EInv, Progress, Overwritten, Pending, Accept, Refuse, Then, Given
<1>1. CASE Codec \/ IDRPeriod
  BY <1>1 DEF Codec, IDRPeriod
<1>2. CASE Restart
  BY <1>2 DEF Restart
<1>3. CASE Resilience
  <2>1. AskedFor \ made' \subseteq Maskable \union Pending("extradata") \/ result' = "error"
    BY <1>3 DEF Resilience, AskedFor, Maskable
  <2> QED
    BY <1>3, <1>a, <2>1 DEF Resilience, Restart
<1>4. CASE Extradata
  BY <1>4, <1>a DEF Extradata, AskedFor, Maskable, Resync, Restart
<1>5. CASE LTR
  BY <1>5, <1>a DEF LTR, AskedFor, Maskable, Resync, Restart
<1>6. CASE InputPort
  <2>1. at = "inPort" /\ Then("outPort") /\ made \subseteq made'
    BY <1>6 DEF InputPort
  <2> QED
    BY <1>a, <1>6, <2>1 DEF Restart
<1>7. CASE OutputPort
  <2>1. at = "outPort" /\ Then("bitrate") /\ made \subseteq made'
    BY <1>7 DEF OutputPort
  <2> QED
    BY <1>a, <1>7, <2>1 DEF Restart
<1>8. CASE Bitrate \/ Framerate \/ Rotation
  BY <1>8, <1>a DEF Bitrate, Framerate, Rotation, Section, Restart
<1>9. CASE Quantization \/ QPRange
  BY <1>9, <1>a DEF Quantization, QPRange, Optional, Maskable, Restart
<1>10. CASE IntraRefresh
  BY <1>10, <1>a DEF IntraRefresh, AskedFor, Maskable, Resync, Restart
<1> QED
  BY <1>1, <1>2, <1>3, <1>4, <1>5, <1>6, <1>7, <1>8, <1>9, <1>10 DEF Next

-----------------------------------------------------------------------------

LEMMA NextFitting == EInv /\ Next => Fitting'
<1> SUFFICES ASSUME EInv, Next PROVE Fitting'
  OBVIOUS
<1> USE DEF EInv, Fitting, BeforeIn, BeforeOut, Overwritten, Then, Accept, Refuse
<1>1. CASE InputPort
  <2>1. CASE result' = "error"
    BY <1>1, <2>1 DEF InputPort
  <2>2. CASE result' # "error"
    <3>1. PICK sized \in BOOLEAN, counted \in BOOLEAN, now \in PortDefs, read \in PortDefs :
              /\ Resize("in", sized, now, read)
              /\ Recount("in", counted, now, Wanted(config.in, read))
              /\ Accept(Given(sized /\ read = now, "inSize") \union Given(counted, "inCount"))
      BY <1>1, <2>2 DEF InputPort
    <3>2. Wanted(config.in, read) \in Nat /\ now \in PortDefType
      BY EncoderAssumption DEF Wanted, TypeOK, ConfigType, PortDefType
    <3>3. port'["in"] = IF counted THEN [now EXCEPT !.actual = Wanted(config.in, read)] ELSE now
      BY <3>1, <3>2, RecountTyped
    <3>4. config' = config /\ at = "inPort"
      BY <1>1 DEF InputPort
    <3>5. "inSize" \in made' /\ "inCount" \in made' => counted /\ read = now
      BY <3>1, <3>4 DEF Given
    <3>6. InFits'
      BY <3>2, <3>3, <3>4, <3>5 DEF InFits, Wanted, PortDefType, TypeOK, ConfigType
    <3> QED
      BY <1>1, <3>6 DEF InputPort
  <2> QED
    BY <2>1, <2>2
<1>2. CASE OutputPort
  <2>1. CASE result' = "error"
    BY <1>2, <2>1 DEF OutputPort
  <2>2. CASE result' # "error"
    <3>1. PICK sized \in BOOLEAN, counted \in BOOLEAN, now \in PortDefs, read \in PortDefs :
              /\ Resize("out", sized, now, read)
              /\ Recount("out", counted, now, Wanted(config.out, read))
              /\ Accept(Given(sized /\ read = now, "outSize") \union Given(counted, "outCount"))
              /\ config' = [config EXCEPT !.out = Agreed(AtLeast(@, read), port'["out"])]
      BY <1>2, <2>2 DEF OutputPort
    <3>2. Wanted(config.out, read) \in Nat /\ now \in PortDefType
      BY EncoderAssumption DEF Wanted, TypeOK, ConfigType, PortDefType
    <3>3. port' \in [{"in", "out"} -> PortDefType] /\ port'["in"] = port["in"]
      BY <3>1, <3>2, RecountTyped
    <3>4. config'.in = config.in /\ config'.out = Agreed(AtLeast(config.out, read), port'["out"])
      BY <3>1 DEF TypeOK, ConfigType
    <3>5. OutFits'
      BY <3>3, <3>4 DEF OutFits, Agreed, PortDefType
    <3>6. at = "outPort" /\ result = "ok"
      BY <1>2 DEF OutputPort, Progress
    <3>7. "inSize" \in made' <=> "inSize" \in made
      BY <3>1 DEF Given
    <3>8. "inCount" \in made' <=> "inCount" \in made
      BY <3>1 DEF Given
    <3>9. InFits'
      BY <3>3, <3>4, <3>6, <3>7, <3>8 DEF InFits
    <3> QED
      BY <1>2, <3>5, <3>6, <3>9 DEF OutputPort
  <2> QED
    BY <2>1, <2>2
<1>3. CASE Codec \/ IDRPeriod
  BY <1>3 DEF Codec, IDRPeriod
<1>4. CASE Resilience
  BY <1>4 DEF Resilience, Resync
<1>5. CASE Extradata \/ LTR
  BY <1>5 DEF Extradata, LTR
<1>6. CASE Bitrate \/ Framerate \/ Rotation
  BY <1>6 DEF Bitrate, Framerate, Rotation, Section, Elsewhere, InFits, OutFits, Progress
<1>7. CASE Quantization \/ QPRange
  BY <1>7 DEF Quantization, QPRange, Optional, Elsewhere, InFits, OutFits, Progress
<1>8. CASE IntraRefresh
  BY <1>8 DEF IntraRefresh, Given, Elsewhere, InFits, OutFits, Progress
<1>9. CASE Restart
  BY <1>9 DEF Restart
<1> QED
  BY <1>1, <1>2, <1>3, <1>4, <1>5, <1>6, <1>7, <1>8, <1>9 DEF Next

LEMMA NextEInv == EInv /\ [Next]_vars => EInv'
<1>1. EInv /\ Next => EInv'
  BY NextTypes, NextProgress, NextFitting DEF EInv
<1>2. EInv /\ UNCHANGED vars => EInv'
  BY DEF vars, EInv, TypeOK, Progress, Fitting, InFits, OutFits, AskedFor, Resync
<1> QED
  BY <1>1, <1>2

-----------------------------------------------------------------------------
(* The sections, the port definitions and the counts have their types.     *)
THEOREM TypeCorrect == Spec => []TypeOK
<1>1. EInv => TypeOK
  BY DEF EInv
<1> QED
  BY <1>1, InitEInv, NextEInv, PTL DEF Spec

(* A success of Configure() hides the refusal of a few settings only.      *)
THEOREM SuccessMeansConfigured == Spec => []SuccessIsConfigured
<1>1. EInv => SuccessIsConfigured
  BY DEF EInv, Progress, Overwritten, Pending, SuccessIsConfigured
<1> QED
  BY <1>1, InitEInv, NextEInv, PTL DEF Spec

(* After a success the session's headers fit the ports, as far as the      *)
(* encoder has taken the counts.                                           *)
THEOREM HeadersFitPorts == Spec => []HeadersFit
<1>1. EInv => HeadersFit
  BY DEF EInv, Fitting, InFits, OutFits, BeforeIn, BeforeOut, Overwritten, HeadersFit
<1> QED
  BY <1>1, InitEInv, NextEInv, PTL DEF Spec

=============================================================================
