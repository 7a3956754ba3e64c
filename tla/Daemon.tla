------------------------------- MODULE Daemon -------------------------------
(***************************************************************************)
(* The request server QCamDaemon (qcamdaemon.cpp), the classification of   *)
(* messages (js_invoke.cpp) and the command line client (qcamclient.cpp).  *)
(*                                                                         *)
(* A request travels as four parts, between which TCP may cut it:          *)
(*     {"method": ..,   "id": ..,   "params": ..}   newline                *)
(* The daemon's one thread reads what has come from one client behind what *)
(* is left in the one buffer of all, handles one message after the other   *)
(* while clients send, read and leave, and keeps what is left.             *)
(*                                                                         *)
(* What an unclassified message leads to depends on memory the code does   *)
(* not initialise (jsCall): nothing, an answer EBADMSG without an id, or   *)
(* the request with a wrong id.                                            *)
(***************************************************************************)
EXTENDS JsonScan, FiniteSets

CONSTANTS Clients, Requests,
          Sender,    \* the client that sends a request
          Method,    \* the method a request calls
          BadId,     \* the id of an answer to a message without one
          NoClient,  \* nobody's input is being handled
          Capacity   \* CMD_SIZE, in parts

Width == 10  \* the characters of a part

ASSUME DaemonAssumption ==
    /\ Sender \in [Requests -> Clients]
    /\ Method \in [Requests -> {"recording.start", "recording.stop", "rtsp.start",
                                "rtsp.stop", "other"}]
    /\ BadId \notin Requests /\ NoClient \notin Clients /\ Capacity \in Nat \ {0}
    /\ Width * Capacity <= Error

VARIABLES
    daemon,    \* "runs", "down" or "crashed"
    conn,      \* each client's connection
    wire,      \* the parts on their way to the daemon
    buffer,    \* cmd_buf_, up to cmd_buf_occupied_
    current,   \* current_client_ while its input is handled
    processed, \* how much of the buffer handleMessage() has been through
    fpv,       \* there is an FpvServer
    runs,      \* how often each request's method was called
    answers,   \* the ids of the answers on their way to a client
    shown,     \* the answers each client has printed
    sent,      \* the requests sent
    pressed,   \* a client sent a request before the last one was done with
    cut        \* a read ended inside a line

clientVars == <<conn, sent, pressed>>
handlerVars == <<buffer, current, processed>>
vars == <<daemon, wire, handlerVars, fpv, runs, answers, shown, clientVars, cut>>

Ids == Requests \union {BadId}
PartNames == {"method", "id", "tail", "newline"}
Parts == PartNames \X Requests

TypeOK ==
    /\ daemon \in {"runs", "down", "crashed"}
    /\ conn \in [Clients -> {"connecting", "open", "closing", "closed"}]
    /\ wire \in [Clients -> Seq(Parts)] /\ buffer \in Seq(Parts) /\ Len(buffer) <= Capacity
    /\ current \in Clients \union {NoClient} /\ processed \in 0..Len(buffer)
    /\ answers \in [Clients -> Seq(Ids)] /\ shown \in [Clients -> SUBSET Ids]
    /\ runs \in [Requests -> Nat] /\ sent \subseteq Requests
    /\ {fpv, pressed, cut} \subseteq BOOLEAN

Init ==
    /\ daemon = "runs" /\ conn = [c \in Clients |-> "connecting"]
    /\ wire = [c \in Clients |-> <<>>] /\ buffer = <<>> /\ fpv = FALSE
    /\ current = NoClient /\ processed = 0
    /\ runs = [r \in Requests |-> 0] /\ answers = [c \in Clients |-> <<>>]
    /\ shown = [c \in Clients |-> {}]
    /\ sent = {} /\ pressed = FALSE /\ cut = FALSE

-----------------------------------------------------------------------------
(* clients *)

Message(r) == [i \in 1..4 |-> <<(<<"method", "id", "tail", "newline">>)[i], r>>]

(* Which requests are answered when all goes well: those to rtsp are not,  *)
(* but for a second start, and an unknown method is not.                   *)
Answered(r) == Method[r] \in {"recording.start", "recording.stop"}

(* A request of c that its daemon has not run, or whose answer c has not   *)
(* printed.                                                                *)
Outstanding(c) ==
    {r \in sent : Sender[r] = c /\ (runs[r] = 0 \/ (Answered(r) /\ r \notin shown[c]))}

(* Client::send(): a line, with its newline.                               *)
Send(c, r) ==
    /\ conn[c] = "open" /\ Sender[r] = c /\ r \notin sent
    /\ sent' = sent \union {r}
    /\ pressed' = (pressed \/ Outstanding(c) # {})
    /\ wire' = [wire EXCEPT ![c] = @ \o Message(r)]
    /\ UNCHANGED <<daemon, conn, handlerVars, fpv, runs, answers, shown, cut>>

(* MUTANT: the reader drops what it reads.                                 *)
PrintedNone(seq) == {}

(* puts(): up to the first answer's terminating zero.                      *)
Printed(seq) == {Head(seq)}

(* Client::reader(): all that has come is read, and the first printed.     *)
Read(c) ==
    /\ conn[c] # "closing" /\ answers[c] # <<>>
    /\ shown' = [shown EXCEPT ![c] = @ \union Printed(answers[c])]
    /\ answers' = [answers EXCEPT ![c] = <<>>]
    /\ UNCHANGED <<daemon, wire, handlerVars, fpv, runs, clientVars, cut>>

(* Client::stop(): the reader is joined, and the socket closed.            *)
Quit(c) ==
    /\ conn[c] = "open"
    /\ conn' = [conn EXCEPT ![c] = "closing"]
    /\ answers' = [answers EXCEPT ![c] = <<>>]
    /\ UNCHANGED <<daemon, wire, handlerVars, fpv, runs, shown, sent, pressed, cut>>

-----------------------------------------------------------------------------
(* what is in a buffer *)

(* JSONParser_GetJSON(): where the value at i ends; an object that is not  *)
(* closed takes all the rest.                                              *)
ValueEnd(buf, i) ==
    LET level(k) == Cardinality({j \in (i + 1)..k : buf[j][1] = "method"})
                  - Cardinality({j \in (i + 1)..k : buf[j][1] = "tail"})
    IN  IF buf[i + 1][1] # "method" THEN i + 1
        ELSE Min({k \in (i + 1)..Len(buf) : k = Len(buf) \/ level(k) = 0})

(* How the parts may be spelt: in the last a bracket and a quote that mean *)
(* nothing.                                                                *)
Spelling ==
    [method  |-> <<"{", Quote, "a", Quote, ":", Quote, "e", Quote, ",", " ">>,
     id      |-> <<Quote, "n", Quote, ":", "1", ",", " ", " ", " ", " ">>,
     tail    |-> <<Quote, "a", Quote, ":", Quote, Backslash, Quote, "}", Quote, "}">>,
     newline |-> [k \in 1..Width |-> "<nl>"]]

Text(buf) ==
    [k \in 1..(Width * Len(buf)) |->
        Spelling[buf[(k - 1) \div Width + 1][1]][((k - 1) % Width) + 1]]

(* jsCall::ctor(): the request's own id and method are found in an object  *)
(* that goes on behind them.                                               *)
IsRequest(v) == Len(v) > 2 /\ v[1][1] = "method" /\ v[2][1] = "id"

(* MUTANT: the newline behind a message stays in the buffer.               *)
SkipNothing(buf, i) == i

(* skipSpace(), behind what was processed.                                 *)
SkipNewlines(buf, i) ==
    Min({k \in i..Len(buf) : k = Len(buf) \/ buf[k + 1][1] # "newline"})

-----------------------------------------------------------------------------
(* daemon *)

(* jsResult_Send(), to a client that is still there.                       *)
Reply(id) ==
    answers' = IF conn[current] = "open" THEN [answers EXCEPT ![current] = Append(@, id)]
                                         ELSE answers

(* The four methods.  A second rtsp.start is refused, and rtsp.stop        *)
(* without a server uses a null pointer.                                   *)
Call(method, id) ==
    \/ /\ method \in {"recording.start", "recording.stop"} \/ (method = "rtsp.start" /\ fpv)
       /\ Reply(id) /\ UNCHANGED <<daemon, fpv>>
    \/ /\ method = "other" \/ (method = "rtsp.start" /\ ~fpv) \/ (method = "rtsp.stop" /\ fpv)
       /\ fpv' = IF method = "other" THEN fpv ELSE ~fpv
       /\ UNCHANGED <<daemon, answers>>
    \/ /\ method = "rtsp.stop" /\ ~fpv
       /\ daemon' = "crashed" /\ UNCHANGED <<fpv, answers>>

Run(r, id) == runs' = [runs EXCEPT ![r] = @ + 1] /\ Call(Method[r], id)

(* handleRequest(), when the message is taken for a request: one that is   *)
(* not classified is answered EBADMSG, run with a wrong id, or passed over.*)
HandleRequest(v) ==
    \/ IsRequest(v) /\ Run(v[1][2], v[2][2])
    \/ ~IsRequest(v) /\ v[1][1] = "method" /\ Run(v[1][2], BadId)
    \/ ~IsRequest(v) /\ Reply(BadId) /\ UNCHANGED <<daemon, fpv, runs>>
    \/ ~IsRequest(v) /\ UNCHANGED <<daemon, fpv, runs, answers>>

(* MUTANT: the octets processed are not removed.                           *)
RestUnmoved(buf, i) == buf

(* The octets behind those processed, moved down.                          *)
Rest(buf, i) == SubSeq(buf, i + 1, Len(buf))

(* The daemon is in pselect().                                             *)
Waits == daemon = "runs" /\ current = NoClient

Accept(c) ==
    /\ Waits /\ conn[c] = "connecting"
    /\ conn' = [conn EXCEPT ![c] = "open"]
    /\ UNCHANGED <<daemon, wire, handlerVars, fpv, runs, answers, shown, sent, pressed, cut>>

(* handleInput(): k parts are read from c.                                 *)
HandleInput(c, k) ==
    /\ Waits /\ conn[c] \in {"open", "closing"}
    /\ wire' = [wire EXCEPT ![c] = SubSeq(@, k + 1, Len(@))]
    /\ buffer' = buffer \o SubSeq(wire[c], 1, k)
    /\ current' = c /\ processed' = 0
    /\ cut' = (cut \/ wire[c][k][1] # "newline")
    /\ UNCHANGED <<daemon, fpv, runs, answers, shown, clientVars>>

Input(c) == \E k \in 1..Len(wire[c]) : Len(buffer) + k <= Capacity /\ HandleInput(c, k)

(* handleMessage() stops at a space, which begins no value.                *)
MoreValues == processed < Len(buffer) /\ buffer[processed + 1][1] # "newline"

(* handleMessage(): one value.                                             *)
HandleMessage ==
    /\ daemon = "runs" /\ current # NoClient /\ MoreValues
    /\ HandleRequest(SubSeq(buffer, processed + 1, ValueEnd(buffer, processed)))
    /\ processed' = ValueEnd(buffer, processed)
    /\ UNCHANGED <<wire, buffer, current, shown, clientVars, cut>>

(* handleInput() again: what was processed is dropped.                     *)
KeepTrailing ==
    /\ daemon = "runs" /\ current # NoClient /\ ~MoreValues
    /\ buffer' = Rest(buffer, SkipNewlines(buffer, processed))
    /\ current' = NoClient /\ processed' = 0
    /\ UNCHANGED <<daemon, wire, fpv, runs, answers, shown, clientVars, cut>>

(* read() of nothing: the client has closed, or the buffer is full.        *)
Closed(c) ==
    /\ Waits /\ conn[c] \in {"open", "closing"}
    /\ \/ conn[c] = "closing" /\ wire[c] = <<>>
       \/ wire[c] # <<>> /\ Len(buffer) = Capacity
    /\ buffer' = <<>>
    /\ conn' = [conn EXCEPT ![c] = "closed"]
    /\ wire' = [wire EXCEPT ![c] = <<>>]
    /\ UNCHANGED <<daemon, current, processed, fpv, runs, answers, shown, sent, pressed, cut>>

(* A signal, which run() sees in pselect() only.  The sockets are closed,  *)
(* and what is on its way to a client still arrives.                       *)
Shutdown ==
    /\ Waits /\ daemon' = "down"
    /\ conn' = [c \in Clients |-> "closed"]
    /\ wire' = [c \in Clients |-> <<>>] /\ buffer' = <<>>
    /\ UNCHANGED <<current, processed, fpv, runs, answers, shown, sent, pressed, cut>>

Next ==
    \/ \E c \in Clients : Read(c) \/ Quit(c) \/ Accept(c) \/ Input(c) \/ Closed(c)
    \/ \E c \in Clients, r \in Requests : Send(c, r)
    \/ HandleMessage \/ KeepTrailing \/ Shutdown

Spec == Init /\ [][Next]_vars

(* pselect() comes back to every socket, the daemon goes on with what it   *)
(* has begun, and a client reads its answers.                              *)
Fairness ==
    /\ \A c \in Clients : WF_vars(Input(c)) /\ WF_vars(Read(c))
    /\ WF_vars(HandleMessage) /\ WF_vars(KeepTrailing)

FairSpec == Spec /\ Fairness

-----------------------------------------------------------------------------
(* Lines come whole, and no client sends one before it is done with the *)
(* last: what the daemon needs of its clients.                             *)
Orderly == ~cut /\ ~pressed

(* No request is run twice: what is left in the buffer was not handled,    *)
(* however requests are cut, joined and mixed in it.                       *)
RunOnce == \A r \in Requests : runs[r] <= 1

(* Orderly clients share the buffer without noticing: nothing is left in   *)
(* it between two reads, and each gets answers to its own requests only.   *)
AnswersGoHome ==
    Orderly => /\ current = NoClient => buffer = <<>>
               /\ \A c \in Clients, id \in Ids :
                      (id \in shown[c] \/ id \in ToSet(answers[c]))
                          => id # BadId /\ Sender[id] = c /\ runs[id] = 1

(* An orderly client's request is run, and it prints the answer if there   *)
(* is one to come - unless the client leaves, or the daemon ends.          *)
RequestsEnd ==
    \A r \in Requests :
        (r \in sent /\ Orderly)
            ~> \/ runs[r] = 1 /\ (Answered(r) => r \in shown[Sender[r]])
               \/ ~Orderly \/ daemon # "runs" \/ conn[Sender[r]] # "open"

(* The trailing message is kept until the rest of it comes: a request of   *)
(* which a part has been read and its tail has not is in the buffer.       *)
TrailingKept ==
    daemon = "runs" =>
        \A c \in Clients, r \in Requests :
            (<<"tail", r>> \in ToSet(wire[c]) /\ <<"method", r>> \notin ToSet(wire[c]))
                => <<"method", r>> \in ToSet(buffer)

(* The value that is handled next is found by JSONParser_GetJSON() where   *)
(* ValueEnd() says: whatever has been put together in the buffer, its      *)
(* strings and brackets are closed, or it is all there is; and the object  *)
(* of a request ends with its own tail.                                    *)
ValuesAreWhole ==
    MoreValues =>
        LET rest == SubSeq(buffer, processed + 1, Len(buffer))
        IN  /\ EndIsWhole(Text(rest))
            /\ rest[1][1] = "method" =>
                   LET behind == SkipNewlines(buffer, ValueEnd(buffer, processed))
                   IN  Skip(Text(rest), 0) = Width * (behind - processed)

=============================================================================
