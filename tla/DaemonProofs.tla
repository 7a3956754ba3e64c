----------------------------- MODULE DaemonProofs -----------------------------
(***************************************************************************)
(* Proofs about the daemon: its server, for any number of clients and      *)
(* requests and any size of the buffer; the lock file that keeps daemons   *)
(* apart, as long as it is not unlinked; and the scanner of JSON values,   *)
(* which finds where a value ends in a text of any length and in whatever  *)
(* has been put together in the server's buffer.                           *)
(***************************************************************************)
EXTENDS Daemon, PidLock, WellFoundedInduction, SequenceTheorems, FiniteSetTheorems, TLAPS

(* No part occurs twice.                                                   *)
Apart(seq) == \A i, j \in 1..Len(seq) : seq[i] = seq[j] => i = j

(* What is on its way or in the buffer was sent, and by whose it is.       *)
Known ==
    /\ \A c \in Clients : \A i \in 1..Len(wire[c]) :
           wire[c][i][2] \in sent /\ Sender[wire[c][i][2]] = c
    /\ \A i \in 1..Len(buffer) : buffer[i][2] \in sent

(* A part is in one place.                                                 *)
Once ==
    /\ \A c \in Clients : Apart(wire[c])
    /\ Apart(buffer)
    /\ \A c \in Clients : \A i \in 1..Len(wire[c]), j \in 1..Len(buffer) : wire[c][i] # buffer[j]

(* A request that was run has its first part nowhere but in what has been  *)
(* processed.                                                              *)
Ran ==
    \A r \in Requests : runs[r] # 0 =>
        /\ r \in sent
        /\ \A c \in Clients : \A i \in 1..Len(wire[c]) : wire[c][i] # <<"method", r>>
        /\ \A i \in (processed + 1)..Len(buffer) : buffer[i] # <<"method", r>>

Idle == current = NoClient => processed = 0

RInv == TypeOK /\ Known /\ Once /\ Ran /\ Idle /\ RunOnce

(* With orderly clients a message is alone in the buffer, and alone on its *)
(* way.                                                                    *)
Home ==
    Orderly =>
        /\ current = NoClient => buffer = <<>>
        /\ current # NoClient =>
               \E r \in Requests : /\ buffer = Message(r) /\ Sender[r] = current
                                   /\ \/ processed = 0 /\ runs[r] = 0
                                      \/ processed = 3 /\ runs[r] = 1
        /\ \A c \in Clients : wire[c] = <<>> \/ \E r \in Requests : wire[c] = Message(r)
        /\ \A c \in Clients : \A id \in shown[c] \union ToSet(answers[c]) :
               id # BadId /\ Sender[id] = c /\ runs[id] = 1

-----------------------------------------------------------------------------
(* sequences *)

(* The least number principle.                                             *)
LEMMA LeastOf ==
    ASSUME NEW T \in SUBSET Nat, T # {}
    PROVE  Min(T) \in T /\ \A k \in T : Min(T) <= k
<1>1. PICK m \in T : \A k \in T : <<k, m>> \notin OpToRel(<, Nat)
  BY NatLessThanWellFounded, WFMin
<1>2. ASSUME NEW k \in T PROVE m <= k
  <2>1. SUFFICES ASSUME k < m PROVE FALSE
    OBVIOUS
  <2>2. <<k, m>> \in OpToRel(<, Nat)
    BY <2>1 DEF OpToRel
  <2> QED
    BY <1>1, <2>2
<1> QED
  BY <1>2 DEF Min

LEMMA Cut ==
    ASSUME NEW seq \in Seq(Parts), NEW m \in 0..Len(seq)
    PROVE  /\ SubSeq(seq, m + 1, Len(seq)) \in Seq(Parts)
           /\ Len(SubSeq(seq, m + 1, Len(seq))) = Len(seq) - m
           /\ \A j \in 1..(Len(seq) - m) : SubSeq(seq, m + 1, Len(seq))[j] = seq[j + m]
<1>1. \A i \in (m + 1)..Len(seq) : seq[i] \in Parts
  BY ElementOfSeq
<1>2. Len(seq) \in Nat
  OBVIOUS
<1> QED
  BY <1>1, <1>2, SubSeqProperties

LEMMA Taken ==
    ASSUME NEW seq \in Seq(Parts), NEW m \in 0..Len(seq)
    PROVE  /\ SubSeq(seq, 1, m) \in Seq(Parts)
           /\ Len(SubSeq(seq, 1, m)) = m
           /\ \A j \in 1..m : SubSeq(seq, 1, m)[j] = seq[j]
<1>1. \A i \in 1..m : seq[i] \in Parts
  BY ElementOfSeq
<1>2. Len(seq) \in Nat
  OBVIOUS
<1> QED
  BY <1>1, <1>2, SubSeqProperties

LEMMA PartFacts ==
    ASSUME NEW p \in Parts
    PROVE  /\ p = <<p[1], p[2]>> /\ p[1] \in PartNames /\ p[2] \in Requests
BY DEF Parts

LEMMA MessageFacts ==
    ASSUME NEW r \in Requests
    PROVE  /\ Message(r) \in Seq(Parts) /\ Len(Message(r)) = 4
           /\ \A i \in 1..4 : Message(r)[i][2] = r
           /\ Message(r)[1] = <<"method", r>> /\ Message(r)[2] = <<"id", r>>
           /\ Message(r)[3] = <<"tail", r>> /\ Message(r)[4] = <<"newline", r>>
           /\ Apart(Message(r))
<1>1. Message(r) = <<<<"method", r>>, <<"id", r>>, <<"tail", r>>, <<"newline", r>>>>
  BY DEF Message
<1>2. \A p \in PartNames : <<p, r>> \in Parts
  BY DEF Parts
<1>3. Message(r) \in Seq(Parts) /\ Len(Message(r)) = 4
  BY <1>1, <1>2 DEF PartNames
<1>4. \A i \in 1..4 : i = 1 \/ i = 2 \/ i = 3 \/ i = 4
  OBVIOUS
<1> QED
  BY <1>1, <1>3, <1>4 DEF Apart

(* A value is not empty, and ends in the buffer.                           *)
LEMMA ValueEndBounds ==
    ASSUME NEW buf \in Seq(Parts), NEW i \in Nat, i < Len(buf)
    PROVE  ValueEnd(buf, i) \in (i + 1)..Len(buf)
<1> DEFINE level(k) == Cardinality({j \in (i + 1)..k : buf[j][1] = "method"})
                     - Cardinality({j \in (i + 1)..k : buf[j][1] = "tail"})
           T == {k \in (i + 1)..Len(buf) : k = Len(buf) \/ level(k) = 0}
<1>1. ValueEnd(buf, i) = IF buf[i + 1][1] # "method" THEN i + 1 ELSE Min(T)
  BY DEF ValueEnd
<1>2. T \in SUBSET Nat /\ Len(buf) \in T
  OBVIOUS
<1>3. T \subseteq (i + 1)..Len(buf)
  OBVIOUS
<1> HIDE DEF T
<1>4. Min(T) \in T
  BY <1>2, LeastOf
<1>5. i + 1 \in (i + 1)..Len(buf)
  OBVIOUS
<1>6. CASE buf[i + 1][1] # "method"
  BY <1>1, <1>5, <1>6
<1>7. CASE buf[i + 1][1] = "method"
  BY <1>1, <1>3, <1>4, <1>7
<1> QED
  BY <1>6, <1>7

LEMMA SkipBounds ==
    ASSUME NEW buf \in Seq(Parts), NEW i \in 0..Len(buf)
    PROVE  SkipNewlines(buf, i) \in i..Len(buf)
<1> DEFINE T == {k \in i..Len(buf) : k = Len(buf) \/ buf[k + 1][1] # "newline"}
<1>1. SkipNewlines(buf, i) = Min(T)
  BY DEF SkipNewlines
<1>2. T \in SUBSET Nat /\ Len(buf) \in T /\ T \subseteq i..Len(buf)
  OBVIOUS
<1> HIDE DEF T
<1> QED
  BY <1>1, <1>2, LeastOf

-----------------------------------------------------------------------------
(* types *)

LEMMA TypeOKParts ==
    TypeOK => /\ wire \in [Clients -> Seq(Parts)] /\ buffer \in Seq(Parts)
              /\ \A c \in Clients : wire[c] \in Seq(Parts)
              /\ current \in Clients \union {NoClient} /\ processed \in 0..Len(buffer)
              /\ answers \in [Clients -> Seq(Ids)] /\ shown \in [Clients -> SUBSET Ids]
              /\ runs \in [Requests -> Nat] /\ sent \subseteq Requests
              /\ fpv \in BOOLEAN /\ pressed \in BOOLEAN /\ cut \in BOOLEAN
BY DEF TypeOK

(* The value that is handled next, and its request.                        *)
LEMMA NextValue ==
    ASSUME TypeOK, MoreValues
    PROVE  LET end == ValueEnd(buffer, processed)
               v == SubSeq(buffer, processed + 1, end)
           IN  /\ end \in (processed + 1)..Len(buffer)
               /\ v \in Seq(Parts) /\ v[1] = buffer[processed + 1]
               /\ v[1] \in Parts
               /\ Len(v) > 2 => v[2] = buffer[processed + 2] /\ v[2] \in Parts
<1> DEFINE end == ValueEnd(buffer, processed)
           v == SubSeq(buffer, processed + 1, end)
<1>1. buffer \in Seq(Parts) /\ processed \in Nat /\ processed < Len(buffer)
  BY TypeOKParts DEF MoreValues
<1>2. end \in (processed + 1)..Len(buffer)
  BY <1>1, ValueEndBounds
<1> HIDE DEF end
<1>3. Len(buffer) \in Nat
  BY <1>1
<1>4. \A i \in (processed + 1)..end : buffer[i] \in Parts
  BY <1>1, <1>2, <1>3, ElementOfSeq
<1>5. /\ v \in Seq(Parts) /\ Len(v) = end - processed
      /\ \A i \in 1..(end - processed) : v[i] = buffer[processed + i]
  <2>1. processed + 1 \in Int /\ end \in Int /\ processed + 1 <= end
    BY <1>1, <1>2, <1>3
  <2> QED
    BY <1>1, <1>4, <2>1, SubSeqProperties
<1> HIDE DEF v
<1>6. v[1] = buffer[processed + 1] /\ v[1] \in Parts
  BY <1>1, <1>2, <1>3, <1>4, <1>5
<1>7. ASSUME Len(v) > 2 PROVE v[2] = buffer[processed + 2] /\ v[2] \in Parts
  BY <1>1, <1>2, <1>3, <1>4, <1>5, <1>7
<1> QED
  BY <1>2, <1>5, <1>6, <1>7 DEF end, v

LEMMA ReplyTypes ==
    ASSUME TypeOK, NEW id \in Ids, current # NoClient, Reply(id)
    PROVE  answers' \in [Clients -> Seq(Ids)]
BY TypeOKParts DEF Reply

LEMMA CallTypes ==
    ASSUME TypeOK, NEW m, NEW id \in Ids, current # NoClient, daemon = "runs", Call(m, id)
    PROVE  /\ answers' \in [Clients -> Seq(Ids)] /\ fpv' \in BOOLEAN
           /\ daemon' \in {"runs", "crashed"}
<1>1. CASE Reply(id) /\ UNCHANGED <<daemon, fpv>>
  BY <1>1, ReplyTypes, TypeOKParts
<1>2. CASE UNCHANGED <<daemon, answers>> /\ fpv' = IF m = "other" THEN fpv ELSE ~fpv
  BY <1>2, TypeOKParts
<1>3. CASE daemon' = "crashed" /\ UNCHANGED <<fpv, answers>>
  BY <1>3, TypeOKParts
<1> QED
  BY <1>1, <1>2, <1>3 DEF Call

(* A message is handled in one of three ways.                              *)
LEMMA HandledTypes ==
    ASSUME TypeOK, HandleMessage
    PROVE  /\ answers' \in [Clients -> Seq(Ids)] /\ fpv' \in BOOLEAN
           /\ daemon' \in {"runs", "crashed"}
           /\ \/ UNCHANGED runs
              \/ \E r \in Requests : /\ buffer[processed + 1] = <<"method", r>>
                                      /\ runs' = [runs EXCEPT ![r] = @ + 1]
<1> DEFINE v == SubSeq(buffer, processed + 1, ValueEnd(buffer, processed))
<1>1. /\ v[1] = buffer[processed + 1] /\ v[1] \in Parts
      /\ Len(v) > 2 => v[2] \in Parts
  BY NextValue DEF HandleMessage
<1>2. HandleRequest(v) /\ current # NoClient /\ daemon = "runs"
  BY DEF HandleMessage
<1> HIDE DEF v
<1>3. v[1][2] \in Requests /\ v[1] = <<v[1][1], v[1][2]>>
  BY <1>1, PartFacts
<1>4. CASE IsRequest(v) /\ Run(v[1][2], v[2][2])
  <2>1. v[1][1] = "method" /\ v[2][2] \in Ids
    BY <1>1, <1>4, PartFacts DEF IsRequest, Ids
  <2> QED
    BY <1>1, <1>2, <1>3, <1>4, <2>1, CallTypes DEF Run
<1>5. CASE v[1][1] = "method" /\ Run(v[1][2], BadId)
  <2>1. BadId \in Ids
    BY DEF Ids
  <2> QED
    BY <1>1, <1>2, <1>3, <1>5, <2>1, CallTypes DEF Run
<1>6. CASE Reply(BadId) /\ UNCHANGED <<daemon, fpv, runs>>
  <2>1. BadId \in Ids
    BY DEF Ids
  <2> QED
    BY <1>2, <1>6, <2>1, ReplyTypes, TypeOKParts
<1>7. CASE UNCHANGED <<daemon, fpv, runs, answers>>
  BY <1>2, <1>7, TypeOKParts
<1> QED
  BY <1>2, <1>4, <1>5, <1>6, <1>7 DEF HandleRequest

-----------------------------------------------------------------------------
(* the steps of a client and of the daemon *)

(* k parts of a client are moved to the buffer.                            *)
LEMMA InputMoves ==
    ASSUME TypeOK, NEW c \in Clients, NEW k \in 1..Len(wire[c]), HandleInput(c, k)
    PROVE  /\ wire' \in [Clients -> Seq(Parts)] /\ buffer' \in Seq(Parts)
           /\ Len(wire[c]) \in Nat /\ Len(buffer) \in Nat /\ k \in Nat
           /\ \A d \in Clients \ {c} : wire'[d] = wire[d]
           /\ Len(wire'[c]) = Len(wire[c]) - k
           /\ \A i \in 1..(Len(wire[c]) - k) : wire'[c][i] = wire[c][i + k]
           /\ Len(buffer') = Len(buffer) + k
           /\ \A i \in 1..(Len(buffer) + k) :
                  buffer'[i] = IF i <= Len(buffer) THEN buffer[i] ELSE wire[c][i - Len(buffer)]
<1>1. wire[c] \in Seq(Parts) /\ buffer \in Seq(Parts) /\ wire \in [Clients -> Seq(Parts)]
  BY TypeOKParts
<1>2. Len(wire[c]) \in Nat /\ Len(buffer) \in Nat /\ k \in 0..Len(wire[c]) /\ k \in Nat
  BY <1>1
<1>3. /\ wire' = [wire EXCEPT ![c] = SubSeq(wire[c], k + 1, Len(wire[c]))]
      /\ buffer' = buffer \o SubSeq(wire[c], 1, k)
  BY DEF HandleInput
<1>4. /\ SubSeq(wire[c], k + 1, Len(wire[c])) \in Seq(Parts)
      /\ Len(SubSeq(wire[c], k + 1, Len(wire[c]))) = Len(wire[c]) - k
      /\ \A i \in 1..(Len(wire[c]) - k) :
             SubSeq(wire[c], k + 1, Len(wire[c]))[i] = wire[c][i + k]
  BY <1>1, <1>2, Cut
<1>5. /\ SubSeq(wire[c], 1, k) \in Seq(Parts) /\ Len(SubSeq(wire[c], 1, k)) = k
      /\ \A i \in 1..k : SubSeq(wire[c], 1, k)[i] = wire[c][i]
  BY <1>1, <1>2, Taken
<1>6. wire'[c] = SubSeq(wire[c], k + 1, Len(wire[c])) /\ wire' \in [Clients -> Seq(Parts)]
      /\ \A d \in Clients \ {c} : wire'[d] = wire[d]
  BY <1>1, <1>3, <1>4
<1>7. /\ buffer' \in Seq(Parts) /\ Len(buffer') = Len(buffer) + k
      /\ \A i \in 1..(Len(buffer) + k) :
             buffer'[i] = IF i <= Len(buffer) THEN buffer[i]
                                              ELSE SubSeq(wire[c], 1, k)[i - Len(buffer)]
  BY <1>1, <1>3, <1>5, ConcatProperties
<1>8. ASSUME NEW i \in 1..(Len(buffer) + k)
      PROVE  buffer'[i] = IF i <= Len(buffer) THEN buffer[i] ELSE wire[c][i - Len(buffer)]
  <2>1. CASE i <= Len(buffer)
    BY <1>7, <2>1
  <2>2. CASE ~(i <= Len(buffer))
    <3>1. i - Len(buffer) \in 1..k
      BY <1>2, <2>2
    <3> QED
      BY <1>5, <1>7, <2>2, <3>1
  <2> QED
    BY <2>1, <2>2
<1> QED
  BY <1>2, <1>4, <1>6, <1>7, <1>8

(* Where each part comes from.                                             *)
LEMMA InputFrom ==
    ASSUME TypeOK, NEW c \in Clients, NEW k \in 1..Len(wire[c]), HandleInput(c, k)
    PROVE  /\ \A i \in 1..Len(wire'[c]) :
                  i + k \in 1..Len(wire[c]) /\ i + k \notin 1..k /\ wire'[c][i] = wire[c][i + k]
           /\ \A i \in 1..Len(buffer') :
                  \/ i \in 1..Len(buffer) /\ buffer'[i] = buffer[i]
                  \/ /\ i - Len(buffer) \in 1..k /\ i - Len(buffer) \in 1..Len(wire[c])
                     /\ buffer'[i] = wire[c][i - Len(buffer)]
<1> DEFINE n == Len(wire[c])
           b == Len(buffer)
<1>1. n \in Nat /\ b \in Nat /\ k \in 1..n
  BY InputMoves
<1>2. /\ Len(wire'[c]) = n - k /\ \A i \in 1..(n - k) : wire'[c][i] = wire[c][i + k]
      /\ Len(buffer') = b + k
      /\ \A i \in 1..(b + k) : buffer'[i] = IF i <= b THEN buffer[i] ELSE wire[c][i - b]
  BY InputMoves
<1> HIDE DEF n, b
<1>3. ASSUME NEW i \in 1..(n - k) PROVE i + k \in 1..n /\ i + k \notin 1..k
  BY <1>1, <1>3
<1>4. ASSUME NEW i \in 1..(b + k)
      PROVE  \/ i \in 1..b /\ i <= b
             \/ i - b \in 1..k /\ i - b \in 1..n /\ ~(i <= b)
  BY <1>1, <1>4
<1>5. \A i \in 1..Len(wire'[c]) :
          i + k \in 1..n /\ i + k \notin 1..k /\ wire'[c][i] = wire[c][i + k]
  BY <1>2, <1>3
<1>6. \A i \in 1..Len(buffer') :
          \/ i \in 1..b /\ buffer'[i] = buffer[i]
          \/ i - b \in 1..k /\ i - b \in 1..n /\ buffer'[i] = wire[c][i - b]
  BY <1>2, <1>4
<1> QED
  BY <1>5, <1>6 DEF n, b

(* What is left of the buffer is the end of it.                            *)
LEMMA TrailingMoves ==
    ASSUME TypeOK, KeepTrailing
    PROVE  /\ buffer' \in Seq(Parts) /\ Len(buffer) \in Nat
           /\ \E m \in 0..Len(buffer) :
                  /\ processed <= m
                  /\ Len(buffer') = Len(buffer) - m
                  /\ \A i \in 1..(Len(buffer) - m) : buffer'[i] = buffer[i + m]
<1>1. buffer \in Seq(Parts) /\ processed \in 0..Len(buffer)
  BY TypeOKParts
<1> DEFINE m == SkipNewlines(buffer, processed)
<1>2. m \in processed..Len(buffer)
  BY <1>1, SkipBounds
<1>3. buffer' = SubSeq(buffer, m + 1, Len(buffer))
  BY DEF KeepTrailing, Rest
<1> HIDE DEF m
<1>4. Len(buffer) \in Nat /\ m \in 0..Len(buffer) /\ processed <= m
  BY <1>1, <1>2
<1> QED
  BY <1>1, <1>3, <1>4, Cut

(* A request's line joins what its client has on its way.                  *)
LEMMA SendAppends ==
    ASSUME TypeOK, NEW c \in Clients, NEW r \in Requests, Send(c, r)
    PROVE  /\ wire' \in [Clients -> Seq(Parts)] /\ Len(wire[c]) \in Nat
           /\ \A d \in Clients \ {c} : wire'[d] = wire[d]
           /\ Len(wire'[c]) = Len(wire[c]) + 4
           /\ \A i \in 1..(Len(wire[c]) + 4) :
                  wire'[c][i] = IF i <= Len(wire[c]) THEN wire[c][i]
                                                     ELSE Message(r)[i - Len(wire[c])]
<1>1. wire[c] \in Seq(Parts) /\ wire \in [Clients -> Seq(Parts)]
  BY TypeOKParts
<1>2. Message(r) \in Seq(Parts) /\ Len(Message(r)) = 4
  BY MessageFacts
<1>3. wire' = [wire EXCEPT ![c] = wire[c] \o Message(r)]
  BY DEF Send
<1>4. /\ wire[c] \o Message(r) \in Seq(Parts)
      /\ Len(wire[c] \o Message(r)) = Len(wire[c]) + 4
      /\ \A i \in 1..(Len(wire[c]) + 4) :
             (wire[c] \o Message(r))[i] = IF i <= Len(wire[c]) THEN wire[c][i]
                                          ELSE Message(r)[i - Len(wire[c])]
  <2> DEFINE m == Message(r)
             w == wire[c]
  <2>1. w \in Seq(Parts) /\ m \in Seq(Parts) /\ Len(m) = 4
    BY <1>1, <1>2
  <2> HIDE DEF m, w
  <2>2. /\ w \o m \in Seq(Parts) /\ Len(w \o m) = Len(w) + Len(m)
        /\ \A i \in 1..(Len(w) + Len(m)) :
               (w \o m)[i] = IF i <= Len(w) THEN w[i] ELSE m[i - Len(w)]
    BY <2>1, ConcatProperties
  <2>3. /\ w \o m \in Seq(Parts) /\ Len(w \o m) = Len(w) + 4
        /\ \A i \in 1..(Len(w) + 4) :
               (w \o m)[i] = IF i <= Len(w) THEN w[i] ELSE m[i - Len(w)]
    BY <2>1, <2>2
  <2> QED
    BY <2>3 DEF m, w
<1>5. wire'[c] = wire[c] \o Message(r) /\ wire' \in [Clients -> Seq(Parts)]
      /\ \A d \in Clients \ {c} : wire'[d] = wire[d]
  BY <1>1, <1>3, <1>4
<1> QED
  BY <1>1, <1>4, <1>5

LEMMA SendFrom ==
    ASSUME TypeOK, NEW c \in Clients, NEW r \in Requests, Send(c, r)
    PROVE  \A i \in 1..Len(wire'[c]) :
               \/ i \in 1..Len(wire[c]) /\ wire'[c][i] = wire[c][i]
               \/ /\ i - Len(wire[c]) \in 1..4
                  /\ wire'[c][i] = Message(r)[i - Len(wire[c])]
<1> DEFINE n == Len(wire[c])
           m == Message(r)
<1>1. /\ n \in Nat /\ Len(wire'[c]) = n + 4
      /\ \A i \in 1..(n + 4) : wire'[c][i] = IF i <= n THEN wire[c][i] ELSE m[i - n]
  BY SendAppends
<1> HIDE DEF n, m
<1>2. ASSUME NEW i \in 1..(n + 4)
      PROVE  \/ i \in 1..n /\ i <= n
             \/ i - n \in 1..4 /\ ~(i <= n)
  BY <1>1, <1>2
<1>3. \A i \in 1..Len(wire'[c]) :
          \/ i \in 1..n /\ wire'[c][i] = wire[c][i]
          \/ i - n \in 1..4 /\ wire'[c][i] = m[i - n]
  <2> SUFFICES ASSUME NEW i \in 1..(n + 4)
               PROVE  \/ i \in 1..n /\ wire'[c][i] = wire[c][i]
                      \/ i - n \in 1..4 /\ wire'[c][i] = m[i - n]
    BY <1>1
  <2>1. wire'[c][i] = IF i <= n THEN wire[c][i] ELSE m[i - n]
    BY <1>1
  <2> QED
    BY <1>2, <2>1
<1> QED
  BY <1>3 DEF n, m

(* Clients that go take what they had on its way with them.                *)
LEMMA Dropped ==
    ASSUME TypeOK, (\E c \in Clients : Closed(c)) \/ Shutdown
    PROVE  /\ wire' \in [Clients -> Seq(Parts)] /\ buffer' = <<>> /\ Len(buffer') = 0
           /\ \A d \in Clients : wire'[d] = wire[d] \/ wire'[d] = <<>>
           /\ \A d \in Clients : wire'[d] = wire[d] \/ Len(wire'[d]) = 0
<1>1. wire \in [Clients -> Seq(Parts)]
  BY TypeOKParts
<1>2. <<>> \in Seq(Parts) /\ Len(<<>>) = 0
  BY EmptySeq
<1>3. CASE Shutdown
  BY <1>1, <1>2, <1>3 DEF Shutdown
<1>4. CASE \E c \in Clients : Closed(c)
  BY <1>1, <1>2, <1>4 DEF Closed
<1> QED
  BY <1>3, <1>4

-----------------------------------------------------------------------------
LEMMA InitRInv == Init => RInv
<1> SUFFICES ASSUME Init PROVE RInv
  OBVIOUS
<1>1. <<>> \in Seq(Parts) /\ <<>> \in Seq(Ids) /\ Len(<<>>) = 0
  BY EmptySeq
<1>2. \A c \in Clients : wire[c] = <<>>
  BY DEF Init
<1>3. TypeOK
  <2>1. /\ daemon \in {"runs", "down", "crashed"}
        /\ conn \in [Clients -> {"connecting", "open", "closing", "closed"}]
        /\ current \in Clients \union {NoClient} /\ runs \in [Requests -> Nat]
        /\ shown \in [Clients -> SUBSET Ids] /\ sent \subseteq Requests
    BY DEF Init
  <2>2. /\ wire \in [Clients -> Seq(Parts)] /\ answers \in [Clients -> Seq(Ids)]
        /\ buffer \in Seq(Parts) /\ Len(buffer) <= Capacity /\ processed \in 0..Len(buffer)
    BY <1>1, DaemonAssumption DEF Init
  <2>3. {fpv, pressed, cut} \subseteq BOOLEAN
    BY DEF Init
  <2> QED
    BY <2>1, <2>2, <2>3 DEF TypeOK
<1>4. Known /\ Once /\ Ran /\ Idle /\ RunOnce
  BY <1>1, <1>2 DEF Init, Known, Once, Ran, Idle, RunOnce, Apart
<1> QED
  BY <1>3, <1>4 DEF RInv

LEMMA NextTypes == RInv /\ [Next]_vars => TypeOK'
<1> SUFFICES ASSUME RInv, [Next]_vars PROVE TypeOK'
  OBVIOUS
<1>t. TypeOK
  BY DEF RInv
<1> USE <1>t
<1>1. ASSUME NEW c \in Clients, Read(c) PROVE TypeOK'
  <2>1. answers[c] \in Seq(Ids) /\ answers[c] # <<>>
    BY <1>1, TypeOKParts DEF Read
  <2>2. Head(answers[c]) \in Ids /\ <<>> \in Seq(Ids)
    BY <2>1, HeadTailProperties, EmptySeq
  <2>3. answers' \in [Clients -> Seq(Ids)] /\ shown' \in [Clients -> SUBSET Ids]
    BY <1>1, <2>2, TypeOKParts DEF Read, Printed
  <2> QED
    BY <1>1, <2>3 DEF Read, TypeOK, handlerVars, clientVars
<1>2. ASSUME NEW c \in Clients, Quit(c) PROVE TypeOK'
  <2>1. answers' \in [Clients -> Seq(Ids)]
    BY <1>2, TypeOKParts, EmptySeq DEF Quit
  <2> QED
    BY <1>2, <2>1 DEF Quit, TypeOK, handlerVars
<1>3. ASSUME NEW c \in Clients, Accept(c) PROVE TypeOK'
  BY <1>3 DEF Accept, TypeOK, handlerVars
<1>4. ASSUME NEW c \in Clients, NEW k \in 1..Len(wire[c]), Len(buffer) + k <= Capacity,
             HandleInput(c, k)
      PROVE  TypeOK'
  <2>1. /\ wire' \in [Clients -> Seq(Parts)] /\ buffer' \in Seq(Parts)
        /\ Len(buffer') <= Capacity /\ 0 \in 0..Len(buffer') /\ cut' \in BOOLEAN
    BY <1>4, InputMoves, TypeOKParts DEF HandleInput
  <2> QED
    BY <1>4, <2>1 DEF HandleInput, TypeOK, clientVars
<1>5. ASSUME HandleMessage PROVE TypeOK'
  <2>1. /\ answers' \in [Clients -> Seq(Ids)] /\ fpv' \in BOOLEAN
        /\ daemon' \in {"runs", "down", "crashed"} /\ runs' \in [Requests -> Nat]
    BY <1>5, HandledTypes, TypeOKParts
  <2>2. processed' \in 0..Len(buffer)
    BY <1>5, NextValue, TypeOKParts DEF HandleMessage
  <2> QED
    BY <1>5, <2>1, <2>2 DEF HandleMessage, TypeOK, clientVars
<1>6. ASSUME KeepTrailing PROVE TypeOK'
  <2>1. buffer' \in Seq(Parts) /\ Len(buffer') <= Capacity /\ 0 \in 0..Len(buffer')
    BY <1>6, TrailingMoves, DaemonAssumption DEF TypeOK
  <2> QED
    BY <1>6, <2>1 DEF KeepTrailing, TypeOK, clientVars
<1>7. ASSUME (\E c \in Clients : Closed(c)) \/ Shutdown PROVE TypeOK'
  <2>1. /\ wire' \in [Clients -> Seq(Parts)] /\ buffer' \in Seq(Parts)
        /\ Len(buffer') <= Capacity
    <3>1. wire' \in [Clients -> Seq(Parts)] /\ buffer' = <<>> /\ Len(buffer') = 0
      BY <1>7, Dropped
    <3> QED
      BY <3>1, EmptySeq, DaemonAssumption
  <2>2. processed' = processed /\ processed \in 0..Len(buffer')
    BY <1>7, Dropped DEF RInv, Idle, Waits, Closed, Shutdown
  <2>3. CASE Shutdown
    BY <2>1, <2>2, <2>3 DEF Shutdown, TypeOK
  <2>4. CASE \E c \in Clients : Closed(c)
    BY <2>1, <2>2, <2>4 DEF Closed, TypeOK
  <2> QED
    BY <1>7, <2>3, <2>4
<1>8. ASSUME NEW c \in Clients, NEW r \in Requests, Send(c, r) PROVE TypeOK'
  <2>1. wire' \in [Clients -> Seq(Parts)]
    BY <1>8, SendAppends
  <2> QED
    BY <1>8, <2>1 DEF Send, TypeOK, handlerVars
<1>9. CASE UNCHANGED vars
  BY <1>9 DEF vars, handlerVars, clientVars, TypeOK
<1> QED
  BY <1>1, <1>2, <1>3, <1>4, <1>5, <1>6, <1>7, <1>8, <1>9 DEF Next, Input

(* What is sent is remembered, and a part keeps its request and its client.*)
LEMMA NextKnown == RInv /\ [Next]_vars => Known'
<1> SUFFICES ASSUME RInv, [Next]_vars PROVE Known'
  OBVIOUS
<1>t. TypeOK /\ Known
  BY DEF RInv
<1> USE <1>t
<1>1. ASSUME UNCHANGED <<wire, buffer, sent>> PROVE Known'
  BY <1>1 DEF Known
<1>2. ASSUME NEW c \in Clients, NEW k \in 1..Len(wire[c]), HandleInput(c, k) PROVE Known'
  <2>1. sent' = sent
    BY <1>2 DEF HandleInput, clientVars
  <2>2. ASSUME NEW d \in Clients, NEW i \in 1..Len(wire'[d])
        PROVE  wire'[d][i][2] \in sent /\ Sender[wire'[d][i][2]] = d
    <3>1. CASE d = c
      <4>1. wire'[c][i] = wire[c][i + k] /\ i + k \in 1..Len(wire[c])
        BY <1>2, <2>2, <3>1, InputFrom
      <4> QED
        BY <3>1, <4>1 DEF Known
    <3>2. CASE d # c
      <4>1. wire'[d] = wire[d]
        BY <1>2, <3>2, InputMoves
      <4> QED
        BY <2>2, <4>1 DEF Known
    <3> QED
      BY <3>1, <3>2
  <2>3. ASSUME NEW i \in 1..Len(buffer') PROVE buffer'[i][2] \in sent
    <3>1. \/ i \in 1..Len(buffer) /\ buffer'[i] = buffer[i]
          \/ i - Len(buffer) \in 1..Len(wire[c]) /\ buffer'[i] = wire[c][i - Len(buffer)]
      BY <1>2, <2>3, InputFrom
    <3> QED
      BY <3>1 DEF Known
  <2> QED
    BY <2>1, <2>2, <2>3 DEF Known
<1>3. ASSUME KeepTrailing PROVE Known'
  <2>1. wire' = wire /\ sent' = sent
    BY <1>3 DEF KeepTrailing, clientVars
  <2>2. PICK m \in 0..Len(buffer) :
            /\ Len(buffer') = Len(buffer) - m
            /\ \A i \in 1..(Len(buffer) - m) : buffer'[i] = buffer[i + m]
    BY <1>3, TrailingMoves
  <2>3. ASSUME NEW i \in 1..Len(buffer') PROVE buffer'[i][2] \in sent
    <3>1. i + m \in 1..Len(buffer) /\ buffer'[i] = buffer[i + m]
      BY <1>3, <2>2, TrailingMoves
    <3> QED
      BY <3>1 DEF Known
  <2> QED
    BY <2>1, <2>3 DEF Known
<1>4. ASSUME NEW c \in Clients, NEW r \in Requests, Send(c, r) PROVE Known'
  <2>1. sent' = sent \union {r} /\ Sender[r] = c /\ buffer' = buffer
    BY <1>4 DEF Send, handlerVars
  <2>2. ASSUME NEW d \in Clients, NEW i \in 1..Len(wire'[d])
        PROVE  wire'[d][i][2] \in sent' /\ Sender[wire'[d][i][2]] = d
    <3>1. CASE d = c
      <4>1. \/ i \in 1..Len(wire[c]) /\ wire'[c][i] = wire[c][i]
            \/ i - Len(wire[c]) \in 1..4 /\ wire'[c][i] = Message(r)[i - Len(wire[c])]
        BY <1>4, <2>2, <3>1, SendFrom
      <4>2. CASE i \in 1..Len(wire[c]) /\ wire'[c][i] = wire[c][i]
        BY <2>1, <3>1, <4>2 DEF Known
      <4>3. CASE i - Len(wire[c]) \in 1..4 /\ wire'[c][i] = Message(r)[i - Len(wire[c])]
        <5>1. wire'[c][i][2] = r
          BY <4>3, MessageFacts
        <5> QED
          BY <2>1, <3>1, <5>1
      <4> QED
        BY <4>1, <4>2, <4>3
    <3>2. CASE d # c
      BY <1>4, <2>1, <2>2, <3>2, SendAppends DEF Known
    <3> QED
      BY <3>1, <3>2
  <2> QED
    BY <2>1, <2>2 DEF Known
<1>5. ASSUME (\E c \in Clients : Closed(c)) \/ Shutdown PROVE Known'
  <2>1. sent' = sent
    BY <1>5 DEF Closed, Shutdown
  <2>2. \A d \in Clients : wire'[d] = wire[d] \/ Len(wire'[d]) = 0
    BY <1>5, Dropped
  <2>3. Len(buffer') = 0
    BY <1>5, Dropped
  <2> QED
    BY <2>1, <2>2, <2>3 DEF Known
<1>6. (\E c \in Clients : Read(c) \/ Quit(c) \/ Accept(c)) \/ HandleMessage \/ UNCHANGED vars
          => UNCHANGED <<wire, buffer, sent>>
  BY DEF Read, Quit, Accept, HandleMessage, vars, handlerVars, clientVars
<1> QED
  BY <1>1, <1>2, <1>3, <1>4, <1>5, <1>6 DEF Next, Input

(* Parts are moved, never copied, and a request is sent once.              *)
LEMMA NextOnce == RInv /\ [Next]_vars => Once'
<1> SUFFICES ASSUME RInv, [Next]_vars PROVE Once'
  OBVIOUS
<1>t. TypeOK /\ Known /\ Once
  BY DEF RInv
<1> USE <1>t
<1>1. ASSUME UNCHANGED <<wire, buffer>> PROVE Once'
  BY <1>1 DEF Once, Apart
<1>2. ASSUME NEW c \in Clients, NEW k \in 1..Len(wire[c]), HandleInput(c, k) PROVE Once'
  <2>1. \A i \in 1..Len(buffer') :
            \/ i \in 1..Len(buffer) /\ buffer'[i] = buffer[i]
            \/ /\ i - Len(buffer) \in 1..k /\ i - Len(buffer) \in 1..Len(wire[c])
               /\ buffer'[i] = wire[c][i - Len(buffer)]
    BY <1>2, InputFrom
  <2>2. \A i \in 1..Len(wire'[c]) :
            i + k \in 1..Len(wire[c]) /\ i + k \notin 1..k /\ wire'[c][i] = wire[c][i + k]
    BY <1>2, InputFrom
  <2>3. ASSUME NEW d \in Clients PROVE Apart(wire'[d])
    <3>1. CASE d = c
      <4>1. ASSUME NEW i \in 1..Len(wire'[c]), NEW j \in 1..Len(wire'[c]),
                   wire'[c][i] = wire'[c][j]
            PROVE  i = j
        <5>1. i + k = j + k
          BY <2>2, <4>1 DEF Once, Apart
        <5> QED
          BY <1>2, <5>1, InputMoves
      <4> QED
        BY <3>1, <4>1 DEF Apart
    <3>2. CASE d # c
      BY <1>2, <3>2, InputMoves DEF Once
    <3> QED
      BY <3>1, <3>2
  <2>4. Apart(buffer')
    <3>1. ASSUME NEW i \in 1..Len(buffer'), NEW j \in 1..Len(buffer'), buffer'[i] = buffer'[j]
          PROVE  i = j
      <4>1. CASE i \in 1..Len(buffer) /\ buffer'[i] = buffer[i]
        <5>1. CASE j \in 1..Len(buffer) /\ buffer'[j] = buffer[j]
          BY <3>1, <4>1, <5>1 DEF Once, Apart
        <5>2. CASE /\ j - Len(buffer) \in 1..Len(wire[c])
                   /\ buffer'[j] = wire[c][j - Len(buffer)]
          BY <3>1, <4>1, <5>2 DEF Once
        <5> QED
          BY <2>1, <5>1, <5>2
      <4>2. CASE /\ i - Len(buffer) \in 1..Len(wire[c])
                 /\ buffer'[i] = wire[c][i - Len(buffer)]
        <5>1. CASE j \in 1..Len(buffer) /\ buffer'[j] = buffer[j]
          BY <3>1, <4>2, <5>1 DEF Once
        <5>2. CASE /\ j - Len(buffer) \in 1..Len(wire[c])
                   /\ buffer'[j] = wire[c][j - Len(buffer)]
          <6>1. i - Len(buffer) = j - Len(buffer)
            BY <3>1, <4>2, <5>2 DEF Once, Apart
          <6> QED
            BY <1>2, <6>1, InputMoves
        <5> QED
          BY <2>1, <5>1, <5>2
      <4> QED
        BY <2>1, <4>1, <4>2
    <3> QED
      BY <3>1 DEF Apart
  <2>5. ASSUME NEW d \in Clients, NEW i \in 1..Len(wire'[d]), NEW j \in 1..Len(buffer')
        PROVE  wire'[d][i] # buffer'[j]
    <3>1. CASE d = c
      <4>1. i + k \in 1..Len(wire[c]) /\ i + k \notin 1..k /\ wire'[c][i] = wire[c][i + k]
        BY <2>2, <2>5, <3>1
      <4>2. CASE j \in 1..Len(buffer) /\ buffer'[j] = buffer[j]
        BY <3>1, <4>1, <4>2 DEF Once
      <4>3. CASE /\ j - Len(buffer) \in 1..k /\ j - Len(buffer) \in 1..Len(wire[c])
                 /\ buffer'[j] = wire[c][j - Len(buffer)]
        <5>1. i + k # j - Len(buffer)
          BY <4>1, <4>3
        <5> QED
          BY <3>1, <4>1, <4>3, <5>1 DEF Once, Apart
      <4> QED
        BY <2>1, <4>2, <4>3
    <3>2. CASE d # c
      <4>1. wire'[d] = wire[d]
        BY <1>2, <3>2, InputMoves
      <4>2. CASE j \in 1..Len(buffer) /\ buffer'[j] = buffer[j]
        BY <2>5, <4>1, <4>2 DEF Once
      <4>3. CASE /\ j - Len(buffer) \in 1..Len(wire[c])
                 /\ buffer'[j] = wire[c][j - Len(buffer)]
        <5>1. Sender[buffer'[j][2]] = c /\ Sender[wire'[d][i][2]] = d
          BY <2>5, <4>1, <4>3 DEF Known
        <5> QED
          BY <3>2, <5>1
      <4> QED
        BY <2>1, <4>2, <4>3
    <3> QED
      BY <3>1, <3>2
  <2> QED
    BY <2>3, <2>4, <2>5 DEF Once
<1>3. ASSUME KeepTrailing PROVE Once'
  <2>1. wire' = wire
    BY <1>3 DEF KeepTrailing
  <2>2. PICK m \in 0..Len(buffer) :
            /\ Len(buffer') = Len(buffer) - m
            /\ \A i \in 1..(Len(buffer) - m) : buffer'[i] = buffer[i + m]
    BY <1>3, TrailingMoves
  <2>3. \A i \in 1..Len(buffer') : i + m \in 1..Len(buffer) /\ buffer'[i] = buffer[i + m]
    BY <1>3, <2>2, TrailingMoves
  <2>4. ASSUME NEW i \in 1..Len(buffer'), NEW j \in 1..Len(buffer'), buffer'[i] = buffer'[j]
        PROVE  i = j
    <3>1. i + m = j + m
      BY <2>3, <2>4 DEF Once, Apart
    <3> QED
      BY <1>3, <2>2, <3>1, TrailingMoves
  <2> QED
    BY <2>1, <2>3, <2>4 DEF Once, Apart
<1>4. ASSUME NEW c \in Clients, NEW r \in Requests, Send(c, r) PROVE Once'
  <2>1. r \notin sent /\ buffer' = buffer
    BY <1>4 DEF Send, handlerVars
  <2>2. \A i \in 1..Len(wire'[c]) :
            \/ i \in 1..Len(wire[c]) /\ wire'[c][i] = wire[c][i]
            \/ i - Len(wire[c]) \in 1..4 /\ wire'[c][i] = Message(r)[i - Len(wire[c])]
    BY <1>4, SendFrom
  <2>3. ASSUME NEW d \in Clients, d # c PROVE wire'[d] = wire[d]
    BY <1>4, <2>3, SendAppends
  <2>4. ASSUME NEW i \in 1..Len(wire'[c]), NEW j \in 1..Len(wire'[c]), wire'[c][i] = wire'[c][j]
        PROVE  i = j
    <3> DEFINE Old(a) == a \in 1..Len(wire[c]) /\ wire'[c][a] = wire[c][a]
               New(a) == /\ a - Len(wire[c]) \in 1..4
                         /\ wire'[c][a] = Message(r)[a - Len(wire[c])]
    <3>1. CASE Old(i) /\ Old(j)
      BY <2>4, <3>1 DEF Once, Apart
    <3>2. CASE New(i) /\ New(j)
      <4>1. \A a, b \in 1..4 : Message(r)[a] = Message(r)[b] => a = b
        BY MessageFacts DEF Apart
      <4>2. i - Len(wire[c]) = j - Len(wire[c])
        BY <2>4, <3>2, <4>1
      <4> QED
        BY <1>4, <4>2, SendAppends
    <3>3. ASSUME NEW a, NEW b, Old(a), New(b) PROVE wire'[c][a] # wire'[c][b]
      <4>1. wire'[c][a][2] \in sent
        BY <3>3 DEF Known
      <4>2. wire'[c][b][2] = r
        BY <3>3, MessageFacts
      <4> QED
        BY <2>1, <4>1, <4>2
    <3>4. (Old(i) \/ New(i)) /\ (Old(j) \/ New(j))
      BY <2>2
    <3> HIDE DEF Old, New
    <3> QED
      BY <2>4, <3>1, <3>2, <3>3, <3>4
  <2>5. ASSUME NEW i \in 1..Len(wire'[c]), NEW j \in 1..Len(buffer) PROVE wire'[c][i] # buffer[j]
    <3>1. CASE i \in 1..Len(wire[c]) /\ wire'[c][i] = wire[c][i]
      BY <3>1 DEF Once
    <3>2. CASE i - Len(wire[c]) \in 1..4 /\ wire'[c][i] = Message(r)[i - Len(wire[c])]
      <4>1. buffer[j][2] \in sent
        BY DEF Known
      <4>2. wire'[c][i][2] = r
        BY <3>2, MessageFacts
      <4> QED
        BY <2>1, <4>1, <4>2
    <3> QED
      BY <2>2, <3>1, <3>2
  <2>6. \A d \in Clients : Apart(wire'[d])
    BY <2>3, <2>4 DEF Once, Apart
  <2>7. \A d \in Clients : \A i \in 1..Len(wire'[d]), j \in 1..Len(buffer) : wire'[d][i] # buffer[j]
    BY <2>3, <2>5 DEF Once
  <2> QED
    BY <2>1, <2>6, <2>7 DEF Once, Apart
<1>5. ASSUME (\E c \in Clients : Closed(c)) \/ Shutdown PROVE Once'
  <2>1. \A d \in Clients : wire'[d] = wire[d] \/ Len(wire'[d]) = 0
    BY <1>5, Dropped
  <2>2. Len(buffer') = 0
    BY <1>5, Dropped
  <2> QED
    BY <2>1, <2>2 DEF Once, Apart
<1>6. (\E c \in Clients : Read(c) \/ Quit(c) \/ Accept(c)) \/ HandleMessage \/ UNCHANGED vars
          => UNCHANGED <<wire, buffer>>
  BY DEF Read, Quit, Accept, HandleMessage, vars, handlerVars, clientVars
<1> QED
  BY <1>1, <1>2, <1>3, <1>4, <1>5, <1>6 DEF Next, Input

(* handleMessage() goes on behind what it has run.                         *)
LEMMA NextRan == RInv /\ [Next]_vars => Ran' /\ RunOnce'
<1> SUFFICES ASSUME RInv, [Next]_vars PROVE Ran' /\ RunOnce'
  OBVIOUS
<1>t. TypeOK /\ Known /\ Once /\ Ran /\ RunOnce
  BY DEF RInv
<1> USE <1>t
<1>1. ASSUME UNCHANGED <<wire, buffer, processed, runs, sent>> PROVE Ran' /\ RunOnce'
  BY <1>1 DEF Ran, RunOnce
<1>2. ASSUME NEW c \in Clients, NEW k \in 1..Len(wire[c]), HandleInput(c, k)
      PROVE  Ran' /\ RunOnce'
  <2>1. sent' = sent /\ runs' = runs /\ processed = 0 /\ processed' = 0
    BY <1>2 DEF HandleInput, clientVars, Waits, RInv, Idle
  <2>2. ASSUME NEW r \in Requests, runs[r] # 0, NEW d \in Clients, NEW i \in 1..Len(wire'[d])
        PROVE  wire'[d][i] # <<"method", r>>
    <3>1. CASE d = c
      <4>1. wire'[c][i] = wire[c][i + k] /\ i + k \in 1..Len(wire[c])
        BY <1>2, <2>2, <3>1, InputFrom
      <4> QED
        BY <2>2, <3>1, <4>1 DEF Ran
    <3>2. CASE d # c
      <4>1. wire'[d] = wire[d]
        BY <1>2, <3>2, InputMoves
      <4> QED
        BY <2>2, <4>1 DEF Ran
    <3> QED
      BY <3>1, <3>2
  <2>3. ASSUME NEW r \in Requests, runs[r] # 0, NEW i \in 1..Len(buffer')
        PROVE  buffer'[i] # <<"method", r>>
    <3>1. \/ i \in (processed + 1)..Len(buffer) /\ buffer'[i] = buffer[i]
          \/ i - Len(buffer) \in 1..Len(wire[c]) /\ buffer'[i] = wire[c][i - Len(buffer)]
      <4>1. \A j \in 1..Len(buffer) : j \in (processed + 1)..Len(buffer)
        BY <2>1
      <4> QED
        BY <1>2, <2>3, <4>1, InputFrom
    <3> QED
      BY <2>3, <3>1 DEF Ran
  <2>4. processed' + 1 = 1
    BY <2>1
  <2> QED
    BY <2>1, <2>2, <2>3, <2>4 DEF Ran, RunOnce
<1>3. ASSUME HandleMessage PROVE Ran' /\ RunOnce'
  <2>1. wire' = wire /\ buffer' = buffer /\ sent' = sent
    BY <1>3 DEF HandleMessage, clientVars
  <2>2. /\ processed \in Nat /\ Len(buffer) \in Nat /\ buffer \in Seq(Parts)
        /\ processed' \in (processed + 1)..Len(buffer)
    BY <1>3, NextValue, TypeOKParts DEF HandleMessage
  <2>3. \A i \in (processed' + 1)..Len(buffer) :
            i \in (processed + 1)..Len(buffer) /\ i # processed + 1
    <3> DEFINE p == processed
               q == processed'
               n == Len(buffer)
    <3>1. p \in Nat /\ n \in Nat /\ q \in (p + 1)..n
      BY <2>2
    <3> HIDE DEF p, q, n
    <3>2. \A i \in (q + 1)..n : i \in (p + 1)..n /\ i # p + 1
      BY <3>1
    <3> QED
      BY <3>2 DEF p, q, n
  <2>4. processed + 1 \in (processed + 1)..Len(buffer) /\ processed + 1 \in 1..Len(buffer)
    BY <2>2
  <2>5. CASE UNCHANGED runs
    BY <2>1, <2>3, <2>5 DEF Ran, RunOnce
  <2>6. ASSUME NEW r \in Requests, buffer[processed + 1] = <<"method", r>>,
               runs' = [runs EXCEPT ![r] = @ + 1]
        PROVE  Ran' /\ RunOnce'
    <3>1. runs[r] = 0 /\ runs'[r] = 1 /\ \A q \in Requests \ {r} : runs'[q] = runs[q]
      <4>1. runs[r] = 0
        BY <2>4, <2>6 DEF Ran
      <4> QED
        BY <2>6, <4>1, TypeOKParts
    <3>2. RunOnce'
      BY <3>1 DEF RunOnce
    <3>3. /\ r \in sent
          /\ \A d \in Clients : \A i \in 1..Len(wire[d]) : wire[d][i] # <<"method", r>>
      BY <2>4, <2>6 DEF Known, Once
    <3>4. \A i \in (processed' + 1)..Len(buffer) : buffer[i] # <<"method", r>>
      <4>1. \A i \in (processed + 1)..Len(buffer) : i \in 1..Len(buffer)
        BY <2>2
      <4> QED
        BY <2>3, <2>4, <2>6, <4>1 DEF Once, Apart
    <3> QED
      BY <2>1, <2>3, <3>1, <3>2, <3>3, <3>4 DEF Ran
  <2> QED
    BY <1>3, <2>5, <2>6, HandledTypes
<1>4. ASSUME KeepTrailing PROVE Ran' /\ RunOnce'
  <2>1. wire' = wire /\ sent' = sent /\ runs' = runs /\ processed' + 1 = 1
    BY <1>4 DEF KeepTrailing, clientVars
  <2>2. PICK m \in 0..Len(buffer) :
            /\ processed <= m
            /\ Len(buffer') = Len(buffer) - m
            /\ \A i \in 1..(Len(buffer) - m) : buffer'[i] = buffer[i + m]
    BY <1>4, TrailingMoves
  <2>3. \A i \in 1..Len(buffer') :
            i + m \in (processed + 1)..Len(buffer) /\ buffer'[i] = buffer[i + m]
    BY <1>4, <2>2, TrailingMoves, TypeOKParts
  <2> QED
    BY <2>1, <2>3 DEF Ran, RunOnce
<1>5. ASSUME NEW c \in Clients, NEW r \in Requests, Send(c, r) PROVE Ran' /\ RunOnce'
  <2>1. /\ r \notin sent /\ sent' = sent \union {r}
        /\ buffer' = buffer /\ processed' = processed /\ runs' = runs
    BY <1>5 DEF Send, handlerVars
  <2>2. ASSUME NEW q \in Requests, runs[q] # 0, NEW d \in Clients, NEW i \in 1..Len(wire'[d])
        PROVE  wire'[d][i] # <<"method", q>>
    <3>1. q # r
      BY <2>1, <2>2 DEF Ran
    <3>2. CASE d = c
      <4>1. \/ i \in 1..Len(wire[c]) /\ wire'[c][i] = wire[c][i]
            \/ i - Len(wire[c]) \in 1..4 /\ wire'[c][i] = Message(r)[i - Len(wire[c])]
        BY <1>5, <2>2, <3>2, SendFrom
      <4>2. CASE i \in 1..Len(wire[c]) /\ wire'[c][i] = wire[c][i]
        BY <2>2, <3>2, <4>2 DEF Ran
      <4>3. CASE i - Len(wire[c]) \in 1..4 /\ wire'[c][i] = Message(r)[i - Len(wire[c])]
        <5>1. wire'[c][i][2] = r
          BY <4>3, MessageFacts
        <5> QED
          BY <3>1, <3>2, <5>1
      <4> QED
        BY <4>1, <4>2, <4>3
    <3>3. CASE d # c
      <4>1. wire'[d] = wire[d]
        BY <1>5, <3>3, SendAppends
      <4> QED
        BY <2>2, <4>1 DEF Ran
    <3> QED
      BY <3>2, <3>3
  <2> QED
    BY <2>1, <2>2 DEF Ran, RunOnce
<1>6. ASSUME (\E c \in Clients : Closed(c)) \/ Shutdown PROVE Ran' /\ RunOnce'
  <2>1. sent' = sent /\ runs' = runs /\ processed' = processed
    BY <1>6 DEF Closed, Shutdown
  <2>2. \A d \in Clients : wire'[d] = wire[d] \/ Len(wire'[d]) = 0
    BY <1>6, Dropped
  <2>3. (processed + 1)..Len(buffer') = {}
    <3>1. Len(buffer') = 0 /\ processed \in Nat
      BY <1>6, Dropped, TypeOKParts
    <3> QED
      BY <3>1
  <2> QED
    BY <2>1, <2>2, <2>3 DEF Ran, RunOnce
<1>7. (\E c \in Clients : Read(c) \/ Quit(c) \/ Accept(c)) \/ UNCHANGED vars
          => UNCHANGED <<wire, buffer, processed, runs, sent>>
  BY DEF Read, Quit, Accept, vars, handlerVars, clientVars
<1> QED
  BY <1>1, <1>2, <1>3, <1>4, <1>5, <1>6, <1>7 DEF Next, Input

LEMMA NextIdle == RInv /\ [Next]_vars => Idle'
<1> SUFFICES ASSUME RInv, [Next]_vars PROVE Idle'
  OBVIOUS
<1>t. Idle /\ TypeOK
  BY DEF RInv
<1>1. ASSUME UNCHANGED <<current, processed>> PROVE Idle'
  BY <1>t, <1>1 DEF Idle
<1>2. ASSUME processed' = 0 PROVE Idle'
  BY <1>2 DEF Idle
<1>3. ASSUME HandleMessage PROVE Idle'
  BY <1>3 DEF HandleMessage, Idle
<1>4. (\E c \in Clients : Read(c) \/ Quit(c) \/ Accept(c) \/ Closed(c)) \/ Shutdown \/ UNCHANGED vars
          => UNCHANGED <<current, processed>>
  BY DEF Read, Quit, Accept, Closed, Shutdown, vars, handlerVars, clientVars
<1>5. ASSUME NEW c \in Clients, NEW r \in Requests, Send(c, r) PROVE UNCHANGED <<current, processed>>
  BY <1>5 DEF Send, handlerVars
<1>6. (\E c \in Clients : Input(c)) \/ KeepTrailing => processed' = 0
  BY DEF Input, HandleInput, KeepTrailing
<1> QED
  BY <1>1, <1>2, <1>3, <1>4, <1>5, <1>6 DEF Next

LEMMA NextRInv == RInv /\ [Next]_vars => RInv'
BY NextTypes, NextKnown, NextOnce, NextRan, NextIdle DEF RInv

(* The server's inductive invariant: where the parts of requests are.      *)
THEOREM Invariance == Spec => []RInv
BY InitRInv, NextRInv, PTL DEF Spec

(* The buffer is never overfilled, and handleMessage() never goes past it. *)
THEOREM TypeCorrect == Spec => []TypeOK
<1>1. RInv => TypeOK
  BY DEF RInv
<1> QED
  BY <1>1, Invariance, PTL

(* No request is run twice, however requests are cut, joined and mixed in  *)
(* the buffer, and whatever clients do while it is handled.                *)
THEOREM NoneRunTwice == Spec => []RunOnce
<1>1. RInv => RunOnce
  BY DEF RInv
<1> QED
  BY <1>1, Invariance, PTL

-----------------------------------------------------------------------------
(* orderly clients *)

(* A message alone in the buffer is one value and a newline.               *)
LEMMA MessageEnd ==
    ASSUME NEW r \in Requests
    PROVE  ValueEnd(Message(r), 0) = 3 /\ SkipNewlines(Message(r), 3) = 4
<1> DEFINE m == Message(r)
<1>1. /\ Len(m) = 4 /\ m[1][1] = "method" /\ m[2][1] = "id"
      /\ m[3][1] = "tail" /\ m[4][1] = "newline"
  BY MessageFacts
<1> HIDE DEF m
<1> DEFINE begun(k) == {j \in 1..k : m[j][1] = "method"}
           closed(k) == {j \in 1..k : m[j][1] = "tail"}
           T == {k \in 1..4 : k = 4 \/ Cardinality(begun(k)) - Cardinality(closed(k)) = 0}
           S == {k \in 3..4 : k = 4 \/ m[k + 1][1] # "newline"}
<1>2. ValueEnd(m, 0) = Min(T)
  <2>1. 0 + 1 = 1
    OBVIOUS
  <2> QED
    BY <1>1, <2>1 DEF ValueEnd
<1>3. SkipNewlines(m, 3) = Min(S)
  BY <1>1 DEF SkipNewlines
<1>4. /\ begun(1) = {1} /\ begun(2) = {1} /\ begun(3) = {1}
      /\ closed(1) = {} /\ closed(2) = {} /\ closed(3) = {3}
  <2>1. 1..1 = {1} /\ 1..2 = {1, 2} /\ 1..3 = {1, 2, 3}
    OBVIOUS
  <2> QED
    BY <1>1, <2>1
<1>5. Cardinality({1}) = 1 /\ Cardinality({3}) = 1 /\ Cardinality({}) = 0
  BY FS_Singleton, FS_EmptySet
<1> HIDE DEF begun, closed
<1>6. 3 \in T /\ T \subseteq {3, 4}
  <2>1. \A k \in 1..4 : k = 1 \/ k = 2 \/ k = 3 \/ k = 4
    OBVIOUS
  <2> QED
    BY <1>4, <1>5, <2>1
<1>7. S = {4}
  <2>1. 3..4 = {3, 4} /\ 3 + 1 = 4
    OBVIOUS
  <2> QED
    BY <1>1, <2>1
<1> HIDE DEF T, S
<1>8. Min(T) \in T /\ Min(T) <= 3
  BY <1>6, LeastOf
<1>9. Min(S) = 4
  BY <1>7, LeastOf
<1>10. Min(T) = 3
  <2>1. Min(T) = 3 \/ Min(T) = 4
    BY <1>6, <1>8
  <2> QED
    BY <1>8, <2>1
<1> QED
  BY <1>2, <1>3, <1>9, <1>10 DEF m

(* What is Home of the buffer, of what is on its way, and of the answers.  *)
HomeBuffer ==
    /\ current = NoClient => buffer = <<>>
    /\ current # NoClient =>
           \E r \in Requests : /\ buffer = Message(r) /\ Sender[r] = current
                               /\ \/ processed = 0 /\ runs[r] = 0
                                  \/ processed = 3 /\ runs[r] = 1
HomeWire == \A c \in Clients : wire[c] = <<>> \/ \E r \in Requests : wire[c] = Message(r)
HomeAnswers ==
    \A c \in Clients : \A id \in shown[c] \union ToSet(answers[c]) :
        id # BadId /\ Sender[id] = c /\ runs[id] = 1

LEMMA HomeParts == Home <=> (Orderly => HomeBuffer /\ HomeWire /\ HomeAnswers)
BY DEF Home, HomeBuffer, HomeWire, HomeAnswers

(* Requests that are on their way have not been run.                       *)
LEMMA WaitingNotRun ==
    ASSUME RInv, NEW c \in Clients, NEW r \in Requests, wire[c] = Message(r)
    PROVE  r \in sent /\ Sender[r] = c /\ runs[r] = 0
<1>1. 1 \in 1..Len(wire[c]) /\ wire[c][1] = <<"method", r>> /\ wire[c][1][2] = r
  BY MessageFacts
<1> QED
  BY <1>1 DEF RInv, Known, Ran

(* An orderly client's request is run with its id and answered to it.      *)
LEMMA HandlesWhole ==
    ASSUME RInv, HomeBuffer, HandleMessage
    PROVE  \E r \in Requests :
               /\ buffer = Message(r) /\ Sender[r] = current /\ runs[r] = 0
               /\ processed' = 3 /\ runs' = [runs EXCEPT ![r] = @ + 1]
               /\ Call(Method[r], r)
<1>1. PICK r \in Requests : /\ buffer = Message(r) /\ Sender[r] = current
                           /\ \/ processed = 0 /\ runs[r] = 0
                              \/ processed = 3 /\ runs[r] = 1
  BY DEF HomeBuffer, HandleMessage
<1>2. processed = 0 /\ runs[r] = 0
  <2>1. Message(r)[4][1] = "newline"
    BY MessageFacts
  <2>2. processed # 3
    BY <1>1, <2>1 DEF HandleMessage, MoreValues
  <2> QED
    BY <1>1, <2>2
<1>3. processed' = 3 /\ HandleRequest(SubSeq(Message(r), 1, 3))
  <2>1. 0 + 1 = 1
    OBVIOUS
  <2> QED
    BY <1>1, <1>2, <2>1, MessageEnd DEF HandleMessage
<1> DEFINE v == SubSeq(Message(r), 1, 3)
<1>4. Len(v) = 3 /\ v[1] = <<"method", r>> /\ v[2] = <<"id", r>>
  <2>1. Message(r) \in Seq(Parts) /\ 3 \in 0..Len(Message(r))
    BY MessageFacts
  <2>2. Len(v) = 3 /\ \A j \in 1..3 : v[j] = Message(r)[j]
    BY <2>1, Taken
  <2> QED
    BY <2>2, MessageFacts
<1> HIDE DEF v
<1>5. IsRequest(v) /\ v[1][2] = r /\ v[2][2] = r
  BY <1>4 DEF IsRequest
<1>6. Run(r, r)
  BY <1>3, <1>5 DEF HandleRequest, v
<1> QED
  BY <1>1, <1>2, <1>3, <1>6 DEF Run

LEMMA InitHome == Init => Home
<1> SUFFICES ASSUME Init PROVE HomeBuffer /\ HomeWire /\ HomeAnswers
  BY HomeParts
<1>1. \A c \in Clients : shown[c] \union ToSet(answers[c]) = {}
  BY EmptySeq DEF Init, ToSet
<1> QED
  BY <1>1 DEF Init, HomeBuffer, HomeWire, HomeAnswers

(* What holds of orderly clients holds of those that still are.            *)
LEMMA NextHome == RInv /\ Home /\ [Next]_vars => Home'
<1> SUFFICES ASSUME RInv, Home, [Next]_vars, Orderly' PROVE (HomeBuffer /\ HomeWire /\ HomeAnswers)'
  BY DEF Home, HomeBuffer, HomeWire, HomeAnswers
<1>t. TypeOK
  BY DEF RInv
<1> USE <1>t
<1>o. Orderly
  <2>1. ~cut' /\ ~pressed'
    BY DEF Orderly
  <2>2. (\E c \in Clients : Read(c) \/ Quit(c) \/ Accept(c) \/ Closed(c)) => ~cut /\ ~pressed
    BY <2>1 DEF Read, Quit, Accept, Closed, clientVars
  <2>3. HandleMessage \/ KeepTrailing \/ Shutdown \/ UNCHANGED vars => ~cut /\ ~pressed
    BY <2>1 DEF HandleMessage, KeepTrailing, Shutdown, vars, clientVars
  <2>4. (\E c \in Clients : Input(c)) => ~cut /\ ~pressed
    <3>1. ASSUME NEW c \in Clients, NEW k \in 1..Len(wire[c]), HandleInput(c, k)
          PROVE  ~cut /\ ~pressed
      <4>1. cut' = (cut \/ wire[c][k][1] # "newline") /\ pressed' = pressed
        BY <3>1 DEF HandleInput, clientVars
      <4> QED
        BY <2>1, <4>1
    <3> QED
      BY <3>1 DEF Input
  <2>5. (\E c \in Clients, r \in Requests : Send(c, r)) => ~cut /\ ~pressed
    <3>1. ASSUME NEW c \in Clients, NEW r \in Requests, Send(c, r) PROVE ~cut /\ ~pressed
      <4>1. pressed' = (pressed \/ Outstanding(c) # {}) /\ cut' = cut
        BY <3>1 DEF Send
      <4> QED
        BY <2>1, <4>1
    <3> QED
      BY <3>1
  <2> QED
    BY <2>2, <2>3, <2>4, <2>5 DEF Orderly, Next
<1>h. HomeBuffer /\ HomeWire /\ HomeAnswers
  BY <1>o, HomeParts
<1>1. ASSUME NEW c \in Clients, Read(c) PROVE (HomeBuffer /\ HomeWire /\ HomeAnswers)'
  <2>1. answers[c] \in Seq(Ids) /\ answers[c] # <<>>
    BY <1>1, TypeOKParts DEF Read
  <2>2. Head(answers[c]) \in ToSet(answers[c]) /\ ToSet(<<>>) = {}
    BY <2>1 DEF ToSet
  <2>3. \A d \in Clients : (shown[d] \union ToSet(answers[d]))' \subseteq shown[d] \union ToSet(answers[d])
    BY <1>1, <2>2, TypeOKParts DEF Read, Printed
  <2> QED
    BY <1>1, <1>h, <2>3 DEF Read, handlerVars, HomeBuffer, HomeWire, HomeAnswers
<1>2. ASSUME NEW c \in Clients, Quit(c) PROVE (HomeBuffer /\ HomeWire /\ HomeAnswers)'
  <2>1. ToSet(<<>>) = {}
    BY DEF ToSet
  <2>2. \A d \in Clients : (shown[d] \union ToSet(answers[d]))' \subseteq shown[d] \union ToSet(answers[d])
    BY <1>2, <2>1, TypeOKParts DEF Quit
  <2> QED
    BY <1>2, <1>h, <2>2 DEF Quit, handlerVars, HomeBuffer, HomeWire, HomeAnswers
<1>3. ASSUME NEW c \in Clients, Accept(c) PROVE (HomeBuffer /\ HomeWire /\ HomeAnswers)'
  BY <1>3, <1>h DEF Accept, handlerVars, HomeBuffer, HomeWire, HomeAnswers
<1>4. ASSUME NEW c \in Clients, NEW k \in 1..Len(wire[c]), HandleInput(c, k)
      PROVE  (HomeBuffer /\ HomeWire /\ HomeAnswers)'
  <2>1. buffer = <<>> /\ current' = c /\ processed' = 0 /\ runs' = runs
        /\ shown' = shown /\ answers' = answers
    BY <1>4, <1>h DEF HandleInput, Waits, HomeBuffer
  <2>2. PICK r \in Requests : wire[c] = Message(r)
    BY <1>4, <1>h, EmptySeq DEF HomeWire
  <2>3. k = 4
    <3>1. Message(r)[k][1] = "newline"
      <4>1. ~cut' /\ cut' = (cut \/ wire[c][k][1] # "newline")
        BY <1>4 DEF HandleInput, Orderly
      <4>2. wire[c][k][1] = "newline"
        BY <4>1
      <4> QED
        BY <2>2, <4>2
    <3>2. k = 1 \/ k = 2 \/ k = 3 \/ k = 4
      <4>1. Len(wire[c]) = 4
        BY <2>2, MessageFacts
      <4> QED
        BY <4>1
    <3> QED
      BY <3>1, <3>2, MessageFacts
  <2>4. Len(wire'[c]) = 0 /\ Len(buffer') = 4 /\ \A i \in 1..4 : buffer'[i] = Message(r)[i]
    <3>1. Len(wire[c]) = 4 /\ Len(buffer) = 0
      BY <2>1, <2>2, MessageFacts, EmptySeq
    <3>2. /\ Len(wire'[c]) = Len(wire[c]) - k /\ Len(buffer') = Len(buffer) + k
          /\ \A i \in 1..(Len(buffer) + k) :
                 buffer'[i] = IF i <= Len(buffer) THEN buffer[i] ELSE wire[c][i - Len(buffer)]
      BY <1>4, InputMoves
    <3>3. Len(wire'[c]) = 0 /\ Len(buffer') = 4
      BY <2>3, <3>1, <3>2
    <3>4. ASSUME NEW i \in 1..4 PROVE buffer'[i] = wire[c][i]
      <4>1. i \in 1..(Len(buffer) + k) /\ ~(i <= Len(buffer)) /\ i - Len(buffer) = i
        BY <2>3, <3>1
      <4> QED
        BY <3>2, <4>1
    <3> QED
      BY <2>2, <3>3, <3>4
  <2>5. wire'[c] = <<>> /\ \A d \in Clients \ {c} : wire'[d] = wire[d]
    BY <1>4, <2>4, InputMoves, EmptySeq
  <2>6. buffer' = Message(r)
    <3>1. buffer' \in Seq(Parts) /\ Message(r) \in Seq(Parts) /\ Len(Message(r)) = 4
      BY <1>4, InputMoves, MessageFacts
    <3>2. Len(buffer') = Len(Message(r)) /\ \A i \in 1..Len(buffer') : buffer'[i] = Message(r)[i]
      BY <2>4, <3>1
    <3> QED
      BY <3>1, <3>2, SeqEqual
  <2>7. Sender[r] = c /\ runs[r] = 0
    BY <2>2, WaitingNotRun
  <2>8. c # NoClient
    BY DaemonAssumption
  <2> QED
    BY <1>h, <2>1, <2>5, <2>6, <2>7, <2>8 DEF HomeBuffer, HomeWire, HomeAnswers
<1>5. ASSUME HandleMessage PROVE (HomeBuffer /\ HomeWire /\ HomeAnswers)'
  <2>1. PICK r \in Requests :
               /\ buffer = Message(r) /\ Sender[r] = current /\ runs[r] = 0
               /\ processed' = 3 /\ runs' = [runs EXCEPT ![r] = @ + 1]
               /\ Call(Method[r], r)
    BY <1>5, <1>h, HandlesWhole
  <2>2. wire' = wire /\ buffer' = buffer /\ current' = current /\ shown' = shown
        /\ current \in Clients
    BY <1>5, TypeOKParts DEF HandleMessage
  <2>3. runs'[r] = 1 /\ \A q \in Requests \ {r} : runs'[q] = runs[q]
    BY <2>1, TypeOKParts
  <2>4. \A d \in Clients : ToSet(answers'[d]) \subseteq
            ToSet(answers[d]) \union (IF d = current THEN {r} ELSE {})
    <3>1. answers' = answers \/ answers' = [answers EXCEPT ![current] = Append(answers[current], r)]
      BY <2>1 DEF Call, Reply
    <3>2. ToSet(Append(answers[current], r)) \subseteq ToSet(answers[current]) \union {r}
      BY <2>2, TypeOKParts DEF ToSet
    <3> QED
      BY <2>2, <3>1, <3>2, TypeOKParts
  <2>5. HomeAnswers'
    <3>1. ASSUME NEW d \in Clients, NEW id \in shown[d] \union ToSet(answers[d])
          PROVE  id # BadId /\ Sender[id] = d /\ runs'[id] = 1
      <4>1. id # BadId /\ Sender[id] = d /\ runs[id] = 1
        BY <1>h, <3>1 DEF HomeAnswers
      <4>2. id \in Requests
        <5>1. id \in Ids
          BY <3>1, TypeOKParts DEF ToSet
        <5> QED
          BY <4>1, <5>1 DEF Ids
      <4> QED
        BY <2>1, <2>3, <4>1, <4>2
    <3>2. r # BadId /\ Sender[r] = current /\ runs'[r] = 1
      BY <2>1, <2>3, DaemonAssumption
    <3> QED
      BY <2>2, <2>4, <3>1, <3>2 DEF HomeAnswers
  <2> QED
    BY <1>h, <2>1, <2>2, <2>3, <2>5 DEF HomeBuffer, HomeWire
<1>6. ASSUME KeepTrailing PROVE (HomeBuffer /\ HomeWire /\ HomeAnswers)'
  <2>1. PICK r \in Requests : buffer = Message(r) /\ (processed = 0 \/ processed = 3)
    BY <1>6, <1>h DEF KeepTrailing, HomeBuffer
  <2>2. Len(Message(r)) = 4 /\ Message(r)[1][1] = "method"
    BY MessageFacts
  <2>3. processed = 3
    BY <1>6, <2>1, <2>2 DEF KeepTrailing, MoreValues
  <2>4. buffer' = <<>>
    <3>1. buffer' = SubSeq(Message(r), 5, 4)
      BY <1>6, <2>1, <2>2, <2>3, MessageEnd DEF KeepTrailing, Rest
    <3> QED
      BY <3>1, SubSeqEmpty
  <2> QED
    BY <1>6, <1>h, <2>4 DEF KeepTrailing, HomeBuffer, HomeWire, HomeAnswers
<1>7. ASSUME (\E c \in Clients : Closed(c)) \/ Shutdown PROVE (HomeBuffer /\ HomeWire /\ HomeAnswers)'
  <2>1. /\ current' = NoClient /\ runs' = runs /\ shown' = shown /\ answers' = answers
    BY <1>7 DEF Closed, Shutdown, Waits
  <2>2. buffer' = <<>> /\ \A d \in Clients : wire'[d] = wire[d] \/ wire'[d] = <<>>
    BY <1>7, Dropped
  <2> QED
    BY <1>h, <2>1, <2>2 DEF HomeBuffer, HomeWire, HomeAnswers
<1>8. ASSUME NEW c \in Clients, NEW r \in Requests, Send(c, r)
      PROVE  (HomeBuffer /\ HomeWire /\ HomeAnswers)'
  <2>1. Outstanding(c) = {}
    BY <1>8 DEF Send, Orderly
  <2>2. wire[c] = <<>>
    <3>1. ASSUME NEW q \in Requests, wire[c] = Message(q) PROVE FALSE
      BY <2>1, <3>1, WaitingNotRun DEF Outstanding
    <3> QED
      BY <1>h, <3>1 DEF HomeWire
  <2>3. wire' = [wire EXCEPT ![c] = Message(r)]
    BY <1>8, <2>2, MessageFacts, ConcatEmptySeq DEF Send
  <2>4. HomeWire'
    BY <1>h, <2>3, TypeOKParts DEF HomeWire
  <2> QED
    BY <1>8, <1>h, <2>4 DEF Send, handlerVars, HomeBuffer, HomeAnswers
<1>9. CASE UNCHANGED vars
  BY <1>9, <1>h DEF vars, handlerVars, HomeBuffer, HomeWire, HomeAnswers
<1> QED
  BY <1>1, <1>2, <1>3, <1>4, <1>5, <1>6, <1>7, <1>8, <1>9 DEF Next, Input

(* A message of an orderly client is alone in the buffer.                  *)
THEOREM MessagesStayWhole == Spec => []Home
<1>1. Init => RInv /\ Home
  BY InitRInv, InitHome
<1>2. (RInv /\ Home) /\ [Next]_vars => (RInv /\ Home)'
  BY NextRInv, NextHome
<1> QED
  BY <1>1, <1>2, PTL DEF Spec

(* Orderly clients share the buffer without noticing: each gets answers to *)
(* its own requests only, and nothing is left between two reads.           *)
THEOREM AnswersReturn == Spec => []AnswersGoHome
<1>1. Home => AnswersGoHome
  BY DEF Home, AnswersGoHome
<1> QED
  BY <1>1, MessagesStayWhole, PTL

-----------------------------------------------------------------------------
(* The pid file, which keeps daemons apart as long as it is not unlinked.  *)

LockTypes ==
    /\ path \in Inodes \union {None}
    /\ content \in [Inodes -> Procs \union {None, Garbage}]
    /\ owner \in [Inodes -> Procs \union {None}]
    /\ pc \in [Procs -> {"off", "opened", "locked", "truncated", "written", "running",
                         "unlink", "unlock", "read", "exists"}]
    /\ fd \in [Procs -> Inodes \union {None}]
    /\ pid \in [Procs -> Procs \union {None, Garbage}]
    /\ kept \in BOOLEAN

OwnsLock == \A p \in Procs : pc[p] \in Locked => fd[p] # None /\ owner[fd[p]] = p

OpenHasFile == \A p \in Procs : pc[p] = "opened" => fd[p] # None

(* Before the first release, every open descriptor is one of the same file.*)
OneFile == kept => \A p \in Procs : fd[p] \in {None, path}

LockInv == LockTypes /\ OwnsLock /\ OpenHasFile /\ OneFile

-----------------------------------------------------------------------------
LEMMA InitLockInv == LockInit => LockInv
<1> SUFFICES ASSUME LockInit PROVE LockInv
  OBVIOUS
<1>1. LockTypes
  BY DEF LockInit, LockTypes
<1>2. OwnsLock /\ OpenHasFile /\ OneFile
  BY DEF LockInit, OwnsLock, OpenHasFile, OneFile, Locked
<1> QED
  BY <1>1, <1>2 DEF LockInv

LEMMA NextLockTypes == LockInv /\ LockNext => LockTypes'
<1> SUFFICES ASSUME LockInv, NEW p \in Procs, Step(p) PROVE LockTypes'
  BY DEF LockNext
<1> USE PidLockAssumption DEF LockInv, LockTypes, Goto
<1>1. CASE Open(p)
  BY <1>1 DEF Open
<1>2. CASE Lock(p)
  BY <1>2 DEF Lock, CanLock, OpenHasFile
<1>3. CASE LockFails(p)
  BY <1>3 DEF LockFails
<1>4. CASE Truncate(p)
  BY <1>4 DEF Truncate
<1>5. CASE WritePid(p)
  BY <1>5 DEF WritePid
<1>6. CASE ReadPid(p)
  BY <1>6 DEF ReadPid
<1>7. CASE AcquireFails(p) \/ RunDaemon(p) \/ Finish(p) \/ GiveUp(p)
  BY <1>7 DEF AcquireFails, RunDaemon, Finish, GiveUp
<1>8. CASE Unlink(p) \/ Unlock(p)
  BY <1>8 DEF Unlink, Unlock
<1>9. CASE Crash(p)
  BY <1>9 DEF Crash
<1> QED
  BY <1>1, <1>2, <1>3, <1>4, <1>5, <1>6, <1>7, <1>8, <1>9 DEF Step, Acquire

(* Only a free lock is taken, and only its owner gives it up.              *)
LEMMA NextOwner == LockInv /\ LockNext => OwnsLock' /\ OpenHasFile'
<1> SUFFICES ASSUME LockInv, NEW p \in Procs, Step(p) PROVE OwnsLock' /\ OpenHasFile'
  BY DEF LockNext
<1> USE PidLockAssumption DEF LockInv, LockTypes, Goto, OwnsLock, OpenHasFile, Locked
<1>1. CASE Open(p)
  BY <1>1 DEF Open
<1>2. CASE Lock(p)
  BY <1>2 DEF Lock, CanLock
<1>3. CASE LockFails(p)
  BY <1>3 DEF LockFails
<1>4. CASE Truncate(p) \/ WritePid(p)
  BY <1>4 DEF Truncate, WritePid
<1>5. CASE ReadPid(p)
  BY <1>5 DEF ReadPid
<1>6. CASE AcquireFails(p) \/ RunDaemon(p) \/ Finish(p) \/ GiveUp(p)
  BY <1>6 DEF AcquireFails, RunDaemon, Finish, GiveUp
<1>7. CASE Unlink(p)
  BY <1>7 DEF Unlink
<1>8. CASE Unlock(p)
  BY <1>8 DEF Unlock
<1>9. CASE Crash(p)
  BY <1>9 DEF Crash
<1> QED
  BY <1>1, <1>2, <1>3, <1>4, <1>5, <1>6, <1>7, <1>8, <1>9 DEF Step, Acquire

(* While nobody unlinks the path, every process that has opened it has the *)
(* same inode open.                                                        *)
LEMMA NextOneFile == LockInv /\ LockNext => OneFile'
<1> SUFFICES ASSUME LockInv, NEW p \in Procs, Step(p) PROVE OneFile'
  BY DEF LockNext
<1> USE PidLockAssumption DEF LockInv, LockTypes, Goto, OneFile
<1>1. CASE Open(p)
  BY <1>1 DEF Open
<1>2. CASE Lock(p) \/ LockFails(p)
  BY <1>2 DEF Lock, LockFails
<1>3. CASE Truncate(p) \/ WritePid(p) \/ ReadPid(p)
  BY <1>3 DEF Truncate, WritePid, ReadPid
<1>4. CASE AcquireFails(p) \/ RunDaemon(p) \/ Finish(p) \/ GiveUp(p)
  BY <1>4 DEF AcquireFails, RunDaemon, Finish, GiveUp
<1>5. CASE Unlink(p) \/ Unlock(p)
  BY <1>5 DEF Unlink, Unlock
<1>6. CASE Crash(p)
  BY <1>6 DEF Crash
<1> QED
  BY <1>1, <1>2, <1>3, <1>4, <1>5, <1>6 DEF Step, Acquire

LEMMA NextLockInv == LockInv /\ [LockNext]_(lockVars) => LockInv'
<1>1. LockInv /\ LockNext => LockInv'
  BY NextLockTypes, NextOwner, NextOneFile DEF LockInv
<1>2. LockInv /\ UNCHANGED lockVars => LockInv'
  BY DEF lockVars, LockInv, LockTypes, OwnsLock, OpenHasFile, OneFile
<1> QED
  BY <1>1, <1>2

-----------------------------------------------------------------------------
(* A process that has acquired the lock has it until it gives it up.       *)
THEOREM LockTypeCorrect == LockSpec => []LockTypeOK
<1>1. LockInv => LockTypeOK
  BY DEF LockInv, LockTypes, OwnsLock, LockTypeOK
<1> QED
  BY <1>1, InitLockInv, NextLockInv, PTL DEF LockSpec

(* At most one daemon runs while nobody unlinks the file: two would have   *)
(* locked the same inode.                                                  *)
THEOREM OneDaemon == LockSpec => []AtMostOneIfKept
<1>1. LockInv => AtMostOneIfKept
  <2> SUFFICES ASSUME LockInv, kept PROVE Cardinality(Daemons) <= 1
    BY DEF AtMostOneIfKept
  <2>1. ASSUME NEW p \in Daemons, NEW q \in Daemons PROVE p = q
    <3>1. fd[p] = path /\ fd[q] = path
      BY <2>1 DEF LockInv, OwnsLock, OneFile, Daemons, Locked
    <3> QED
      BY <2>1, <3>1 DEF LockInv, OwnsLock, Daemons, Locked
  <2>2. CASE Daemons = {}
    BY <2>2, FS_EmptySet
  <2>3. CASE Daemons # {}
    <3>1. PICK p : p \in Daemons
      BY <2>3
    <3>2. Daemons = {p}
      BY <2>1, <3>1
    <3> QED
      BY <3>2, FS_Singleton
  <2> QED
    BY <2>2, <2>3
<1> QED
  BY <1>1, InitLockInv, NextLockInv, PTL DEF LockSpec

-----------------------------------------------------------------------------
(* the scanner of JSON values *)

(* A recursive function on lo..hi with values in W, which is base at the   *)
(* positions Ends and otherwise made by step of its own value at the next  *)
(* one, further on; and what f has to meet to be it.                       *)
Onward(lo, hi, Ends, next) == \A j \in lo..hi : j \notin Ends => next[j] \in (j + 1)..hi
Follows(f, lo, hi, Ends, next, base, step) ==
    \A j \in lo..hi : f[j] = IF j \in Ends THEN base[j] ELSE step[j][f[next[j]]]

(* Such a function exists: it can be defined from the end backwards.       *)
LEMMA BackwardsDefined ==
    ASSUME NEW lo \in Nat, NEW hi \in Nat, lo <= hi,
           NEW Ends \in SUBSET (lo..hi), hi \in Ends,
           NEW next \in [lo..hi -> Nat], Onward(lo, hi, Ends, next),
           NEW W, NEW base \in [lo..hi -> W], NEW step \in [lo..hi -> [W -> W]]
    PROVE  \E f \in [lo..hi -> W] : Follows(f, lo, hi, Ends, next, base, step)
<1> USE DEF Onward, Follows
<1> DEFINE Upto(k) == (hi - k)..hi
           Made(f, j) == IF j \in Ends THEN base[j] ELSE step[j][f[next[j]]]
           Met(f, k) == \A j \in Upto(k) : f[j] = Made(f, j) /\ f[j] \in W
           T == {k \in 0..(hi - lo) : ~\E f : Met(f, k)}
<1>1. T = {}
  <2>1. SUFFICES ASSUME T # {} PROVE FALSE
    OBVIOUS
  <2>2. PICK m \in T : \A k \in T : m <= k
    <3>1. T \in SUBSET Nat
      OBVIOUS
    <3> HIDE DEF T
    <3> QED
      BY <2>1, <3>1, LeastOf
  <2>3. m \in 0..(hi - lo) /\ ~\E f : Met(f, m)
    OBVIOUS
  <2>4. CASE m = 0
    <3>1. Upto(0) = {hi} /\ base[hi] \in W
      OBVIOUS
    <3>2. Met([j \in {hi} |-> base[hi]], 0)
      BY <3>1
    <3> QED
      BY <2>3, <2>4, <3>2
  <2>5. CASE m # 0
    <3>1. m - 1 \in 0..(hi - lo) /\ m - 1 \notin T
      <4>1. m \in Nat /\ m - 1 \in Nat /\ m - 1 \in 0..(hi - lo) /\ ~(m <= m - 1)
        BY <2>3, <2>5
      <4> HIDE DEF T
      <4> QED
        BY <2>2, <4>1
    <3>2. PICK f : Met(f, m - 1)
      BY <3>1
    <3> DEFINE here == hi - m
               g == [j \in Upto(m) |-> IF j # here THEN f[j] ELSE Made(f, here)]
    <3>3. here \in lo..hi /\ (here \notin Ends => next[here] \in Upto(m - 1))
      BY <2>3, <2>5
    <3>4. ASSUME NEW j \in Upto(m), j # here
          PROVE  j \in Upto(m - 1)
      <4>1. m \in Int
        BY <2>3
      <4> HIDE DEF T
      <4> QED
        BY <3>4, <4>1
    <3>5. ASSUME NEW j \in Upto(m - 1)
          PROVE  /\ j \in Upto(m) /\ j # here /\ j \in lo..hi
                 /\ j \notin Ends => next[j] \in Upto(m - 1)
      <4>1. j \in Upto(m) /\ j # here /\ j \in lo..hi
        BY <2>3, <2>5
      <4>2. j \notin Ends => next[j] \in (j + 1)..hi
        BY <4>1
      <4> QED
        BY <2>3, <2>5, <4>1, <4>2
    <3>6. \A j \in Upto(m - 1) : g[j] = f[j]
      BY <3>5
    <3>7. Made(f, here) \in W
      <4>1. base[here] \in W /\ step[here] \in [W -> W]
        BY <3>3
      <4>2. here \notin Ends => f[next[here]] \in W
        BY <3>2, <3>3
      <4> QED
        BY <4>1, <4>2
    <3>8. here \in Upto(m) /\ g[here] = Made(f, here)
      BY <2>3
    <3>9. ASSUME NEW j \in Upto(m)
          PROVE  g[j] = Made(g, j) /\ g[j] \in W
      <4> HIDE DEF Upto
      <4>1. CASE j = here
        <5>1. here \notin Ends => g[next[here]] = f[next[here]]
          BY <3>3, <3>6
        <5> HIDE DEF g, here
        <5> QED
          BY <3>7, <3>8, <4>1, <5>1
      <4>2. CASE j \in Upto(m - 1)
        <5>1. f[j] = Made(f, j) /\ f[j] \in W
          BY <3>2, <4>2
        <5>2. g[j] = f[j] /\ (j \notin Ends => g[next[j]] = f[next[j]])
          BY <3>5, <3>6, <4>2, Zenon
        <5> HIDE DEF g
        <5> QED
          BY <5>1, <5>2
      <4> QED
        BY <3>4, <4>1, <4>2
    <3> HIDE DEF g
    <3> QED
      BY <2>3, <3>9
  <2> QED
    BY <2>4, <2>5
<1>2. hi - lo \in 0..(hi - lo) /\ lo = hi - (hi - lo)
  OBVIOUS
<1>3. PICK f : Met(f, hi - lo)
  <2> HIDE DEF Met
  <2> QED
    BY <1>1, <1>2
<1> DEFINE g == [j \in lo..hi |-> f[j]]
<1>4. \A j \in lo..hi : f[j] = Made(f, j) /\ f[j] \in W
  BY <1>2, <1>3
<1>5. g \in [lo..hi -> W]
  BY <1>4
<1>6. ASSUME NEW j \in lo..hi PROVE g[j] = Made(g, j)
  <2>1. j \notin Ends => next[j] \in lo..hi
    OBVIOUS
  <2>2. g[j] = f[j] /\ (j \notin Ends => g[next[j]] = f[next[j]])
    BY <2>1
  <2> HIDE DEF g
  <2> QED
    BY <1>4, <2>2
<1> HIDE DEF g
<1> QED
  BY <1>5, <1>6

(* Characters that mean nothing to the reader outside of a string.         *)
LEMMA Kinds ==
    /\ \A c \in Word \union Spaces \union {":", ","} :
           c \notin Opening \union Closing \union {Quote, Backslash}
    /\ \A c \in Opening \union Closing : c # Quote /\ c # Backslash /\ c \notin Spaces /\ c \notin Word
    /\ Opening \intersect Closing = {} /\ Quote # Backslash /\ Quote \notin Word
BY DEF Word, Spaces, Opening, Closing, Quote, Backslash, Digits, Letters, Keywords

(* What the reader of a text knows.                                        *)
ReaderStates == [string : BOOLEAN, escaped : BOOLEAN, depth : Int]

LEMMA ReadCharTypes ==
    ASSUME NEW st \in ReaderStates, NEW c
    PROVE  ReadChar(st, c) \in ReaderStates
<1> USE DEF ReaderStates
<1>1. \A x \in BOOLEAN : [st EXCEPT !.escaped = x] \in ReaderStates
  OBVIOUS
<1>2. \A x \in BOOLEAN : [st EXCEPT !.string = x] \in ReaderStates
  OBVIOUS
<1>3. \A x \in Int : [st EXCEPT !.depth = x] \in ReaderStates
  OBVIOUS
<1>4. st.depth + 1 \in Int /\ st.depth - 1 \in Int
  OBVIOUS
<1>5. (~st.string) \in BOOLEAN
  BY Zenon
<1> HIDE DEF ReaderStates
<1> QED
  BY <1>1, <1>2, <1>3, <1>4, <1>5 DEF ReadChar

(* Reading() is defined.                                                   *)
LEMMA ReadingSteps ==
    ASSUME NEW s \in Seq(Characters)
    PROVE  /\ Reading(s) \in [0..Len(s) -> ReaderStates]
           /\ Reading(s)[0] = AtStart
           /\ \A k \in 0..(Len(s) - 1) : Reading(s)[k + 1] = ReadChar(Reading(s)[k], At(s, k))
<1> DEFINE n == Len(s)
           Body(f) == [k \in 0..n |-> IF k = 0 THEN AtStart ELSE ReadChar(f[k - 1], s[k])]
           read == CHOOSE f : f = Body(f)
<1>1. n \in Nat
  OBVIOUS
<1>2. \E f : f = Body(f) /\ f \in [0..n -> ReaderStates]
  <2> DEFINE next == [j \in 0..n |-> j + 1]
             base == [j \in 0..n |-> AtStart]
             step == [j \in 0..n |-> [w \in ReaderStates |-> ReadChar(w, s[n - j])]]
  <2>1. next \in [0..n -> Nat] /\ Onward(0, n, {n}, next)
    BY <1>1 DEF Onward
  <2>2. base \in [0..n -> ReaderStates]
    BY DEF AtStart, ReaderStates
  <2>3. step \in [0..n -> [ReaderStates -> ReaderStates]]
    BY ReadCharTypes
  <2>4. {n} \in SUBSET (0..n) /\ n \in {n} /\ 0 \in Nat /\ 0 <= n
    BY <1>1
  <2> HIDE DEF n, next, base, step
  <2>5. PICK g \in [0..n -> ReaderStates] : Follows(g, 0, n, {n}, next, base, step)
    BY <1>1, <2>1, <2>2, <2>3, <2>4, BackwardsDefined
  <2> DEFINE f == [k \in 0..n |-> g[n - k]]
  <2>6. f \in [0..n -> ReaderStates]
    BY <1>1, <2>5
  <2>7. ASSUME NEW k \in 0..n
        PROVE  f[k] = IF k = 0 THEN AtStart ELSE ReadChar(f[k - 1], s[k])
    <3>1. n - k \in 0..n /\ n - (n - k) = k
      BY <1>1
    <3>2. g[n - k] = IF n - k \in {n} THEN base[n - k] ELSE step[n - k][g[next[n - k]]]
      BY <2>5, <3>1 DEF Follows
    <3>3. CASE k = 0
      BY <1>1, <3>1, <3>2, <3>3 DEF base
    <3>4. CASE k # 0
      <4>1. next[n - k] = n - (k - 1) /\ k - 1 \in 0..n /\ n - (k - 1) \in 0..n
        BY <1>1, <3>1, <3>4 DEF next
      <4>2. g[next[n - k]] = f[k - 1] /\ f[k - 1] \in ReaderStates
        BY <2>5, <4>1
      <4>3. step[n - k][f[k - 1]] = ReadChar(f[k - 1], s[k])
        BY <3>1, <4>2 DEF step
      <4>4. n - k # n
        BY <1>1, <3>4
      <4> HIDE DEF f
      <4>5. f[k] = g[n - k]
        BY DEF f
      <4> QED
        BY <3>2, <3>4, <4>2, <4>3, <4>4, <4>5
    <3> QED
      BY <3>3, <3>4
  <2>8. f = Body(f)
    BY <2>7
  <2> QED
    BY <2>6, <2>8
<1>3. read = Body(read)
  <2> HIDE DEF Body
  <2> QED
    BY <1>2
<1>4. Reading(s) = read
  BY DEF Reading
<1> HIDE DEF read
<1>5. /\ read[0] = AtStart /\ DOMAIN read = 0..n /\ read = [k \in 0..n |-> read[k]]
      /\ \A k \in 1..n : read[k] = ReadChar(read[k - 1], s[k])
  <2>1. \A k \in 0..n : read[k] = IF k = 0 THEN AtStart ELSE ReadChar(read[k - 1], s[k])
    BY <1>3
  <2> QED
    BY <1>1, <1>3, <2>1
<1> DEFINE T == {k \in 0..n : read[k] \notin ReaderStates}
<1>6. T = {}
  <2>1. SUFFICES ASSUME T # {} PROVE FALSE
    OBVIOUS
  <2>2. PICK m \in T : \A k \in T : m <= k
    <3>1. T \in SUBSET Nat
      OBVIOUS
    <3> HIDE DEF T
    <3> QED
      BY <2>1, <3>1, LeastOf
  <2>3. m \in 0..n /\ read[m] \notin ReaderStates
    OBVIOUS
  <2>4. AtStart \in ReaderStates
    BY DEF AtStart, ReaderStates
  <2>5. m \in 1..n /\ m - 1 \in 0..n /\ ~(m <= m - 1)
    BY <1>1, <1>5, <2>3, <2>4
  <2>6. read[m - 1] \in ReaderStates
    BY <2>2, <2>5
  <2> QED
    BY <1>5, <2>3, <2>5, <2>6, ReadCharTypes
<1>7. ASSUME NEW k \in 0..(n - 1) PROVE read[k + 1] = ReadChar(read[k], At(s, k))
  <2>1. k + 1 \in 1..n /\ (k + 1) - 1 = k
    BY <1>1
  <2> QED
    BY <1>5, <2>1 DEF At
<1>8. read \in [0..n -> ReaderStates]
  BY <1>5, <1>6
<1> QED
  BY <1>4, <1>5, <1>7, <1>8

(* The reader is outside of strings, in so many brackets.                  *)
Plain(st, lvl) == ~st.string /\ ~st.escaped /\ st.depth = lvl

(* SkipString()'s recursion: where the string ends, seen from k.           *)
StringsAs(s, i, end) ==
    \A k \in (i + 1)..(Len(s) + 1) :
        end[k] = IF k >= Len(s) \/ At(s, k) = Quote THEN k + 1 ELSE end[k + Escaped(s, k)]

LEMMA SkipStringRecursion ==
    ASSUME NEW s \in Seq(Characters), NEW i \in 0..(Len(s) - 1)
    PROVE  \E end : StringsAs(s, i, end) /\ SkipString(s, i) = end[i + 1]
<1> DEFINE n == Len(s)
           lo == i + 1
           Body(f) == [k \in lo..(n + 1) |->
                          IF k >= n \/ At(s, k) = Quote THEN k + 1 ELSE f[k + Escaped(s, k)]]
           end == CHOOSE f : f = Body(f)
           Done(k) == k >= n \/ At(s, k) = Quote
<1>1. n \in Nat /\ i \in Nat /\ i < n /\ lo \in Nat /\ lo <= n + 1
  OBVIOUS
<1>2. \A k : Escaped(s, k) \in {1, 2}
  BY DEF Escaped
<1>3. \E f : f = Body(f)
  <2> DEFINE ends == {k \in lo..(n + 1) : Done(k)}
             next == [k \in lo..(n + 1) |-> k + Escaped(s, k)]
             base == [k \in lo..(n + 1) |-> k + 1]
             step == [k \in lo..(n + 1) |-> [w \in Nat |-> w]]
  <2>1. next \in [lo..(n + 1) -> Nat]
    BY <1>1, <1>2
  <2>2. Onward(lo, n + 1, ends, next)
    <3>1. ASSUME NEW k \in lo..(n + 1), k \notin ends PROVE next[k] \in (k + 1)..(n + 1)
      BY <1>1, <1>2, <3>1
    <3> QED
      BY <3>1 DEF Onward
  <2>3. base \in [lo..(n + 1) -> Nat] /\ step \in [lo..(n + 1) -> [Nat -> Nat]]
    BY <1>1
  <2>4. ends \in SUBSET (lo..(n + 1)) /\ n + 1 \in ends /\ n + 1 \in Nat
    BY <1>1
  <2> HIDE DEF n, lo, ends, next, base, step
  <2>5. PICK f \in [lo..(n + 1) -> Nat] : Follows(f, lo, n + 1, ends, next, base, step)
    BY <1>1, <2>1, <2>2, <2>3, <2>4, BackwardsDefined
  <2>6. ASSUME NEW k \in lo..(n + 1)
        PROVE  f[k] = IF Done(k) THEN k + 1 ELSE f[k + Escaped(s, k)]
    <3>1. f[k] = IF k \in ends THEN base[k] ELSE step[k][f[next[k]]]
      BY <2>5 DEF Follows
    <3>2. CASE Done(k)
      BY <3>1, <3>2 DEF ends, base
    <3>3. CASE ~Done(k)
      <4>1. k \notin ends /\ next[k] = k + Escaped(s, k)
        BY <3>3 DEF ends, next
      <4>2. next[k] \in lo..(n + 1)
        BY <1>1, <2>2, <4>1 DEF Onward
      <4>3. f[next[k]] \in Nat
        BY <2>5, <4>2
      <4>4. step[k][f[next[k]]] = f[next[k]]
        BY <4>3 DEF step
      <4> QED
        BY <3>1, <3>3, <4>1, <4>4
    <3> QED
      BY <3>2, <3>3
  <2>7. f = Body(f)
    BY <2>6
  <2> QED
    BY <2>7
<1>4. end = Body(end)
  <2> HIDE DEF Body
  <2> QED
    BY <1>3
<1>5. SkipString(s, i) = end[lo]
  BY DEF SkipString
<1> HIDE DEF end
<1>6. \A k \in lo..(n + 1) : end[k] = IF Done(k) THEN k + 1 ELSE end[k + Escaped(s, k)]
  BY <1>4
<1> QED
  BY <1>5, <1>6 DEF StringsAs

(* Behind a string the reader is where it was before it.                   *)
LEMMA StringPlain ==
    ASSUME NEW s \in Seq(Characters), NEW i \in 0..(Len(s) - 1), At(s, i) = Quote,
           NEW lvl \in Int
    PROVE  /\ SkipString(s, i) \in (i + 1)..(Len(s) + 2)
           /\ Plain(Reading(s)[i], lvl) /\ SkipString(s, i) <= Len(s)
                  => Plain(Reading(s)[SkipString(s, i)], lvl)
<1> DEFINE n == Len(s)
           lo == i + 1
           Done(k) == k >= n \/ At(s, k) = Quote
<1>1. n \in Nat /\ i \in Nat /\ i < n /\ lo \in Nat /\ lo <= n + 1
  OBVIOUS
<1>2. \A k : Escaped(s, k) \in {1, 2}
  BY DEF Escaped
<1>3. PICK end : StringsAs(s, i, end) /\ SkipString(s, i) = end[lo]
  BY SkipStringRecursion
<1>4. \A k \in lo..(n + 1) : end[k] = IF Done(k) THEN k + 1 ELSE end[k + Escaped(s, k)]
  BY <1>3 DEF StringsAs
<1> DEFINE st == Reading(s)
           Inside(k) == st[k].string /\ ~st[k].escaped /\ st[k].depth = lvl
           Good(k) == /\ end[k] \in lo..(n + 2)
                      /\ (k <= n => Inside(k)) /\ end[k] <= n => Plain(st[end[k]], lvl)
           T == {j \in 0..(n + 1 - lo) : ~Good(n + 1 - j)}
<1>7. /\ st \in [0..n -> ReaderStates]
      /\ \A k \in 0..(n - 1) : st[k + 1] = ReadChar(st[k], At(s, k))
  BY ReadingSteps
<1> HIDE DEF st
<1>8. ASSUME Plain(st[i], lvl) PROVE Inside(lo)
  <2>1. st[lo] = ReadChar(st[i], Quote) /\ st[i] \in ReaderStates
    BY <1>1, <1>7
  <2>2. st[lo] = [st[i] EXCEPT !.string = ~@]
    BY <1>8, <2>1, Kinds DEF ReadChar, Plain
  <2>3. st[lo].string /\ st[lo].escaped = st[i].escaped /\ st[lo].depth = st[i].depth
    BY <1>8, <2>1, <2>2 DEF ReaderStates, Plain
  <2> QED
    BY <1>8, <2>3 DEF Plain
<1>9. ASSUME NEW k \in lo..(n - 1), Inside(k), At(s, k) = Quote
      PROVE  Plain(st[k + 1], lvl)
  <2>1. st[k + 1] = ReadChar(st[k], Quote) /\ st[k] \in ReaderStates
    BY <1>1, <1>7, <1>9
  <2>2. st[k + 1] = [st[k] EXCEPT !.string = ~@]
    BY <1>9, <2>1, Kinds DEF ReadChar
  <2>3. ~st[k + 1].string /\ st[k + 1].escaped = st[k].escaped /\ st[k + 1].depth = st[k].depth
    BY <1>9, <2>1, <2>2 DEF ReaderStates
  <2> QED
    BY <1>9, <2>3 DEF Plain
<1>10. ASSUME NEW k \in lo..(n - 1), Inside(k), At(s, k) # Quote, k + Escaped(s, k) <= n
       PROVE  Inside(k + Escaped(s, k))
  <2>1. st[k + 1] = ReadChar(st[k], At(s, k)) /\ st[k] \in ReaderStates
    BY <1>1, <1>7
  <2>2. CASE At(s, k) # Backslash
    <3>1. st[k + 1] = st[k]
      BY <1>10, <2>1, <2>2 DEF ReadChar
    <3> QED
      BY <1>10, <2>2, <3>1 DEF Escaped
  <2>3. CASE At(s, k) = Backslash
    <3>1. st[k + 1] = [st[k] EXCEPT !.escaped = TRUE]
      BY <1>10, <2>1, <2>3 DEF ReadChar
    <3>2. /\ st[k + 1].escaped /\ st[k + 1].string /\ st[k + 1].depth = lvl
          /\ st[k + 1] \in ReaderStates
      BY <1>10, <2>1, <3>1 DEF ReaderStates
    <3>3. k + 1 \in 0..(n - 1) /\ k + Escaped(s, k) = k + 1 + 1
      BY <1>1, <1>10, <2>3 DEF Escaped
    <3>4. st[k + 1 + 1] = ReadChar(st[k + 1], At(s, k + 1))
      BY <1>7, <3>3
    <3>5. st[k + 1 + 1] = [st[k + 1] EXCEPT !.escaped = FALSE]
      BY <3>2, <3>4 DEF ReadChar
    <3>6. ~st[k + 1 + 1].escaped /\ st[k + 1 + 1].string /\ st[k + 1 + 1].depth = lvl
      BY <3>2, <3>5 DEF ReaderStates
    <3> QED
      BY <3>3, <3>6
  <2> QED
    BY <2>2, <2>3
<1>11. T = {}
  <2>1. SUFFICES ASSUME T # {} PROVE FALSE
    OBVIOUS
  <2>2. PICK m \in T : \A j \in T : m <= j
    <3>1. T \in SUBSET Nat
      OBVIOUS
    <3> HIDE DEF T
    <3> QED
      BY <2>1, <3>1, LeastOf
  <2> DEFINE k == n + 1 - m
             next == k + Escaped(s, k)
  <2>3. m \in 0..(n + 1 - lo) /\ ~Good(k)
    OBVIOUS
  <2>4. k \in lo..(n + 1) /\ k \in Nat
    BY <1>1, <2>3
  <2> HIDE DEF k, T
  <2>5. CASE Done(k)
    <3>1. end[k] = k + 1
      BY <1>4, <2>4, <2>5
    <3>2. k <= n - 1 => At(s, k) = Quote /\ k \in lo..(n - 1)
      BY <1>1, <2>4, <2>5
    <3> QED
      BY <1>1, <1>9, <2>3, <2>4, <3>1, <3>2
  <2>6. CASE ~Done(k)
    <3>1. /\ end[k] = end[next] /\ next \in (k + 1)..(n + 1)
          /\ k \in lo..(n - 1) /\ At(s, k) # Quote
      BY <1>1, <1>2, <1>4, <2>4, <2>6
    <3>2. n + 1 - next \in 0..(n + 1 - lo) /\ ~(m <= n + 1 - next) /\ n + 1 - (n + 1 - next) = next
      <4>1. k = n + 1 - m /\ m \in Nat /\ next \in (k + 1)..(n + 1)
        BY <1>1, <2>3, <3>1 DEF k
      <4> HIDE DEF next, n
      <4> QED
        BY <1>1, <2>4, <4>1
    <3>3. n + 1 - next \notin T
      BY <2>2, <3>2
    <3>4. Good(next)
      BY <3>2, <3>3 DEF T
    <3>5. Inside(k) => (next <= n => Inside(next))
      BY <1>10, <3>1
    <3>6. k <= n
      BY <1>1, <3>1
    <3> HIDE DEF Inside, next
    <3> QED
      BY <2>3, <3>1, <3>4, <3>5, <3>6
  <2> QED
    BY <2>5, <2>6
<1>12. Good(lo)
  <2>1. n + 1 - lo \in 0..(n + 1 - lo) /\ n + 1 - (n + 1 - lo) = lo
    BY <1>1
  <2> HIDE DEF Good
  <2> QED
    BY <1>11, <2>1
<1> QED
  BY <1>3, <1>8, <1>12 DEF st

LEMMA SkipSpaceFacts ==
    ASSUME NEW s \in Seq(Characters), NEW i \in Nat
    PROVE  /\ i >= Len(s) => SkipSpace(s, i) = i
           /\ i < Len(s) =>
                  /\ SkipSpace(s, i) \in i..Len(s)
                  /\ SkipSpace(s, i) = Len(s) \/ At(s, SkipSpace(s, i)) \notin Spaces
           /\ \A j \in i..(SkipSpace(s, i) - 1) : At(s, j) \in Spaces
<1> DEFINE S == {k \in i..Len(s) : k = Len(s) \/ At(s, k) \notin Spaces}
<1>1. Len(s) \in Nat
  OBVIOUS
<1>2. CASE i >= Len(s)
  <2>1. SkipSpace(s, i) = i
    BY <1>2 DEF SkipSpace
  <2> QED
    BY <1>1, <1>2, <2>1
<1>3. CASE ~(i >= Len(s))
  <2>1. SkipSpace(s, i) = Min(S)
    BY <1>3 DEF SkipSpace
  <2>2. S \in SUBSET Nat /\ Len(s) \in S
    BY <1>1, <1>3
  <2>3. Min(S) \in S /\ \A k \in S : Min(S) <= k
    <3> HIDE DEF S
    <3> QED
      BY <2>2, LeastOf
  <2> DEFINE m == Min(S)
  <2> HIDE DEF m
  <2>4. m \in S /\ m \in i..Len(s) /\ \A k \in S : m <= k
    BY <2>3 DEF m
  <2>5. ASSUME NEW j \in i..(m - 1) PROVE At(s, j) \in Spaces
    <3>1. j \in i..Len(s) /\ ~(m <= j)
      BY <1>1, <2>4
    <3>2. j \notin S
      BY <2>4, <3>1
    <3> QED
      BY <3>1, <3>2
  <2> QED
    BY <1>1, <1>3, <2>1, <2>4, <2>5 DEF m
<1> QED
  BY <1>2, <1>3

LEMMA SkipWordFacts ==
    ASSUME NEW s \in Seq(Characters), NEW i \in 0..(Len(s) - 1)
    PROVE  /\ SkipWord(s, i) \in (i + 1)..Len(s)
           /\ \A j \in (i + 1)..(SkipWord(s, i) - 1) : At(s, j) \in Word
<1> DEFINE S == {k \in (i + 1)..Len(s) : k = Len(s) \/ At(s, k) \notin Word}
           m == Min(S)
<1>1. Len(s) \in Nat /\ i \in Nat
  OBVIOUS
<1>2. SkipWord(s, i) = m
  BY DEF SkipWord
<1>3. S \in SUBSET Nat /\ Len(s) \in S
  BY <1>1
<1>4. m \in S /\ \A k \in S : m <= k
  <2> HIDE DEF S
  <2> QED
    BY <1>3, LeastOf
<1> HIDE DEF m
<1>5. ASSUME NEW j \in (i + 1)..(m - 1) PROVE At(s, j) \in Word
  <2>1. m \in (i + 1)..Len(s)
    BY <1>4
  <2>2. j \in (i + 1)..Len(s) /\ ~(m <= j)
    BY <1>1, <2>1
  <2>3. j \notin S
    BY <1>4, <2>2
  <2> QED
    BY <2>2, <2>3
<1> QED
  BY <1>2, <1>4, <1>5

(* Words and space leave the reader where it is.                           *)
LEMMA RunPlain ==
    ASSUME NEW s \in Seq(Characters), NEW a \in 0..Len(s), NEW b \in a..Len(s),
           NEW lvl \in Int, Plain(Reading(s)[a], lvl),
           \A j \in a..(b - 1) : At(s, j) \in Word \union Spaces
    PROVE  Plain(Reading(s)[b], lvl)
<1> DEFINE st == Reading(s)
           T == {j \in a..b : ~Plain(st[j], lvl)}
<1>1. a \in Nat /\ b \in Nat /\ Len(s) \in Nat /\ a <= b
  OBVIOUS
<1>2. \A k \in 0..(Len(s) - 1) : st[k + 1] = ReadChar(st[k], At(s, k))
  BY ReadingSteps
<1> HIDE DEF st
<1>3. T = {}
  <2>1. SUFFICES ASSUME T # {} PROVE FALSE
    OBVIOUS
  <2>2. PICK m \in T : \A k \in T : m <= k
    <3>1. T \in SUBSET Nat
      BY <1>1
    <3> HIDE DEF T
    <3> QED
      BY <2>1, <3>1, LeastOf
  <2>3. m \in a..b /\ ~Plain(st[m], lvl) /\ m # a
    BY DEF st
  <2>4. m - 1 \in a..(b - 1) /\ m - 1 \in 0..(Len(s) - 1) /\ ~(m <= m - 1) /\ (m - 1) + 1 = m
    BY <1>1, <2>3
  <2>5. Plain(st[m - 1], lvl)
    BY <2>2, <2>4
  <2>6. st[m] = ReadChar(st[m - 1], At(s, m - 1)) /\ At(s, m - 1) \in Word \union Spaces
    BY <1>2, <2>4
  <2>7. st[m] = st[m - 1]
    <3>1. /\ At(s, m - 1) # Quote /\ At(s, m - 1) # Backslash
          /\ At(s, m - 1) \notin Opening /\ At(s, m - 1) \notin Closing
      BY <2>6, Kinds
    <3> QED
      BY <2>5, <2>6, <3>1 DEF ReadChar, Plain
  <2> QED
    BY <2>3, <2>5, <2>7
<1>4. b \in a..b
  BY <1>1
<1> QED
  BY <1>3, <1>4 DEF st

Separators == {":", ","}
Tokens == Word \union Opening \union Closing \union {Quote} \union Separators

(* Behind a token, and the space after it, the reader is as deep as the    *)
(* scanner's level says.                                                   *)
LEMMA TokenPlain ==
    ASSUME NEW s \in Seq(Characters), NEW k \in 0..(Len(s) - 1), At(s, k) \in Tokens,
           NEW lvl \in Int, NEW next, next = SkipSpace(s, TokenEnd(s, k))
    PROVE  /\ next \in (k + 1)..(Len(s) + 2)
           /\ Plain(Reading(s)[k], lvl) /\ next <= Len(s)
                  => Plain(Reading(s)[next], Deeper(At(s, k), lvl))
           /\ At(s, k) \in Closing =>
                  /\ Plain(Reading(s)[k], lvl) => Plain(Reading(s)[k + 1], lvl - 1)
                  /\ next <= Len(s)
                  /\ \A j \in (k + 1)..(next - 1) : At(s, j) \in Spaces
<1> DEFINE st == Reading(s)
           e == TokenEnd(s, k)
           c == At(s, k)
           deep == Deeper(c, lvl)
<1>1. Len(s) \in Nat /\ k \in Nat /\ k + 1 <= Len(s)
  OBVIOUS
<1>2. st[k + 1] = ReadChar(st[k], c) /\ st[k] \in ReaderStates
  BY ReadingSteps
<1> HIDE DEF st
<1>3. deep \in Int
  BY DEF Deeper
<1>4. e \in (k + 1)..(Len(s) + 2) /\ (Plain(st[k], lvl) /\ e <= Len(s) => Plain(st[e], deep))
  <2>1. CASE c = Quote
    <3>1. e = SkipString(s, k) /\ deep = lvl
      BY <2>1, Kinds DEF TokenEnd, Deeper
    <3> QED
      BY <2>1, <3>1, StringPlain DEF st
  <2>2. CASE c \in Word
    <3>1. e = SkipWord(s, k) /\ deep = lvl
      BY <2>2, Kinds DEF TokenEnd, Deeper
    <3>2. e \in (k + 1)..Len(s) /\ \A j \in (k + 1)..(e - 1) : At(s, j) \in Word
      BY <3>1, SkipWordFacts
    <3> HIDE DEF e
    <3>3. \A j \in k..(e - 1) : At(s, j) \in Word \union Spaces
      BY <1>1, <2>2, <3>2
    <3>4. k \in 0..Len(s) /\ e \in k..Len(s)
      BY <1>1, <3>2
    <3>5. Plain(st[k], lvl) => Plain(st[e], lvl)
      BY <3>3, <3>4, RunPlain DEF st
    <3> QED
      BY <1>1, <3>1, <3>2, <3>5
  <2>3. CASE c \in Opening
    <3>1. e = k + 1 /\ deep = lvl + 1 /\ c # Quote /\ c # Backslash
      BY <2>3, Kinds DEF TokenEnd, Deeper
    <3>2. Plain(st[k], lvl) => st[k + 1] = [st[k] EXCEPT !.depth = @ + 1]
      BY <1>2, <2>3, <3>1, Kinds DEF ReadChar, Plain
    <3>3. Plain(st[k], lvl) => Plain(st[k + 1], lvl + 1)
      BY <1>2, <3>2 DEF Plain, ReaderStates
    <3> QED
      BY <1>1, <3>1, <3>3
  <2>4. CASE c \in Closing
    <3>1. e = k + 1 /\ deep = lvl - 1 /\ c # Quote /\ c # Backslash /\ c \notin Opening
      BY <2>4, Kinds DEF TokenEnd, Deeper
    <3>2. Plain(st[k], lvl) => st[k + 1] = [st[k] EXCEPT !.depth = @ - 1]
      BY <1>2, <2>4, <3>1 DEF ReadChar, Plain
    <3>3. Plain(st[k], lvl) => Plain(st[k + 1], lvl - 1)
      BY <1>2, <3>2 DEF Plain, ReaderStates
    <3> QED
      BY <1>1, <3>1, <3>3
  <2>5. CASE c \in Separators
    <3>1. c \notin Opening /\ c \notin Closing /\ c # Quote /\ c # Backslash /\ c \notin Word
      BY <2>5 DEF Separators, Word, Spaces, Opening, Closing, Quote, Backslash, Digits,
                  Letters, Keywords
    <3>2. e = k + 1 /\ deep = lvl
      BY <3>1 DEF TokenEnd, Deeper
    <3>3. Plain(st[k], lvl) => st[k + 1] = st[k]
      BY <1>2, <3>1 DEF ReadChar, Plain
    <3> QED
      BY <1>1, <3>2, <3>3
  <2> QED
    BY <2>1, <2>2, <2>3, <2>4, <2>5 DEF Tokens
<1>5. /\ next = SkipSpace(s, e) /\ e \in Nat
      /\ e >= Len(s) => next = e
      /\ e < Len(s) => next \in e..Len(s)
      /\ \A j \in e..(next - 1) : At(s, j) \in Spaces
  <2>1. e \in Nat
    BY <1>1, <1>4
  <2> HIDE DEF e
  <2>2. next = SkipSpace(s, e)
    BY DEF e
  <2> QED
    BY <2>1, <2>2, SkipSpaceFacts
<1>6. c \in Closing => e = k + 1 /\ deep = lvl - 1
  BY Kinds DEF TokenEnd, Deeper
<1> HIDE DEF e, deep
<1>7. next \in (k + 1)..(Len(s) + 2)
  BY <1>1, <1>4, <1>5
<1>8. ASSUME Plain(st[k], lvl), next <= Len(s) PROVE Plain(st[next], deep)
  <2>1. e \in 0..Len(s) /\ next \in e..Len(s)
    BY <1>1, <1>4, <1>5, <1>8
  <2>2. Plain(st[e], deep)
    BY <1>4, <1>8, <2>1
  <2>3. \A j \in e..(next - 1) : At(s, j) \in Word \union Spaces
    BY <1>5
  <2> QED
    BY <1>3, <2>1, <2>2, <2>3, RunPlain DEF st
<1>9. ASSUME c \in Closing
      PROVE  /\ Plain(st[k], lvl) => Plain(st[k + 1], lvl - 1)
             /\ next <= Len(s) /\ \A j \in (k + 1)..(next - 1) : At(s, j) \in Spaces
  BY <1>1, <1>4, <1>5, <1>6, <1>9
<1> QED
  BY <1>7, <1>8, <1>9 DEF st, deep

NextToken(s, k) == SkipSpace(s, TokenEnd(s, k))

(* Skip()'s recursion: where it ends from k on, in lvl brackets.           *)
SkipsAs(s, go) ==
    \A k \in 0..(Len(s) + 2), lvl \in Int :
        go[k][lvl] = IF k > 0 /\ lvl <= 0 THEN k
                     ELSE IF k >= Len(s) THEN Len(s)
                     ELSE IF At(s, k) \in Tokens THEN go[NextToken(s, k)][Deeper(At(s, k), lvl)]
                     ELSE Error

LEMMA SkipRecursion ==
    ASSUME NEW s \in Seq(Characters), s # <<>>
    PROVE  \E go : SkipsAs(s, go) /\ Skip(s, 0) = go[0][0]
<1> DEFINE n == Len(s)
           hi == n + 2
           Body(f) == [k \in 0..hi |-> [lvl \in Int |->
                         IF k > 0 /\ lvl <= 0 THEN k
                         ELSE IF k >= n THEN n
                         ELSE IF At(s, k) \in Word \union Opening \union Closing \union {Quote, ":", ","}
                              THEN f[SkipSpace(s, TokenEnd(s, k))][Deeper(At(s, k), lvl)]
                              ELSE Error]]
           go == CHOOSE f : f = Body(f)
           Going(k) == k < n /\ At(s, k) \in Tokens
<1>1. n \in Nat /\ n > 0 /\ hi \in Nat
  OBVIOUS
<1>2. \A c : c \in Word \union Opening \union Closing \union {Quote, ":", ","} <=> c \in Tokens
  BY DEF Tokens, Separators
<1>3. \A k \in 0..(n - 1) : Going(k) => NextToken(s, k) \in (k + 1)..hi
  BY TokenPlain DEF NextToken
<1>4. \A c : \A lvl \in Int : Deeper(c, lvl) \in Int
  BY DEF Deeper
<1>5. \E f : f = Body(f)
  <2> DEFINE ends == {k \in 0..hi : ~Going(k)}
             W == [Int -> Nat]
             next == [k \in 0..hi |-> IF Going(k) THEN NextToken(s, k) ELSE 0]
             base == [k \in 0..hi |-> [lvl \in Int |->
                        IF k > 0 /\ lvl <= 0 THEN k ELSE IF k >= n THEN n ELSE Error]]
             stp(k, w) == [lvl \in Int |->
                             IF k > 0 /\ lvl <= 0 THEN k ELSE w[Deeper(At(s, k), lvl)]]
             step == [k \in 0..hi |-> [w \in W |-> stp(k, w)]]
  <2>1. next \in [0..hi -> Nat]
    <3>1. \A k \in 0..hi : Going(k) => NextToken(s, k) \in Nat
      BY <1>1, <1>3
    <3> HIDE DEF Going
    <3> QED
      BY <3>1
  <2>2. Onward(0, hi, ends, next)
    <3>1. ASSUME NEW k \in 0..hi, k \notin ends PROVE next[k] \in (k + 1)..hi
      <4>1. Going(k) /\ next[k] = NextToken(s, k) /\ k \in 0..(n - 1)
        BY <1>1, <3>1
      <4> HIDE DEF next, Going
      <4> QED
        BY <1>3, <4>1
    <3> QED
      BY <3>1 DEF Onward
  <2>3. base \in [0..hi -> W]
    <3>1. ASSUME NEW k \in 0..hi PROVE base[k] \in W
      BY <1>1 DEF Error
    <3> QED
      BY <3>1
  <2>4. step \in [0..hi -> [W -> W]]
    <3>1. ASSUME NEW k \in 0..hi, NEW w \in W PROVE stp(k, w) \in W
      BY <1>1, <1>4
    <3> HIDE DEF stp, W
    <3> QED
      BY <3>1
  <2>5. ends \in SUBSET (0..hi) /\ hi \in ends /\ 0 \in Nat /\ 0 <= hi
    BY <1>1
  <2> HIDE DEF hi, ends, next, base, step, W, Going
  <2>6. PICK f \in [0..hi -> W] : Follows(f, 0, hi, ends, next, base, step)
    BY <1>1, <2>1, <2>2, <2>3, <2>4, <2>5, BackwardsDefined
  <2>7. ASSUME NEW k \in 0..hi
        PROVE  f[k] = Body(f)[k]
    <3>1. f[k] = IF k \in ends THEN base[k] ELSE step[k][f[next[k]]]
      BY <2>6 DEF Follows
    <3>2. CASE ~Going(k)
      <4>1. k < n => At(s, k) \notin Tokens
        BY <3>2 DEF Going
      <4>2. f[k] = base[k]
        BY <3>1, <3>2 DEF ends
      <4>3. k >= n \/ k < n
        BY <1>1
      <4> QED
        BY <1>1, <1>2, <4>1, <4>2, <4>3 DEF base
    <3>3. CASE Going(k)
      <4>1. k \notin ends /\ next[k] = NextToken(s, k)
        BY <3>3 DEF ends, next
      <4>2. next[k] \in 0..hi
        BY <1>1, <2>2, <4>1 DEF Onward
      <4>3. f[next[k]] \in W
        BY <2>6, <4>2
      <4>4. f[k] = stp(k, f[next[k]])
        BY <3>1, <4>1, <4>3 DEF step
      <4>5. ~(k >= n) /\ At(s, k) \in Tokens
        BY <1>1, <3>3 DEF Going
      <4> QED
        BY <1>2, <4>1, <4>4, <4>5 DEF NextToken
    <3> QED
      BY <3>2, <3>3
  <2>8. f = Body(f)
    BY <2>6, <2>7
  <2> QED
    BY <2>8
<1>6. go = Body(go)
  <2> HIDE DEF Body
  <2> QED
    BY <1>5
<1>7. Skip(s, 0) = go[0][0]
  <2>1. ~(0 >= Len(s))
    BY <1>1
  <2> QED
    BY <2>1, Zenon DEF Skip
<1> HIDE DEF go
<1>8. ASSUME NEW k \in 0..(n + 2), NEW lvl \in Int
      PROVE  go[k][lvl] = IF k > 0 /\ lvl <= 0 THEN k
                          ELSE IF k >= n THEN n
                          ELSE IF At(s, k) \in Tokens
                               THEN go[NextToken(s, k)][Deeper(At(s, k), lvl)]
                          ELSE Error
  <2>1. go[k] = Body(go)[k]
    BY <1>6
  <2> HIDE DEF n
  <2>2. go[k][lvl] = Body(go)[k][lvl]
    BY <2>1
  <2> QED
    BY <1>2, <2>2 DEF NextToken
<1> QED
  BY <1>7, <1>8 DEF SkipsAs

(* The brackets end at c, which no space follows but up to end.            *)
ClosedAt(s, c, end) ==
    /\ Reading(s)[c].depth > 0 /\ Reading(s)[c + 1].depth = 0
    /\ At(s, c) \notin Spaces
    /\ \A j \in (c + 1)..(end - 1) : At(s, j) \in Spaces

(* What can be said of an end that was reached from lvl brackets.          *)
WholeEnd(s, end, lvl) ==
    /\ end \in Nat
    /\ end < Len(s) => /\ ~Reading(s)[end].string
                       /\ lvl >= 1 => \E c \in 0..(end - 1) : ClosedAt(s, c, end)

(* From wherever the reader is as deep as the scanner's level says.        *)
LEMMA SkipEndsWhole ==
    ASSUME NEW s \in Seq(Characters), s # <<>>, Len(s) <= Error, NEW go, SkipsAs(s, go),
           NEW k \in 0..(Len(s) + 2), NEW lvl \in Int,
           k <= Len(s) => Plain(Reading(s)[k], lvl)
    PROVE  WholeEnd(s, go[k][lvl], lvl)
<1> DEFINE n == Len(s)
           hi == n + 2
           st == Reading(s)
           Good(i) == \A l \in Int : (i <= n => Plain(st[i], l)) => WholeEnd(s, go[i][l], l)
           T == {j \in 0..hi : ~Good(hi - j)}
<1>1. n \in Nat /\ n > 0 /\ hi \in Nat /\ n <= Error /\ Error \in Nat /\ n = Len(s)
  BY DEF Error
<1>2. \A i \in 0..hi, l \in Int :
          go[i][l] = IF i > 0 /\ l <= 0 THEN i
                     ELSE IF i >= n THEN n
                     ELSE IF At(s, i) \in Tokens THEN go[NextToken(s, i)][Deeper(At(s, i), l)]
                     ELSE Error
  BY DEF SkipsAs
<1>3. ASSUME NEW i \in 0..(n - 1), At(s, i) \in Tokens, NEW l \in Int, Plain(st[i], l),
             NEW x, x = NextToken(s, i), NEW d, d = Deeper(At(s, i), l), Good(x)
      PROVE  WholeEnd(s, go[x][d], l)
  <2>1. /\ x \in (i + 1)..hi
        /\ x <= n => Plain(st[x], d)
        /\ At(s, i) \in Closing => /\ Plain(st[i + 1], l - 1)
                                   /\ \A j \in (i + 1)..(x - 1) : At(s, j) \in Spaces
    BY <1>3, TokenPlain DEF NextToken
  <2>2. d \in Int /\ (d = l \/ d = l + 1 \/ (At(s, i) \in Closing /\ d = l - 1))
    BY <1>3 DEF Deeper
  <2>3. CASE d >= 1
    <3>1. WholeEnd(s, go[x][d], d)
      BY <1>3, <2>1, <2>2
    <3> QED
      BY <2>3, <3>1 DEF WholeEnd
  <2>4. CASE d <= 0
    <3>1. go[x][d] = x
      <4>1. x \in 0..hi /\ x > 0
        BY <1>1, <2>1
      <4> QED
        BY <1>2, <2>2, <2>4, <4>1
    <3>2. x \in Nat /\ (x < n => ~st[x].string)
      BY <1>1, <2>1 DEF Plain
    <3>3. ASSUME l >= 1 PROVE i \in 0..(x - 1) /\ ClosedAt(s, i, x)
      <4>1. At(s, i) \in Closing /\ l = 1
        BY <2>2, <2>4, <3>3
      <4>2. st[i].depth = 1 /\ st[i + 1].depth = 0
        BY <1>3, <2>1, <4>1 DEF Plain
      <4>3. At(s, i) \notin Spaces
        BY <4>1, Kinds
      <4>4. i \in 0..(x - 1)
        BY <1>1, <2>1
      <4> QED
        BY <2>1, <4>1, <4>2, <4>3, <4>4 DEF ClosedAt
    <3> QED
      BY <1>1, <3>1, <3>2, <3>3 DEF WholeEnd
  <2> QED
    BY <2>2, <2>3, <2>4
<1> HIDE DEF st
<1>4. T = {}
  <2>1. SUFFICES ASSUME T # {} PROVE FALSE
    OBVIOUS
  <2>2. PICK m \in T : \A j \in T : m <= j
    <3>1. T \in SUBSET Nat
      OBVIOUS
    <3> HIDE DEF T
    <3> QED
      BY <2>1, <3>1, LeastOf
  <2> DEFINE i == hi - m
  <2>3. m \in 0..hi /\ ~Good(i)
    OBVIOUS
  <2>4. i \in 0..hi
    BY <1>1, <2>3
  <2> HIDE DEF T, i, n, hi
  <2>5. PICK l \in Int : (i <= n => Plain(st[i], l)) /\ ~WholeEnd(s, go[i][l], l)
    BY <2>3
  <2>6. CASE i > 0 /\ l <= 0
    <3>1. go[i][l] = i
      BY <1>2, <2>4, <2>6
    <3>2. i < n => ~st[i].string
      BY <1>1, <2>4, <2>5 DEF Plain
    <3>3. i \in Nat
      BY <1>1, <2>4
    <3> QED
      BY <1>1, <2>5, <2>6, <3>1, <3>2, <3>3 DEF WholeEnd, st
  <2>7. CASE ~(i > 0 /\ l <= 0) /\ i >= n
    <3>1. go[i][l] = n
      BY <1>2, <2>4, <2>7
    <3> QED
      BY <1>1, <2>5, <3>1 DEF WholeEnd
  <2>8. CASE ~(i > 0 /\ l <= 0) /\ ~(i >= n) /\ At(s, i) \notin Tokens
    <3>1. go[i][l] = Error
      BY <1>2, <2>4, <2>8
    <3> QED
      BY <1>1, <2>5, <3>1 DEF WholeEnd
  <2>9. CASE ~(i > 0 /\ l <= 0) /\ ~(i >= n) /\ At(s, i) \in Tokens
    <3> DEFINE x == NextToken(s, i)
               d == Deeper(At(s, i), l)
    <3>1. go[i][l] = go[x][d]
      BY <1>2, <2>4, <2>9
    <3>2. i \in 0..(n - 1) /\ i <= n
      BY <1>1, <2>4, <2>9
    <3>3. x \in (i + 1)..hi
      BY <1>1, <2>9, <3>2, TokenPlain DEF NextToken, hi, n
    <3> HIDE DEF x, d
    <3>4. hi - x \in 0..hi /\ ~(m <= hi - x) /\ hi - (hi - x) = x
      BY <1>1, <2>3, <2>4, <3>3 DEF i
    <3>5. hi - x \notin T
      BY <2>2, <3>4
    <3>6. Good(x)
      BY <3>4, <3>5 DEF T
    <3>7. x = NextToken(s, i) /\ d = Deeper(At(s, i), l)
      BY DEF x, d
    <3> HIDE DEF Good
    <3>8. WholeEnd(s, go[x][d], l)
      BY <1>3, <2>5, <2>9, <3>2, <3>6, <3>7
    <3> QED
      BY <2>5, <3>1, <3>8
  <2> QED
    BY <2>6, <2>7, <2>8, <2>9
<1>5. hi - k \in 0..hi /\ hi - (hi - k) = k
  BY <1>1
<1>6. Good(k)
  <2> HIDE DEF Good
  <2> QED
    BY <1>4, <1>5
<1> QED
  BY <1>6 DEF st

(* A value that ends before the text does is whole, in a text of any       *)
(* length that has room below Error.                                       *)
THEOREM AllEndsWhole ==
    \A s \in Seq(Characters) : s # <<>> /\ Len(s) <= Error => EndIsWhole(s)
<1> SUFFICES ASSUME NEW s \in Seq(Characters), s # <<>>, Len(s) <= Error
             PROVE  EndIsWhole(s)
  OBVIOUS
<1> DEFINE n == Len(s)
           end == Skip(s, 0)
           st == Reading(s)
           S == {k \in 0..n : k = 0 \/ (k <= end /\ At(s, k - 1) \notin Spaces)}
           last == Max(S)
<1>1. n \in Nat /\ n > 0 /\ At(s, 0) = Head(s)
  BY DEF At
<1>2. PICK go : SkipsAs(s, go) /\ end = go[0][0]
  BY SkipRecursion
<1>3. Plain(st[0], 0)
  BY ReadingSteps DEF Plain, AtStart
<1>4. WholeEnd(s, end, 0)
  <2>1. 0 \in 0..(n + 2) /\ 0 \in Int
    BY <1>1
  <2> HIDE DEF end, st
  <2> QED
    BY <1>2, <1>3, <2>1, SkipEndsWhole DEF st
<1>5. CASE Head(s) \in Opening
  <2> DEFINE next == NextToken(s, 0)
  <2>1. At(s, 0) \in Tokens /\ Deeper(At(s, 0), 0) = 1
    <3> DEFINE c == At(s, 0)
    <3>1. c \in Opening /\ c \notin Closing
      BY <1>1, <1>5, Kinds
    <3> HIDE DEF c
    <3>2. c \in Tokens
      BY <3>1 DEF Tokens
    <3>3. Deeper(c, 0) = 1
      BY <3>1 DEF Deeper
    <3> QED
      BY <3>2, <3>3 DEF c
  <2>2. next \in 1..(n + 2) /\ (next <= n => Plain(st[next], 1))
    <3>1. 0 \in 0..(n - 1) /\ 0 \in Int
      BY <1>1
    <3> HIDE DEF st
    <3> QED
      BY <1>3, <2>1, <3>1, TokenPlain DEF NextToken, st
  <2>3. end = go[next][1]
    <3>1. 0 \in 0..(n + 2) /\ 0 \in Int /\ ~(0 > 0) /\ ~(0 >= n)
      BY <1>1
    <3> HIDE DEF end
    <3> QED
      BY <1>2, <2>1, <3>1 DEF SkipsAs
  <2> HIDE DEF next, end, st
  <2>4. WholeEnd(s, end, 1)
    <3>1. next \in 0..(n + 2) /\ 1 \in Int
      BY <1>1, <2>2
    <3> QED
      BY <1>2, <2>2, <2>3, <3>1, SkipEndsWhole DEF st
  <2>5. ASSUME end < n PROVE st[last].depth = 0 /\ st[last - 1].depth > 0
    <3>1. PICK c \in 0..(end - 1) : ClosedAt(s, c, end)
      BY <2>4, <2>5 DEF WholeEnd
    <3>2. end \in Nat /\ c + 1 \in 0..n /\ c + 1 <= end /\ (c + 1) - 1 = c
      BY <1>1, <2>4, <2>5, <3>1 DEF WholeEnd
    <3>3. c + 1 \in S
      BY <3>1, <3>2 DEF ClosedAt
    <3>4. ASSUME NEW k \in S PROVE c + 1 >= k
      <4>1. SUFFICES ASSUME k > c + 1 PROVE FALSE
        BY <1>1, <3>2
      <4>2. k - 1 \in (c + 1)..(end - 1) /\ At(s, k - 1) \notin Spaces
        BY <1>1, <3>2, <4>1
      <4> QED
        BY <3>1, <4>2 DEF ClosedAt
    <3>5. S \in SUBSET Nat
      BY <1>1
    <3> HIDE DEF S
    <3>6. last = c + 1
      <4>1. last \in S /\ \A k \in S : last >= k
        BY <3>3, <3>4, Zenon DEF Max
      <4>2. last >= c + 1 /\ c + 1 >= last /\ last \in Nat
        BY <3>3, <3>4, <3>5, <4>1
      <4> HIDE DEF last
      <4> QED
        BY <3>2, <4>2
    <3> QED
      BY <3>1, <3>2, <3>6 DEF ClosedAt, st
  <2> QED
    BY <1>4, <1>5, <2>5 DEF EndIsWhole, WholeEnd, end, st
<1>6. CASE Head(s) \notin Opening
  BY <1>4, <1>6 DEF EndIsWhole, WholeEnd
<1> QED
  BY <1>5, <1>6

-----------------------------------------------------------------------------
(* the text of a buffer *)

(* Ten characters, one by one.                                             *)
Letters10(s, a, b, c, d, e, f, g, h, i, j) ==
    /\ s[1] = a /\ s[2] = b /\ s[3] = c /\ s[4] = d /\ s[5] = e
    /\ s[6] = f /\ s[7] = g /\ s[8] = h /\ s[9] = i /\ s[10] = j

(* The characters of a message, named: to the provers a name is as good as *)
(* what it stands for.                                                     *)
LeftBrace == "{"
RightBrace == "}"
Colon == ":"
Comma == ","
Blank == " "
LetterA == "a"
LetterE == "e"
LetterN == "n"
One == "1"

IsMethod(s) ==
    Letters10(s, LeftBrace, Quote, LetterA, Quote, Colon, Quote, LetterE, Quote, Comma, Blank)
IsId(s) == Letters10(s, Quote, LetterN, Quote, Colon, One, Comma, Blank, Blank, Blank, Blank)
IsTail(s) ==
    Letters10(s, Quote, LetterA, Quote, Colon, Quote, Backslash, Quote, RightBrace, Quote,
              RightBrace)
IsBlank(s) == \A k \in 1..10 : s[k] \in Spaces

LEMMA Spelt ==
    /\ IsMethod(Spelling["method"]) /\ IsId(Spelling["id"]) /\ IsTail(Spelling["tail"])
    /\ IsBlank(Spelling["newline"])
<1>1. /\ IsMethod(Spelling["method"]) /\ IsId(Spelling["id"]) /\ IsTail(Spelling["tail"])
  BY DEF Spelling, Width, IsMethod, IsId, IsTail, Letters10, LeftBrace, RightBrace, Colon, Comma,
         Blank, LetterA, LetterE, LetterN, One
<1>2. \A k \in 1..10 : Spelling["newline"][k] = "<nl>"
  BY DEF Spelling, Width
<1>3. IsBlank(Spelling["newline"])
  BY <1>2 DEF IsBlank, Spaces
<1> QED
  BY <1>1, <1>3

LEMMA SpellingTypes ==
    ASSUME NEW p \in PartNames, NEW k \in 1..10
    PROVE  Spelling[p][k] \in Characters
<1> DEFINE C == Characters
<1>1. /\ Quote \in C /\ Backslash \in C /\ LeftBrace \in C /\ RightBrace \in C
      /\ Colon \in C /\ Comma \in C /\ Blank \in C
      /\ LetterA \in C /\ LetterE \in C /\ LetterN \in C /\ One \in C /\ Spaces \subseteq C
  BY DEF Characters, Word, Spaces, Opening, Closing, Digits, Letters, LeftBrace, RightBrace, Colon,
         Comma, Blank, LetterA, LetterE, LetterN, One
<1> HIDE DEF C
<1>2. ASSUME NEW s, NEW c1 \in C, NEW c2 \in C, NEW c3 \in C, NEW c4 \in C, NEW c5 \in C,
             NEW c6 \in C, NEW c7 \in C, NEW c8 \in C, NEW c9 \in C, NEW c10 \in C,
             Letters10(s, c1, c2, c3, c4, c5, c6, c7, c8, c9, c10)
      PROVE  s[k] \in C
  <2>1. k = 1 \/ k = 2 \/ k = 3 \/ k = 4 \/ k = 5 \/ k = 6 \/ k = 7 \/ k = 8 \/ k = 9 \/ k = 10
    OBVIOUS
  <2> QED
    BY <1>2, <2>1, Zenon DEF Letters10
<1>3. \A s : IsMethod(s) \/ IsId(s) \/ IsTail(s) => s[k] \in C
  BY <1>1, <1>2, Zenon DEF IsMethod, IsId, IsTail
<1>4. \A s : IsBlank(s) => s[k] \in C
  BY <1>1 DEF IsBlank
<1> QED
  BY <1>3, <1>4, Spelt DEF PartNames, C

LEMMA TextFacts ==
    ASSUME NEW buf \in Seq(Parts)
    PROVE  /\ Text(buf) \in Seq(Characters) /\ Len(Text(buf)) = Width * Len(buf)
           /\ \A j \in 0..(Len(buf) - 1), o \in 0..(Width - 1) :
                  /\ Width * j + o \in 0..(Len(Text(buf)) - 1)
                  /\ At(Text(buf), Width * j + o) = Spelling[buf[j + 1][1]][o + 1]
<1> DEFINE n == Width * Len(buf)
           char(k) == Spelling[buf[(k - 1) \div Width + 1][1]][((k - 1) % Width) + 1]
<1>1. Len(buf) \in Nat /\ n \in Nat
  BY DEF Width
<1>2. \A j \in 1..Len(buf) : buf[j][1] \in PartNames
  BY DEF Parts
<1>3. ASSUME NEW k \in 1..n PROVE char(k) \in Characters
  <2>1. (k - 1) \div Width + 1 \in 1..Len(buf) /\ ((k - 1) % Width) + 1 \in 1..10
    BY <1>1 DEF Width
  <2> QED
    BY <1>2, <2>1, SpellingTypes
<1>4. Text(buf) = [k \in 1..n |-> char(k)]
  BY DEF Text
<1>5. Text(buf) \in Seq(Characters) /\ Len(Text(buf)) = n
  BY <1>1, <1>3, <1>4
<1>6. ASSUME NEW j \in 0..(Len(buf) - 1), NEW o \in 0..(Width - 1)
      PROVE  /\ Width * j + o \in 0..(n - 1)
             /\ At(Text(buf), Width * j + o) = Spelling[buf[j + 1][1]][o + 1]
  <2> DEFINE k == Width * j + o + 1
  <2>1. /\ k \in 1..n /\ (k - 1) \div Width = j /\ (k - 1) % Width = o
        /\ Width * j + o \in 0..(n - 1)
    BY <1>1 DEF Width
  <2>2. At(Text(buf), Width * j + o) = char(k)
    BY <1>4, <2>1 DEF At
  <2> QED
    BY <2>1, <2>2
<1> QED
  BY <1>5, <1>6

(* The ten characters of the text from p on.                               *)
From(t, p) == [k \in 1..10 |-> At(t, p + k - 1)]

LEMMA TextOfParts ==
    ASSUME NEW buf \in Seq(Parts), NEW j \in 0..(Len(buf) - 1)
    PROVE  LET p == Width * j
               t == Text(buf)
           IN  /\ p \in Nat /\ p + 10 <= Len(t) /\ p + 10 = Width * (j + 1)
               /\ buf[j + 1][1] = "method" => IsMethod(From(t, p))
               /\ buf[j + 1][1] = "id" => IsId(From(t, p))
               /\ buf[j + 1][1] = "tail" => IsTail(From(t, p))
               /\ buf[j + 1][1] = "newline" => IsBlank(From(t, p))
<1> DEFINE p == Width * j
           t == Text(buf)
           s == Spelling[buf[j + 1][1]]
<1>1. j \in Nat /\ Len(buf) \in Nat /\ Len(t) = Width * Len(buf) /\ j + 1 <= Len(buf)
  BY TextFacts
<1>2. p \in Nat /\ p + 10 <= Len(t) /\ p + 10 = Width * (j + 1)
  BY <1>1 DEF Width
<1>3. ASSUME NEW k \in 1..10 PROVE At(t, p + k - 1) = s[k]
  <2>1. k - 1 \in 0..(Width - 1) /\ (k - 1) + 1 = k /\ p + k - 1 = Width * j + (k - 1)
    BY <1>1 DEF Width
  <2>2. At(t, Width * j + (k - 1)) = s[(k - 1) + 1]
    BY <2>1, TextFacts
  <2> HIDE DEF s, t, p
  <2> QED
    BY <2>1, <2>2
<1> HIDE DEF s
<1>4. \A k \in 1..10 : From(t, p)[k] = s[k]
  BY <1>3 DEF From
<1> HIDE DEF t, p
<1>5. \A a, b, c, d, e, f, g, h, i, l :
          Letters10(s, a, b, c, d, e, f, g, h, i, l)
              => Letters10(From(t, p), a, b, c, d, e, f, g, h, i, l)
  BY <1>4 DEF Letters10
<1>6. CASE buf[j + 1][1] = "method"
  <2>1. IsMethod(s)
    BY <1>6, Spelt DEF s
  <2>2. IsMethod(From(t, p))
    BY <1>5, <2>1 DEF IsMethod
  <2> QED
    BY <1>2, <1>6, <2>2 DEF t, p
<1>7. CASE buf[j + 1][1] = "id"
  <2>1. IsId(s)
    BY <1>7, Spelt DEF s
  <2>2. IsId(From(t, p))
    BY <1>5, <2>1 DEF IsId
  <2> QED
    BY <1>2, <1>7, <2>2 DEF t, p
<1>8. CASE buf[j + 1][1] = "tail"
  <2>1. IsTail(s)
    BY <1>8, Spelt DEF s
  <2>2. IsTail(From(t, p))
    BY <1>5, <2>1 DEF IsTail
  <2> QED
    BY <1>2, <1>8, <2>2 DEF t, p
<1>9. CASE buf[j + 1][1] = "newline"
  <2>1. IsBlank(s)
    BY <1>9, Spelt DEF s
  <2>2. IsBlank(From(t, p))
    BY <1>4, <2>1 DEF IsBlank
  <2> QED
    BY <1>2, <1>9, <2>2 DEF t, p
<1> QED
  BY <1>2, <1>6, <1>7, <1>8, <1>9 DEF t, p

(* What a text of parts is made of, to the scanner.                        *)
LEMMA Marks ==
    /\ Colon \in Tokens /\ Comma \in Tokens /\ LeftBrace \in Tokens /\ RightBrace \in Tokens
    /\ Quote \in Tokens /\ One \in Tokens
    /\ Colon \notin Spaces /\ Comma \notin Spaces
    /\ LeftBrace \notin Spaces /\ RightBrace \notin Spaces
    /\ Quote \notin Spaces /\ One \notin Spaces /\ Blank \in Spaces
    /\ Colon # Quote /\ Comma # Quote /\ LeftBrace # Quote /\ RightBrace # Quote /\ One # Quote
    /\ Colon \notin Word /\ Comma \notin Word /\ LeftBrace \notin Word /\ RightBrace \notin Word
    /\ Quote \notin Word /\ One \in Word
    /\ LetterA # Quote /\ LetterE # Quote /\ LetterN # Quote /\ RightBrace # Backslash
    /\ LetterA # Backslash /\ LetterE # Backslash /\ LetterN # Backslash
    /\ LeftBrace \in Opening /\ LeftBrace \notin Closing
    /\ RightBrace \notin Opening /\ RightBrace \in Closing
    /\ Colon \notin Opening /\ Comma \notin Opening /\ Quote \notin Opening
    /\ One \notin Opening
    /\ Colon \notin Closing /\ Comma \notin Closing /\ Quote \notin Closing
    /\ One \notin Closing
<1>1. Quote = "\"" /\ Backslash = "\\"
  BY DEF Quote, Backslash
<1> QED
  BY <1>1 DEF Tokens, Separators, Spaces, Word, Opening, Closing, Digits, Letters, Keywords,
              LeftBrace, RightBrace, Colon, Comma, Blank, LetterA, LetterE, LetterN, One

LEMMA SpaceAt ==
    ASSUME NEW s \in Seq(Characters), NEW i \in 0..(Len(s) - 1), At(s, i) \notin Spaces
    PROVE  SkipSpace(s, i) = i
<1> DEFINE m == SkipSpace(s, i)
<1>1. Len(s) \in Nat /\ i \in Nat /\ i < Len(s)
  OBVIOUS
<1>2. m \in i..Len(s) /\ \A j \in i..(m - 1) : At(s, j) \in Spaces
  BY <1>1, SkipSpaceFacts
<1> HIDE DEF m
<1>3. m > i => i \in i..(m - 1)
  BY <1>1, <1>2
<1>4. m = i
  BY <1>1, <1>2, <1>3
<1> QED
  BY <1>4 DEF m

(* The scan at k, inside of brackets or at the start; and that it goes on  *)
(* at level d behind e and the space there.                                *)
Scanning(s, go, k, lvl) == SkipsAs(s, go) /\ k < Len(s) /\ (k > 0 => lvl >= 1)

GoesOn(s, go, k, lvl, e, d) ==
    /\ go[k][lvl] = go[SkipSpace(s, e)][d]
    /\ e < Len(s) /\ At(s, e) \notin Spaces => go[k][lvl] = go[e][d]

LEMMA ScanningTypes ==
    ASSUME NEW s \in Seq(Characters), NEW go, NEW k \in Nat, NEW lvl \in Int,
           Scanning(s, go, k, lvl)
    PROVE  k \in 0..(Len(s) - 1) /\ k + 1 \in Nat /\ Len(s) \in Nat /\ k < Len(s)
<1>1. Len(s) \in Nat
  OBVIOUS
<1>2. k < Len(s)
  BY DEF Scanning
<1> QED
  BY <1>1, <1>2

LEMMA OneToken ==
    ASSUME NEW s \in Seq(Characters), NEW go, NEW k \in Nat, NEW lvl \in Int,
           Scanning(s, go, k, lvl), At(s, k) \in Tokens, TokenEnd(s, k) \in Nat
    PROVE  GoesOn(s, go, k, lvl, TokenEnd(s, k), Deeper(At(s, k), lvl))
<1> DEFINE e == TokenEnd(s, k)
           d == Deeper(At(s, k), lvl)
<1>1. Len(s) \in Nat /\ k < Len(s) /\ k \in 0..(Len(s) + 2) /\ ~(k > 0 /\ lvl <= 0)
  BY ScanningTypes DEF Scanning
<1>2. go[k][lvl] = go[NextToken(s, k)][d]
  <2>1. ~(k >= Len(s))
    BY <1>1
  <2> QED
    BY <1>1, <2>1 DEF SkipsAs, Scanning
<1>3. go[k][lvl] = go[SkipSpace(s, e)][d]
  BY <1>2 DEF NextToken
<1> HIDE DEF d, e
<1>4. ASSUME e < Len(s), At(s, e) \notin Spaces PROVE SkipSpace(s, e) = e
  <2>1. e \in 0..(Len(s) - 1)
    BY <1>1, <1>4 DEF e
  <2> QED
    BY <1>4, <2>1, SpaceAt
<1>5. GoesOn(s, go, k, lvl, e, d)
  BY <1>3, <1>4 DEF GoesOn
<1> QED
  BY <1>5 DEF d, e

LEMMA ShortString ==
    ASSUME NEW s \in Seq(Characters), NEW i \in Nat, i + 3 <= Len(s),
           At(s, i + 1) # Quote, At(s, i + 1) # Backslash, At(s, i + 2) = Quote
    PROVE  SkipString(s, i) = i + 3
<1>1. Len(s) \in Nat /\ i \in 0..(Len(s) - 1)
  OBVIOUS
<1>2. PICK end : StringsAs(s, i, end) /\ SkipString(s, i) = end[i + 1]
  BY <1>1, SkipStringRecursion
<1>3. Escaped(s, i + 1) = 1
  BY DEF Escaped
<1>4. /\ i + 1 \in (i + 1)..(Len(s) + 1) /\ ~(i + 1 >= Len(s)) /\ (i + 1) + 1 = i + 2
      /\ i + 2 \in (i + 1)..(Len(s) + 1) /\ (i + 2) + 1 = i + 3
  BY <1>1
<1>5. end[i + 1] = end[i + 2]
  BY <1>2, <1>3, <1>4 DEF StringsAs
<1>6. end[i + 2] = i + 3
  BY <1>2, <1>4 DEF StringsAs
<1> QED
  BY <1>2, <1>5, <1>6

LEMMA EscapedString ==
    ASSUME NEW s \in Seq(Characters), NEW i \in Nat, i + 5 <= Len(s),
           At(s, i + 1) = Backslash, At(s, i + 3) # Quote, At(s, i + 3) # Backslash,
           At(s, i + 4) = Quote
    PROVE  SkipString(s, i) = i + 5
<1>1. Len(s) \in Nat /\ i \in 0..(Len(s) - 1)
  OBVIOUS
<1>2. PICK end : StringsAs(s, i, end) /\ SkipString(s, i) = end[i + 1]
  BY <1>1, SkipStringRecursion
<1>3. Escaped(s, i + 1) = 2 /\ Escaped(s, i + 3) = 1 /\ At(s, i + 1) # Quote
  BY Kinds DEF Escaped
<1>4. /\ i + 1 \in (i + 1)..(Len(s) + 1) /\ ~(i + 1 >= Len(s)) /\ (i + 1) + 2 = i + 3
      /\ i + 3 \in (i + 1)..(Len(s) + 1) /\ ~(i + 3 >= Len(s)) /\ (i + 3) + 1 = i + 4
      /\ i + 4 \in (i + 1)..(Len(s) + 1) /\ (i + 4) + 1 = i + 5
  BY <1>1
<1>5. end[i + 1] = end[i + 3]
  BY <1>2, <1>3, <1>4 DEF StringsAs
<1>6. end[i + 3] = end[i + 4]
  BY <1>2, <1>3, <1>4 DEF StringsAs
<1>7. end[i + 4] = i + 5
  BY <1>2, <1>4 DEF StringsAs
<1> QED
  BY <1>2, <1>5, <1>6, <1>7

(* The newlines behind a part, in the buffer and in its text.              *)
LEMMA NewlinesFacts ==
    ASSUME NEW buf \in Seq(Parts), NEW i \in 0..Len(buf)
    PROVE  /\ SkipNewlines(buf, i) \in i..Len(buf)
           /\ SkipNewlines(buf, i) = Len(buf) \/ buf[SkipNewlines(buf, i) + 1][1] # "newline"
           /\ \A k \in i..(SkipNewlines(buf, i) - 1) : buf[k + 1][1] = "newline"
<1> DEFINE S == {k \in i..Len(buf) : k = Len(buf) \/ buf[k + 1][1] # "newline"}
           m == Min(S)
<1>1. Len(buf) \in Nat /\ i \in Nat
  OBVIOUS
<1>2. SkipNewlines(buf, i) = m
  BY DEF SkipNewlines
<1>3. S \in SUBSET Nat /\ Len(buf) \in S
  BY <1>1
<1>4. m \in S /\ \A k \in S : m <= k
  <2> HIDE DEF S
  <2> QED
    BY <1>3, LeastOf
<1> HIDE DEF m
<1>5. ASSUME NEW k \in i..(m - 1) PROVE buf[k + 1][1] = "newline"
  <2>1. k \in i..Len(buf) /\ ~(m <= k)
    BY <1>1, <1>4
  <2>2. k \notin S
    BY <1>4, <2>1
  <2> QED
    BY <2>1, <2>2
<1> QED
  BY <1>2, <1>4, <1>5

(* Where the next part that is no newline begins, in the text.             *)
NextPart(buf, j) == Width * SkipNewlines(buf, j)

LEMMA GapEnd ==
    ASSUME NEW buf \in Seq(Parts), NEW j \in 0..Len(buf), NEW e \in Nat, e <= Width * j,
           \A i \in e..(Width * j - 1) : At(Text(buf), i) \in Spaces
    PROVE  SkipSpace(Text(buf), e) = NextPart(buf, j)
<1> DEFINE t == Text(buf)
           n == Len(t)
           m == SkipNewlines(buf, j)
           q == Width * m
           x == SkipSpace(t, e)
<1>1. /\ t \in Seq(Characters) /\ n = Width * Len(buf) /\ n \in Nat
      /\ Len(buf) \in Nat /\ j \in Nat /\ Width = 10
  BY TextFacts DEF Width
<1>2. /\ m \in j..Len(buf) /\ (m = Len(buf) \/ buf[m + 1][1] # "newline")
      /\ \A k \in j..(m - 1) : buf[k + 1][1] = "newline"
  BY NewlinesFacts
<1>3. /\ e >= n => x = e
      /\ e < n => x \in e..n /\ (x = n \/ At(t, x) \notin Spaces)
      /\ \A i \in e..(x - 1) : At(t, i) \in Spaces
  BY <1>1, SkipSpaceFacts
<1> HIDE DEF m, x
<1>4. ASSUME NEW i \in e..(q - 1) PROVE At(t, i) \in Spaces
  <2>1. CASE i < Width * j
    BY <1>1, <1>4, <2>1
  <2>2. CASE i >= Width * j
    <3> DEFINE k == i \div 10
               o == i % 10
    <3>1. k \in j..(m - 1) /\ o \in 0..9 /\ i = 10 * k + o
      BY <1>1, <1>2, <1>4, <2>2
    <3> HIDE DEF k, o
    <3>2. k \in 0..(Len(buf) - 1) /\ buf[k + 1][1] = "newline"
      BY <1>1, <1>2, <3>1
    <3>3. IsBlank(From(t, 10 * k))
      BY <1>1, <3>2, TextOfParts
    <3>4. At(t, 10 * k + (o + 1) - 1) \in Spaces
      BY <3>1, <3>3 DEF IsBlank, From
    <3>5. 10 * k + (o + 1) - 1 = i
      BY <1>1, <3>1, <3>2
    <3> QED
      BY <3>4, <3>5
  <2> QED
    BY <1>1, <1>2, <1>4, <2>1, <2>2
<1>5. q = n \/ At(t, q) \notin Spaces
  <2>1. SUFFICES ASSUME m # Len(buf) PROVE At(t, q) \notin Spaces
    BY <1>1
  <2>2. m \in 0..(Len(buf) - 1) /\ buf[m + 1][1] \in {"method", "id", "tail"}
    <3>1. m \in 0..(Len(buf) - 1) /\ m + 1 \in 1..Len(buf)
      BY <1>1, <1>2, <2>1
    <3>2. buf[m + 1][1] \in PartNames
      BY <3>1 DEF Parts
    <3> QED
      BY <1>2, <2>1, <3>1, <3>2 DEF PartNames
  <2>3. IsMethod(From(t, q)) \/ IsId(From(t, q)) \/ IsTail(From(t, q))
    BY <2>2, TextOfParts
  <2>4. From(t, q)[1] = LeftBrace \/ From(t, q)[1] = Quote
    BY <2>3 DEF IsMethod, IsId, IsTail, Letters10
  <2>5. From(t, q)[1] = At(t, q)
    <3>1. q + 1 - 1 = q
      BY <1>1, <1>2
    <3> HIDE DEF q, t
    <3> QED
      BY <3>1 DEF From
  <2> QED
    BY <2>4, <2>5, Marks
<1>6. q \in Nat /\ q <= n /\ Width * j <= q
  BY <1>1, <1>2
<1> HIDE DEF q, n, t
<1>7. x = q
  <2>1. CASE e >= n
    BY <1>1, <1>3, <1>6, <2>1
  <2>2. CASE e < n
    <3>1. x \in e..n /\ x \in Nat
      BY <1>1, <1>3, <2>2
    <3>2. ~(x < q)
      <4>1. SUFFICES ASSUME x < q PROVE FALSE
        OBVIOUS
      <4>2. x \in e..(q - 1) /\ x # n
        BY <1>1, <1>6, <3>1, <4>1
      <4> QED
        BY <1>3, <1>4, <2>2, <4>2
    <3>3. ~(q < x)
      <4>1. SUFFICES ASSUME q < x PROVE FALSE
        OBVIOUS
      <4>2. q \in e..(x - 1) /\ q # n
        BY <1>1, <1>6, <3>1, <4>1
      <4> QED
        BY <1>3, <1>5, <4>2
    <3> QED
      BY <1>6, <3>1, <3>2, <3>3
  <2> QED
    BY <1>1, <2>1, <2>2
<1> QED
  BY <1>7 DEF x, q, m, t, NextPart

LEMMA FromAt ==
    ASSUME NEW s, NEW p \in Nat, NEW a, NEW b, NEW c, NEW d, NEW e, NEW f, NEW g, NEW h,
           NEW i, NEW j, Letters10(From(s, p), a, b, c, d, e, f, g, h, i, j)
    PROVE  /\ At(s, p) = a /\ At(s, p + 1) = b /\ At(s, p + 2) = c /\ At(s, p + 3) = d
           /\ At(s, p + 4) = e /\ At(s, p + 5) = f /\ At(s, p + 6) = g /\ At(s, p + 7) = h
           /\ At(s, p + 8) = i /\ At(s, p + 9) = j
<1>1. \A k \in 1..10 : From(s, p)[k] = At(s, p + k - 1)
  BY DEF From
<1>2. /\ p + 1 - 1 = p /\ p + 2 - 1 = p + 1 /\ p + 3 - 1 = p + 2 /\ p + 4 - 1 = p + 3
      /\ p + 5 - 1 = p + 4 /\ p + 6 - 1 = p + 5 /\ p + 7 - 1 = p + 6 /\ p + 8 - 1 = p + 7
      /\ p + 9 - 1 = p + 8 /\ p + 10 - 1 = p + 9
  OBVIOUS
<1>3. \A q : \A k \in 1..10 : p + k - 1 = q => From(s, p)[k] = At(s, q)
  BY <1>1
<1>4. /\ From(s, p)[1] = At(s, p) /\ From(s, p)[2] = At(s, p + 1)
      /\ From(s, p)[3] = At(s, p + 2) /\ From(s, p)[4] = At(s, p + 3)
      /\ From(s, p)[5] = At(s, p + 4) /\ From(s, p)[6] = At(s, p + 5)
      /\ From(s, p)[7] = At(s, p + 6) /\ From(s, p)[8] = At(s, p + 7)
      /\ From(s, p)[9] = At(s, p + 8) /\ From(s, p)[10] = At(s, p + 9)
  BY <1>2, <1>3
<1> QED
  BY <1>4 DEF Letters10

(* TokenEnd and Deeper, case by case.                                      *)
LEMMA TokenCases ==
    ASSUME NEW s, NEW k \in Nat
    PROVE  /\ At(s, k) = Quote => TokenEnd(s, k) = SkipString(s, k)
           /\ At(s, k) # Quote /\ At(s, k) \in Word => TokenEnd(s, k) = SkipWord(s, k)
           /\ At(s, k) # Quote /\ At(s, k) \notin Word => TokenEnd(s, k) = k + 1
<1>1. CASE At(s, k) = Quote
  <2>1. TokenEnd(s, k) = SkipString(s, k)
    BY <1>1, Kinds, Zenon DEF TokenEnd
  <2> QED
    BY <1>1, <2>1
<1>2. CASE At(s, k) # Quote /\ At(s, k) \in Word
  <2>1. TokenEnd(s, k) = SkipWord(s, k)
    BY <1>2, Zenon DEF TokenEnd
  <2> QED
    BY <1>2, <2>1
<1>3. CASE At(s, k) # Quote /\ At(s, k) \notin Word
  <2>1. TokenEnd(s, k) = k + 1
    BY <1>3, Zenon DEF TokenEnd
  <2> QED
    BY <1>3, <2>1, Zenon
<1> QED
  BY <1>1, <1>2, <1>3, Zenon

LEMMA LevelCases ==
    ASSUME NEW c, NEW lvl \in Int
    PROVE  /\ c \in Opening /\ c \notin Closing => Deeper(c, lvl) = lvl + 1
           /\ c \notin Opening /\ c \in Closing => Deeper(c, lvl) = lvl - 1
           /\ c \notin Opening /\ c \notin Closing => Deeper(c, lvl) = lvl
BY DEF Deeper

Mark(c) == c = Colon \/ c = Comma

LEMMA ScanMark ==
    ASSUME NEW s \in Seq(Characters), NEW go, NEW k \in Nat, NEW lvl \in Int,
           Scanning(s, go, k, lvl), Mark(At(s, k))
    PROVE  GoesOn(s, go, k, lvl, k + 1, lvl)
<1>1. /\ At(s, k) \in Tokens /\ At(s, k) # Quote /\ At(s, k) \notin Word
      /\ At(s, k) \notin Opening /\ At(s, k) \notin Closing
  BY Marks DEF Mark
<1>2. k + 1 = TokenEnd(s, k)
  BY <1>1, TokenCases
<1>3. k + 1 \in Nat
  BY ScanningTypes, Zenon
<1>4. lvl = Deeper(At(s, k), lvl)
  BY <1>1, LevelCases
<1> QED
  BY <1>1, <1>2, <1>3, <1>4, OneToken

LEMMA ScanOpening ==
    ASSUME NEW s \in Seq(Characters), NEW go, NEW k \in Nat, NEW lvl \in Int,
           Scanning(s, go, k, lvl), At(s, k) = LeftBrace
    PROVE  GoesOn(s, go, k, lvl, k + 1, lvl + 1)
<1>1. /\ At(s, k) \in Tokens /\ At(s, k) # Quote /\ At(s, k) \notin Word
      /\ At(s, k) \in Opening /\ At(s, k) \notin Closing
  BY Marks
<1>2. k + 1 = TokenEnd(s, k)
  BY <1>1, TokenCases
<1>3. k + 1 \in Nat
  BY ScanningTypes, Zenon
<1>4. lvl + 1 = Deeper(At(s, k), lvl)
  BY <1>1, LevelCases
<1> QED
  BY <1>1, <1>2, <1>3, <1>4, OneToken

LEMMA ScanClosing ==
    ASSUME NEW s \in Seq(Characters), NEW go, NEW k \in Nat, NEW lvl \in Int,
           Scanning(s, go, k, lvl), At(s, k) = RightBrace
    PROVE  GoesOn(s, go, k, lvl, k + 1, lvl - 1)
<1>1. /\ At(s, k) \in Tokens /\ At(s, k) # Quote /\ At(s, k) \notin Word
      /\ At(s, k) \notin Opening /\ At(s, k) \in Closing
  BY Marks
<1>2. k + 1 = TokenEnd(s, k)
  BY <1>1, TokenCases
<1>3. k + 1 \in Nat
  BY ScanningTypes, Zenon
<1>4. lvl - 1 = Deeper(At(s, k), lvl)
  BY <1>1, LevelCases
<1> QED
  BY <1>1, <1>2, <1>3, <1>4, OneToken

LEMMA OneLetter ==
    ASSUME NEW s \in Seq(Characters), NEW k \in Nat, k + 1 < Len(s), At(s, k + 1) \notin Word
    PROVE  SkipWord(s, k) = k + 1
<1>1. k \in 0..(Len(s) - 1) /\ k + 1 \in Nat /\ Len(s) \in Nat
  OBVIOUS
<1> DEFINE e == SkipWord(s, k)
<1>2. e \in (k + 1)..Len(s) /\ \A j \in (k + 1)..(e - 1) : At(s, j) \in Word
  BY <1>1, SkipWordFacts
<1> HIDE DEF e
<1>3. e > k + 1 => k + 1 \in (k + 1)..(e - 1)
  BY <1>1, <1>2
<1>4. e = k + 1
  BY <1>1, <1>2, <1>3
<1> QED
  BY <1>4 DEF e

LEMMA ScanDigit ==
    ASSUME NEW s \in Seq(Characters), NEW go, NEW k \in Nat, NEW lvl \in Int,
           Scanning(s, go, k, lvl), At(s, k) = One, k + 1 < Len(s), At(s, k + 1) = Comma
    PROVE  GoesOn(s, go, k, lvl, k + 1, lvl)
<1>1. /\ At(s, k) \in Tokens /\ At(s, k) # Quote /\ At(s, k) \in Word
      /\ At(s, k) \notin Opening /\ At(s, k) \notin Closing /\ At(s, k + 1) \notin Word
  BY Marks
<1>2. k + 1 = TokenEnd(s, k)
  BY <1>1, TokenCases, OneLetter
<1>3. k + 1 \in Nat
  BY ScanningTypes, Zenon
<1>4. lvl = Deeper(At(s, k), lvl)
  BY <1>1, LevelCases
<1> QED
  BY <1>1, <1>2, <1>3, <1>4, OneToken

LEMMA ScanString ==
    ASSUME NEW s \in Seq(Characters), NEW go, NEW k \in Nat, NEW lvl \in Int,
           Scanning(s, go, k, lvl), At(s, k) = Quote, NEW e \in Nat, SkipString(s, k) = e
    PROVE  GoesOn(s, go, k, lvl, e, lvl)
<1>1. At(s, k) \in Tokens /\ At(s, k) \notin Opening /\ At(s, k) \notin Closing
  BY Marks
<1>2. e = TokenEnd(s, k)
  BY <1>1, TokenCases
<1>3. lvl = Deeper(At(s, k), lvl)
  BY <1>1, LevelCases
<1> QED
  BY <1>1, <1>2, <1>3, OneToken

LEMMA Arrives ==
    ASSUME NEW s, NEW go, NEW k, NEW lvl, NEW e, NEW d,
           GoesOn(s, go, k, lvl, e, d), e < Len(s), At(s, e) \notin Spaces
    PROVE  go[k][lvl] = go[e][d]
BY DEF GoesOn

LEMMA MarkScanned ==
    ASSUME NEW s \in Seq(Characters), NEW go, NEW k \in Nat, NEW lvl \in Int,
           Scanning(s, go, k, lvl), Mark(At(s, k)),
           NEW e \in Nat, e = k + 1, e < Len(s), At(s, e) \notin Spaces
    PROVE  go[k][lvl] = go[e][lvl]
<1>1. GoesOn(s, go, k, lvl, e, lvl)
  BY ScanMark
<1> QED
  BY <1>1, Arrives

Solid(c) == c # Quote /\ c # Backslash

LEMMA NameScanned ==
    ASSUME NEW s \in Seq(Characters), NEW go, NEW k \in Nat, NEW lvl \in Int,
           Scanning(s, go, k, lvl),
           NEW a \in Nat, a = k + 1, NEW b \in Nat, b = k + 2, NEW e \in Nat, e = k + 3,
           At(s, k) = Quote, Solid(At(s, a)), At(s, b) = Quote,
           e < Len(s), At(s, e) \notin Spaces
    PROVE  go[k][lvl] = go[e][lvl]
<1>1. At(s, k + 1) # Quote /\ At(s, k + 1) # Backslash /\ At(s, k + 2) = Quote
  BY DEF Solid
<1>2. k + 3 <= Len(s)
  <2>1. Len(s) \in Nat
    OBVIOUS
  <2> QED
    BY <2>1
<1>3. SkipString(s, k) = e
  BY <1>1, <1>2, ShortString
<1>4. GoesOn(s, go, k, lvl, e, lvl)
  BY <1>3, ScanString
<1> QED
  BY <1>4, Arrives

LEMMA MethodScanned ==
    ASSUME NEW s \in Seq(Characters), NEW go, NEW p \in Nat, NEW lvl \in Nat,
           SkipsAs(s, go), p + 10 <= Len(s), p > 0 => lvl >= 1, IsMethod(From(s, p))
    PROVE  go[p][lvl] = go[SkipSpace(s, p + 9)][lvl + 1] /\ At(s, p + 9) \in Spaces
<1> DEFINE p1 == p + 1
           p2 == p + 2
           p3 == p + 3
           p4 == p + 4
           p5 == p + 5
           p6 == p + 6
           p7 == p + 7
           p8 == p + 8
           p9 == p + 9
<1>1. /\ At(s, p) = LeftBrace /\ At(s, p1) = Quote /\ At(s, p2) = LetterA
      /\ At(s, p3) = Quote /\ At(s, p4) = Colon /\ At(s, p5) = Quote
      /\ At(s, p6) = LetterE /\ At(s, p7) = Quote /\ At(s, p8) = Comma
      /\ At(s, p9) = Blank
  BY FromAt DEF IsMethod
<1> DEFINE d == lvl + 1
<1>2. /\ Len(s) \in Nat /\ lvl \in Int /\ d \in Int
      /\ p1 \in Nat /\ p2 \in Nat /\ p3 \in Nat /\ p4 \in Nat /\ p5 \in Nat
      /\ p6 \in Nat /\ p7 \in Nat /\ p8 \in Nat /\ p9 \in Nat
      /\ p1 < Len(s) /\ p4 < Len(s) /\ p5 < Len(s) /\ p8 < Len(s)
      /\ p1 = p + 1 /\ p2 = p1 + 1 /\ p3 = p1 + 2 /\ p4 = p1 + 3 /\ p5 = p4 + 1
      /\ p6 = p5 + 1 /\ p7 = p5 + 2 /\ p8 = p5 + 3
      /\ p9 = p8 + 1
  <2>1. Len(s) \in Nat
    OBVIOUS
  <2> QED
    BY <2>1
<1> HIDE DEF p1, p2, p3, p4, p5, p6, p7, p8, p9
<1>3. /\ Scanning(s, go, p, lvl) /\ Scanning(s, go, p1, d) /\ Scanning(s, go, p4, d)
      /\ Scanning(s, go, p5, d) /\ Scanning(s, go, p8, d)
  <2>1. p < Len(s) /\ d >= 1
    BY <1>2
  <2> QED
    BY <1>2, <2>1 DEF Scanning
<1> HIDE DEF d
<1>4. go[p][lvl] = go[p1][d]
  <2>1. GoesOn(s, go, p, lvl, p1, d)
    BY <1>1, <1>2, <1>3, ScanOpening DEF d
  <2> QED
    BY <1>1, <1>2, <2>1, Marks, Arrives
<1>5. go[p1][d] = go[p4][d]
  <2>1. Solid(At(s, p2)) /\ At(s, p4) \notin Spaces
    BY <1>1, Marks DEF Solid
  <2> QED
    BY <1>1, <1>2, <1>3, <2>1, NameScanned
<1>6. go[p4][d] = go[p5][d]
  <2>1. Mark(At(s, p4)) /\ At(s, p5) \notin Spaces
    BY <1>1, Marks DEF Mark
  <2>2. Scanning(s, go, p4, d) /\ d \in Int
    BY <1>2, <1>3
  <2>3. p4 \in Nat /\ p5 \in Nat /\ p5 = p4 + 1 /\ p5 < Len(s)
    BY <1>2
  <2> QED
    BY <2>1, <2>2, <2>3, MarkScanned
<1>7. go[p5][d] = go[p8][d]
  <2>1. Solid(At(s, p6)) /\ At(s, p8) \notin Spaces
    BY <1>1, Marks DEF Solid
  <2> QED
    BY <1>1, <1>2, <1>3, <2>1, NameScanned
<1>8. go[p8][d] = go[SkipSpace(s, p9)][d]
  <2>1. Mark(At(s, p8))
    BY <1>1 DEF Mark
  <2>2. GoesOn(s, go, p8, d, p9, d)
    BY <1>2, <1>3, <2>1, ScanMark
  <2> QED
    BY <2>2 DEF GoesOn
<1>9. At(s, p9) \in Spaces
  BY <1>1, Marks
<1> QED
  BY <1>4, <1>5, <1>6, <1>7, <1>8, <1>9, Zenon DEF d, p9

LEMMA IdScanned ==
    ASSUME NEW s \in Seq(Characters), NEW go, NEW p \in Nat, NEW lvl \in Nat,
           SkipsAs(s, go), p + 10 <= Len(s), lvl >= 1, IsId(From(s, p))
    PROVE  /\ go[p][lvl] = go[SkipSpace(s, p + 6)][lvl]
           /\ \A i \in (p + 6)..(p + 9) : At(s, i) \in Spaces
<1> DEFINE p1 == p + 1
           p2 == p + 2
           p3 == p + 3
           p4 == p + 4
           p5 == p + 5
           p6 == p + 6
           p7 == p + 7
           p8 == p + 8
           p9 == p + 9
<1>1. /\ At(s, p) = Quote /\ At(s, p1) = LetterN /\ At(s, p2) = Quote
      /\ At(s, p3) = Colon /\ At(s, p4) = One /\ At(s, p5) = Comma
      /\ At(s, p6) = Blank /\ At(s, p7) = Blank /\ At(s, p8) = Blank /\ At(s, p9) = Blank
  BY FromAt DEF IsId
<1>2. /\ Len(s) \in Nat /\ lvl \in Int
      /\ p1 \in Nat /\ p2 \in Nat /\ p3 \in Nat /\ p4 \in Nat /\ p5 \in Nat
      /\ p3 < Len(s) /\ p4 < Len(s) /\ p5 < Len(s)
      /\ p1 = p + 1 /\ p2 = p + 2 /\ p3 = p + 3 /\ p4 = p3 + 1 /\ p5 = p4 + 1 /\ p6 = p5 + 1
  <2>1. Len(s) \in Nat
    OBVIOUS
  <2> QED
    BY <2>1
<1> HIDE DEF p1, p2, p3, p4, p5, p6, p7, p8, p9
<1>3. /\ Scanning(s, go, p, lvl) /\ Scanning(s, go, p3, lvl)
      /\ Scanning(s, go, p4, lvl) /\ Scanning(s, go, p5, lvl)
  <2>1. p < Len(s)
    BY <1>2
  <2> QED
    BY <1>2, <2>1 DEF Scanning
<1>4. go[p][lvl] = go[p3][lvl]
  <2>1. Solid(At(s, p1)) /\ At(s, p3) \notin Spaces
    BY <1>1, Marks DEF Solid
  <2> QED
    BY <1>1, <1>2, <1>3, <2>1, NameScanned
<1>5. go[p3][lvl] = go[p4][lvl]
  <2>1. Mark(At(s, p3)) /\ At(s, p4) \notin Spaces
    BY <1>1, Marks DEF Mark
  <2>2. Scanning(s, go, p3, lvl) /\ lvl \in Int
    BY <1>2, <1>3
  <2>3. p3 \in Nat /\ p4 \in Nat /\ p4 = p3 + 1 /\ p4 < Len(s)
    BY <1>2
  <2> QED
    BY <2>1, <2>2, <2>3, MarkScanned
<1>6. go[p4][lvl] = go[p5][lvl]
  <2>1. GoesOn(s, go, p4, lvl, p5, lvl)
    BY <1>1, <1>2, <1>3, ScanDigit
  <2> QED
    BY <1>1, <1>2, <2>1, Marks, Arrives
<1>7. go[p5][lvl] = go[SkipSpace(s, p6)][lvl]
  <2>1. Mark(At(s, p5))
    BY <1>1 DEF Mark
  <2>2. GoesOn(s, go, p5, lvl, p6, lvl)
    BY <1>2, <1>3, <2>1, ScanMark
  <2> QED
    BY <2>2 DEF GoesOn
<1>8. ASSUME NEW i \in p6..p9 PROVE At(s, i) \in Spaces
  <2>1. i = p6 \/ i = p7 \/ i = p8 \/ i = p9
    BY DEF p6, p7, p8, p9
  <2> QED
    BY <1>1, <2>1, Marks, Zenon
<1> QED
  BY <1>4, <1>5, <1>6, <1>7, <1>8, Zenon DEF p6, p9

LEMMA TailScanned ==
    ASSUME NEW s \in Seq(Characters), NEW go, NEW p \in Nat, NEW lvl \in Nat,
           SkipsAs(s, go), p + 10 <= Len(s), lvl >= 1, IsTail(From(s, p))
    PROVE  go[p][lvl] = go[SkipSpace(s, p + 10)][lvl - 1]
<1> DEFINE p1 == p + 1
           p2 == p + 2
           p3 == p + 3
           p4 == p + 4
           p5 == p + 5
           p6 == p + 6
           p7 == p + 7
           p8 == p + 8
           p9 == p + 9
           p10 == p + 10
<1>1. /\ At(s, p) = Quote /\ At(s, p1) = LetterA /\ At(s, p2) = Quote
      /\ At(s, p3) = Colon /\ At(s, p4) = Quote /\ At(s, p5) = Backslash
      /\ At(s, p6) = Quote /\ At(s, p7) = RightBrace /\ At(s, p8) = Quote
      /\ At(s, p9) = RightBrace
  BY FromAt DEF IsTail
<1>2. /\ Len(s) \in Nat /\ lvl \in Int
      /\ p1 \in Nat /\ p2 \in Nat /\ p3 \in Nat /\ p4 \in Nat /\ p9 \in Nat
      /\ p3 < Len(s) /\ p4 < Len(s) /\ p9 < Len(s) /\ p4 + 5 <= Len(s)
      /\ p1 = p + 1 /\ p2 = p + 2 /\ p3 = p + 3 /\ p4 = p3 + 1 /\ p10 = p9 + 1
      /\ p5 = p4 + 1 /\ p7 = p4 + 3 /\ p8 = p4 + 4
      /\ p9 = p4 + 5
  <2>1. Len(s) \in Nat
    OBVIOUS
  <2> QED
    BY <2>1
<1> HIDE DEF p1, p2, p3, p4, p5, p6, p7, p8, p9, p10
<1>3. /\ Scanning(s, go, p, lvl) /\ Scanning(s, go, p3, lvl)
      /\ Scanning(s, go, p4, lvl) /\ Scanning(s, go, p9, lvl)
  <2>1. p < Len(s)
    BY <1>2
  <2> QED
    BY <1>2, <2>1 DEF Scanning
<1>4. go[p][lvl] = go[p3][lvl]
  <2>1. Solid(At(s, p1)) /\ At(s, p3) \notin Spaces
    BY <1>1, Marks DEF Solid
  <2> QED
    BY <1>1, <1>2, <1>3, <2>1, NameScanned
<1>5. go[p3][lvl] = go[p4][lvl]
  <2>1. Mark(At(s, p3)) /\ At(s, p4) \notin Spaces
    BY <1>1, Marks DEF Mark
  <2>2. Scanning(s, go, p3, lvl) /\ lvl \in Int
    BY <1>2, <1>3
  <2>3. p3 \in Nat /\ p4 \in Nat /\ p4 = p3 + 1 /\ p4 < Len(s)
    BY <1>2
  <2> QED
    BY <2>1, <2>2, <2>3, MarkScanned
<1>6. go[p4][lvl] = go[p9][lvl]
  <2>1. At(s, p7) # Quote /\ At(s, p7) # Backslash
    BY <1>1, Marks
  <2>2. SkipString(s, p4) = p9
    BY <1>1, <1>2, <2>1, EscapedString
  <2>3. GoesOn(s, go, p4, lvl, p9, lvl)
    BY <1>1, <1>2, <1>3, <2>2, ScanString
  <2> QED
    BY <1>1, <1>2, <2>3, Marks, Arrives
<1>7. go[p9][lvl] = go[SkipSpace(s, p10)][lvl - 1]
  <2>1. GoesOn(s, go, p9, lvl, p10, lvl - 1)
    BY <1>1, <1>2, <1>3, ScanClosing
  <2> QED
    BY <2>1 DEF GoesOn
<1> QED
  BY <1>4, <1>5, <1>6, <1>7, Zenon DEF p10

-----------------------------------------------------------------------------
(* the scanner and ValueEnd, in a buffer *)

(* The brackets that are open behind a part, when lvl were before it.      *)
Behind(p, lvl) ==
    CASE p = "method" -> lvl + 1
      [] p = "tail" -> lvl - 1
      [] OTHER -> lvl

Count(buf, p, k) == Cardinality({j \in 1..k : buf[j][1] = p})
Level(buf, k) == Count(buf, "method", k) - Count(buf, "tail", k)

LEMMA CountStep ==
    ASSUME NEW buf, NEW p, NEW k \in Nat
    PROVE  /\ Count(buf, p, k) \in Nat /\ Count(buf, p, 0) = 0
           /\ buf[k + 1][1] = p => Count(buf, p, k + 1) = Count(buf, p, k) + 1
           /\ buf[k + 1][1] # p => Count(buf, p, k + 1) = Count(buf, p, k)
<1> DEFINE S(m) == {j \in 1..m : buf[j][1] = p}
<1>1. IsFiniteSet(S(k)) /\ Cardinality(S(k)) \in Nat
  <2>1. IsFiniteSet(1..k) /\ S(k) \subseteq 1..k
    BY FS_Interval
  <2> HIDE DEF S
  <2> QED
    BY <2>1, FS_Subset, FS_CardinalityType
<1>2. S(0) = {}
  OBVIOUS
<1>3. Cardinality(S(0)) = 0
  BY <1>2, FS_EmptySet
<1>4. k + 1 \notin S(k)
  OBVIOUS
<1>5. \A j : j \in 1..(k + 1) <=> j \in 1..k \/ j = k + 1
  OBVIOUS
<1>6. ASSUME buf[k + 1][1] = p PROVE Cardinality(S(k + 1)) = Cardinality(S(k)) + 1
  <2>1. S(k + 1) = S(k) \union {k + 1}
    BY <1>5, <1>6
  <2> HIDE DEF S
  <2> QED
    BY <1>1, <1>4, <2>1, FS_AddElement
<1>7. ASSUME buf[k + 1][1] # p PROVE Cardinality(S(k + 1)) = Cardinality(S(k))
  <2>1. S(k + 1) = S(k)
    BY <1>5, <1>7
  <2> QED
    BY <2>1
<1> QED
  BY <1>1, <1>3, <1>6, <1>7 DEF Count

LEMMA LevelStep ==
    ASSUME NEW buf, NEW k \in Nat
    PROVE  /\ Level(buf, k) \in Int /\ Level(buf, 0) = 0
           /\ Level(buf, k + 1) = Behind(buf[k + 1][1], Level(buf, k))
<1> DEFINE m(i) == Count(buf, "method", i)
           e(i) == Count(buf, "tail", i)
           p == buf[k + 1][1]
<1>1. /\ m(k) \in Nat /\ e(k) \in Nat /\ m(0) = 0 /\ e(0) = 0
      /\ p = "method" => m(k + 1) = m(k) + 1
      /\ p # "method" => m(k + 1) = m(k)
      /\ p = "tail" => e(k + 1) = e(k) + 1
      /\ p # "tail" => e(k + 1) = e(k)
  BY CountStep
<1>2. \A i : Level(buf, i) = m(i) - e(i)
  BY DEF Level
<1> HIDE DEF m, e, p
<1>3. /\ p = "method" => p # "tail"
      /\ p = "method" => Behind(p, Level(buf, k)) = Level(buf, k) + 1
      /\ p = "tail" => Behind(p, Level(buf, k)) = Level(buf, k) - 1
      /\ p # "method" /\ p # "tail" => Behind(p, Level(buf, k)) = Level(buf, k)
  BY Zenon DEF Behind
<1>4. Level(buf, k) \in Int /\ Level(buf, 0) = 0
  BY <1>1, <1>2
<1>5. CASE p = "method"
  BY <1>1, <1>2, <1>3, <1>5 DEF p
<1>6. CASE p = "tail"
  BY <1>1, <1>2, <1>3, <1>6 DEF p
<1>7. CASE p # "method" /\ p # "tail"
  BY <1>1, <1>2, <1>3, <1>7 DEF p
<1> QED
  BY <1>4, <1>5, <1>6, <1>7 DEF p

(* The scan goes over one part, from its first character to the first of   *)
(* the next part that is no newline.                                       *)
LEMMA PartScanned ==
    ASSUME NEW buf \in Seq(Parts), NEW go, SkipsAs(Text(buf), go),
           NEW j \in 0..(Len(buf) - 1), NEW lvl \in Nat, j > 0 => lvl >= 1,
           \/ buf[j + 1][1] = "method"
           \/ (buf[j + 1][1] = "id" \/ buf[j + 1][1] = "tail") /\ lvl >= 1
    PROVE  go[Width * j][lvl] = go[NextPart(buf, j + 1)][Behind(buf[j + 1][1], lvl)]
<1> DEFINE s == Text(buf)
           p == Width * j
           kind == buf[j + 1][1]
<1>1. /\ s \in Seq(Characters) /\ j \in Nat /\ j + 1 \in 0..Len(buf)
      /\ p \in Nat /\ p + 10 <= Len(s) /\ p + 10 = Width * (j + 1) /\ (p > 0 => lvl >= 1)
      /\ p + 9 \in Nat /\ p + 9 <= p + 10 /\ p + 6 \in Nat /\ p + 6 <= p + 10
      /\ p + 10 \in Nat /\ (p + 10) - 1 = p + 9
  <2>1. Len(buf) \in Nat /\ s \in Seq(Characters)
    BY TextFacts
  <2>2. p \in Nat /\ p + 10 <= Len(s) /\ p + 10 = Width * (j + 1)
    BY TextOfParts
  <2>3. p > 0 => j > 0
    BY <2>1 DEF Width
  <2> HIDE DEF p, s
  <2> QED
    BY <2>1, <2>2, <2>3
<1>2. /\ kind = "method" => IsMethod(From(s, p)) /\ Behind(kind, lvl) = lvl + 1
      /\ kind = "id" => IsId(From(s, p)) /\ Behind(kind, lvl) = lvl
      /\ kind = "tail" => IsTail(From(s, p)) /\ Behind(kind, lvl) = lvl - 1
  <2>1. /\ kind = "method" => IsMethod(From(s, p))
        /\ kind = "id" => IsId(From(s, p))
        /\ kind = "tail" => IsTail(From(s, p))
    BY TextOfParts
  <2> HIDE DEF kind, p, s
  <2>2. /\ kind = "method" => Behind(kind, lvl) = lvl + 1
        /\ kind = "id" => Behind(kind, lvl) = lvl
        /\ kind = "tail" => Behind(kind, lvl) = lvl - 1
    BY Zenon DEF Behind
  <2> QED
    BY <2>1, <2>2
<1>3. SkipsAs(s, go)
  OBVIOUS
<1> DEFINE next == NextPart(buf, j + 1)
<1>4. ASSUME NEW e \in Nat, e <= p + 10, \A i \in e..(p + 9) : At(s, i) \in Spaces
      PROVE  SkipSpace(s, e) = next
  <2>1. e <= Width * (j + 1) /\ Width * (j + 1) - 1 = p + 9
    BY <1>1, <1>4
  <2>2. \A i \in e..(Width * (j + 1) - 1) : At(Text(buf), i) \in Spaces
    BY <1>4, <2>1
  <2> QED
    BY <1>1, <1>4, <2>1, <2>2, GapEnd
<1> HIDE DEF s, p, next
<1>5. CASE kind = "method"
  <2>1. IsMethod(From(s, p)) /\ Behind(kind, lvl) = lvl + 1
    BY <1>2, <1>5
  <2>2. go[p][lvl] = go[SkipSpace(s, p + 9)][lvl + 1] /\ At(s, p + 9) \in Spaces
    BY <1>1, <1>3, <2>1, MethodScanned
  <2>3. \A i \in (p + 9)..(p + 9) : At(s, i) \in Spaces
    <3>1. \A i \in (p + 9)..(p + 9) : i = p + 9
      BY <1>1
    <3> QED
      BY <2>2, <3>1
  <2>4. SkipSpace(s, p + 9) = next
    BY <1>1, <1>4, <2>3
  <2> QED
    BY <2>1, <2>2, <2>4, Zenon DEF p, next, s
<1>6. CASE kind = "id"
  <2>1. IsId(From(s, p)) /\ Behind(kind, lvl) = lvl
    BY <1>2, <1>6
  <2>2. lvl >= 1
    BY <1>6
  <2>3. /\ go[p][lvl] = go[SkipSpace(s, p + 6)][lvl]
        /\ \A i \in (p + 6)..(p + 9) : At(s, i) \in Spaces
    BY <1>1, <1>3, <2>1, <2>2, IdScanned
  <2>4. SkipSpace(s, p + 6) = next
    BY <1>1, <1>4, <2>3
  <2> QED
    BY <2>1, <2>3, <2>4, Zenon DEF p, next, s
<1>7. CASE kind = "tail"
  <2>1. IsTail(From(s, p)) /\ Behind(kind, lvl) = lvl - 1
    BY <1>2, <1>7
  <2>2. lvl >= 1
    BY <1>7
  <2>3. go[p][lvl] = go[SkipSpace(s, p + 10)][lvl - 1]
    BY <1>1, <1>3, <2>1, <2>2, TailScanned
  <2>4. \A i \in (p + 10)..(p + 9) : At(s, i) \in Spaces
    BY <1>1
  <2>5. SkipSpace(s, p + 10) = next
    BY <1>1, <1>4, <2>4
  <2> QED
    BY <2>1, <2>3, <2>5, Zenon DEF p, next, s
<1> QED
  BY <1>5, <1>6, <1>7

(* Newlines are gone over with the part before them.                       *)
LEMMA NextPartSteps ==
    ASSUME NEW buf \in Seq(Parts), NEW k \in 0..(Len(buf) - 1)
    PROVE  /\ buf[k + 1][1] = "newline" => NextPart(buf, k) = NextPart(buf, k + 1)
           /\ buf[k + 1][1] # "newline" => NextPart(buf, k) = Width * k
<1> DEFINE m == SkipNewlines(buf, k)
           q == SkipNewlines(buf, k + 1)
           blank(i) == buf[i + 1][1] = "newline"
           n == Len(buf)
<1>1. n \in Nat /\ k \in Nat /\ k < n /\ k \in 0..n /\ k + 1 \in 0..n
  OBVIOUS
<1>2. /\ m \in k..n /\ (m = n \/ ~blank(m)) /\ \A i \in k..(m - 1) : blank(i)
      /\ q \in (k + 1)..n /\ (q = n \/ ~blank(q)) /\ \A i \in (k + 1)..(q - 1) : blank(i)
  BY <1>1, NewlinesFacts
<1> HIDE DEF m, q, n, blank
<1>3. ASSUME blank(k) PROVE m = q
  <2>1. m # k /\ m \in Nat /\ q \in Nat
    BY <1>1, <1>2, <1>3
  <2>2. ~(m < q)
    <3>1. m < q => m \in (k + 1)..(q - 1) /\ m # n
      BY <1>1, <1>2, <2>1
    <3> QED
      BY <1>2, <3>1
  <2>3. ~(q < m)
    <3>1. q < m => q \in k..(m - 1) /\ q # n
      BY <1>1, <1>2, <2>1
    <3> QED
      BY <1>2, <3>1
  <2> QED
    BY <2>1, <2>2, <2>3
<1>4. ASSUME ~blank(k) PROVE m = k
  <2>1. m > k => k \in k..(m - 1)
    BY <1>1, <1>2
  <2> QED
    BY <1>1, <1>2, <1>4, <2>1
<1> QED
  BY <1>3, <1>4 DEF blank, m, q, NextPart

(* The scan is at the next part, in as many brackets as parts have opened: *)
(* as long as these were not closed.                                       *)
Scanned(buf, go, k) ==
    (\A i \in 1..(k - 1) : Level(buf, i) # 0)
        => Level(buf, k) \in Nat /\ go[0][0] = go[NextPart(buf, k)][Level(buf, k)]

LEMMA FirstScanned ==
    ASSUME NEW buf \in Seq(Parts), buf # <<>>, buf[1][1] = "method",
           NEW go, SkipsAs(Text(buf), go)
    PROVE  Scanned(buf, go, 1)
<1>1. 0 \in 0..(Len(buf) - 1) /\ 0 \in Nat /\ ~(0 > 0) /\ 0 + 1 = 1 /\ Width * 0 = 0
  BY DEF Width
<1>2. Behind(buf[1][1], 0) = 1
  <2>1. Behind(buf[1][1], 0) = 0 + 1
    BY Zenon DEF Behind
  <2> QED
    BY <2>1
<1>3. Level(buf, 1) = 1
  <2>1. Level(buf, 0) = 0 /\ Level(buf, 0 + 1) = Behind(buf[0 + 1][1], Level(buf, 0))
    BY <1>1, LevelStep
  <2> QED
    BY <1>1, <1>2, <2>1
<1>4. go[Width * 0][0] = go[NextPart(buf, 0 + 1)][Behind(buf[0 + 1][1], 0)]
  BY <1>1, PartScanned
<1>5. go[0][0] = go[NextPart(buf, 1)][1]
  BY <1>1, <1>2, <1>4
<1> QED
  BY <1>3, <1>5 DEF Scanned

LEMMA NextScanned ==
    ASSUME NEW buf \in Seq(Parts), NEW go, SkipsAs(Text(buf), go),
           NEW k \in 1..(Len(buf) - 1), Scanned(buf, go, k)
    PROVE  Scanned(buf, go, k + 1)
<1> DEFINE lvl == Level(buf, k)
           kind == buf[k + 1][1]
<1> SUFFICES ASSUME \A i \in 1..((k + 1) - 1) : Level(buf, i) # 0
             PROVE  /\ Level(buf, k + 1) \in Nat
                    /\ go[0][0] = go[NextPart(buf, k + 1)][Level(buf, k + 1)]
  BY DEF Scanned
<1>1. k \in Nat /\ k \in 0..(Len(buf) - 1) /\ k > 0 /\ k + 1 \in 1..Len(buf)
  OBVIOUS
<1>2. (\A i \in 1..(k - 1) : Level(buf, i) # 0) /\ Level(buf, k) # 0
  BY <1>1
<1>3. lvl \in Nat /\ lvl >= 1 /\ lvl - 1 \in Nat /\ lvl + 1 \in Nat
      /\ go[0][0] = go[NextPart(buf, k)][lvl]
  <2>1. lvl \in Nat /\ lvl # 0 /\ go[0][0] = go[NextPart(buf, k)][lvl]
    BY <1>2 DEF Scanned
  <2> QED
    BY <2>1
<1>4. Level(buf, k + 1) = Behind(kind, lvl)
  BY <1>1, LevelStep
<1>5. kind \in PartNames
  BY <1>1 DEF Parts
<1>6. /\ kind = "newline" => NextPart(buf, k) = NextPart(buf, k + 1)
      /\ kind # "newline" => NextPart(buf, k) = Width * k
  BY <1>1, NextPartSteps
<1> HIDE DEF lvl, kind
<1>7. /\ kind = "newline" => Behind(kind, lvl) = lvl
      /\ kind = "id" => Behind(kind, lvl) = lvl
      /\ kind = "method" => Behind(kind, lvl) = lvl + 1
      /\ kind = "tail" => Behind(kind, lvl) = lvl - 1
  BY Zenon DEF Behind
<1>8. kind = "newline" \/ kind = "id" \/ kind = "method" \/ kind = "tail"
  BY <1>5 DEF PartNames
<1>9. Behind(kind, lvl) \in Nat
  BY <1>3, <1>7, <1>8
<1>10. CASE kind = "newline"
  <2>1. Behind(kind, lvl) = lvl /\ NextPart(buf, k) = NextPart(buf, k + 1)
    BY <1>6, <1>7, <1>10
  <2> QED
    BY <1>3, <1>4, <1>9, <2>1
<1>11. CASE kind # "newline"
  <2>1. kind = "method" \/ ((kind = "id" \/ kind = "tail") /\ lvl >= 1)
    BY <1>3, <1>8, <1>11
  <2>2. go[Width * k][lvl] = go[NextPart(buf, k + 1)][Behind(kind, lvl)]
    BY <1>1, <1>3, <2>1, PartScanned DEF kind
  <2>3. NextPart(buf, k) = Width * k
    BY <1>6, <1>11
  <2> QED
    BY <1>3, <1>4, <1>9, <2>2, <2>3
<1> QED
  BY <1>10, <1>11

LEMMA AllScanned ==
    ASSUME NEW buf \in Seq(Parts), buf # <<>>, buf[1][1] = "method",
           NEW go, SkipsAs(Text(buf), go), NEW k \in 1..Len(buf)
    PROVE  Scanned(buf, go, k)
<1> DEFINE Bad == {i \in 1..Len(buf) : ~Scanned(buf, go, i)}
<1>1. Bad \in SUBSET Nat
  OBVIOUS
<1>2. ASSUME Bad # {} PROVE FALSE
  <2>1. PICK m \in Bad : \A i \in Bad : m <= i
    <3> HIDE DEF Bad
    <3> QED
      BY <1>1, <1>2, LeastOf
  <2>2. m # 1
    BY <2>1, FirstScanned
  <2>3. m - 1 \in 1..(Len(buf) - 1) /\ (m - 1) + 1 = m /\ m - 1 \in 1..Len(buf) /\ ~(m <= m - 1)
    BY <2>1, <2>2
  <2>4. Scanned(buf, go, m - 1)
    BY <2>1, <2>3
  <2>5. Scanned(buf, go, (m - 1) + 1)
    BY <2>3, <2>4, NextScanned
  <2> QED
    BY <2>1, <2>3, <2>5
<1> QED
  BY <1>2

(* The scanner ends where ValueEnd does, behind the newlines there.        *)
LEMMA ScannerAgrees ==
    ASSUME NEW buf \in Seq(Parts), buf # <<>>, buf[1][1] = "method"
    PROVE  Skip(Text(buf), 0) = Width * SkipNewlines(buf, ValueEnd(buf, 0))
<1> DEFINE s == Text(buf)
           n == Len(buf)
           T == {k \in 1..n : k = n \/ Level(buf, k) = 0}
           e == Min(T)
<1>1. n \in Nat /\ n > 0 /\ s \in Seq(Characters) /\ Len(s) = Width * n /\ Len(s) \in Nat
      /\ s # <<>>
  <2>1. n \in Nat /\ n > 0 /\ s \in Seq(Characters) /\ Len(s) = Width * n
    BY TextFacts
  <2>2. Len(s) > 0
    BY <2>1 DEF Width
  <2> HIDE DEF s
  <2> QED
    BY <2>1, <2>2
<1>2. PICK go : SkipsAs(s, go) /\ Skip(s, 0) = go[0][0]
  BY <1>1, SkipRecursion
<1>3. ValueEnd(buf, 0) = e
  <2>1. buf[0 + 1][1] = "method" /\ 0 + 1 = 1
    OBVIOUS
  <2>2. ValueEnd(buf, 0) =
            Min({k \in (0 + 1)..n : k = n \/ Cardinality({j \in (0 + 1)..k : buf[j][1] = "method"})
                    - Cardinality({j \in (0 + 1)..k : buf[j][1] = "tail"}) = 0})
    BY <2>1, Zenon DEF ValueEnd
  <2> QED
    BY <2>1, <2>2 DEF Level, Count
<1>4. e \in T /\ \A k \in T : e <= k
  <2>1. T \in SUBSET Nat /\ n \in T
    BY <1>1
  <2> HIDE DEF T
  <2> QED
    BY <2>1, LeastOf
<1>5. e \in 1..n /\ (e = n \/ Level(buf, e) = 0)
  BY <1>4
<1>6. ASSUME NEW i \in 1..(e - 1) PROVE Level(buf, i) # 0
  <2>1. i \in 1..n /\ ~(e <= i)
    BY <1>1, <1>5
  <2> QED
    BY <1>4, <2>1
<1> HIDE DEF T, e
<1> DEFINE q == NextPart(buf, e)
           lvl == Level(buf, e)
<1>7. lvl \in Nat /\ go[0][0] = go[q][lvl]
  <2>1. Scanned(buf, go, e)
    BY <1>2, <1>5, AllScanned
  <2> QED
    BY <1>6, <2>1 DEF Scanned
<1>8. q \in Nat /\ q > 0 /\ q <= Len(s) /\ (e = n => q = Len(s))
  <2>1. SkipNewlines(buf, e) \in e..n
    BY <1>1, <1>5, NewlinesFacts
  <2> HIDE DEF n
  <2>2. SkipNewlines(buf, e) \in Nat /\ SkipNewlines(buf, e) >= 1 /\ SkipNewlines(buf, e) <= n
        /\ (e = n => SkipNewlines(buf, e) = n)
    BY <1>1, <1>5, <2>1
  <2> HIDE DEF s
  <2> QED
    BY <1>1, <2>2 DEF NextPart, Width
<1> HIDE DEF q, lvl, n, s
<1>9. go[q][lvl] = q
  <2>1. q \in 0..(Len(s) + 2) /\ lvl \in Int
    BY <1>1, <1>7, <1>8
  <2>2. CASE lvl = 0
    <3>1. q > 0 /\ lvl <= 0
      BY <1>8, <2>2
    <3> QED
      BY <1>2, <2>1, <3>1 DEF SkipsAs
  <2>3. CASE lvl # 0
    <3>1. q >= Len(s) /\ Len(s) = q /\ ~(q > 0 /\ lvl <= 0)
      BY <1>1, <1>5, <1>7, <1>8, <2>3 DEF lvl
    <3> QED
      BY <1>2, <2>1, <3>1 DEF SkipsAs
  <2> QED
    BY <2>2, <2>3
<1> QED
  BY <1>2, <1>3, <1>7, <1>9 DEF NextPart, q, s

(* The buffer from i on, without what is before it.                        *)
LEMMA NewlinesFrom ==
    ASSUME NEW buf \in Seq(Parts), NEW i \in 0..Len(buf), NEW k \in 0..(Len(buf) - i)
    PROVE  SkipNewlines(SubSeq(buf, i + 1, Len(buf)), k) = SkipNewlines(buf, i + k) - i
<1> DEFINE rest == SubSeq(buf, i + 1, Len(buf))
           n == Len(buf)
           m == SkipNewlines(rest, k)
           q == SkipNewlines(buf, i + k)
           blank(j) == buf[j + 1][1] = "newline"
<1>1. /\ rest \in Seq(Parts) /\ Len(rest) = n - i /\ n \in Nat /\ i \in Nat /\ k \in Nat
      /\ \A j \in 1..(n - i) : rest[j] = buf[j + i]
  BY Cut
<1>2. \A j \in 0..(n - i - 1) : rest[j + 1][1] = buf[(i + j) + 1][1]
  BY <1>1
<1> HIDE DEF rest
<1>3. /\ m \in k..(n - i) /\ (m = n - i \/ rest[m + 1][1] # "newline")
      /\ \A j \in k..(m - 1) : rest[j + 1][1] = "newline"
  BY <1>1, NewlinesFacts
<1>4. /\ q \in (i + k)..n /\ (q = n \/ ~blank(q)) /\ \A j \in (i + k)..(q - 1) : blank(j)
  <2>1. i + k \in 0..n
    BY <1>1
  <2> QED
    BY <2>1, NewlinesFacts
<1> HIDE DEF m, q, n
<1>5. m \in Nat /\ q \in Nat /\ (m = n - i \/ ~blank(i + m))
  <2>1. m \in Nat /\ q \in Nat /\ m <= n - i
    BY <1>1, <1>3, <1>4
  <2>2. m < n - i => m \in 0..(n - i - 1)
    BY <1>1, <2>1
  <2> QED
    BY <1>1, <1>2, <1>3, <2>1, <2>2
<1>6. ASSUME NEW j \in k..(m - 1) PROVE blank(i + j)
  <2>1. j \in 0..(n - i - 1)
    BY <1>1, <1>3
  <2> QED
    BY <1>2, <1>3, <2>1
<1> HIDE DEF blank
<1>7. ~(i + m < q)
  <2>1. i + m < q => i + m \in (i + k)..(q - 1) /\ m # n - i
    BY <1>1, <1>3, <1>4, <1>5
  <2> QED
    BY <1>4, <1>5, <2>1
<1>8. ~(q < i + m)
  <2>1. q < i + m => q - i \in k..(m - 1) /\ i + (q - i) = q /\ q # n
    BY <1>1, <1>3, <1>4, <1>5
  <2> QED
    BY <1>4, <1>6, <2>1
<1>9. m = q - i
  BY <1>1, <1>5, <1>7, <1>8
<1> QED
  BY <1>9 DEF m, q, rest, n

CountFrom(buf, p, i, k) == Cardinality({j \in (i + 1)..k : buf[j][1] = p})

LEMMA CountFromSame ==
    ASSUME NEW buf \in Seq(Parts), NEW i \in 0..Len(buf), NEW p, NEW k \in 0..(Len(buf) - i)
    PROVE  CountFrom(buf, p, i, i + k) = CountFrom(SubSeq(buf, i + 1, Len(buf)), p, 0, k)
<1> DEFINE rest == SubSeq(buf, i + 1, Len(buf))
           S == {j \in (0 + 1)..k : rest[j][1] = p}
           T == {j \in (i + 1)..(i + k) : buf[j][1] = p}
           f == [j \in S |-> i + j]
<1>1. /\ i \in Nat /\ k \in Nat /\ Len(buf) \in Nat
      /\ \A j \in 1..k : rest[j] = buf[i + j]
  <2>1. i \in Nat /\ k \in Nat /\ Len(buf) \in Nat
    OBVIOUS
  <2>2. \A j \in 1..(Len(buf) - i) : rest[j] = buf[j + i]
    BY Cut
  <2>3. \A j \in 1..k : j \in 1..(Len(buf) - i) /\ j + i = i + j
    BY <2>1
  <2> QED
    BY <2>1, <2>2, <2>3
<1>2. IsFiniteSet(S)
  <2>1. 0 + 1 \in Int /\ k \in Int
    BY <1>1
  <2>2. IsFiniteSet((0 + 1)..k)
    BY <2>1, FS_Interval
  <2>3. S \subseteq (0 + 1)..k
    OBVIOUS
  <2> HIDE DEF S
  <2> QED
    BY <2>2, <2>3, FS_Subset
<1> HIDE DEF rest
<1>3. ASSUME NEW j \in S PROVE i + j \in T
  BY <1>1
<1>4. ASSUME NEW j \in T PROVE j - i \in S /\ i + (j - i) = j
  BY <1>1
<1>5. \A a, b \in S : i + a = i + b => a = b
  BY <1>1
<1> HIDE DEF S, T
<1>6. f \in Bijection(S, T)
  BY <1>3, <1>4, <1>5 DEF Bijection, Injection, Surjection, IsInjective
<1>7. Cardinality(S) = Cardinality(T)
  <2> HIDE DEF f
  <2> QED
    BY <1>2, <1>6, FS_Bijection DEF ExistsBijection
<1> QED
  BY <1>7 DEF CountFrom, S, T, rest

LEMMA ValueFrom ==
    ASSUME NEW buf \in Seq(Parts), NEW i \in 0..(Len(buf) - 1)
    PROVE  ValueEnd(SubSeq(buf, i + 1, Len(buf)), 0) = ValueEnd(buf, i) - i
<1> DEFINE rest == SubSeq(buf, i + 1, Len(buf))
           n == Len(buf)
           level(k) == CountFrom(buf, "method", i, k) - CountFrom(buf, "tail", i, k)
           below(k) == CountFrom(rest, "method", 0, k) - CountFrom(rest, "tail", 0, k)
           S == {k \in (0 + 1)..(n - i) : k = n - i \/ below(k) = 0}
           T == {k \in (i + 1)..n : k = n \/ level(k) = 0}
<1>1. /\ rest \in Seq(Parts) /\ Len(rest) = n - i /\ n \in Nat /\ i \in Nat /\ i < n
      /\ rest[0 + 1] = buf[i + 1] /\ i + 1 - i = 0 + 1
  <2>1. n \in Nat /\ i \in Nat /\ i \in 0..n /\ 0 + 1 \in 1..(n - i) /\ (0 + 1) + i = i + 1
        /\ i < n /\ i + 1 - i = 0 + 1
    OBVIOUS
  <2> QED
    BY <2>1, Cut
<1>2. ValueEnd(buf, i) = IF buf[i + 1][1] # "method" THEN i + 1 ELSE Min(T)
  BY DEF ValueEnd, CountFrom
<1>3. ValueEnd(rest, 0) = IF rest[0 + 1][1] # "method" THEN 0 + 1 ELSE Min(S)
  <2> HIDE DEF rest
  <2>1. ValueEnd(rest, 0) =
            IF rest[0 + 1][1] # "method" THEN 0 + 1
            ELSE Min({k \in (0 + 1)..Len(rest) : k = Len(rest) \/ below(k) = 0})
    BY DEF ValueEnd, CountFrom
  <2> QED
    BY <1>1, <2>1
<1>4. \A k \in 0..(n - i) : below(k) = level(i + k)
  <2>1. i \in 0..n
    BY <1>1
  <2> QED
    BY <2>1, CountFromSame
<1> HIDE DEF rest, level, below, n
<1>5. T \in SUBSET Nat /\ n \in T /\ S \in SUBSET Nat /\ n - i \in S
  BY <1>1
<1>6. \A k \in S : i + k \in T
  BY <1>1, <1>4
<1>7. ASSUME NEW k \in T PROVE k - i \in S
  <2>1. k - i \in (0 + 1)..(n - i) /\ k - i \in 0..(n - i) /\ i + (k - i) = k
    BY <1>1
  <2> QED
    BY <1>1, <1>4, <2>1
<1> HIDE DEF S, T
<1>8. /\ Min(T) \in T /\ \A k \in T : Min(T) <= k
      /\ Min(S) \in S /\ \A k \in S : Min(S) <= k
  BY <1>5, LeastOf
<1>9. Min(S) = Min(T) - i
  <2>1. Min(T) <= i + Min(S) /\ Min(S) <= Min(T) - i /\ Min(T) \in Nat /\ Min(S) \in Nat
    BY <1>5, <1>6, <1>7, <1>8
  <2> QED
    BY <1>1, <2>1
<1> QED
  BY <1>1, <1>2, <1>3, <1>9 DEF rest, n

(* In every buffer, from where one value ends to where the next does.      *)
LEMMA EveryValueWhole ==
    ASSUME NEW buf \in Seq(Parts), NEW i \in 0..(Len(buf) - 1), Width * Len(buf) <= Error
    PROVE  LET rest == SubSeq(buf, i + 1, Len(buf))
           IN  /\ EndIsWhole(Text(rest))
               /\ rest[1][1] = "method" =>
                      Skip(Text(rest), 0) = Width * (SkipNewlines(buf, ValueEnd(buf, i)) - i)
<1> DEFINE rest == SubSeq(buf, i + 1, Len(buf))
           e == ValueEnd(buf, i)
<1>1. /\ Len(buf) \in Nat /\ i \in Nat /\ i \in 0..Len(buf) /\ i < Len(buf)
      /\ rest \in Seq(Parts) /\ Len(rest) = Len(buf) - i /\ rest # <<>>
  <2>1. Len(buf) \in Nat /\ i \in Nat /\ i \in 0..Len(buf) /\ i < Len(buf)
    OBVIOUS
  <2>2. rest \in Seq(Parts) /\ Len(rest) = Len(buf) - i
    BY <2>1, Cut
  <2> HIDE DEF rest
  <2> QED
    BY <2>1, <2>2
<1>2. Text(rest) \in Seq(Characters) /\ Text(rest) # <<>> /\ Len(Text(rest)) <= Error
  <2>1. Text(rest) \in Seq(Characters) /\ Len(Text(rest)) = Width * Len(rest)
    BY <1>1, TextFacts
  <2> HIDE DEF rest
  <2>2. Len(Text(rest)) > 0 /\ Len(Text(rest)) <= Error
    BY <1>1, <2>1 DEF Width, Error
  <2> QED
    BY <2>1, <2>2
<1>3. e \in (i + 1)..Len(buf) /\ e - i \in 0..(Len(buf) - i) /\ i + (e - i) = e
  <2>1. e \in (i + 1)..Len(buf)
    BY <1>1, ValueEndBounds
  <2> HIDE DEF e
  <2> QED
    BY <1>1, <2>1
<1>4. ASSUME rest[1][1] = "method"
      PROVE  Skip(Text(rest), 0) = Width * (SkipNewlines(buf, e) - i)
  <2>1. Skip(Text(rest), 0) = Width * SkipNewlines(rest, ValueEnd(rest, 0))
    BY <1>1, <1>4, ScannerAgrees
  <2>2. ValueEnd(rest, 0) = e - i
    BY ValueFrom
  <2>3. SkipNewlines(rest, e - i) = SkipNewlines(buf, e) - i
    BY <1>1, <1>3, NewlinesFrom
  <2> QED
    BY <2>1, <2>2, <2>3
<1> QED
  BY <1>2, <1>4, AllEndsWhole

(* Whatever the clients send and however it is cut, the scanner finds a    *)
(* whole value in the buffer, and ends a request where its own tail does.  *)
THEOREM ValuesFound == Spec => []ValuesAreWhole
<1>1. TypeOK => ValuesAreWhole
  <2> SUFFICES ASSUME TypeOK, MoreValues PROVE ValuesAreWhole
    BY DEF ValuesAreWhole
  <2>1. buffer \in Seq(Parts) /\ Len(buffer) <= Capacity /\ processed \in 0..Len(buffer)
    BY DEF TypeOK
  <2>2. processed \in 0..(Len(buffer) - 1) /\ Width * Len(buffer) <= Error
    <3>1. processed < Len(buffer)
      BY DEF MoreValues
    <3>2. Len(buffer) \in Nat
      BY <2>1
    <3>3. Capacity \in Nat /\ Width * Capacity <= Error
      BY DaemonAssumption
    <3> QED
      BY <2>1, <3>1, <3>2, <3>3 DEF Width, Error
  <2> QED
    BY <2>1, <2>2, EveryValueWhole DEF ValuesAreWhole
<1> QED
  BY <1>1, TypeCorrect, PTL

=============================================================================
