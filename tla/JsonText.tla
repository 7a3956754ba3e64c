------------------------------- MODULE JsonText -------------------------------
(***************************************************************************)
(* The JSON parser (json/js.c) on top of its scanner, and the generator    *)
(* (json/jsgen.c), as operators.                                           *)
(*                                                                         *)
(* What a function may fail to give is a set, empty or of one element.     *)
(* Numbers have a width: an unsigned int keeps its lowest bits, and so, as *)
(* it is built, does a long long that overflows, which C does not define.  *)
(***************************************************************************)
EXTENDS JsonScan

CONSTANTS MaxUInt,  \* JSON_MAX_UINT32; JSON_MAX_INT32 is half of it
          MaxLong   \* the largest long long

ASSUME TextAssumption ==
    /\ MaxUInt \in Nat /\ MaxLong \in Nat /\ 10 * MaxUInt + 9 <= MaxLong
    /\ (MaxLong + 1) % (MaxUInt + 1) = 0

MaxInt == MaxUInt \div 2

AsUInt(v) == v % (MaxUInt + 1)
AsLong(v) == ((v + MaxLong + 1) % (2 * (MaxLong + 1))) - (MaxLong + 1)

Val(c) == CASE c = "0" -> 0 [] c = "1" -> 1 [] c = "9" -> 9

(* What a character stands for after a backslash.                          *)
Escapes == (Quote :> Quote) @@ (Backslash :> Backslash) @@ ("n" :> "<nl>")

-----------------------------------------------------------------------------
(* enumeration *)

(* JSONParser_EnumInit(): the position of the first entry.                 *)
EnumInit(s, id, match) ==
    LET i == IF id = 0 THEN SkipSpace(s, 0) ELSE id
        first == SkipSpace(s, i + 1)
    IN  IF i < Len(s) /\ At(s, i) = match /\ first < Len(s) THEN first ELSE Error

(* What follows the entry that ends at sep.                                *)
After(s, sep) == IF At(s, sep) = "," THEN Skip(s, sep) ELSE sep

(* An entry and where the next one is, or that there is none.              *)
Ended(next) == [entry |-> Error, next |-> next]

(* A key, a colon, a value, and what follows it at sep.                    *)
Member(s, i, colon, value, sep) ==
    IF \/ sep >= Len(s) \/ At(s, i) \notin {Quote} \union Letters \union Keywords
       \/ At(s, colon) # ":" \/ At(s, sep) \notin {",", "}"}
    THEN Ended(Error)
    ELSE [entry |-> <<i, value>>, next |-> After(s, sep)]

ObjectNext(s, i) ==
    LET at[k \in 0..3] == IF k = 0 THEN i ELSE Skip(s, at[k - 1])
    IN  IF i >= Len(s) THEN Ended(Error)
        ELSE IF At(s, i) = "}" THEN Ended(ENoMore)
        ELSE Member(s, i, at[1], at[2], at[3])

Element(s, i, sep) ==
    IF sep >= Len(s) \/ At(s, sep) \notin {",", "]"}
    THEN Ended(Error)
    ELSE [entry |-> i, next |-> After(s, sep)]

ArrayNext(s, i) ==
    IF i >= Len(s) THEN Ended(Error)
    ELSE IF At(s, i) = "]" THEN Ended(ENoMore)
    ELSE Element(s, i, Skip(s, i))

(* The entries up to the first call that does not succeed: the end, or a   *)
(* malformed entry, which no caller tells from the end.                    *)
Entries(first, call) ==
    LET from[i \in DOMAIN call] ==
            IF call[i].next \notin DOMAIN call THEN <<>>
            ELSE <<call[i].entry>> \o from[call[i].next]
    IN  IF first = Error THEN <<>> ELSE from[first]

Positions(s) == 0..(Len(s) - 1)
Members(s, id) == Entries(EnumInit(s, id, "{"), [i \in Positions(s) |-> ObjectNext(s, i)])
Elements(s, id) == Entries(EnumInit(s, id, "["), [i \in Positions(s) |-> ArrayNext(s, i)])

-----------------------------------------------------------------------------
(* strings, keys, lookup *)

GetString(s, id) ==
    LET from[k \in 0..(Len(s) + 1)] ==
            IF k >= Len(s) THEN {}
            ELSE CASE At(s, k) = Quote -> {<<>>}
                   [] At(s, k) = Backslash ->
                        IF k + 1 < Len(s) /\ At(s, k + 1) \in DOMAIN Escapes
                        THEN {<<Escapes[At(s, k + 1)]>> \o r : r \in from[k + 2]} ELSE {}
                   [] OTHER -> {<<At(s, k)>> \o r : r \in from[k + 1]}
    IN  IF GetType(s, id) = "string" THEN from[id + 1] ELSE {}

(* JSONParser_GetKey(): a string, or a bare tag.                           *)
GetKey(s, id) ==
    IF id >= Len(s) THEN {}
    ELSE CASE At(s, id) = Quote   -> GetString(s, id)
           [] At(s, id) \in Word -> {SubSeq(s, id + 1, SkipWord(s, id))}
           [] OTHER               -> {}

(* MUTANT: the closing quote is not compared.                              *)
StrCmpPrefix(s, id, key) == SubSeq(s, id + 2, id + 1 + Len(key)) = key

(* JSONParser_StrCmp() of the string at id and a key: the first character  *)
(* is taken for the quote, whatever it is, and an escaped character never  *)
(* matches the key's last.                                                 *)
StrCmp(s, id, key) ==
    LET n == Len(s)
        same[k \in (id + 1)..(n + 1), j \in 0..Len(key)] ==
            IF k >= n THEN FALSE
            ELSE IF At(s, k) = Quote \/ j = Len(key)
                 THEN At(s, k) = Quote /\ j = Len(key)
            ELSE IF At(s, k) = Backslash
                 THEN /\ k + 1 < n /\ At(s, k + 1) \in DOMAIN Escapes
                      /\ j + 1 < Len(key)
                      /\ key[j + 1] = Escapes[At(s, k + 1)] /\ same[k + 2, j + 1]
            ELSE At(s, k) = key[j + 1] /\ same[k + 1, j + 1]
    IN  same[id + 1, 0]

(* ReadUintFromKey(): the number a segment spells, 0 for an empty one.     *)
ReadUint(seg) ==
    IF ToSet(seg) \subseteq Digits
    THEN {FoldLeft(LAMBDA v, c : AsUInt(10 * v + Val(c)), 0, seg)}
    ELSE {}

(* The value of the first member with the key; the element at the index,   *)
(* or if that is negative as an int, the array itself.                     *)
ObjectLookup(s, members, seg) ==
    LET hits == {m \in DOMAIN members : StrCmp(s, members[m][1], seg)}
    IN  {members[m][2] : m \in {h \in hits : \A g \in hits : h <= g}}

ArrayLookup(id, elements, seg) ==
    {IF i > MaxInt THEN id ELSE elements[i + 1] :
        i \in {j \in ReadUint(seg) : j > MaxInt \/ j < Len(elements)}}

LookupSegment(s, id0, seg) ==
    LET id == IF id0 = 0 THEN SkipSpace(s, 0) ELSE id0
    IN  CASE GetType(s, id) = "array"  -> ArrayLookup(id0, Elements(s, id), seg)
          [] GetType(s, id) = "object" -> ObjectLookup(s, Members(s, id), seg)
          [] OTHER                     -> {}

(* JSONParser_Lookup() of a path, the sequence of its segments: an empty   *)
(* segment at the end of a longer path is not looked at.                   *)
Lookup(s, id, path) ==
    LET used == IF Len(path) > 1 /\ Last(path) = <<>> THEN Front(path) ELSE path
    IN  FoldLeft(LAMBDA ids, seg : UNION {LookupSegment(s, i, seg) : i \in ids}, {id}, used)

-----------------------------------------------------------------------------
(* numbers *)

(* ScanU(): the digits from i on, as a long long, and where they end.      *)
ScanU(s, i) ==
    LET end == Min({k \in i..Len(s) : k = Len(s) \/ At(s, k) \notin Digits})
        more(v, c) == AsLong(10 * v + Val(c))
    IN  [end |-> end, value |-> FoldLeft(more, 0, SubSeq(s, i + 1, end))]

(* A digit of the fraction goes into the result for every power of ten,    *)
(* none for an exponent that has become negative.                          *)
ScaleUp(s, r, frac, fracEnd, exp) ==
    LET up[k \in 0..exp] ==
            IF k = 0 THEN r
            ELSE LET d == IF frac + k - 1 < fracEnd THEN Val(At(s, frac + k - 1)) ELSE 0
                 IN  IF up[k - 1] > MaxUInt THEN up[k - 1] ELSE AsLong(10 * up[k - 1] + d)
    IN  IF exp > 0 THEN up[exp] ELSE r

(* Division towards zero.                                                  *)
Quotient(v, d) == IF v < 0 THEN 0 - ((0 - v) \div d) ELSE v \div d


(* The digits left out are all zero.                                       *)
LostAreZero(s, from, to) == \A k \in from..(to - 1) : At(s, k) = "0"

(* The value of the integer part num..frac with the exponent: digits of    *)
(* the fraction are taken in, or of the integer part left out.             *)
Scaled(s, num, int, frac, fracEnd, minusExp, exp) ==
    LET refused == [err |-> "error", minus |-> num = 1, value |-> 0]
        Value(v, rest) == IF LostAreZero(s, rest, fracEnd)
                          THEN [err |-> "ok", minus |-> num = 1, value |-> AsUInt(v)] ELSE refused
        over == [refused EXCEPT !.err = "overflow"]
        Up(v) == IF v > MaxUInt THEN over ELSE Value(v, frac + (IF exp > 0 THEN exp ELSE 0))
    IN  IF int > MaxUInt THEN over
        ELSE IF ~minusExp THEN Up(ScaleUp(s, int, frac, fracEnd, exp))
        ELSE IF exp \notin 0..(frac - num) THEN refused
        ELSE Value(Quotient(int, 10 ^ exp), frac - exp)

(* The exponent behind the fraction.                                       *)
Exponent(s, num, int, frac, fracEnd) ==
    LET hasExp == fracEnd < Len(s) /\ At(s, fracEnd) = "e"
        minusExp == hasExp /\ fracEnd + 1 < Len(s) /\ At(s, fracEnd + 1) = "-"
        from == IF minusExp THEN fracEnd + 2 ELSE fracEnd + 1
    IN  Scaled(s, num, int, frac, fracEnd, minusExp, IF hasExp THEN ScanU(s, from).value ELSE 0)

(* The fraction behind the integer part.                                   *)
Fraction(s, num, int) ==
    LET frac == IF int.end < Len(s) /\ At(s, int.end) = "." THEN int.end + 1 ELSE int.end
    IN  Exponent(s, num, int.value, frac, ScanU(s, frac).end)

(* JSONParser_GetU() of the number at the start of s.                      *)
GetU(s) ==
    LET num == IF Len(s) > 0 /\ At(s, 0) = "-" THEN 1 ELSE 0
    IN  Fraction(s, num, ScanU(s, num))

(* JSONParser_GetInt() and JSONParser_GetUInt().                           *)
GetInt(s) ==
    LET limit(minus) == MaxInt + (IF minus THEN 1 ELSE 0)
    IN  {IF u.minus THEN 0 - u.value ELSE u.value :
            u \in {w \in {GetU(s)} : w.err = "ok" /\ w.value <= limit(w.minus)}}

GetUInt(s) == {u.value : u \in {w \in {GetU(s)} : w.err = "ok" /\ ~w.minus}}

-----------------------------------------------------------------------------
(* generator *)

(* MUTANT: a comma is put after a colon.                                   *)
NeedSeparatorAfterColon(out) == out # <<>> /\ Last(out) \notin {"[", "{", ","}

(* JSONGen_NeedSeparator(): by the last character that is not space.       *)
NeedSeparator(out) ==
    LET solid == SelectSeq(out, LAMBDA c : c \notin Spaces)
    IN  solid # <<>> /\ Last(solid) \notin {"[", "{", ":", ","}

Separate(out) == IF NeedSeparator(out) THEN out \o <<",", " ">> ELSE out

PutWord(out, word) == Separate(out) \o word

(* JSONGen_PutString(), which escapes what GetString() unescapes.          *)
PutString(out, str) ==
    LET escape(c) == IF \E e \in DOMAIN Escapes : Escapes[e] = c
                     THEN <<Backslash, CHOOSE e \in DOMAIN Escapes : Escapes[e] = c>>
                     ELSE <<c>>
    IN  Separate(out) \o <<Quote>> \o FlattenSeq([i \in DOMAIN str |-> escape(str[i])])
                      \o <<Quote>>

PutKey(out, key) == PutString(out, key) \o <<":", " ">>

Begin(out, bracket) == Separate(out) \o <<bracket>>

-----------------------------------------------------------------------------
(* facts about the operators *)

(* The spelling of a number: sign, digits, fraction, exponent.             *)
DigitSeqs(n) == UNION {[1..k -> Digits] : k \in 0..n}
Exponents == {<<>>, <<"e">>, <<"e", "0">>, <<"e", "1">>, <<"e", "-", "1">>}
Spelt(digits) == FoldLeft(LAMBDA v, c : 10 * v + Val(c), 0, digits)

(* A number whose integer part fits a long long is accepted only with the  *)
(* value it spells, exactly, and one without fraction and exponent is then *)
(* refused only if it does not fit; of a longer one that is accepted only  *)
(* the lowest bits are right.                                              *)
NumbersExact ==
    \A neg \in BOOLEAN, int \in DigitSeqs(4) \ {<<>>}, frac \in DigitSeqs(2), e \in Exponents :
        LET dot == IF frac = <<>> THEN <<>> ELSE <<".">> \o frac
            s == (IF neg THEN <<"-">> ELSE <<>>) \o int \o dot \o e
            spelt == (IF neg THEN -1 ELSE 1) * Spelt(int \o frac)
            up == IF Len(e) > 1 /\ Last(e) = "1" /\ e[2] # "-" THEN 10 ELSE 1
            down == 10 ^ Len(frac) * (IF Len(e) = 3 THEN 10 ELSE 1)
            fits == Spelt(int) <= MaxLong
            plain == dot \o e = <<>>
        IN  /\ fits => \A n \in GetInt(s) \union GetUInt(s) : n * down = spelt * up
            /\ plain /\ fits /\ ~neg => (GetUInt(s) # {} <=> spelt <= MaxUInt)
            /\ plain /\ fits => (GetInt(s) # {} <=> spelt \in (-MaxInt - 1)..MaxInt)
            /\ plain => \A n \in GetInt(s) \union GetUInt(s) : AsUInt(n) = AsUInt(spelt)

(* "JSONPARSER_EOVERFLOW : if number is out of range of C unsigned int     *)
(* type" does not hold: the integer part overflows unnoticed.              *)
OverflowRefused ==
    \A int \in DigitSeqs(4) \ {<<>>} : Spelt(int) > MaxUInt => GetUInt(int) = {}

=============================================================================
