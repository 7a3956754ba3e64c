------------------------------- MODULE JsonScan -------------------------------
(***************************************************************************)
(* The scanner of the JSON parser (json/js.c): where a value begins and    *)
(* ends.                                                                   *)
(*                                                                         *)
(* A text is a sequence of characters; a keyword is one character.  Ids    *)
(* are positions in the text, from 0 as in the code, and an id may be      *)
(* Error or ENoMore, which like the code's are larger than every position. *)
(* \u escapes are left out, and so are reads outside of the text, of which *)
(* the code makes some at the end of a text that is cut short.             *)
(***************************************************************************)
EXTENDS Integers, Sequences, FiniteSetsExt, SequencesExt

Error == 10000
ENoMore == 10001

Quote == "\""
Backslash == "\\"
Digits == {"0", "1", "9"}
Letters == {"a", "e", "n"}
Keywords == {"true", "false", "null"}
Word == Digits \union Letters \union Keywords \union {"-", "."}
Spaces == {" ", "<nl>"}
Opening == {"{", "["}
Closing == {"}", "]"}
Characters == Word \union Spaces \union Opening \union Closing
                  \union {Quote, Backslash, ":", ","}

At(s, i) == s[i + 1]

-----------------------------------------------------------------------------
(* scanning *)

(* MUTANT: a backslash hides nothing.                                      *)
EscapedPlain(s, k) == 1

(* A backslash hides the character after it.                               *)
Escaped(s, k) == IF At(s, k) = Backslash THEN 2 ELSE 1

(* Behind the string at i; beyond the end if it is not closed.             *)
SkipString(s, i) ==
    LET end[k \in (i + 1)..(Len(s) + 1)] ==
            IF k >= Len(s) \/ At(s, k) = Quote THEN k + 1 ELSE end[k + Escaped(s, k)]
    IN  end[i + 1]

SkipWord(s, i) == Min({k \in (i + 1)..Len(s) : k = Len(s) \/ At(s, k) \notin Word})

SkipSpace(s, i) ==
    IF i >= Len(s) THEN i
    ELSE Min({k \in i..Len(s) : k = Len(s) \/ At(s, k) \notin Spaces})

(* Behind the string, word, bracket or separator at k.                     *)
TokenEnd(s, k) ==
    CASE At(s, k) = Quote -> SkipString(s, k)
      [] At(s, k) \in Word -> SkipWord(s, k)
      [] OTHER -> k + 1

Deeper(c, lvl) ==
    CASE c \in Opening -> lvl + 1
      [] c \in Closing -> lvl - 1
      [] OTHER -> lvl

(* Behind the value or separator at i and the space after it; the end of   *)
(* the text when it ends before the value does.                            *)
Skip(s, i) ==
    LET n == Len(s)
        go[k \in i..(n + 2)] == [lvl \in Int |->
            IF k > i /\ lvl <= 0 THEN k
            ELSE IF k >= n THEN n
            ELSE IF At(s, k) \in Word \union Opening \union Closing \union {Quote, ":", ","}
                 THEN go[SkipSpace(s, TokenEnd(s, k))][Deeper(At(s, k), lvl)]
                 ELSE Error]
    IN  IF i >= n THEN n ELSE go[i][0]

(* JSONParser_GetJSON(): the text of the value at i, without the space     *)
(* behind it.                                                              *)
GetJSON(s, i) ==
    LET end == Skip(s, i)
        last == Max({k \in i..Len(s) : k = i \/ (k <= end /\ At(s, k - 1) \notin Spaces)})
    IN  IF i < end /\ end <= Len(s) THEN {SubSeq(s, i + 1, last)} ELSE {}

GetType(s, i) ==
    IF i >= Len(s) THEN "error"
    ELSE LET c == At(s, i)
         IN  CASE c = Quote -> "string"
               [] c = "[" -> "array"
               [] c = "{" -> "object"
               [] c \in {"null", "n"} -> "null"
               [] c \in {"true", "false"} -> "bool"
               [] c \in Digits \union {"-"} -> "number"
               [] OTHER -> "unknown"

-----------------------------------------------------------------------------
(* facts about the scanner *)

(* Reading a character: in a string, behind a backslash, in how many       *)
(* brackets.                                                               *)
ReadChar(st, c) ==
    IF st.escaped THEN [st EXCEPT !.escaped = FALSE]
    ELSE CASE st.string /\ c = Backslash  -> [st EXCEPT !.escaped = TRUE]
           [] c = Quote                   -> [st EXCEPT !.string = ~@]
           [] ~st.string /\ c \in Opening -> [st EXCEPT !.depth = @ + 1]
           [] ~st.string /\ c \in Closing -> [st EXCEPT !.depth = @ - 1]
           [] OTHER                       -> st

AtStart == [string |-> FALSE, escaped |-> FALSE, depth |-> 0]

Reading(s) ==
    LET read[k \in 0..Len(s)] == IF k = 0 THEN AtStart ELSE ReadChar(read[k - 1], s[k])
    IN  read

(* A value that ends before the text does is whole: its strings are closed *)
(* and, if it begins with a bracket, that is closed with its last solid    *)
(* character.                                                              *)
EndIsWhole(s) ==
    LET end == Skip(s, 0)
        last == Max({k \in 0..Len(s) : k = 0 \/ (k <= end /\ At(s, k - 1) \notin Spaces)})
    IN  end < Len(s) =>
            /\ ~Reading(s)[end].string
            /\ Head(s) \in Opening =>
                   Reading(s)[last].depth = 0 /\ Reading(s)[last - 1].depth > 0

=============================================================================
