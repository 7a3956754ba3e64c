------------------------------- MODULE NalScan -------------------------------
(***************************************************************************)
(* How RtpComponent cuts the encoder's output into NAL units               *)
(* (omx/preview_component.cpp, copyOneNAL).  An octet is 0, 1 or 2, which  *)
(* stands for every other value; a position is the number of octets before *)
(* it, as the code's pointers count.                                       *)
(***************************************************************************)
EXTENDS Naturals, Sequences, FiniteSetsExt, SequencesExt

CONSTANT MaxOctets  \* bound: the data UnitsCut looks at

ASSUME ScanAssumption == MaxOctets \in Nat

(* is_nal_prefix(): the size of the start code at position j, 0 for none. *)
(* It is asked only where four octets are left.                            *)
PrefixSize(d, j) ==
    CASE SubSeq(d, j + 1, j + 4) = <<0, 0, 0, 1>> -> 4
      [] SubSeq(d, j + 1, j + 3) = <<0, 0, 1>>    -> 3
      [] OTHER                                    -> 0

(* MUTANT: a word that ends in 0 is copied whole.                          *)
StrideOfFour(d, j) == IF Len(d) - j < 4 THEN 1 ELSE 4

(* How far the scan goes on after a word that is not a start code: by one  *)
(* octet if its last one may begin a start code.                           *)
Stride(d, j) == IF Len(d) - j < 4 \/ d[j + 4] = 0 THEN 1 ELSE 4

(* Where the unit that begins at position s ends: at the next start code   *)
(* the scan meets, or with the data.                                       *)
UnitEnd(d, s) ==
    LET end[j \in s..Len(d)] ==
            IF j = Len(d) \/ (Len(d) - j >= 4 /\ PrefixSize(d, j) > 0)
            THEN j
            ELSE end[j + Stride(d, j)]
    IN  end[s]

(* copyOneNAL(): skip to a start code, and copy what follows it.  Data     *)
(* without a start code is skipped, and makes an empty unit.               *)
CopyOneNAL(d) ==
    LET codes == {j \in 0..(Len(d) - 4) : PrefixSize(d, j) > 0}
        first == Min(codes)
        begin == first + PrefixSize(d, first)
        end == UnitEnd(d, begin)
    IN  IF Len(d) < 4 \/ codes = {}
        THEN [scanned |-> Len(d), begin |-> Len(d), unit |-> <<>>]
        ELSE [scanned |-> end, begin |-> begin, unit |-> SubSeq(d, begin + 1, end)]

-----------------------------------------------------------------------------
(* The units of a buffer, as [begin, end) in it, one call after another.   *)
UnitsOf(d) ==
    LET from[p \in 0..Len(d)] ==
            IF p = Len(d) THEN <<>>
            ELSE LET got == CopyOneNAL(SubSeq(d, p + 1, Len(d)))
                 IN  <<<<p + got.begin, p + got.scanned>>>> \o from[p + got.scanned]
    IN  from[0]

LongCodes(d) == {j \in 0..(Len(d) - 4) : PrefixSize(d, j) = 4}
ShortCodes(d) == {j \in 0..(Len(d) - 4) : PrefixSize(d, j) = 3}

(* Where the cuts are: units end at the start code behind which the next   *)
(* one begins, or with the data; behind every start code of four octets    *)
(* one begins, and data with these alone is cut nowhere else.  A start     *)
(* code of three octets may be taken for data of the unit it is in.        *)
WellCut(d) ==
    LET u == UnitsOf(d)
        begins == {u[i][1] : i \in DOMAIN u}
        long == {j + 4 : j \in LongCodes(d)}
    IN  LongCodes(d) \union ShortCodes(d) # {} =>
            /\ Last(u)[2] = Len(d)
            /\ \A i \in 1..(Len(u) - 1) :
                   PrefixSize(d, u[i][2]) = u[i + 1][1] - u[i][2]
            /\ long \subseteq begins
            /\ begins \ long \subseteq {j + 3 : j \in ShortCodes(d)}
            /\ (\A j \in ShortCodes(d) : j > 0 /\ d[j] = 0) => begins = long

UnitsCut == \A n \in 4..MaxOctets : \A d \in [1..n -> 0..2] : WellCut(d)

=============================================================================
