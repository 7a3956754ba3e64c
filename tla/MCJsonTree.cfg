\* Five texts, one of them malformed, trees of up to six heap blocks, paths of
\* up to two segments; all numbers of up to four digits before the point and
\* two behind it, with ints of 4 bits and a long long of 9, which the integer
\* part overflows from its third digit on.
CONSTANTS
    MaxUInt = 15
    MaxLong = 255
    Texts <- SmallTexts
    Leaves <- SmallLeaves
    Keys <- SmallKeys
    MaxPos = 1
    MaxNodes = 6
SPECIFICATION Spec
INVARIANTS
    RoundTrip
    LookupsAgree
    HeapAccounted
    
\* A tree that lost entries may leave no room to go on: MaxNodes bounds all.
CHECK_DEADLOCK FALSE
