\* Two headers in circulation, data beyond them, several sessions.
CONSTANTS
    Headers = {h1, h2}
    NoHeader = NoHeader
    MaxData = 3
SPECIFICATION FairSpec
INVARIANTS
    NothingLost
    OneOwner
PROPERTIES
    CloseEnds
\* The process may die of a pointer into memory that stop() has freed.
CHECK_DEADLOCK FALSE
