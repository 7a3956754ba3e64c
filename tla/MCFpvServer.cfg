\* Two headers, two streams and a trigger for one of them; all sequences
\* of up to eight octets for the cutting into units.
CONSTANTS
    Headers = {h1, h2}
    NoHeader = NoHeader
    Contents <- SmallContents
    MaxOctets = 8
    MaxTriggers = 2
    MaxRequests = 2
    MaxStreams = 2
SPECIFICATION FairSpec
INVARIANTS
    UnitsWellCut
    DataSignalled
    SleeperWoken
PROPERTIES
    HeadersGoRound
    SessionPublished
    ServerStops
\* A server that was stopped after the last request of the bound is the end.
CHECK_DEADLOCK FALSE
