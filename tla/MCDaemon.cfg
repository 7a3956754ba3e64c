\* Two clients and three requests of four parts; the buffer holds a message and
\* all but the last part of another.
CONSTANTS
    Clients = {"a", "b"}
    Requests <- SmallRequests
    Sender <- SmallSender
    Method <- SmallMethod
    BadId = "bad"
    NoClient = "none"
    Capacity = 7
SPECIFICATION FairSpec
INVARIANTS
    RunOnce
    AnswersGoHome
    ValuesAreWhole
PROPERTIES
    RequestsEnd
\* The daemon is shut down, or dies of a null pointer.
CHECK_DEADLOCK FALSE
