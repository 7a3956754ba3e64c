\* Three components: two may leak before start() can no longer get one.
CONSTANTS
    Handles = {e1, e2, e3}
    None = None
SPECIFICATION FairSpec
INVARIANTS
    StoppedIsClean
    HandlesAccounted
    QuiescentTeardown
PROPERTIES
    StartReturns
\* The process may crash, and ends when the session is destroyed.
CHECK_DEADLOCK FALSE
