\* Two scaled frames, one of which can be lost; a queue in which more than the
\* two frames of a former size that may remain would fit.
SPECIFICATION FairSpec
CONSTANTS
    PoolSize = 2
    MaxPending = 2
INVARIANTS
    QueueServed
    WakeupPending
    PlayingHasWorker
    DownIsStill
PROPERTIES
    StopReturns
\* The process may crash.
CHECK_DEADLOCK FALSE
