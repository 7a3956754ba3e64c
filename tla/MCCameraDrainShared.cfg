\* More frames than headers, from a camera another session keeps running.
CONSTANTS
    Buffers = {b1, b2}
    Frames = {f1, f2, f3}
    NoFrame = NoFrame
    SharedCamera = TRUE
SPECIFICATION Spec
INVARIANTS
    OneHolder
    PoolOpenUnderDrain
\* The process dies when it acknowledges through a null pointer.
CHECK_DEADLOCK FALSE
