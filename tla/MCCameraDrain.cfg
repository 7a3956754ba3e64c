\* As many frames as headers, and a camera of the session's own.
CONSTANTS
    Buffers = {b1, b2}
    Frames = {f1, f2}
    NoFrame = NoFrame
    SharedCamera = FALSE
SPECIFICATION FairSpec
INVARIANTS
    RefsAccounted
    NeverStarved
    AckFindsDrain
PROPERTIES
    FrameComesBack
    StopCompletes
