\* Three threads over two buffers: a thread can sleep while another releases
\* and a third barges in.
CONSTANTS
    Buffers = {b1, b2}
    Threads = {t1, t2, t3}
SPECIFICATION FairSpec
INVARIANTS
    Conservation
    NoLostWakeup
PROPERTIES
    InterruptWakesAll
    Refines
