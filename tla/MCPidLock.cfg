\* Daemons that start, find each other, terminate and die; the path is
\* unlinked and the file created again.
CONSTANTS
    Procs = {p1, p2, p3}
    Inodes = {i1, i2}
    None = None
    Garbage = Garbage
SPECIFICATION LockFairSpec
INVARIANTS
    AtMostOneIfKept
