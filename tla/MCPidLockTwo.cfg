\* A release between another process's open and lockf.
CONSTANTS
    Procs = {p1, p2}
    Inodes = {i1, i2}
    None = None
    Garbage = Garbage
SPECIFICATION LockSpec
INVARIANTS
    AtMostOne
