CONSTANTS
    Procs = {p1, p2}
    Blocks = {b1, b2, b3, b4, b5}
    Vals = {v1}
    MAXOPBLOCKS = 3
    LOGSIZE = 6
    NLOG = 6
    OPBLOCKS = 1
SPECIFICATION FairSpec
INVARIANT NoPanic
PROPERTY CallsFinish
