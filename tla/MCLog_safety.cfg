CONSTANTS
    Procs = {p1, p2}
    Blocks = {b1, b2, b3}
    Vals = {v1, v2}
    MAXOPBLOCKS = 3
    LOGSIZE = 6
    NLOG = 6
    OPBLOCKS = 2
SPECIFICATION Spec
SYMMETRY Symm
INVARIANTS
    NoLostWakeup
    QuietIsDurable
PROPERTY CrashAtomic
