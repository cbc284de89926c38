CONSTANTS
    Procs = {p1, p2}
    BLOCKS = {k1, k2, k3, k4}
    STORED = {k1}
    NBUF = 3
    NUM = 6
    WORD = 6
    MAXPIN = 1
SPECIFICATION Spec
SYMMETRY Sym
INVARIANTS CacheSound ReadsLatest ChainsDisjoint 
CHECK_DEADLOCK FALSE
