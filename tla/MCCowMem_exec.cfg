CONSTANTS
    Procs = {p1, p2}
    InitProc = p1
    NPAGES = 13
    MAXPAGES = 3
    TEXTPAGES = 1
    REGION = 3
    MAXREFS = 3
    CALLS = {"exec"}
    Vals = {v0}
    Zero = v0
    Junk = junk
    NULL = null
SPECIFICATION Spec
VIEW UpToRenaming
INVARIANT NoPanic
CHECK_DEADLOCK FALSE
