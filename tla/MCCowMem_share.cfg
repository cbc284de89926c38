CONSTANTS
    Procs = {p1, p2}
    InitProc = p1
    NPAGES = 9
    MAXPAGES = 2
    TEXTPAGES = 0
    REGION = 1
    MAXREFS = 3
    CALLS = {"copyout", "sbrk"}
    Vals = {v0, v1}
    Zero = v0
    Junk = junk
    NULL = null
SPECIFICATION Spec
VIEW UpToRenaming
INVARIANTS NoDangling NoSharedWritable
PROPERTY CowIsCopy
CHECK_DEADLOCK FALSE
