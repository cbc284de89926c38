CONSTANTS
    NBLOCKS = 6
    NINODES = 4
    NINODE = 4
    BSIZE = 2
    NDIRECT = 1
    NINDIRECT = 1
    NPROC = 2
    NFILE = 1
    CALLS <- MCCalls
    DATA <- MCData
SPECIFICATION Spec
VIEW UpToBlocks
INVARIANTS  RefsExact CacheSound BlocksExact NamesCounted
PROPERTY FreedWhenUnused
