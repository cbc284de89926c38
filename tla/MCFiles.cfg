CONSTANTS
    NPROC = 3
    NPIPE = 1
    NOFILE = 2
    NFILE = 2
    PIPESIZE = 1
    WORD = 3
    BUFS <- MCBufs
    READS = {1}
    VICTIMS = {3}
SPECIFICATION Spec
VIEW UpToStaleBytes
INVARIANTS Family  PipeLifetime NoLostWakeup
 
CHECK_DEADLOCK FALSE
