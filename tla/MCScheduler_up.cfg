CONSTANTS
    CPUs = {c0}
    Boot = c0
    NPROC = 2
    MAXTICKS = 2
    NEWPRIOS = {10}
SPECIFICATION FairSpec
 
PROPERTY WorkConserving
CHECK_DEADLOCK FALSE
