CONSTANTS
    Customers = {k1, k2, k3}
    NBARISTAS = 2
    ARRIVALS = {0, 1}
    TOLERANCES = {0, 2}
    PREPTIMES = {1, 2}
    SLIP = 1
SPECIFICATION FairSpec
INVARIANTS OneOrderAtATime 
PROPERTY EveryoneIsServed
CHECK_DEADLOCK FALSE
