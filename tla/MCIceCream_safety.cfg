CONSTANTS
    k1 = k1
    k2 = k2
    k3 = k3
    k4 = k4
    NMACHINES = 2
    K = 2
    MStart <- MCStart
    MEnd <- MCEnd
    Customers = {k1, k2, k3, k4}
    Arrival <- MCArrival
    Orders <- MCOrders
    Prep <- MCPrep
SPECIFICATION FairSpec
INVARIANT SemaphoresAddUp
PROPERTY CustomersSettle
CHECK_DEADLOCK FALSE
