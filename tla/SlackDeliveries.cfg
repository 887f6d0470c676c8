SPECIFICATION FairSpec
CONSTANTS
    e1 = e1
    p1 = p1
    p2 = p2
    Event <- OneEvent
    Process <- TwoProcesses
    Deployments <- Deployment
    Capacity = 1
    MaxDeliveries = 3
    MaxKills = 1
    MaxRequeues = 1
    ClientResends = TRUE
CHECK_DEADLOCK FALSE
INVARIANTS
    TypeOK
    AtMostOnce
PROPERTIES
    DropIsExplained
    EveryArrivalRuns
