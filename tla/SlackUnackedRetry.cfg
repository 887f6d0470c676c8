SPECIFICATION Spec
CONSTANTS
    e1 = e1
    p1 = p1
    p2 = p2
    Event <- OneEvent
    Process <- TwoProcesses
    Deployments <- LambdaOnly
    Capacity = 1
    MaxDeliveries = 2
    MaxKills = 1
    MaxRequeues = 0
    ClientResends = FALSE
CHECK_DEADLOCK FALSE
PROPERTIES
    DroppedOnlyIfTakenOn
