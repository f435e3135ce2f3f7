SPECIFICATION Spec
CONSTANTS
    N = 2
    MaxQueue = 2
    MaxDeliveries = 2
    MaxFaults = 2
    MaxCrashes = 1
    MaxReloads = 1
    MaxDirects = 0
    MaxTakeOvers = 1
    HandlersOverlapAttach = FALSE
INVARIANTS TypeOK  
CHECK_DEADLOCK FALSE
