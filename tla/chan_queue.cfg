SPECIFICATION FairSpec
CONSTANTS
    N = 3
    MaxQueue = 2
    MaxDeliveries = 1
    MaxFaults = 0
    MaxCrashes = 1
    MaxReloads = 0
    MaxDirects = 1
    MaxTakeOvers = 1
    HandlersOverlapAttach = FALSE
INVARIANTS OneTurnAtATime
PROPERTIES  WaitingEnds
CHECK_DEADLOCK FALSE
