SPECIFICATION FairSpec
CONSTANTS
    N = 3
    MaxConcurrency = 2
    MaxFaults = 0
    MaxCrashes = 1
    ServeDuringRecovery = FALSE
PROPERTIES   EveryOrchestrationEnds
