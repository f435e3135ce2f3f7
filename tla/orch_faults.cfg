SPECIFICATION Spec
CONSTANTS
    N = 3
    MaxConcurrency = 2
    MaxFaults = 1
    MaxCrashes = 1
    ServeDuringRecovery = TRUE
INVARIANTS TypeOK AtMostOncePerFault ConcurrencyBound
