SPECIFICATION Spec
CONSTANTS
    Sub = {s1}
    Event = {e1, e2}
    Worker = {w1, w2}
    Nobody = Nobody
    NoJob = NoJob
    MaxPublish = 1
    MaxRetries = 0
    MaxFaults = 1
    MaxCrashes = 1
INVARIANTS TypeOK OneRequestPerSubscription SentMeansReceived
PROPERTIES FinishedStays DeletedGetsNoRequest
SYMMETRY WorkersAndEvents
