SPECIFICATION FairSpec
CONSTANTS
    Sub = {s1}
    Event = {e1, e2}
    Worker = {w1}
    Nobody = Nobody
    NoJob = NoJob
    MaxPublish = 1
    MaxRetries = 1
    MaxFaults = 1
    MaxCrashes = 0
PROPERTY EventuallySettled
