SPECIFICATION FairSpec
CONSTANTS
    v1 = v1
    None = None
    Instances = {v1}
    PvcStates <- TwoClaims
    MaxInFlight = 2
    PublishMaxAttempts = 2
    Workloads <- ThreeChanges
    MaxFailures = 1
    MaxSignals = 0
PROPERTY GoneIsDeleted
CHECK_DEADLOCK FALSE
