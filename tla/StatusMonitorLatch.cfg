SPECIFICATION Spec
CONSTANTS
    v1 = v1
    None = None
    Instances = {v1}
    PvcStates <- TwoClaims
    MaxInFlight = 2
    PublishMaxAttempts = 2
    Workloads <- CreateAndWarn
    MaxFailures = 0
    MaxSignals = 0
INVARIANT FailureNotDowngraded
CHECK_DEADLOCK FALSE
