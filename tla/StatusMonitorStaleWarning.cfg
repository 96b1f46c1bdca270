SPECIFICATION Spec
CONSTANTS
    v1 = v1
    None = None
    Instances = {v1}
    PvcStates <- TwoClaims
    MaxInFlight = 1
    PublishMaxAttempts = 2
    Workloads <- BindAndWarn
    MaxFailures = 0
    MaxSignals = 0
INVARIANT BoundNotFailed
CHECK_DEADLOCK FALSE
