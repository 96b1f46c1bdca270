SPECIFICATION Spec
CONSTANTS
    v1 = v1
    None = None
    Instances = {v1}
    PvcStates <- AllClaims
    MaxInFlight = 2
    PublishMaxAttempts = 2
    Workloads <- TwoChanges
    MaxFailures = 2
    MaxSignals = 1
INVARIANTS TypeOK SuppressedWasSent
PROPERTY SilentAfterStop
CHECK_DEADLOCK FALSE
