SPECIFICATION Spec
CONSTANTS
    v1 = v1
    None = None
    Instances = {v1}
    PvcStates <- ResizeClaims
    MaxInFlight = 1
    PublishMaxAttempts = 2
    Workloads <- FourChanges
    MaxFailures = 0
    MaxSignals = 0
PROPERTY LastStatusInWindow
CHECK_DEADLOCK FALSE
