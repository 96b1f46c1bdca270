SPECIFICATION FairSpec
CONSTANTS
    v1 = v1
    None = None
    Instances = {v1}
    PvcStates <- TwoClaims
    MaxInFlight = 2
    PublishMaxAttempts = 2
    Workloads <- RecreateOrWarn
    MaxFailures = 2
    MaxSignals = 0
PROPERTIES StatusAcknowledged WarningAcknowledged DeletedIsLastWord
CHECK_DEADLOCK FALSE
