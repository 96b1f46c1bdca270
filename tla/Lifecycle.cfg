SPECIFICATION FairSpec
CONSTANTS
    InitialBackoff = 1
    MaxBackoff = 3
    MaxLosses = 3
    MaxRequests = 1
    MaxEvents = 1
INVARIANTS TypeOK ExponentialBackoff BackgroundAfterReady CleanExitDrained FailFast
PROPERTIES EndsOnce SignalEnds ServeFailureEnds RegistrationSettles
CHECK_DEADLOCK FALSE
