SPECIFICATION Spec
CONSTANTS
    InitialBackoff = 1
    MaxBackoff = 3
    MaxLosses = 3
    MaxRequests = 1
    MaxEvents = 1
INVARIANT MonitorStoppedAtExit
CHECK_DEADLOCK FALSE
