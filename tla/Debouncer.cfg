SPECIFICATION FairSpec
CONSTANTS
    i1 = i1
    i2 = i2
    e1 = e1
    Instances = {i1, i2}
    Events = {e1}
    MaxSubmits = 4
INVARIANTS TypeOK NewestNotLost PendingHasCallback AtMostOnce WgCountsInFlight
PROPERTIES QuietAfterReturn EventuallyDelivered StopReturns ImplementsCoalescer
