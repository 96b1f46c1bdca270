SPECIFICATION FairSpec
CONSTANTS
    None = None
    r1 = r1
    r2 = r2
    Requests = {r1, r2}
    Calls <- TestCalls
    RawRequests <- TestRequests
    AepIds <- Ids
    OpenApiCapacity <- Capacities
    DefaultStorageClass = ""
    ClusterDefaultClass = "standard"
    DefaultAccessMode = ""
    RequestTimeout = 30
INVARIANTS TypeOK AnswersWellFormed LoggedAsSent AcceptedIsReachable ClientDecodes
PROPERTIES EveryRequestEnds
CHECK_DEADLOCK FALSE
