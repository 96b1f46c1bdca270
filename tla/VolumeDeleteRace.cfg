SPECIFICATION Spec
CONSTANTS
    None = None
    r1 = r1
    r2 = r2
    Requests = {r1, r2}
    CreateInputs <- PlainOnly
    Stored <- PlainFirst
    NameOrder <- TwoNames
    AepIds <- ValidIds
    Classes <- ClassNames
    ForeignLabels <- Unlabelled
    DefaultStorageClass = "fast"
    ClusterDefaultClass = "standard"
    DefaultAccessMode = "ReadWriteOnce"
    DefaultPageSize = 1
    MaxPageSizeLimit = 2
    PageSizes <- ZeroSize
    MaxForeign = 1
    MaxClassChanges = 0
PROPERTY DeletesOwnOnly
CHECK_DEADLOCK FALSE
