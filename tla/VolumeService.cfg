SPECIFICATION Spec
CONSTANTS
    None = None
    r1 = r1
    r2 = r2
    Requests = {r1, r2}
    CreateInputs <- Inputs
    Stored <- Earlier
    NameOrder <- TwoNames
    AepIds <- ValidIds
    Classes <- ClassNames
    ForeignLabels <- Strangers
    DefaultStorageClass = "fast"
    ClusterDefaultClass = "standard"
    DefaultAccessMode = "ReadWriteOnce"
    DefaultPageSize = 1
    MaxPageSizeLimit = 2
    PageSizes <- ListSizes
    MaxForeign = 1
    MaxClassChanges = 1
SYMMETRY Symmetry
INVARIANTS TypeOK AnswersAsAsked CreateAccounted NoFalseDelete NothingUnreachable ListingComplete
PROPERTIES ImplementsRepository
CHECK_DEADLOCK FALSE
