SPECIFICATION Spec
CONSTANTS
    Key <- MCKey
    Hash <- MCHash
    Slot <- MCSlot
    W = 2
    InitialExp = 0
    MinFill = 2
    ForceRatio = 2
    EmptyVisits = 1
    Bits = 1
    FreeEmpty = TRUE
    Client = {c1}
    CronDicts = 2
    Batch = 1
    ExpandTo = {4}
    Served = {0}
    MaxCount = 4
    WalkAlone = TRUE
    Memory = {TRUE}
    OnlyDict <- MCOnlyDict
INVARIANT NonEmptyExact
