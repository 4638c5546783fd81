CONSTANTS
    Traffic <- Mixed
    Reorder = 1
    MayLose = TRUE
    SourceSize = 1
    FlushTimeout = 1
    CloseTimeout = 1
    MaxPages = 100
    StartAnywhere = TRUE
    Verdicts <- AllPass
    Ignorefsmerr = TRUE
    Nooptcheck = TRUE
    Checksum = FALSE
    Word = 256
SPECIFICATION Spec
INVARIANTS
    EventIsOneCycle
    CycleReportedOnce
    StreamAccounting
    StopDrains
CHECK_DEADLOCK FALSE
