CONSTANTS
    Traffic <- KeepAlive
    Reorder = 1
    MayLose = TRUE
    SourceSize = 1
    FlushTimeout = 1
    CloseTimeout = 1
    MaxPages = 100
    StartAnywhere = FALSE
    Verdicts <- AllPass
    Ignorefsmerr = TRUE
    Nooptcheck = TRUE
    Checksum = FALSE
    Word = 256
SPECIFICATION Spec
INVARIANTS
    EventIsOneCycle
CHECK_DEADLOCK FALSE
