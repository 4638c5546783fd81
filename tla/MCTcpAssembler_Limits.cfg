CONSTANTS
    Traffic <- Twice
    Reorder = 1
    MayLose = TRUE
    SourceSize = 1
    FlushTimeout = 1
    CloseTimeout = 2
    MaxPages = 2
    StartAnywhere = FALSE
    Verdicts <- AnyVerdict
    Ignorefsmerr = FALSE
    Nooptcheck = FALSE
    Checksum = TRUE
    Word = 256
SPECIFICATION FairSpec
INVARIANTS
    RejectAccounting
    PagesBounded
PROPERTIES
    BufferedIsFlushed
    SilentStreamsLeave
    ClosedOnlyWhenIdle
CHECK_DEADLOCK FALSE
