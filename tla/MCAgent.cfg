CONSTANTS
    Traffic <- Twice
    Reorder = 0
    MayLose = FALSE
    SourceSize = 2
    FlushTimeout = 1
    CloseTimeout = 2
    MaxPages = 100
    StartAnywhere = FALSE
    Verdicts <- AllPass
    Ignorefsmerr = TRUE
    Nooptcheck = TRUE
    Checksum = FALSE
    Word = 256
    ChannelBufferSize = 1
    MaxEvents = 4
    MaxStats = 1
SPECIFICATION AgentFairSpec
INVARIANTS
    AgentTypeOK
    EveryMatchSentOnce
    ExportedInRequestOrder
    ForgottenAtExit
PROPERTIES
    AssemblerComesBack
    CapturedIsExported
CHECK_DEADLOCK FALSE
