CONSTANTS
    ChannelBufferSize = 2
    MaxEvents = 5
    MaxStats = 1
SPECIFICATION FairSpec
INVARIANTS
    TypeOK
    InOrderOnce
    WaitGroupCountsServices
    LossAtExitBounded
    HaltsOnlyAtExitOrStuck
PROPERTIES
    DeliversAsPromised
    NothingSentAfterClose
    StuckForever
    EveryEventHandled
    ShutdownCompletesUnlessStuck
CHECK_DEADLOCK FALSE
