CONSTANTS
    ChannelBufferSize = 1
    MaxEvents = 2
    MaxStats = 1
SPECIFICATION FairSpec
PROPERTY ShutdownCompletes
CHECK_DEADLOCK FALSE
