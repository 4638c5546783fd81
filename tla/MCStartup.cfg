CONSTANTS
    Unset = Unset
    Missing = Missing
    BuildVersion = "0.2.1-beta"
    Canonical <- CanonicalKey
    Sanitized <- SanitizedKey
    Envs <- AllEnvs
    Wire <- AllWire
    Patterns <- FourPatterns
    Now = 9
SPECIFICATION FairSpec
INVARIANTS
    EventsNeedVerifiedKey
    IndexIsComplete
    HandlersAgree
    OnlyWhatIsConfigured
    TraceIsContinued
PROPERTY StartupEnds
CHECK_DEADLOCK FALSE
