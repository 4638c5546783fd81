CONSTANTS
    Unset = Unset
    Missing = Missing
    BuildVersion = "0.2.1-beta"
    Canonical <- CanonicalKey
    Sanitized <- SanitizedKey
    Envs <- AllEnvs
    Wire <- AllWire
    Patterns <- FourPatterns
    Now = 9
SPECIFICATION Spec
INVARIANT StatsAreStored
CHECK_DEADLOCK FALSE
