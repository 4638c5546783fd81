CONSTANTS
    Keys = {k1, k2}
    MaxPerKey = 3
SPECIFICATION Spec
INVARIANT MatchContainsBoth
CHECK_DEADLOCK FALSE
