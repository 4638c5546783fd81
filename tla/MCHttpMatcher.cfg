CONSTANTS
    Keys = {k1, k2, k3}
    MaxPerKey = 4
SPECIFICATION Spec
SYMMETRY KeySymmetry
INVARIANTS
    TypeOK
    PairedTwoByTwo
    WaitingIsTheOddOne
    CompleteWhenAlternating
CHECK_DEADLOCK FALSE
