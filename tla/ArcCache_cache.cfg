CONSTANTS
    a = a
    b = b
    c = c
    d = d
    v1 = v1
    v2 = v2
    none = none
    Keys <- FourKeys
    Values <- TwoValues
    Capacity = 2
    Threshold = 2
    MaxFreq = 2
    MaxGhosts = 3
    None <- none
SPECIFICATION Spec
INVARIANT CapacityShared ListsMatch MinFreqIsLeast CopiesAgree
PROPERTY ImplementsLossyCache
SYMMETRY Symmetric
CHECK_DEADLOCK FALSE
