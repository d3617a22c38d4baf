SPECIFICATION MCSpec
CONSTANTS
    k1 = k1
    k2 = k2
    a1 = a1
    a2 = a2
    a3 = a3
    Keys = {k1, k2}
    Capacity = 4
    Cost = 2
    CleanupInterval = 2
    MaxTime = 8
    Endpoint = k1
    Actions = {a1, a2, a3}
    MaxSeen = 2
    MaxReading = 2
SYMMETRY ActionSymmetry
INVARIANTS
    WithinRate
    HandledOnce
PROPERTY AnswersLikeIdeal
CHECK_DEADLOCK FALSE
