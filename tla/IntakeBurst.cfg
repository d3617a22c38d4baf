SPECIFICATION Spec
CONSTANTS
    f1 = f1
    f2 = f2
    none = none
    Alerts = {f1, f2, none}
    Anonymous = {none}
    Limit = 2
    MultiAgent = TRUE
    Burst = 2
    MaxSessions = 4
SYMMETRY FingerprintSymmetry
INVARIANTS
    DuplicatesOnlyInBurst
    LimitExceededOnlyByBurst
    LeftBehindOnlyByFallback
CHECK_DEADLOCK FALSE
