SPECIFICATION Spec
CONSTANTS
    s1 = s1
    s2 = s2
    Sessions = {s1, s2}
    MaxVersion = 1
    SessionRetention = 1
    AuditRetention = 3
    MaxDay = 3
SYMMETRY SessionSymmetry
INVARIANT
    SessionsLeave
CHECK_DEADLOCK FALSE
