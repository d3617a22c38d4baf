SPECIFICATION Spec
CONSTANTS
    s1 = s1
    s2 = s2
    Sessions = {s1, s2}
    MaxVersion = 1
    SessionRetention = 1
    AuditRetention = 2
    MaxDay = 4
SYMMETRY SessionSymmetry
INVARIANTS
    AuditedWasWritten
    StaleOnlyByOverlap
    NoneOutlivesItsAudit
CHECK_DEADLOCK FALSE
