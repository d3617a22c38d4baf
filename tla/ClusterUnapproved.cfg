SPECIFICATION Spec
CONSTANTS
    Fields <- MCFields
    MaxValue = 2
    Required = {"image"}
    Restarted = "restartedAt"
    Initial <- MCInitial
    Scales = {2}
    SafetyLimit = 100
    Names = {"cm"}
    MaxLive = 2
    MaxOthers = 0
    MaxClicks = 0
INVARIANT ChangesAreApproved
CHECK_DEADLOCK FALSE
