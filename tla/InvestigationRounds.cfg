SPECIFICATION MCSpec
CONSTANTS
    MaxToolRounds = 25
    MaxEnforcementRounds = 3
    Domains = {"pod", "network"}
    Route = "pod"
    Requirements <- MCRequirements
    TokenBudget = 6
    MaxUsage = 2
    Verification = TRUE
    Closings = 2
    PruneAbove = 20
    KeepStart = 4
    KeepEnd = 8
INVARIANTS
    NeverLeftInvestigating
    OvershootsByOneCall
    ToolsOrThreeWarnings
    ReviewedOrRevised
    CleanHandOver
    TakesTurns
    BoundedContext
    OnlyTheCutDangles
PROPERTIES
    ReopenedOnlyByAnswer
    Terminates
CHECK_DEADLOCK FALSE
