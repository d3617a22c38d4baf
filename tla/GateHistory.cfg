SPECIFICATION MCSpec
CONSTANTS
    user = user
    senior = senior
    s1 = s1
    s2 = s2
    c1 = c1
    c2 = c2
    Users = {user, senior}
    Policies <- MCPolicies
    Fixes <- MCFixes
    Summaries <- MCSummaries
    Summary <- MCSummary
    Matches <- MCMatches
    Sessions = {s1, s2}
    Clicks = {c1, c2}
    Earlier <- MCEarlier
    MaxTotal = 2
SYMMETRY Symmetric
INVARIANTS
    TypeOK
    RunByEntitled
    RefusedWithReason
    NoWayBack
CHECK_DEADLOCK FALSE
