SPECIFICATION MCSpec
CONSTANTS
    MaxStarts = 2
    Files = {1, 2}
    Ids = {"a", "b"}
    Stem <- MCStem
    NoId = "none"
    MaxEdits = 3
    Fields = {"anthropic_api_key", "slack_bot_token"}
    MaxRotations = 2
    ApiKey = "anthropic_api_key"
    Agents = {"triage"}
    TTL = 2
    MaxFlight = 1
    MaxPings = 2
    MaxNow = 11
    MaxProposals = 2
    Sla <- MCSla
    CheckInterval = 1
    MaxCallback = 1
INVARIANT FollowsDirectory
CHECK_DEADLOCK FALSE
