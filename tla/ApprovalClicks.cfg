SPECIFICATION MCSpec
CONSTANTS
    a1 = a1
    a2 = a2
    r1 = r1
    g1 = g1
    k1 = k1
    pd = pd
    og = og
    Approvers = {a1, a2}
    Rejecters = {r1}
    Resolvers = {g1}
    Rollbackers = {k1}
    ViaGroup = {a2}
    Providers = {pd, og}
    Reliable = {pd}
    MaxRounds = 1
INVARIANTS
    NothingLiveUnapproved
    ExecutingHasOwner
    AwaitingIsUntouched
    SuccessIsExplained
    IncidentsAreKnown
PROPERTIES
    ReopenedOnlyByStaleClick
    KeepsItsPromise
    EventuallySettles
CHECK_DEADLOCK FALSE
