CONSTANTS
    s = s
    w = w
    r = r
    Agents <- MCAgents
    Needs <- MCNeeds
    Core <- MCCore
    Routes <- MCRoutes
    Policies = {"start", "patch"}
    MayDeny = TRUE
    MayFail = {w}
    MayBeLow = {s}
    UserSignals = {"pause", "abort", "abort_now"}
    MaxSignals = 1
    MaxPlans = 4
    MaxIterations = 3
    DoublePass = {TRUE, FALSE}
    Verifiers = {"default", "custom"}
    Gated = TRUE
    Named = {r}
    MaxUserPlans = 1
SPECIFICATION FairSpec
CHECK_DEADLOCK FALSE
INVARIANTS
    RejectedNeverRuns
    StoreFollowsPlan
    ReplanKeepsWork
    SuccessIsEarned
PROPERTIES
    RoundsBuildOnEachOther
    LoopEnds
