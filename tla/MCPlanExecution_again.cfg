SPECIFICATION Spec
CONSTANTS
    a = a
    b = b
    c = c
    d = d
    e = e
    Stages = {a, b, c, d, e}
    Ids = {a, b, c, d, e}
    Depends <- Cyclic
    Recompiled <- Acyclic
    Priority <- Uniform
    MaxParallel = 0
    SimpleRetries = 0
    FreshRetries = 1
    AllowSkip = TRUE
    OnDeadlock = {"replan", "skip", "fail"}
    PreCompleted = {c}
    Leftover <- Mixed
    MayAsk = {a, c}
    MayFail = {a, b, c, d}
    UserSignals = {"abort", "pause_wave", "abort_now"}
    LoopTimeouts = TRUE
    MaxSignals = 2
    MaxCalls = 3
CHECK_DEADLOCK FALSE
INVARIANTS
    ResultsHaveArtifacts
PROPERTIES
    ReturnedIsComplete
