SPECIFICATION FairSpec
CONSTANTS
    a = a
    b = b
    c = c
    d = d
    e = e
    Stages = {a, b, c, d}
    Ids = {a, b, c, d, e}
    Depends <- Diamond
    Recompiled <- Diamond
    Priority <- Ranked
    MaxParallel = 1
    SimpleRetries = 1
    FreshRetries = 1
    AllowSkip = FALSE
    OnDeadlock = {}
    PreCompleted = {}
    Leftover <- Nothing
    MayAsk = {a, b, c}
    MayFail = {b, c}
    UserSignals = {"pause_wave", "pause_stage", "abort", "abort_now"}
    LoopTimeouts = FALSE
    MaxSignals = 3
    MaxCalls = 1
CHECK_DEADLOCK FALSE
INVARIANTS InputsExist SuccessesReported NoPeerOutlives
PROPERTIES OneTaskPerStage PlanEnds ImplementsDagRun
