SPECIFICATION Spec
CONSTANTS
    a = a
    b = b
    c = c
    d = d
    e = e
    Stages = {a, b, c}
    Ids = {a, b, c, d, e}
    Depends <- Join
    Recompiled <- Join
    Priority <- Uniform
    MaxParallel = 0
    SimpleRetries = 0
    FreshRetries = 0
    AllowSkip = FALSE
    OnDeadlock = {}
    PreCompleted = {}
    Leftover <- Nothing
    MayAsk = {}
    MayFail = {a}
    UserSignals = {}
    LoopTimeouts = FALSE
    MaxSignals = 0
    MaxCalls = 1
CHECK_DEADLOCK FALSE
INVARIANT RaisesStageError
