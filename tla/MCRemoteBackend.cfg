CONSTANTS
    a = a
    b = b
    c = c
    big = big
    k = k
    Replicas = {p, q, t}
    Runs <- MCRuns
    Slots <- MCSlots
    KeyOf <- MCKeys
    NoKey = NoKey
    Cap = 3
    Policies = {"fifo", "reject"}
    MaxCrashes = 1
    Nobody = Nobody
SPECIFICATION Spec
CHECK_DEADLOCK FALSE
INVARIANTS
    SlotsHaveRuns
