SPECIFICATION Spec
CONSTANTS
    Agents = {a, b, c, ghost}
    Kinds = {x, y, z}
    None = none
    Declared <- Keys
    Declarations <- Maps
    Core = {c, ghost}
    Required = {}
    Sorted <- ById
    SetOrders <- Orders
    Evaluators = {a, c}
    MaxEval = 1
    Requests <- Asked
    Normalizers <- Uses
    MaxRecoveries = 1
    a = a
    b = b
    c = c
    ghost = ghost
    x = x
    y = y
    z = z
CHECK_DEADLOCK FALSE
INVARIANTS
    CycleCheckIsExact
    ClosureIsLeast
    PlanIsLinked
    PlanCanRun
    RecoveryKeepsWork
