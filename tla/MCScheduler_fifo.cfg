SPECIFICATION Spec
CONSTANTS
    Threads = {t1}
    Sweepers = {t1}
    Runs = {r1, r2, r3, r4}
    Sessions = {s1, s2}
    Tenants = {te1}
    TenantOf <- OneTenant
    SlotsOf <- WideSlots
    KeyOf <- SharedKey
    SessionOf <- TwoSessions
    Cap = 2
    Policy = "fifo"
    Limited <- HardLimits
    Quota <- RoomyQuota
    SoftTenants = {te1}
    MaxEnds = 2
    MaxLapses = 1
    MaxRollovers = 1
    NoRun = NoRun
    NoTenant = NoTenant
    NoKey = NoKey
    r1 = r1
    r2 = r2
    r3 = r3
    r4 = r4
    s1 = s1
    s2 = s2
    te1 = te1
    te2 = te2
    k1 = k1
CHECK_DEADLOCK FALSE
INVARIANTS
    Accounting
    QuotaAccounting
    RejectedLeavesNothing
    OneLiveRunPerKey
