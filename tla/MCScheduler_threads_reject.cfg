SPECIFICATION Spec
CONSTANTS
    Threads = {t1, t2, t3}
    Sweepers = {}
    Runs = {r1, r2, r3, r4}
    Sessions = {s1, s2}
    Tenants = {}
    TenantOf <- PlainTenant
    SlotsOf <- WideSlots
    KeyOf <- PlainKey
    SessionOf <- TwoSessions
    Cap = 2
    Policy = "reject"
    Limited <- NoLimits
    Quota <- NoQuota
    SoftTenants = {}
    MaxEnds = 1
    MaxLapses = 1
    MaxRollovers = 0
    NoRun = NoRun
    NoTenant = NoTenant
    NoKey = NoKey
    r1 = r1
    r2 = r2
    r3 = r3
    r4 = r4
    s1 = s1
    s2 = s2
    te1 = te1
    te2 = te2
    k1 = k1
CHECK_DEADLOCK FALSE
PROPERTIES
    ImplementsAdmission
