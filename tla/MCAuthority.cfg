CONSTANTS
    worker = worker
    helper = helper
    search = search
    edit = edit
    raw = raw
    out = out
    wiki = wiki
    Agents = {worker, helper}
    Tools = {search}
    Kinds = {raw, out}
    Bases = {wiki}
    RowsOf <- MCRows
    DataGrants <- MCGrants
    Requests <- MCRequests
    Threads = {p, q}
    Operators = {x, y}
    MaxChanges = 2
    Stores = {"memory", "pg"}
    None = None
SYMMETRY Sym
SPECIFICATION Spec
CHECK_DEADLOCK FALSE
INVARIANTS
    CacheIsFresh
    AccessIsExact
    ProducerIsRegistered
