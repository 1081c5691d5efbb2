CONSTANTS
    None = None
    Stray = Stray
    Callers = {c1, c2}
    Apps = {a1, a2}
    ModSchema = ModSchema
    Providers = {k, u}
    Keyed = {k}
    Arrivals <- MCArrivals
    a1 = a1
    a2 = a2
    k = k
    u = u
    MaxPools = 1
    MaxConns = 1
    TTL = 1
    MaxTime = 1
    Readers = {c1}
    Tables = {"t1", "t2", "t3"}
    Declared = {"t1", "t2"}
    Exposed = {"t1", "t3"}
    Manifests <- MCManifests
    Queries <- MCQueries
    Rows <- MCRows
    MaxColumns = 2
    DefaultLimit = 1
    MaxLimit = 2
SPECIFICATION Spec
INVARIANTS
    ScopeNeverLeaks
    BorrowedPoolIsPinned
    DialedWithItsOwnAuthority
    
    RowsAreAuthorized
    AnswersAreExact
