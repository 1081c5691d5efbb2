SPECIFICATION MeteringSpec
CONSTANTS
    Procs = {p1, p2, p3}
    Nil = Nil
    HTTPHandlers = {r1}
    CustomNames = {"orders"}
    ReservedNames = {"infra"}
    MalformedNames = {"a/b"}
    Uses <- UsesDef
    MaxCalls = 2
INVARIANTS
    HandlerRunsOnce
    
    TaskUsageIsTheAttempts
    UsageIsAggregable
CHECK_DEADLOCK FALSE
