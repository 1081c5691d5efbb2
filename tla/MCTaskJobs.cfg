CONSTANTS
    Callers = {c1, c2}
    Remote = {c1}
    Keys = {k1, k2}
    Requests = {r1, r2}
    None = None
    MaxLate = 1
SPECIFICATION FairSpec
INVARIANTS AnsweredJobIsMine OneJobPerCall CancelledIsTold
PROPERTIES ImplementsJobPromise JobsSettle
