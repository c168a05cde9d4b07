CONSTANTS
    n1 = n1
    Tasks = {t1, t2}
    Workers = {w1, w2}
    Closers = {c1, c2}
    Names = {n1}
    NameOf <- MCOneName
    NoTask = NoTask
    Buffer = 2
    DefaultMaxRetries = 2
    RetryLimits = {}
    DefaultMaxAge = 0
    AgeLimits = {}
    MaxRuns = 2
    MaxNow = 0
SPECIFICATION Spec
INVARIANTS NoTaskLostByClose
CHECK_DEADLOCK FALSE
