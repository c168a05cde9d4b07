CONSTANTS
    Callers = {g1, g2}
    Queries = {q1, q2, q3}
    Stmts = {s1, s2, s3, s4}
    NoStmt = NoStmt
    MaxCached <- MCMaxCached
SPECIFICATION FairSpec
INVARIANTS CacheAccounted ClosedOnlyIfDisplaced
PROPERTIES EveryCallEnds
CHECK_DEADLOCK FALSE
