SPECIFICATION MCSpec
CONSTANTS
    n1 = n1
    Tasks = {t1, t2}
    Workers = {w1, w2}
    Closers = {c1}
    Names = {n1}
    NameOf <- MCOneName
    NoTask = NoTask
    Buffer = 1
    DefaultMaxRetries = 2
    RetryLimits = {0, 2}
    DefaultMaxAge = 0
    AgeLimits = {1}
    MaxRuns = 2
    MaxNow = 2
    c1 = c1
    c2 = c2
    p1 = p1
    p2 = p2
    k1 = k1
    Clients = {c1, c2}
    KeyOf <- MCKeyOf
    NoKey = NoKey
    Everyone = Everyone
    Publishers = {p1, p2}
    Script <- MCScript
    Capacity = 2
INVARIANTS
    QueueSound
    CloseDrains
    HubSound
    DeliveredAsPublished
PROPERTIES
    ImplementsLedger
    BackgroundSettles
CHECK_DEADLOCK FALSE
