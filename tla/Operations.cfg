SPECIFICATION MCSpec
CONSTANTS
    t1 = t1
    t2 = t2
    t3 = t3
    i1 = i1
    i2 = i2
    col = col
    Migrators = {m1, m2}
    Files <- MCFiles
    Objects = {t1, t2, t3, i1, i2, col}
    Up <- MCUp
    Kind <- MCKind
    Parent <- MCParent
    Deletable = {3}
    Undoable = {1, 2}
    MaxFaults = 2
    sql = sql
    rest = rest
    grpc = grpc
    rabbit = rabbit
    nats = nats
    kafka = kafka
    otel = otel
    Modules = {sql, rest, grpc, rabbit, nats, kafka, otel}
    AdapterOf <- MCAdapterOf
    AddressOf <- MCAddressOf
    ContainerKey <- MCContainerKey
    NoModule = NoModule
    MaxTried = 3
    Mails = {mail1, mail2}
    Tries = 2
    Settings <- MCSettings
    users = users
    posts = posts
    ModelOrder <- MCModelOrder
    ColumnOrder <- MCColumnOrder
    References <- MCReferences
    Uniques = {"code"}
    Searched = {"code"}
    Nullable = {"text"}
    Gone = Gone
    MaxEdits = 3
    MaxFiles = 3
    MaxRows = 2
    Tasks = {task1, task2}
    Replicas = {r1, r2}
    Workers = {w1}
    NoTask = NoTask
    MaxLen = 1
    MaxRetries = 2
    MaxRedisFaults = 1
    MaxStops = 1
INVARIANTS
    RecordSound
    UndoLeavesNothing
    RedisQueueSound
    ModulesSound
    ServerSound
    AcceptedMailIsTried
    SchemaIsKnown
    GeneratedFilesWork
PROPERTIES
    ReplicasShareLedger
    OperationsSettle
CHECK_DEADLOCK FALSE
