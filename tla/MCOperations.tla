---------------------------- MODULE MCOperations ----------------------------
(* What is done once for many requests: the migrations and the command     *)
(* that generates them, the Core, the server, and the tasks that replicas  *)
(* share in Redis.  They share no variable, and a behaviour is about one.  *)
(*                                                                         *)
(* The Core gets up to three of seven modules; two servers share an        *)
(* address and a key.  The server has two mails, and settings that vary    *)
(* what Init finds without mail, and the queue with it.  Two models refer  *)
(* to one another, and one column of theirs has no index: nothing stands   *)
(* in the way of its DROP.                                                 *)
EXTENDS MCMigrate, RedisQueue, Lifecycle, Server, MakeMigrations

CONSTANTS sql, rest, grpc, rabbit, nats, kafka, otel, users, posts

VARIABLE part  \* the part that the behaviour is about

MCAdapterOf ==
    (sql :> "sqlpostgres") @@ (rest :> "restapi") @@ (grpc :> "apigrpc")
      @@ (rabbit :> "rabbitmq") @@ (nats :> "nats") @@ (kafka :> "kafka")
      @@ (otel :> "opentelemetry")
MCAddressOf == [m \in {rest, grpc} |-> "address"]
MCContainerKey == [m \in Modules |-> IF m \in {rest, grpc} THEN "api" ELSE MCAdapterOf[m]]

Production ==
    [debug |-> FALSE, secrets |-> "good", database |-> TRUE, cache |-> "memory",
     queue |-> "memory", mail |-> TRUE, admin |-> TRUE]
MCSettings ==
    {[Production EXCEPT !.debug = d, !.secrets = s, !.database = b, !.admin = a, !.mail = FALSE,
                        !.cache = "redis"] : d, b, a \in BOOLEAN, s \in {"good", "example"}}
      \cup {[Production EXCEPT !.queue = q] : q \in {"off", "redis", "memory"}}
      \cup {[Production EXCEPT !.cache = "off", !.mail = FALSE]}

MCModelOrder == <<users, posts>>
MCColumnOrder == <<"code", "owner", "text">>
MCReferences ==
    [t \in {users, posts} |-> [c \in {"owner"} |-> IF t = users THEN posts ELSE users]]

-----------------------------------------------------------------------------
(* The parts a behaviour is not about wait: the migrators have ended, and  *)
(* so have the workers of every replica.                                   *)
MigrateOver ==
    /\ alone = TRUE /\ schema = {} /\ recorded = {} /\ disk = Files
    /\ pc = [m \in Migrators |-> "done"]
    /\ todo = [m \in Migrators |-> {}] /\ seen = [m \in Migrators |-> {}]
    /\ pos = [m \in Migrators |-> 1]
    /\ rpc = "idle" /\ rfile = 0 /\ rpos = 0 /\ faults = 0

RedisOver ==
    /\ list = <<>>
    /\ up = [r \in Replicas |-> TRUE] /\ closer = [r \in Replicas |-> "idle"]
    /\ registered = [r \in Replicas |-> TRUE] /\ closed = [r \in Replicas |-> TRUE]
    /\ wpc = [p \in Replicas \X Workers |-> "exited"]
    /\ job = [p \in Replicas \X Workers |-> NoTask]
    /\ call = [t \in Tasks |-> "idle"] /\ send = [t \in Tasks |-> "none"]
    /\ home = [t \in Tasks |-> CHOOSE r \in Replicas : TRUE]
    /\ attempt = [t \in Tasks |-> 0] /\ outcome = [t \in Tasks |-> "none"]
    /\ starts = [t \in Tasks |-> 0]
    /\ redisFaults = 0 /\ stops = MaxStops

MCInit ==
    /\ LifecycleInit /\ ServerInit /\ MakeInit
    /\ \/ part = "migrations" /\ Init /\ RedisOver /\ settings = Production
       \/ part = "redis" /\ MigrateOver /\ RedisInit /\ settings = Production
       \/ part \in {"core", "models"} /\ MigrateOver /\ RedisOver /\ settings = Production
       \/ part = "server" /\ MigrateOver /\ RedisOver
    /\ part = "models" \/ driver = "postgres"

MCNext ==
    /\ UNCHANGED part
    /\ \/ /\ part = "migrations" /\ Next
          /\ UNCHANGED <<redisVars, lifecycleVars, serverVars, makeVars>>
       \/ /\ part = "redis" /\ RedisNext
          /\ UNCHANGED <<vars, lifecycleVars, serverVars, makeVars>>
       \/ /\ part = "core" /\ LifecycleNext
          /\ UNCHANGED <<vars, redisVars, serverVars, makeVars>>
       \/ /\ part = "server" /\ ServerNext
          /\ UNCHANGED <<vars, redisVars, lifecycleVars, makeVars>>
       \/ /\ part = "models" /\ MakeNext
          /\ UNCHANGED <<vars, redisVars, lifecycleVars, serverVars>>

(* No action with a fairness condition is enabled in a part that waits.    *)
MCFairness ==
    /\ Fairness /\ LifecycleFairness /\ ServerFairness
    /\ RedisFairness /\ ExitsAfterClose

MCSpec ==
    /\ MCInit
    /\ [][MCNext]_<<vars, redisVars, lifecycleVars, serverVars, makeVars, part>>
    /\ MCFairness

(* Whatever is cut short comes to its end when it is taken up again: a     *)
(* migration, a shutdown, a signal, a task in the list of the replicas.    *)
OperationsSettle ==
    []<>(MigrationsSettled /\ RedisQueueSettled /\ ShutdownReleased /\ SignalObeyed)
=============================================================================
