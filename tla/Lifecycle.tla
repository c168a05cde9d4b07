------------------------------ MODULE Lifecycle ------------------------------
(***************************************************************************)
(* The Core: core/core.go, core/lifecycle, core/registry, core/container,  *)
(* core/namespaces.go and the adapters under core/adapters.                *)
(*                                                                         *)
(* One goroutine activates modules, runs them and shuts them down in the   *)
(* reverse order.  A server that was started listens in a goroutine of its *)
(* own, which may get its turn only after the shutdown, and has calls in   *)
(* progress.  What an adapter holds of the outside world (a socket, a      *)
(* pool, a goroutine) is a set of names.                                   *)
(***************************************************************************)
EXTENDS Naturals, SequencesExt

CONSTANTS
    Modules,       \* the modules the program makes, each activated once
    AdapterOf,     \* the adapter of each
    AddressOf,     \* the address of each server
    ContainerKey,  \* the key UseModule gets for each
    NoModule,      \* nothing in the container
    MaxTried       \* bound on the modules activated

VARIABLES
    active,     \* Manager.active
    tried,      \* modules made and passed to Activate, UseModule or Use
    container,  \* the module whose Value() each key gives
    held,       \* what each module holds
    serve,      \* the goroutine of each server
    calls,      \* a call in progress on each server
    stopping,   \* servers whose Shutdown or GracefulStop has been called
    late,       \* servers with a call that outlasted the five seconds
    program     \* where the program is, and how many modules are still to do

lifecycleVars == <<active, tried, container, held, serve, calls, stopping, late, program>>

HttpServers == {"restapi", "apigraphql"}
Servers == HttpServers \cup {"apigrpc"}
ContainerKeys == {ContainerKey[m] : m \in Modules}

Is(m, adapters) == AdapterOf[m] \in adapters

LifecycleInit ==
    /\ active = <<>>
    /\ tried = {}
    /\ container = [k \in ContainerKeys |-> NoModule]
    /\ held = [m \in Modules |-> {}]
    /\ serve = [m \in Modules |-> "none"]
    /\ calls = [m \in Modules |-> "none"]
    /\ stopping = {}
    /\ late = {}
    /\ program = [at |-> "setup", left |-> 0]

-----------------------------------------------------------------------------
(* Activation.                                                             *)

(* What an adapter has to do with the outside world: what it keeps once    *)
(* configured, what a Configure that fails may leave, and what is still    *)
(* held when Shutdown returns.  A Configure without I/O does not fail.     *)
Adapter(kept, failed, after) == [kept |-> kept, failed |-> failed, after |-> after]
Connectionless == Adapter({}, {}, {})
OnlyTried == Adapter({}, {{}}, {})  \* connects to see whether it can, and lets go

(* database.Open does not close the pool whose Ping fails.                 *)
SqlPostgres == Adapter({"pool"}, {{}, {"pool"}}, {})

(* The connection is closed when the channel cannot be opened.             *)
RabbitLeaks == Adapter({"connection", "channel"}, {{}, {"connection"}}, {})  \* variant: it is not
ChannelOnly == Adapter({"connection", "channel"}, {{}}, {"connection"})  \* variant: one is left
RabbitMQ == Adapter({"connection", "channel"}, {{}}, {})

(* Drain returns before the connection is closed.                          *)
Nats == Adapter({"connection"}, {{}}, {"draining"})

(* The exporter is not closed if its resource cannot be made.              *)
OpenTelemetry == Adapter({"exporter"}, {{}, {"exporter"}}, {})

CacheMemory == Adapter({"sweeper"}, {}, {})
Kafka == OnlyTried  \* its topics are opened by the application
S3 == OnlyTried
Ses == OnlyTried
Smtp == OnlyTried
OAuth2 == Connectionless
SendGrid == Connectionless
SoapClient == Connectionless
Prometheus == Connectionless
RestApi == Connectionless     \* the three servers listen only in Start
ApiGraphQL == Connectionless
ApiGrpc == Connectionless

Adapters ==
    [sqlpostgres |-> SqlPostgres, rabbitmq |-> RabbitMQ, nats |-> Nats, kafka |-> Kafka,
     opentelemetry |-> OpenTelemetry, cachememory |-> CacheMemory, s3 |-> S3, ses |-> Ses,
     smtp |-> Smtp, oauth2 |-> OAuth2, sendgrid |-> SendGrid, soapclient |-> SoapClient,
     prometheus |-> Prometheus, restapi |-> RestApi, apigraphql |-> ApiGraphQL,
     apigrpc |-> ApiGrpc]

ASSUME AdapterAssumption == AdapterOf \in [Modules -> DOMAIN Adapters]

Of(m) == Adapters[AdapterOf[m]]

MayTry(m) == program.at = "setup" /\ m \notin tried /\ Cardinality(tried) < MaxTried

(* registry.New without the import, or an Init that finds a setting empty. *)
NotReady(m) ==
    /\ MayTry(m)
    /\ tried' = tried \cup {m}
    /\ UNCHANGED <<active, container, held, serve, calls, stopping, late, program>>

ConfigureFails(m) ==
    /\ MayTry(m)
    /\ tried' = tried \cup {m}
    /\ \E left \in Of(m).failed : held' = [held EXCEPT ![m] = left]
    /\ UNCHANGED <<active, container, serve, calls, stopping, late, program>>

(* Manager.Add.                                                            *)
Add(m) ==
    /\ MayTry(m)
    /\ tried' = tried \cup {m}
    /\ held' = [held EXCEPT ![m] = Of(m).kept]
    /\ active' = Append(active, m)
    /\ UNCHANGED <<serve, calls, stopping, late, program>>

(* Core.Activate, and a UseModule whose value has another type: the module *)
(* stays active.                                                           *)
Activate(m) == Add(m) /\ UNCHANGED container

(* container.Provide: a key that is there already gets the new value.       *)
Provide(m) == container' = [container EXCEPT ![ContainerKey[m]] = m]

UseModule(m) == Add(m) /\ Provide(m)

-----------------------------------------------------------------------------
(* Core.Run: every Start in order, up to the first that fails.             *)

RunCore ==
    /\ program.at = "setup"
    /\ program' = [at |-> "starting", left |-> Len(active)]
    /\ UNCHANGED <<active, tried, container, held, serve, calls, stopping, late>>

Starting == active[Len(active) - program.left + 1]

Taken(address) ==
    \E m \in Modules : Is(m, Servers) /\ AddressOf[m] = address /\ "listener" \in held[m]

StartServer ==
    LET m == Starting IN
    /\ program.at = "starting" /\ program.left > 0
    /\ Is(m, Servers)
    /\ ~Taken(AddressOf[m])
    /\ held' = [held EXCEPT ![m] = @ \cup {"listener"}]
    /\ serve' = [serve EXCEPT ![m] = "launched"]
    /\ program' = [program EXCEPT !.left = @ - 1]
    /\ UNCHANGED <<active, tried, container, calls, stopping, late>>

(* The address is in use, by another module or by another program.         *)
StartFails ==
    /\ program.at = "starting" /\ program.left > 0
    /\ Is(Starting, Servers)
    /\ program' = [at |-> "running", left |-> 0]
    /\ UNCHANGED <<active, tried, container, held, serve, calls, stopping, late>>

StartNothing ==
    /\ program.at = "starting"
    /\ IF program.left = 0 THEN program' = [at |-> "running", left |-> 0]
       ELSE ~Is(Starting, Servers) /\ program' = [program EXCEPT !.left = @ - 1]
    /\ UNCHANGED <<active, tried, container, held, serve, calls, stopping, late>>

(* The goroutine of Serve.  It closes the listener itself if the server    *)
(* has been shut down before it got here.                                  *)
ServeBegins(m) ==
    /\ serve[m] = "launched"
    /\ IF m \in stopping
       THEN serve' = [serve EXCEPT ![m] = "ended"] /\ held' = [held EXCEPT ![m] = @ \ {"listener"}]
       ELSE serve' = [serve EXCEPT ![m] = "serving"] /\ UNCHANGED held
    /\ UNCHANGED <<active, tried, container, calls, stopping, late, program>>

(* A call; one that streams need not end.                                  *)
CallBegins(m) ==
    /\ serve[m] = "serving" /\ m \notin stopping
    /\ calls[m] = "none"
    /\ \E kind \in {"short", "stream"} : calls' = [calls EXCEPT ![m] = kind]
    /\ UNCHANGED <<active, tried, container, held, serve, stopping, late, program>>

CallEnds(m) ==
    /\ calls[m] # "none"
    /\ calls' = [calls EXCEPT ![m] = "none"]
    /\ UNCHANGED <<active, tried, container, held, serve, stopping, late, program>>

(* kafka's Client.Producer and Consumer, whenever the application likes.   *)
OpenTopic(m) ==
    /\ Is(m, {"kafka"}) /\ m \in ToSet(active)
    /\ program.at # "setup"
    /\ held' = [held EXCEPT ![m] = @ \cup {"topics"}]
    /\ UNCHANGED <<active, tried, container, serve, calls, stopping, late, program>>

-----------------------------------------------------------------------------
(* Core.Shutdown: every module, the last one activated first.              *)

ShutdownCore ==
    /\ program.at = "running"
    /\ program' = [at |-> "stopping", left |-> Len(active)]
    /\ UNCHANGED <<active, tried, container, held, serve, calls, stopping, late>>

FirstLeft(n) == active[Len(active) - n + 1]  \* variant: in the order of activation
LastLeft(n) == active[n]

Stopping == LastLeft(program.left)

Done == program' = [program EXCEPT !.at = "stopping", !.left = @ - 1]

(* A server closes what it listens on, if Serve has come to that, and      *)
(* waits for its calls; the http adapters only if they were started.       *)
StopServer ==
    LET m == Stopping IN
    /\ program.at = "stopping" /\ program.left > 0
    /\ Is(m, Servers)
    /\ IF serve[m] = "none" /\ Is(m, HttpServers)
       THEN Done /\ UNCHANGED <<held, serve, stopping>>
       ELSE /\ stopping' = stopping \cup {m}
            /\ program' = [program EXCEPT !.at = "waiting"]
            /\ IF serve[m] = "serving"
               THEN /\ held' = [held EXCEPT ![m] = @ \ {"listener"}]
                    /\ serve' = [serve EXCEPT ![m] = "ended"]
               ELSE UNCHANGED <<held, serve>>
    /\ UNCHANGED <<active, tried, container, calls, late>>

CallsOver ==
    /\ program.at = "waiting"
    /\ calls[Stopping] = "none"
    /\ Done
    /\ UNCHANGED <<active, tried, container, held, serve, calls, stopping, late>>

(* Five seconds for an http server, no limit for GracefulStop.             *)
GiveUp ==
    /\ program.at = "waiting"
    /\ Is(Stopping, HttpServers)
    /\ calls[Stopping] # "none"
    /\ late' = late \cup {Stopping}
    /\ Done
    /\ UNCHANGED <<active, tried, container, held, serve, calls, stopping>>

(* The other adapters.                                                     *)
StopModule ==
    LET m == Stopping IN
    /\ program.at = "stopping" /\ program.left > 0
    /\ ~Is(m, Servers)
    /\ held' = [held EXCEPT ![m] = Of(m).after]
    /\ Done
    /\ UNCHANGED <<active, tried, container, serve, calls, stopping, late>>

Drained(m) ==
    /\ "draining" \in held[m]
    /\ held' = [held EXCEPT ![m] = {}]
    /\ UNCHANGED <<active, tried, container, serve, calls, stopping, late, program>>

Stopped ==
    /\ program.at = "stopping" /\ program.left = 0
    /\ program' = [at |-> "stopped", left |-> 0]
    /\ UNCHANGED <<active, tried, container, held, serve, calls, stopping, late>>

-----------------------------------------------------------------------------
RunOrShutdown ==
    \/ StartServer \/ StartFails \/ StartNothing
    \/ StopServer \/ CallsOver \/ GiveUp \/ StopModule \/ Stopped

LifecycleNext ==
    \/ RunCore \/ ShutdownCore \/ RunOrShutdown
    \/ \E m \in Modules :
          \/ NotReady(m) \/ ConfigureFails(m) \/ Activate(m) \/ UseModule(m)
          \/ ServeBegins(m) \/ CallBegins(m) \/ CallEnds(m) \/ OpenTopic(m) \/ Drained(m)

LifecycleSpec == LifecycleInit /\ [][LifecycleNext]_lifecycleVars

(* The scheduler runs every goroutine; calls end, streams need not.  A     *)
(* goroutine of Serve begins once and a connection drains once, so that    *)
(* one condition for all of them is enough.                                *)
LifecycleFairness ==
    /\ WF_lifecycleVars(RunOrShutdown)
    /\ WF_lifecycleVars(\E m \in Modules : ServeBegins(m) \/ Drained(m))
    /\ \A m \in {x \in Modules : Is(x, Servers)} :
          WF_lifecycleVars(calls[m] = "short" /\ CallEnds(m))

-----------------------------------------------------------------------------
LifecycleTypeOK ==
    /\ ToSet(active) \subseteq tried /\ tried \subseteq Modules
    /\ IsInjective(active)
    /\ container \in [ContainerKeys -> Modules \cup {NoModule}]
    /\ program.left \in 0..Len(active)
    /\ \A m \in Modules : serve[m] \in {"none", "launched", "serving", "ended"}
                          /\ calls[m] \in {"none", "short", "stream"}
    /\ late \subseteq stopping /\ stopping \subseteq ToSet(active)

(* "um modulo nao fica pela metade ativo" (lifecycle.go:47): what is not   *)
(* active holds nothing, and cannot be found in the container.  The pool   *)
(* of a failed Ping and an exporter without its resource do stay.          *)
OnlyActiveHold ==
    /\ \A m \in Modules : held[m] # {} =>
          m \in ToSet(active) \/ Is(m, {"sqlpostgres", "opentelemetry"})
    /\ \A k \in ContainerKeys : container[k] \in ToSet(active) \cup {NoModule}

(* A call finds what was activated before its server as Configure left it, *)
(* unless the shutdown has given the call up.                              *)
CallsKeepWhatTheyUse ==
    \A i, j \in DOMAIN active :
        i < j /\ calls[active[j]] # "none" /\ active[j] \notin late =>
            Of(active[i]).kept \subseteq held[active[i]]

(* Together: what a module holds begins and ends with its place in the     *)
(* list of the active, and outlives the calls that need it.                *)
ModulesSound == LifecycleTypeOK /\ OnlyActiveHold /\ CallsKeepWhatTheyUse

(* A shutdown has ended, unless a gRPC stream does not; and nothing of the *)
(* outside world is held after it, except topics opened too late.          *)
ShutdownReleased ==
    /\ program.at = "stopping" => \E m \in Modules : Is(m, {"apigrpc"}) /\ calls[m] = "stream"
    /\ program.at = "stopped" => \A m \in ToSet(active) : held[m] \subseteq {"topics"}
=============================================================================
