------------------------------- MODULE Server -------------------------------
(***************************************************************************)
(* One process from main.go to its exit: core/bootstrap with the mail of   *)
(* core/mail and the cache and queue it opens.  Init builds the framework  *)
(* from the settings, Run serves until the first signal, which a goroutine *)
(* turns into an orderly end.                                              *)
(*                                                                         *)
(* The queue is known by what it promises: its steps are the actions of    *)
(* TaskLedger, which Queue implements, and Close drains.  In Redis the     *)
(* list belongs to all replicas: another one may take a mail, and a push   *)
(* on its way when Close begins still finds the list.  The tasks are the   *)
(* mails that requests send.                                               *)
(***************************************************************************)
EXTENDS Naturals

CONSTANTS
    Mails,       \* the mails, each sent by a request of its own
    Tries,       \* the queue's maxRetries
    Settings     \* the settings the process may find

ASSUME ServerAssumption ==
    /\ Tries \in Nat \ {0}
    /\ Settings \subseteq
          [debug : BOOLEAN, secrets : {"good", "example"}, database : BOOLEAN, mail : BOOLEAN,
           cache : {"off", "redis", "memory"}, queue : {"off", "redis", "memory"},
           admin : BOOLEAN]

VARIABLES
    settings,    \* what the environment says
    stage,       \* how far Init has come
    parts,       \* what Init has made: database, cache, queue, mail, admin
    main,        \* main.go and Run: the goroutine that listens
    quit,        \* the goroutine of Run that waits for a signal
    signals,     \* signals in the channel, which holds one
    listener,    \* the http.Server
    request,     \* the request that sends each mail
    delivered,   \* how often each mail has left
    mail, runs, accepting, over, \* the ledger of the queue
    fate         \* history: why a mail has ended that need not have been tried

queueState == <<mail, runs, accepting, over>>
ends == <<main, quit, signals, listener>>
serverVars == <<settings, stage, parts, ends, request, delivered, queueState, fate>>

Ledger == INSTANCE TaskLedger WITH
    Tasks <- Mails, MaxRuns <- Tries,
    phase <- mail, starts <- runs, open <- accepting

ServerInit ==
    /\ settings \in Settings
    /\ stage = "env"
    /\ parts = [database |-> "none", cache |-> "none", queue |-> "none", mail |-> "none",
                admin |-> FALSE]
    /\ main = "init" /\ quit = "none" /\ signals = 0 /\ listener = "new"
    /\ request = [t \in Mails |-> "none"]
    /\ delivered = [t \in Mails |-> 0]
    /\ fate = [t \in Mails |-> "none"]
    /\ Ledger!LedgerInit

Running == main \notin {"exited", "failed"}

-----------------------------------------------------------------------------
(* Init.                                                                   *)

Advance(from, to) == main = "init" /\ stage = from /\ stage' = to
OnlyParts == UNCHANGED <<settings, ends, request, delivered, queueState, fate>>

(* log.Fatal, or the panic of LoadDatabases: the process is gone.          *)
Fails(at) ==
    /\ main = "init" /\ stage = at
    /\ main' = "failed"
    /\ UNCHANGED <<settings, stage, parts, quit, signals, listener>>
    /\ UNCHANGED <<request, delivered, queueState, fate>>

(* In production the secrets must not be the examples, nor too short.      *)
CheckNothing == TRUE  \* variant: the settings are not looked at
SecretsGood == settings.debug \/ settings.secrets = "good"

LoadEnv == Advance("env", "database") /\ SecretsGood /\ UNCHANGED parts /\ OnlyParts
BadEnv == Fails("env")

(* LoadDatabases; without any connection the admin gets a SQLite file, in  *)
(* development only, and none if that cannot be made either.               *)
OpenDatabases ==
    /\ Advance("database", "cache")
    /\ \E db \in {"none", "configured", "fallback"} :
         /\ db = "configured" <=> settings.database
         /\ db = "fallback" => settings.debug /\ settings.admin
         /\ parts' = [parts EXCEPT !.database = db]
    /\ OnlyParts
BadDatabase == settings.database /\ Fails("database")

(* A redis that does not answer, like an unknown driver, gives memory.     *)
Backends(setting) ==
    CASE setting = "off" -> {"none"}
      [] setting = "redis" -> {"redis", "memory"}
      [] OTHER -> {"memory"}

OpenCache ==
    /\ Advance("cache", "queue")
    /\ \E b \in Backends(settings.cache) : parts' = [parts EXCEPT !.cache = b]
    /\ OnlyParts

OpenQueue ==
    /\ Advance("queue", "mail")
    /\ \E b \in Backends(settings.queue) : parts' = [parts EXCEPT !.queue = b]
    /\ OnlyParts

(* NewQueued over the SMTP adapter, if that could be configured.           *)
OpenMail ==
    /\ Advance("mail", "apps")
    /\ \E m \in {"none", IF parts.queue = "none" THEN "direct" ELSE "queued"} :
         /\ settings.mail \/ m = "none"
         /\ parts' = [parts EXCEPT !.mail = m]
    /\ OnlyParts

(* The apps, then the admin: Mount does nothing without a connection.      *)
MountAdmin ==
    /\ Advance("apps", "ready")
    /\ parts' = [parts EXCEPT !.admin = settings.admin /\ parts.database # "none"]
    /\ OnlyParts

-----------------------------------------------------------------------------
(* Run.                                                                    *)

OnlyEnds == UNCHANGED <<settings, stage, parts, request, delivered, queueState, fate>>

Notify ==
    /\ main = "init" /\ stage = "ready"
    /\ main' = "listen" /\ quit' = "waiting"
    /\ UNCHANGED <<signals, listener>> /\ OnlyEnds

(* ListenAndServe: it returns at once if Shutdown has been called before.  *)
Listen ==
    /\ main = "listen"
    /\ IF listener = "shut" THEN main' = "served" /\ UNCHANGED listener
       ELSE main' = "serving" /\ listener' = "open"
    /\ UNCHANGED <<quit, signals>> /\ OnlyEnds

(* The address cannot be had: Run returns the error and nothing is closed. *)
ListenFails ==
    /\ main = "listen" /\ listener = "new"
    /\ main' = "failed"
    /\ UNCHANGED <<quit, signals, listener>> /\ OnlyEnds

(* Shutdown makes ListenAndServe return before the requests are over.      *)
ServeReturns ==
    /\ main = "serving" /\ listener = "shut"
    /\ main' = "served"
    /\ UNCHANGED <<quit, signals, listener>> /\ OnlyEnds

(* <-done                                                                  *)
NotAwaited == TRUE  \* variant: Run returns as soon as ListenAndServe has
CleanupDone == quit = "done"

Exit ==
    /\ main = "served"
    /\ CleanupDone
    /\ main' = "exited"
    /\ UNCHANGED <<quit, signals, listener>> /\ OnlyEnds

Signal ==
    /\ Running /\ quit # "none"
    /\ signals = 0
    /\ signals' = 1
    /\ UNCHANGED <<main, quit, listener>> /\ OnlyEnds

(* srv.Shutdown: no new requests; it waits until none is running any more, *)
(* or five seconds, and then returns an error that is only logged.         *)
ReturnOnError == {"closeQueue", "returned"}  \* variant: the goroutine returns with the error
AfterShutdown == {"closeQueue"}

TakeSignal ==
    /\ Running /\ quit = "waiting" /\ signals = 1
    /\ signals' = 0 /\ quit' = "draining" /\ listener' = "shut"
    /\ UNCHANGED main /\ OnlyEnds

RequestsOver ==
    /\ Running /\ quit = "draining"
    /\ quit' \in AfterShutdown
    /\ UNCHANGED <<main, signals, listener>> /\ OnlyEnds

(* Queue.Close: refuse what comes, then wait for the workers.  In memory   *)
(* they first take what is in the channel; in Redis it stays in the list.  *)
OnlyQueue ==
    UNCHANGED <<settings, stage, parts, main, signals, listener, request, delivered, fate>>

CloseQueue ==
    /\ Running /\ quit = "closeQueue"
    /\ IF parts.queue = "none" THEN quit' = "closeCache" /\ UNCHANGED queueState
       ELSE quit' = "queueClosing" /\ Ledger!Stop
    /\ OnlyQueue

Untaken == {t \in Mails : mail[t] = "pending" /\ runs[t] = 0}

QueueClosed ==
    /\ Running /\ quit = "queueClosing"
    /\ parts.queue = "memory" => Untaken = {}
    /\ Ledger!BeOver
    /\ quit' = "closeCache"
    /\ OnlyQueue

CloseCache ==
    /\ Running /\ quit = "closeCache"
    /\ quit' = "done"
    /\ parts' = [parts EXCEPT !.cache = IF @ = "none" THEN @ ELSE "closed"]
    /\ UNCHANGED <<settings, stage, main, signals, listener, request, delivered, queueState, fate>>

-----------------------------------------------------------------------------
(* Requests, and the workers of the queue.                                 *)

OnlyMail == UNCHANGED <<settings, stage, parts, ends>>

Arrive(t) ==
    /\ main = "serving" /\ listener = "open"
    /\ parts.mail # "none"
    /\ request[t] = "none"
    /\ request' = [request EXCEPT ![t] = "running"]
    /\ UNCHANGED <<delivered, queueState, fate>> /\ OnlyMail

Moves(t, from, to) ==
    /\ Running /\ request[t] = from
    /\ request' = [request EXCEPT ![t] = to]

(* Queued.Send through the queue.  Enqueue looks whether it is closed and  *)
(* lets go of the lock before it sends.                                    *)
LookAtQueue(t) ==
    /\ parts.mail = "queued"
    /\ IF accepting THEN Moves(t, "running", "sending") /\ UNCHANGED queueState
       ELSE Moves(t, "running", "error") /\ Ledger!Refuse(t)
    /\ UNCHANGED <<delivered, fate>> /\ OnlyMail

(* LPUSH, until Close has closed the client.                               *)
Push(t) ==
    /\ parts.queue = "redis" /\ ~over
    /\ Ledger!Move(t, "offered", "pending") /\ UNCHANGED <<runs, accepting, over>>

(* The send finds the channel or the list full, the channel closed (a      *)
(* panic that the request answers with an error), the client closed, or    *)
(* Redis without an answer: with or without effect.                        *)
SendQueued(t) ==
    /\ \/ Moves(t, "sending", "ok") /\ parts.queue = "memory" /\ Ledger!Accept(t)
       \/ (Moves(t, "sending", "ok") \/ Moves(t, "sending", "error")) /\ Push(t)
       \/ Moves(t, "sending", "error") /\ Ledger!Refuse(t)
    /\ UNCHANGED <<delivered, fate>> /\ OnlyMail

(* Without a queue the mail itself, and its error.                         *)
SendDirect(t) ==
    /\ parts.mail = "direct"
    /\ \/ Moves(t, "running", "ok") /\ delivered' = [delivered EXCEPT ![t] = @ + 1]
       \/ Moves(t, "running", "error") /\ UNCHANGED delivered
    /\ UNCHANGED <<queueState, fate>> /\ OnlyMail

(* A worker takes the mail; the handler sends it, or fails and is retried  *)
(* until maxRetries.  A mail can have left although the handler saw an     *)
(* error.                                                                  *)
Work(t) == Running /\ Ledger!Run(t) /\ UNCHANGED <<request, delivered, fate>> /\ OnlyMail

Sent(t) ==
    /\ Running
    /\ mail[t] = "running" /\ Ledger!End(t)
    /\ delivered' = [delivered EXCEPT ![t] = @ + 1]
    /\ UNCHANGED <<request, fate>> /\ OnlyMail

SendFails(t) ==
    /\ Running
    /\ IF runs[t] < Tries THEN Ledger!Again(t) ELSE mail[t] = "running" /\ Ledger!End(t)
    /\ \/ UNCHANGED delivered
       \/ delivered' = [delivered EXCEPT ![t] = @ + 1]
    /\ UNCHANGED <<request, fate>> /\ OnlyMail

(* A mail that waits ends when its retry finds the queue full or closed.   *)
(* Tried or not, a worker drops it at maxAge; and from the list in Redis   *)
(* it goes with a BRPOP whose reply is lost, or to another replica, which  *)
(* may run it or know no handler for it and discard it.                    *)
GiveUpMail(t) ==
    /\ Running
    /\ mail[t] = "pending" /\ Ledger!End(t)
    /\ \/ runs[t] > 0 /\ UNCHANGED fate
       \/ \E why \in {"aged", "lost", "elsewhere"} :
            /\ why \in {"aged", "lost"} => ~over
            /\ why \in {"lost", "elsewhere"} => parts.queue = "redis"
            /\ fate' = [fate EXCEPT ![t] = why]
    /\ UNCHANGED <<request, delivered>> /\ OnlyMail

-----------------------------------------------------------------------------
Booting ==
    \/ LoadEnv \/ BadEnv \/ OpenDatabases \/ BadDatabase \/ OpenCache \/ OpenQueue
    \/ OpenMail \/ MountAdmin
Ending ==
    \/ TakeSignal \/ RequestsOver \/ CloseQueue \/ QueueClosed \/ CloseCache
Mailing(t) ==
    \/ LookAtQueue(t) \/ SendQueued(t) \/ SendDirect(t)
    \/ Work(t) \/ Sent(t) \/ SendFails(t) \/ GiveUpMail(t)

ServerNext ==
    \/ Booting \/ Notify \/ Listen \/ ListenFails \/ ServeReturns \/ Exit \/ Signal \/ Ending
    \/ \E t \in Mails : Arrive(t) \/ Mailing(t)

ServerSpec == ServerInit /\ [][ServerNext]_serverVars

(* Goroutines run, and a handler that sends a mail returns.                *)
ServerFairness ==
    /\ WF_serverVars(Listen \/ ServeReturns \/ Exit)
    /\ WF_serverVars(Ending)
    /\ \A t \in Mails : WF_serverVars(Work(t) \/ Sent(t) \/ SendFails(t))

-----------------------------------------------------------------------------
ServerTypeOK ==
    /\ settings \in Settings
    /\ stage \in {"env", "database", "cache", "queue", "mail", "apps", "ready"}
    /\ main \in {"init", "listen", "serving", "served", "exited", "failed"}
    /\ quit \in {"none", "waiting", "draining", "closeQueue", "queueClosing", "closeCache", "done"}
    /\ listener \in {"new", "open", "shut"} /\ signals \in {0, 1}
    /\ mail \in [Mails -> Ledger!Phases]
    /\ \A t \in Mails : runs[t] \in 0..Tries /\ delivered[t] \in 0..Tries

(* In production nobody is served with example secrets or from a database  *)
(* the framework made up (bootstrap.go:148-153); and the admin is there    *)
(* only with a database behind it.                                         *)
ServesOnlySound ==
    main \in {"serving", "served"} =>
        /\ ~settings.debug => settings.secrets = "good" /\ parts.database # "fallback"
        /\ parts.admin => parts.database # "none"

(* Both of them: Init, Run and the goroutine of the signal stay in step.   *)
ServerSound == ServerTypeOK /\ ServesOnlySound

(* "trabalho enfileirado nao se perde num deploy" (bootstrap.go:425), as   *)
(* far as it holds: when the process exits after a signal, every mail a    *)
(* request has been told is accepted has been tried, unless it was older   *)
(* than maxAge when a worker came to it.  With Redis it may also be in the *)
(* list for the next process, have been taken by another replica, whose    *)
(* end of it is not of this process, or, against the comment, have gone    *)
(* with a BRPOP whose reply was lost.  What was answered with success      *)
(* without a queue has left.                                               *)
AcceptedMailIsTried ==
    main = "exited" => \A t \in Mails : request[t] = "ok" =>
        \/ runs[t] > 0 \/ delivered[t] > 0
        \/ fate[t] = "aged"
        \/ parts.queue = "redis" /\ (mail[t] = "pending" \/ fate[t] \in {"elsewhere", "lost"})

(* A signal has ended the process, whatever requests and mails it found.   *)
SignalObeyed ==
    signals = 1 \/ quit \notin {"none", "waiting"} => main \in {"exited", "failed"}
=============================================================================
