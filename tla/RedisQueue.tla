----------------------------- MODULE RedisQueue -----------------------------
(***************************************************************************)
(* The Redis mode of core/queue/queue.go: one list shared by the replicas  *)
(* of the application, pushed with LPUSH after an LLEN, popped with BRPOP. *)
(*                                                                         *)
(* A replica's workers start inside NewRedis, before the application has   *)
(* registered its handlers.  A replica may crash, or leave after Close,    *)
(* and come back; the list stays.  LLEN and LPUSH are two commands, so     *)
(* other replicas act between them, and each command can fail: an LPUSH    *)
(* with or without effect, a BRPOP with its element gone.                  *)
(*                                                                         *)
(* One task name; maxRetries is never changed here (module Queue does) and *)
(* maxAge is on: a task may have outlived it whenever a worker has it.     *)
(***************************************************************************)
EXTENDS Naturals, Sequences

CONSTANTS
    Tasks,        \* the calls of Enqueue, one task each
    Replicas,     \* the processes that share the list
    Workers,      \* the worker goroutines of each replica
    NoTask,
    MaxLen,       \* q.maxLen
    MaxRetries,   \* q.maxRetries
    MaxRedisFaults,    \* bound on failed commands
    MaxStops      \* bound on crashes and begun Closes

ASSUME RedisAssumption ==
    /\ NoTask \notin Tasks
    /\ Replicas # {}
    /\ MaxLen \in Nat \ {0} /\ MaxRetries \in Nat \ {0}
    /\ MaxRedisFaults \in Nat /\ MaxStops \in Nat

VARIABLES
    list,         \* kyrux:queue:tasks, next element to pop first
    up,           \* is the replica's process running?
    registered,   \* has it registered the handler?
    closed,       \* q.closed
    closer,       \* where its Close is
    wpc, job,     \* where each worker is, and the task it holds
    call,         \* what each call of Enqueue has returned
    send,         \* where the Enqueue or requeue of each task is
    home,         \* the replica that runs it (any, before the first call)
    attempt, outcome,
    starts,       \* how often a handler was started on the task (history)
    redisFaults, stops

replica == <<up, registered, closed, closer>>
pool == <<wpc, job>>
bounds == <<redisFaults, stops>>
redisVars == <<list, replica, pool, call, send, home, attempt, outcome, starts,
          bounds>>

RedisInit ==
    /\ list = <<>>
    /\ up = [r \in Replicas |-> TRUE]
    /\ registered = [r \in Replicas |-> FALSE]
    /\ closed = [r \in Replicas |-> FALSE]
    /\ closer = [r \in Replicas |-> "idle"]
    /\ wpc = [p \in Replicas \X Workers |-> "loop"]
    /\ job = [p \in Replicas \X Workers |-> NoTask]
    /\ call = [t \in Tasks |-> "idle"]
    /\ send = [t \in Tasks |-> "none"]
    /\ home = [t \in Tasks |-> CHOOSE r \in Replicas : TRUE]
    /\ attempt = [t \in Tasks |-> 0]
    /\ outcome = [t \in Tasks |-> "none"]
    /\ starts = [t \in Tasks |-> 0]
    /\ redisFaults = 0
    /\ stops = 0

-----------------------------------------------------------------------------
(* Redis, seen from a replica.                                             *)

ClientOpen(r) == closer[r] # "returned"   \* q.redis.Close() is Close's end

Fault == redisFaults < MaxRedisFaults /\ redisFaults' = redisFaults + 1 /\ UNCHANGED stops

-----------------------------------------------------------------------------
(* Enqueue at a replica, and requeue: both end in enqueueTask.               *)

Enqueue(t, r) ==
    /\ call[t] = "idle"
    /\ up[r]
    /\ home' = [home EXCEPT ![t] = r]
    /\ IF closed[r] \/ ~registered[r]
       THEN /\ call' = [call EXCEPT ![t] =
                          IF closed[r] THEN "ErrQueueClosed" ELSE "ErrNoHandler"]
            /\ UNCHANGED send
       ELSE /\ call' = [call EXCEPT ![t] = "sending"]
            /\ send' = [send EXCEPT ![t] = "length"]
    /\ UNCHANGED <<list, replica, pool, attempt, outcome, starts, bounds>>

(* The backoff timer fires and requeue tests the closed flag.              *)
Requeue(t) ==
    /\ send[t] = "timer"
    /\ send' = [send EXCEPT ![t] = IF closed[home[t]] THEN "none" ELSE "length"]
    /\ outcome' = [outcome EXCEPT ![t] = IF closed[home[t]] THEN "lost" ELSE @]
    /\ UNCHANGED <<list, replica, pool, call, home, attempt, starts, bounds>>

(* Variant of the next operator: enqueueTask's error is dropped.           *)
SendEndsWell(t, result) ==
    /\ send' = [send EXCEPT ![t] = "none"]
    /\ call' = [call EXCEPT ![t] = "accepted"]
    /\ UNCHANGED outcome

(* enqueueTask returns: to the caller of Enqueue, or to requeue, which     *)
(* logs an error as the loss of the task.                                  *)
SendEnds(t, result) ==
    /\ send' = [send EXCEPT ![t] = "none"]
    /\ IF call[t] = "sending"
       THEN call' = [call EXCEPT ![t] = result] /\ UNCHANGED outcome
       ELSE /\ outcome' = [outcome EXCEPT ![t] =
                             IF result = "accepted" THEN @ ELSE "lost"]
            /\ UNCHANGED call

ListFull == Len(list) >= MaxLen

SendRefused(t) ==
    /\ send[t] = "length"
    /\ ClientOpen(home[t]) /\ ListFull
    /\ SendEnds(t, "ErrQueueFull")
    /\ UNCHANGED <<list, replica, pool, home, attempt, starts, bounds>>

(* LLEN shows room, or fails: its error is ignored.                        *)
SendLength(t) ==
    /\ send[t] = "length"
    /\ \/ ClientOpen(home[t]) /\ ~ListFull /\ UNCHANGED bounds
       \/ ClientOpen(home[t]) /\ Fault
       \/ ~ClientOpen(home[t]) /\ UNCHANGED bounds
    /\ send' = [send EXCEPT ![t] = "push"]
    /\ UNCHANGED <<list, replica, pool, call, home, attempt, outcome,
                   starts>>

SendPush(t) ==
    /\ send[t] = "push"
    /\ ClientOpen(home[t])
    /\ list' = Append(list, t)
    /\ SendEnds(t, "accepted")
    /\ UNCHANGED <<replica, pool, home, attempt, starts, bounds>>

(* LPUSH fails: the client is closed, or the command or its reply is lost. *)
PushFails(t) ==
    /\ send[t] = "push"
    /\ \/ ~ClientOpen(home[t]) /\ UNCHANGED <<list, bounds>>
       \/ ClientOpen(home[t]) /\ Fault /\ list' \in {list, Append(list, t)}
    /\ SendEnds(t, "failed")
    /\ UNCHANGED <<replica, pool, home, attempt, starts>>

-----------------------------------------------------------------------------
(* redisWorker, worker p[2] of replica p[1].                               *)

NeverCancelled(r) == FALSE  \* variant: Close does not call workerCancel

Cancelled(r) == closer[r] \in {"waiting", "returned"}   \* workerCtx

(* BRPOP is called; with a cancelled context it fails at once.             *)
Loop(p) ==
    /\ wpc[p] = "loop"
    /\ wpc' = [wpc EXCEPT ![p] = IF Cancelled(p[1]) THEN "exited" ELSE "popping"]
    /\ UNCHANGED <<list, replica, job, call, send, home, attempt, outcome,
                   starts, bounds>>

(* Variants of the next action: the element is read but not removed; the   *)
(* context is tested once more after BRPOP.                                *)
PeekNotPop(p) ==
    /\ wpc[p] = "popping"
    /\ list # <<>>
    /\ job' = [job EXCEPT ![p] = Head(list)]
    /\ wpc' = [wpc EXCEPT ![p] = "process"]
    /\ UNCHANGED <<list, replica, call, send, home, attempt, outcome,
                   starts, bounds>>

PopThenReturn(p) ==
    /\ wpc[p] = "popping"
    /\ list # <<>>
    /\ list' = Tail(list)
    /\ IF Cancelled(p[1])
       THEN wpc' = [wpc EXCEPT ![p] = "exited"] /\ UNCHANGED job
       ELSE /\ job' = [job EXCEPT ![p] = Head(list)]
            /\ wpc' = [wpc EXCEPT ![p] = "process"]
    /\ UNCHANGED <<replica, call, send, home, attempt, outcome, starts,
                   bounds>>

Pop(p) ==
    /\ wpc[p] = "popping"
    /\ list # <<>>
    /\ list' = Tail(list)
    /\ job' = [job EXCEPT ![p] = Head(list)]
    /\ wpc' = [wpc EXCEPT ![p] = "process"]
    /\ UNCHANGED <<replica, call, send, home, attempt, outcome, starts,
                   bounds>>

(* Variant of the next action: the worker returns on every error.          *)
PopGivesUp(p) ==
    /\ wpc[p] = "popping"
    /\ wpc' = [wpc EXCEPT ![p] = "exited"]
    /\ list = <<>>
    /\ UNCHANGED <<list, replica, job, call, send, home, attempt, outcome,
                   starts, bounds>>

(* BRPOP times out on an empty list, is cut short by workerCancel, or      *)
(* fails; a failure may have popped an element.                            *)
PopNothing(p) ==
    /\ wpc[p] = "popping"
    /\ wpc' = [wpc EXCEPT ![p] = IF Cancelled(p[1]) THEN "exited" ELSE "loop"]
    /\ \/ list = <<>> /\ UNCHANGED <<list, outcome, bounds>>
       \/ Cancelled(p[1]) /\ UNCHANGED <<list, outcome, bounds>>
       \/ Fault /\ UNCHANGED <<list, outcome>>
       \/ /\ Fault
          /\ list # <<>>
          /\ list' = Tail(list)
          /\ outcome' = [outcome EXCEPT ![Head(list)] = "lost"]
    /\ UNCHANGED <<replica, job, call, send, home, attempt, starts>>

(* Variant of the next operator: the worker keeps hold of its last task.   *)
KeepsJob(p) ==
    /\ wpc' = [wpc EXCEPT ![p] = "loop"]
    /\ UNCHANGED job

Release(p) ==
    /\ wpc' = [wpc EXCEPT ![p] = "loop"]
    /\ job' = [job EXCEPT ![p] = NoTask]

(* process() discards a task that is too old or has no handler here.       *)
Discard(p) ==
    /\ wpc[p] = "process"
    /\ \E why \in {"aged", "nohandler"} :
          /\ why = "nohandler" => ~registered[p[1]]
          /\ outcome' = [outcome EXCEPT ![job[p]] = why]
    /\ Release(p)
    /\ UNCHANGED <<list, replica, call, send, home, attempt, starts, bounds>>

Start(p) ==
    /\ wpc[p] = "process"
    /\ registered[p[1]]
    /\ starts' = [starts EXCEPT ![job[p]] = @ + 1]
    /\ wpc' = [wpc EXCEPT ![p] = "handler"]
    /\ UNCHANGED <<list, replica, job, call, send, home, attempt, outcome,
                   bounds>>

LastAttempt(p) == attempt[job[p]] + 1 >= MaxRetries

(* The handler succeeds, panics, or fails for the last time.               *)
Finish(p) ==
    /\ wpc[p] = "handler"
    /\ \/ outcome' = [outcome EXCEPT ![job[p]] = "done"]
       \/ LastAttempt(p) /\ outcome' = [outcome EXCEPT ![job[p]] = "exhausted"]
    /\ Release(p)
    /\ UNCHANGED <<list, replica, call, send, home, attempt, starts, bounds>>

Retry(p) ==
    /\ wpc[p] = "handler"
    /\ ~LastAttempt(p)
    /\ attempt' = [attempt EXCEPT ![job[p]] = @ + 1]
    /\ send' = [send EXCEPT ![job[p]] = "timer"]
    /\ home' = [home EXCEPT ![job[p]] = p[1]]
    /\ Release(p)
    /\ UNCHANGED <<list, replica, call, outcome, starts, bounds>>

-----------------------------------------------------------------------------
(* The life of a replica.                                                  *)

Register(r) ==
    /\ up[r] /\ ~registered[r]
    /\ registered' = [registered EXCEPT ![r] = TRUE]
    /\ UNCHANGED <<list, up, closed, closer, pool, call, send, home, attempt,
                   outcome, starts, bounds>>

CloseBegin(r) ==
    /\ up[r] /\ ~closed[r] /\ stops < MaxStops
    /\ closed' = [closed EXCEPT ![r] = TRUE]
    /\ closer' = [closer EXCEPT ![r] = "closing"]
    /\ stops' = stops + 1
    /\ UNCHANGED <<list, up, registered, pool, call, send, home, attempt,
                   outcome, starts, redisFaults>>

CloseCancel(r) ==
    /\ closer[r] = "closing"
    /\ closer' = [closer EXCEPT ![r] = "waiting"]
    /\ UNCHANGED <<list, up, registered, closed, pool, call, send, home,
                   attempt, outcome, starts, bounds>>

AllExited(r) == \A w \in Workers : wpc[<<r, w>>] = "exited"

CloseReturn(r) ==
    /\ closer[r] = "waiting"
    /\ AllExited(r)
    /\ closer' = [closer EXCEPT ![r] = "returned"]
    /\ UNCHANGED <<list, up, registered, closed, pool, call, send, home,
                   attempt, outcome, starts, bounds>>

(* The process ends, after Close or by a crash: what its goroutines hold   *)
(* is gone.                                                                *)
Stop(r) ==
    LET held == {job[<<r, w>>] : w \in Workers} \ {NoTask}
        sending == {t \in Tasks : home[t] = r /\ send[t] # "none"}
        callers == {t \in sending : call[t] = "sending"}
    IN
    /\ up[r]
    /\ closer[r] = "returned" \/ stops < MaxStops
    /\ up' = [up EXCEPT ![r] = FALSE]
    /\ closed' = [closed EXCEPT ![r] = FALSE]
    /\ registered' = [registered EXCEPT ![r] = FALSE]
    /\ closer' = [closer EXCEPT ![r] = "idle"]
    /\ wpc' = [p \in DOMAIN wpc |-> IF p[1] = r THEN "dead" ELSE wpc[p]]
    /\ job' = [p \in DOMAIN job |-> IF p[1] = r THEN NoTask ELSE job[p]]
    /\ send' = [t \in Tasks |-> IF t \in sending THEN "none" ELSE send[t]]
    /\ call' = [t \in Tasks |-> IF t \in callers THEN "gone" ELSE call[t]]
    /\ outcome' = [t \in Tasks |->
                     IF t \in held \cup (sending \ callers) THEN "stopped"
                     ELSE outcome[t]]
    /\ stops' = IF closer[r] = "returned" THEN stops ELSE stops + 1
    /\ UNCHANGED <<list, home, attempt, starts, redisFaults>>

(* NewRedis: the workers run before any handler is registered.             *)
Restart(r) ==
    /\ ~up[r]
    /\ up' = [up EXCEPT ![r] = TRUE]
    /\ wpc' = [p \in DOMAIN wpc |-> IF p[1] = r THEN "loop" ELSE wpc[p]]
    /\ UNCHANGED <<list, registered, closed, closer, job, call, send, home,
                   attempt, outcome, starts, bounds>>

-----------------------------------------------------------------------------
Sender(t) ==
    Requeue(t) \/ SendRefused(t) \/ SendLength(t) \/ SendPush(t) \/ PushFails(t)

Worker(p) ==
    \/ Loop(p) \/ Pop(p) \/ PopNothing(p)
    \/ Discard(p) \/ Start(p) \/ Finish(p) \/ Retry(p)

Replica(r) ==
    \/ Register(r) \/ Stop(r) \/ Restart(r)
    \/ CloseBegin(r) \/ CloseCancel(r) \/ CloseReturn(r)

RedisNext ==
    \/ \E t \in Tasks : Sender(t) \/ \E r \in Replicas : Enqueue(t, r)
    \/ \E p \in Replicas \X Workers : Worker(p)
    \/ \E r \in Replicas : Replica(r)

(* Goroutines run, commands sent to Redis return, handlers return, and a   *)
(* process that is down is started again.                                  *)
RedisFairness ==
    /\ \A t \in Tasks : WF_redisVars(Sender(t))
    /\ \A p \in Replicas \X Workers : WF_redisVars(Worker(p))
    /\ \A r \in Replicas :
          WF_redisVars(Register(r) \/ Restart(r) \/ CloseCancel(r) \/ CloseReturn(r))

(* A closed replica eventually leaves: bootstrap exits after Close.        *)
ExitsAfterClose ==
    \A r \in Replicas : WF_redisVars(closer[r] = "returned" /\ Stop(r))

RedisSpec == RedisInit /\ [][RedisNext]_redisVars

RedisFairSpec == RedisSpec /\ RedisFairness /\ ExitsAfterClose

-----------------------------------------------------------------------------
Listed == {list[i] : i \in 1..Len(list)}
Held == {t \in Tasks : \E p \in DOMAIN job : job[p] = t}
Sending == {t \in Tasks : send[t] # "none"}

(* The values of the variables; a worker holds a task exactly while it     *)
(* processes one.                                                          *)
RedisTypeOK ==
    /\ list \in Seq(Tasks)
    /\ up \in [Replicas -> BOOLEAN]
    /\ registered \in [Replicas -> BOOLEAN]
    /\ closed \in [Replicas -> BOOLEAN]
    /\ closer \in [Replicas -> {"idle", "closing", "waiting", "returned"}]
    /\ wpc \in [Replicas \X Workers ->
                  {"loop", "popping", "process", "handler", "exited", "dead"}]
    /\ job \in [Replicas \X Workers -> Tasks \cup {NoTask}]
    /\ \A p \in DOMAIN job : job[p] # NoTask <=> wpc[p] \in {"process", "handler"}
    /\ call \in [Tasks -> {"idle", "sending", "accepted", "failed", "gone",
                           "ErrQueueFull", "ErrQueueClosed", "ErrNoHandler"}]
    /\ send \in [Tasks -> {"none", "timer", "length", "push"}]
    /\ home \in [Tasks -> Replicas]
    /\ attempt \in [Tasks -> Nat]
    /\ outcome \in [Tasks -> {"none", "done", "exhausted", "aged", "nohandler",
                              "lost", "stopped"}]
    /\ starts \in [Tasks -> Nat]
    /\ redisFaults \in 0..MaxRedisFaults
    /\ stops \in 0..MaxStops

(* A task is in the list once, with one worker of one replica, or in one   *)
(* sender: never in two of them, whichever replica sent, popped or died    *)
(* ("qualquer uma pode processar uma tarefa enfileirada por outra").       *)
OnePlace ==
    /\ \A i, j \in 1..Len(list) : list[i] = list[j] => i = j
    /\ \A p, q \in DOMAIN job : job[p] = job[q] /\ job[p] # NoTask => p = q
    /\ Listed \cap Held = {}
    /\ Listed \cap Sending = {}
    /\ Held \cap Sending = {}

(* An accepted task is in the list, in a worker, in a retry, or has an     *)
(* outcome that was logged or is due to the end of a process.              *)
AcceptedAccounted ==
    \A t \in Tasks :
        call[t] = "accepted" =>
            t \in Listed \cup Held \cup Sending \/ outcome[t] # "none"

(* The attempts travel with the task: whichever replicas try it, and       *)
(* whatever Redis answers to the retries, its handler is started at most   *)
(* MaxRetries times.                                                       *)
AttemptsHold == \A t \in Tasks : starts[t] <= MaxRetries

(* No task is in two hands or in none, nor tried too often, across         *)
(* replicas, retries, crashes and restarts.                                *)
RedisQueueSound == RedisTypeOK /\ OnePlace /\ AcceptedAccounted /\ AttemptsHold

(* The end of one replica leaves the list to the others: a task leaves the *)
(* list only for a worker's hands or with the reply of a failed BRPOP.     *)
ListSurvivesStops ==
    [][\A t \in Listed : t \notin Listed' => t \in Held' \/ outcome'[t] = "lost"]_redisVars

(* The shared list seen as a ledger of tasks (SharedLedger): a task waits  *)
(* in the list, in a worker that has not started it or in a retry, whether *)
(* its sender was told of an error or not.                                 *)
Handled == {t \in Tasks : \E p \in DOMAIN job : job[p] = t /\ wpc[p] = "handler"}

SharedPhase(t) ==
    IF call[t] \in {"idle", "sending"} THEN "offered"
    ELSE IF t \in Handled THEN "running"
    ELSE IF t \in Listed \cup Held \cup Sending THEN "pending"
    ELSE IF outcome[t] # "none" THEN "ended" ELSE "refused"

Shared == INSTANCE SharedLedger WITH
    MaxRuns <- MaxRetries,
    phase <- [t \in Tasks |-> SharedPhase(t)],
    open <- TRUE,
    over <- FALSE

(* The replicas share the list as one ledger of tasks: what was refused or *)
(* has ended is never run, whatever an LPUSH that failed has left in the   *)
(* list, and the end of a replica takes from the ledger what it had.       *)
ReplicasShareLedger == ListSurvivesStops /\ Shared!SharedSpec

(* A Close has returned, for a worker blocked in BRPOP comes back and one  *)
(* that runs a handler takes no other task; and every listed task has been *)
(* popped by some replica, across their restarts.                          *)
RedisQueueSettled ==
    list = <<>> /\ \A r \in Replicas : up[r] => closer[r] \notin {"closing", "waiting"}

(* "o que ainda nao foi processado sobrevive a um restart" (USE.md:1907):  *)
(* a task Enqueue accepted is not thrown away for want of a handler that   *)
(* every replica registers.                                                *)
SurvivesRestart == \A t \in Tasks : outcome[t] # "nohandler"
=============================================================================
