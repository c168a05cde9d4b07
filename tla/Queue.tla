------------------------------- MODULE Queue -------------------------------
(***************************************************************************)
(* The in-memory task queue of core/queue/queue.go: a buffered Go channel, *)
(* a pool of workers that range over it, retries that wait in a            *)
(* time.AfterFunc timer, and a Close that closes the channel and waits for *)
(* the workers.                                                            *)
(*                                                                         *)
(* A task is one call of Enqueue.  The call tests the closed flag under    *)
(* the read lock and sends after releasing it, so the two are separate     *)
(* steps here; the timer's requeue does the same.  Sending on a closed Go  *)
(* channel panics: in Enqueue the panic reaches the caller, in the timer's *)
(* goroutine nothing recovers it and the process dies.                     *)
(***************************************************************************)
EXTENDS Integers, Sequences

CONSTANTS
    Tasks,              \* the calls of Enqueue, one task each
    Workers,            \* the goroutines New starts
    Closers,            \* the callers of Close
    Names,              \* task names
    NameOf,             \* the name each call of Enqueue passes
    NoTask,             \* what a worker without a task holds
    Buffer,             \* capacity of the channel
    DefaultMaxRetries,  \* maxRetries set by New
    RetryLimits,        \* what SetMaxRetries is called with
    DefaultMaxAge,      \* maxAge set by New; 0 turns the limit off
    AgeLimits,          \* what SetMaxAge is called with
    MaxRuns,            \* bounds every retry limit in use
    MaxNow              \* bound on the clock

ASSUME NoTaskAssumption == NoTask \notin Tasks
ASSUME WorkersAssumption == Workers # {}
ASSUME NameAssumption == NameOf \in [Tasks -> Names]
ASSUME BufferAssumption == Buffer \in Nat \ {0}
ASSUME ClockAssumption ==
    MaxNow \in Nat /\ DefaultMaxAge \in Int /\ AgeLimits \subseteq Int
ASSUME RetryAssumption ==
    /\ MaxRuns \in Nat \ {0}
    /\ \A r \in RetryLimits \cup {DefaultMaxRetries} : r \in Int /\ r <= MaxRuns

VARIABLES
    closed,      \* q.closed; Close closes the channel under the same lock
    handlers,    \* the names with a registered handler
    maxRetries,
    maxAge,
    tasks,       \* the channel's buffer
    now,         \* the clock
    call,        \* where each call of Enqueue is
    enqueuedAt,
    attempt,     \* task.attempt
    retry,       \* where each task's pending requeue is
    wpc,         \* where each worker is
    job,         \* the task a worker holds
    limit,       \* the maxRetries a worker's process() has read
    closer,      \* where each call of Close is
    outcome,     \* how the task left the queue
    runs,        \* how often a handler was started on the task (history)
    crashed      \* a panic killed the process

config == <<handlers, maxRetries, maxAge, now>>
callers == <<call, enqueuedAt>>
pool == <<wpc, job, limit>>
vars == <<closed, config, tasks, callers, attempt, retry, pool, closer,
          outcome, runs, crashed>>

CallStates == {"idle", "checked", "accepted", "ErrQueueFull",
               "ErrQueueClosed", "ErrNoHandler", "panicked"}
RetryStates == {"none", "timer", "checked"}
WorkerStates == {"receive", "process", "handler", "exited"}
CloserStates == {"idle", "waiting", "returned", "skipped"}
Outcomes == {"none", "handled", "exhausted", "aged", "nohandler", "panic",
             "lostClosed", "lostFull"}

-----------------------------------------------------------------------------
Init ==
    /\ closed = FALSE
    /\ handlers = {}
    /\ maxRetries = DefaultMaxRetries
    /\ maxAge = DefaultMaxAge
    /\ tasks = <<>>
    /\ now = 0
    /\ call = [t \in Tasks |-> "idle"]
    /\ enqueuedAt = [t \in Tasks |-> 0]
    /\ attempt = [t \in Tasks |-> 0]
    /\ retry = [t \in Tasks |-> "none"]
    /\ wpc = [w \in Workers |-> "receive"]
    /\ job = [w \in Workers |-> NoTask]
    /\ limit = [w \in Workers |-> DefaultMaxRetries]
    /\ closer = [c \in Closers |-> "idle"]
    /\ outcome = [t \in Tasks |-> "none"]
    /\ runs = [t \in Tasks |-> 0]
    /\ crashed = FALSE

-----------------------------------------------------------------------------
(* Configuration: each of these takes the write lock.                      *)

Register(n) ==
    /\ handlers' = handlers \cup {n}
    /\ UNCHANGED <<closed, maxRetries, maxAge, now, tasks, callers, attempt,
                   retry, pool, closer, outcome, runs, crashed>>

SetMaxRetries(r) ==
    /\ maxRetries' = r
    /\ UNCHANGED <<closed, handlers, maxAge, now, tasks, callers, attempt,
                   retry, pool, closer, outcome, runs, crashed>>

SetMaxAge(d) ==
    /\ maxAge' = d
    /\ UNCHANGED <<closed, handlers, maxRetries, now, tasks, callers, attempt,
                   retry, pool, closer, outcome, runs, crashed>>

Tick ==
    /\ now < MaxNow
    /\ now' = now + 1
    /\ UNCHANGED <<closed, handlers, maxRetries, maxAge, tasks, callers,
                   attempt, retry, pool, closer, outcome, runs, crashed>>

-----------------------------------------------------------------------------
(* enqueueTask: the non-blocking send both Enqueue and requeue end in.     *)

RoomForOneMore == Len(tasks) <= Buffer  \* variant: off by one

HasRoom == Len(tasks) < Buffer

(* Enqueue up to RUnlock, and the stamp the new task carries.              *)
EnqueueCheck(t) ==
    /\ call[t] = "idle"
    /\ call' = [call EXCEPT ![t] =
                  IF closed THEN "ErrQueueClosed"
                  ELSE IF NameOf[t] \notin handlers THEN "ErrNoHandler"
                  ELSE "checked"]
    /\ enqueuedAt' = [enqueuedAt EXCEPT ![t] = now]
    /\ UNCHANGED <<closed, config, tasks, attempt, retry, pool, closer,
                   outcome, runs, crashed>>

(* Variant of the next action: a full buffer is reported as success.       *)
SendDropsSilently(t) ==
    /\ call[t] = "checked"
    /\ call' = [call EXCEPT ![t] = IF closed THEN "panicked" ELSE "accepted"]
    /\ tasks' = IF ~closed /\ HasRoom THEN Append(tasks, t) ELSE tasks
    /\ UNCHANGED <<closed, config, enqueuedAt, attempt, retry, pool, closer,
                   outcome, runs, crashed>>

EnqueueSend(t) ==
    /\ call[t] = "checked"
    /\ call' = [call EXCEPT ![t] = IF closed THEN "panicked"
                                   ELSE IF HasRoom THEN "accepted"
                                   ELSE "ErrQueueFull"]
    /\ tasks' = IF ~closed /\ HasRoom THEN Append(tasks, t) ELSE tasks
    /\ UNCHANGED <<closed, config, enqueuedAt, attempt, retry, pool, closer,
                   outcome, runs, crashed>>

-----------------------------------------------------------------------------
(* The workers.                                                            *)

Receive(w) ==
    /\ wpc[w] = "receive"
    /\ tasks # <<>>
    /\ job' = [job EXCEPT ![w] = Head(tasks)]
    /\ tasks' = Tail(tasks)
    /\ wpc' = [wpc EXCEPT ![w] = "process"]
    /\ UNCHANGED <<closed, config, callers, attempt, retry, limit, closer,
                   outcome, runs, crashed>>

ChannelNeverClosed(w) == FALSE  \* variant: the range never ends

(* The range over a closed and drained channel ends.                       *)
Exit(w) ==
    /\ wpc[w] = "receive"
    /\ tasks = <<>>
    /\ closed
    /\ wpc' = [wpc EXCEPT ![w] = "exited"]
    /\ UNCHANGED <<closed, config, tasks, callers, attempt, retry, job, limit,
                   closer, outcome, runs, crashed>>

Aged(t) == maxAge > 0 /\ now - enqueuedAt[t] > maxAge

Release(w) ==
    /\ wpc' = [wpc EXCEPT ![w] = "receive"]
    /\ job' = [job EXCEPT ![w] = NoTask]

(* process() returns before it calls the handler.                          *)
Discard(w) ==
    /\ wpc[w] = "process"
    /\ Aged(job[w]) \/ NameOf[job[w]] \notin handlers
    /\ outcome' = [outcome EXCEPT ![job[w]] =
                     IF Aged(job[w]) THEN "aged" ELSE "nohandler"]
    /\ Release(w)
    /\ UNCHANGED <<closed, config, tasks, callers, attempt, retry, limit,
                   closer, runs, crashed>>

(* process() reads its configuration and calls the handler.                *)
Start(w) ==
    /\ wpc[w] = "process"
    /\ ~Aged(job[w])
    /\ NameOf[job[w]] \in handlers
    /\ limit' = [limit EXCEPT ![w] = maxRetries]
    /\ runs' = [runs EXCEPT ![job[w]] = @ + 1]
    /\ wpc' = [wpc EXCEPT ![w] = "handler"]
    /\ UNCHANGED <<closed, config, tasks, callers, attempt, retry, job, closer,
                   outcome, crashed>>

(* The handler returns nil, or panics and process() recovers.              *)
Finish(w, how) ==
    /\ wpc[w] = "handler"
    /\ outcome' = [outcome EXCEPT ![job[w]] = how]
    /\ Release(w)
    /\ UNCHANGED <<closed, config, tasks, callers, attempt, retry, limit,
                   closer, runs, crashed>>

OneAttemptTooMany(w) == attempt[job[w]] + 1 > limit[w]  \* variant: off by one

LastAttempt(w) == attempt[job[w]] + 1 >= limit[w]

(* Variant of the next action: it does not return, so the retry follows.   *)
GiveUpFallsThrough(w) ==
    /\ wpc[w] = "handler"
    /\ LastAttempt(w)
    /\ outcome' = [outcome EXCEPT ![job[w]] = "exhausted"]
    /\ retry' = [retry EXCEPT ![job[w]] = "timer"]
    /\ Release(w)
    /\ UNCHANGED <<closed, config, tasks, callers, attempt, limit, closer,
                   runs, crashed>>

(* The handler returns an error and no attempt is left.                    *)
GiveUp(w) ==
    /\ wpc[w] = "handler"
    /\ LastAttempt(w)
    /\ outcome' = [outcome EXCEPT ![job[w]] = "exhausted"]
    /\ Release(w)
    /\ UNCHANGED <<closed, config, tasks, callers, attempt, retry, limit,
                   closer, runs, crashed>>

(* Variant of the next action: the timer is never armed.                   *)
RetryWithoutTimer(w) ==
    /\ wpc[w] = "handler"
    /\ ~LastAttempt(w)
    /\ attempt' = [attempt EXCEPT ![job[w]] = @ + 1]
    /\ Release(w)
    /\ UNCHANGED <<closed, config, tasks, callers, retry, limit, closer,
                   outcome, runs, crashed>>

(* The handler returns an error and the task waits for another attempt.    *)
Retry(w) ==
    /\ wpc[w] = "handler"
    /\ ~LastAttempt(w)
    /\ attempt' = [attempt EXCEPT ![job[w]] = @ + 1]
    /\ retry' = [retry EXCEPT ![job[w]] = "timer"]
    /\ Release(w)
    /\ UNCHANGED <<closed, config, tasks, callers, limit, closer, outcome,
                   runs, crashed>>

-----------------------------------------------------------------------------
(* The timer's goroutine: requeue.                                         *)

RequeueCheck(t) ==
    /\ retry[t] = "timer"
    /\ retry' = [retry EXCEPT ![t] = IF closed THEN "none" ELSE "checked"]
    /\ outcome' = [outcome EXCEPT ![t] = IF closed THEN "lostClosed" ELSE @]
    /\ UNCHANGED <<closed, config, tasks, callers, attempt, pool, closer, runs,
                   crashed>>

RequeueSend(t) ==
    /\ retry[t] = "checked"
    /\ ~closed
    /\ retry' = [retry EXCEPT ![t] = "none"]
    /\ outcome' = [outcome EXCEPT ![t] = IF HasRoom THEN @ ELSE "lostFull"]
    /\ tasks' = IF HasRoom THEN Append(tasks, t) ELSE tasks
    /\ UNCHANGED <<closed, config, callers, attempt, pool, closer, runs,
                   crashed>>

(* The channel was closed after requeue had tested the flag.               *)
RequeuePanic(t) ==
    /\ retry[t] = "checked"
    /\ closed
    /\ crashed' = TRUE
    /\ UNCHANGED <<closed, config, tasks, callers, attempt, retry, pool,
                   closer, outcome, runs>>

-----------------------------------------------------------------------------
(* Close.                                                                  *)

CloseBegin(c) ==
    /\ closer[c] = "idle"
    /\ closer' = [closer EXCEPT ![c] = IF closed THEN "skipped" ELSE "waiting"]
    /\ closed' = TRUE
    /\ UNCHANGED <<config, tasks, callers, attempt, retry, pool, outcome, runs,
                   crashed>>

(* Variant of the next action: Close does not wait for the workers.        *)
CloseWithoutWait(c) ==
    /\ closer[c] = "waiting"
    /\ closer' = [closer EXCEPT ![c] = "returned"]
    /\ UNCHANGED <<closed, config, tasks, callers, attempt, retry, pool,
                   outcome, runs, crashed>>

(* wg.Wait() returns.                                                      *)
CloseReturn(c) ==
    /\ closer[c] = "waiting"
    /\ \A w \in Workers : wpc[w] = "exited"
    /\ closer' = [closer EXCEPT ![c] = "returned"]
    /\ UNCHANGED <<closed, config, tasks, callers, attempt, retry, pool,
                   outcome, runs, crashed>>

-----------------------------------------------------------------------------
Configure ==
    \/ \E n \in Names : Register(n)
    \/ \E r \in RetryLimits : SetMaxRetries(r)
    \/ \E d \in AgeLimits : SetMaxAge(d)

Caller(t) == EnqueueCheck(t) \/ EnqueueSend(t)

Worker(w) ==
    \/ Receive(w)
    \/ Exit(w)
    \/ Discard(w)
    \/ Start(w)
    \/ Finish(w, "handled")
    \/ Finish(w, "panic")
    \/ GiveUp(w)
    \/ Retry(w)

Timer(t) == RequeueCheck(t) \/ RequeueSend(t) \/ RequeuePanic(t)

Closer(c) == CloseBegin(c) \/ CloseReturn(c)

Next ==
    /\ ~crashed
    /\ \/ Configure
       \/ Tick
       \/ \E t \in Tasks : Caller(t) \/ Timer(t)
       \/ \E w \in Workers : Worker(w)
       \/ \E c \in Closers : Closer(c)

(* The Go scheduler runs every goroutine that can run, and handlers return *)
(* (nothing in the queue bounds one that does not).  No caller is obliged  *)
(* to enqueue or to close.                                                 *)
Fairness ==
    /\ \A w \in Workers : WF_vars(~crashed /\ Worker(w))
    /\ \A t \in Tasks : WF_vars(~crashed /\ (EnqueueSend(t) \/ Timer(t)))
    /\ \A c \in Closers : WF_vars(~crashed /\ CloseReturn(c))

Spec == Init /\ [][Next]_vars

FairSpec == Spec /\ Fairness

-----------------------------------------------------------------------------
(* The tasks waiting in the channel, held by a worker, waiting in a timer, *)
(* and those whose handler runs.                                           *)
Queued == {tasks[i] : i \in 1..Len(tasks)}
Held == {t \in Tasks : \E w \in Workers : job[w] = t}
Retrying == {t \in Tasks : retry[t] # "none"}
Running == {t \in Tasks : \E w \in Workers : job[w] = t /\ wpc[w] = "handler"}

(* The queue seen as a ledger of tasks (TaskLedger).                       *)
PhaseOf(t) ==
    IF call[t] \in {"idle", "checked"} THEN "offered"
    ELSE IF call[t] # "accepted" THEN "refused"
    ELSE IF outcome[t] # "none" THEN "ended"
    ELSE IF t \in Running THEN "running" ELSE "pending"

Ledger == INSTANCE TaskLedger WITH
    phase <- [t \in Tasks |-> PhaseOf(t)],
    starts <- runs,
    open <- ~closed,
    over <- \E c \in Closers : closer[c] = "returned"

(* The values of the variables.                                            *)
TypeOK ==
    /\ closed \in BOOLEAN
    /\ handlers \subseteq Names
    /\ maxRetries \in RetryLimits \cup {DefaultMaxRetries}
    /\ maxAge \in AgeLimits \cup {DefaultMaxAge}
    /\ tasks \in Seq(Tasks) /\ Len(tasks) <= Buffer
    /\ now \in 0..MaxNow
    /\ call \in [Tasks -> CallStates]
    /\ enqueuedAt \in [Tasks -> 0..MaxNow]
    /\ attempt \in [Tasks -> Nat]
    /\ retry \in [Tasks -> RetryStates]
    /\ wpc \in [Workers -> WorkerStates]
    /\ job \in [Workers -> Tasks \cup {NoTask}]
    /\ limit \in [Workers -> RetryLimits \cup {DefaultMaxRetries}]
    /\ closer \in [Closers -> CloserStates]
    /\ outcome \in [Tasks -> Outcomes]
    /\ runs \in [Tasks -> Nat]
    /\ crashed \in BOOLEAN

(* A task is handed to one worker: it sits once in the channel, or with    *)
(* one worker, or in one pending retry, and with a recorded outcome it     *)
(* sits nowhere ("cada tarefa e processada por UM worker", queue.go:8).    *)
OnePlace ==
    /\ \A i, j \in 1..Len(tasks) : tasks[i] = tasks[j] => i = j
    /\ \A v, w \in Workers : job[v] = job[w] /\ job[v] # NoTask => v = w
    /\ Queued \cap Held = {}
    /\ Queued \cap Retrying = {}
    /\ Held \cap Retrying = {}
    /\ \A t \in Queued \cup Held \cup Retrying : outcome[t] = "none"

(* Exactly the accepted tasks are inside the queue or have an outcome:     *)
(* nothing enters without a nil from Enqueue, and no accepted task         *)
(* vanishes without one of the ends process() and requeue() log.           *)
Conserved ==
    \A t \in Tasks :
        call[t] = "accepted" <=>
            t \in Queued \cup Held \cup Retrying \/ outcome[t] # "none"

(* The three together: no task accepted by Enqueue is in two hands or in   *)
(* none, in every interleaving of senders, workers, timers and closers.    *)
QueueSound == TypeOK /\ OnePlace /\ Conserved

(* The handler runs at most as often as the largest retry limit in use,    *)
(* whatever SetMaxRetries does between the attempts.                       *)
AttemptsBounded == \A t \in Tasks : runs[t] <= MaxRuns

(* A worker never meets a task without a handler: Enqueue has tested the   *)
(* name and Register never removes one, so process()'s third discard       *)
(* (queue.go:354) cannot happen in memory mode.                            *)
HandlerKnown == \A t \in Tasks : outcome[t] # "nohandler"

(* When the Close that closed the channel returns, every task the channel  *)
(* held has been taken by a worker, and no handler is running any more.    *)
CloseDrains ==
    \A c \in Closers :
        closer[c] = "returned" => tasks = <<>> /\ Held = {}

(* Once closed, the queue takes nothing in and only the tasks it already   *)
(* held are run: the channel only shrinks, and a started task was there.   *)
NothingEntersAfterClose ==
    [][closed => /\ closed'
                 /\ Len(tasks') <= Len(tasks)
                 /\ \A t \in Tasks : call[t] # "accepted" => call'[t] # "accepted"
      ]_vars

(* A Close that has started has returned, however many tasks it had to     *)
(* drain, and every accepted task has its outcome, for a retry always      *)
(* ends; unless a retry's send has killed the process.                     *)
QueueSettled ==
    \/ crashed
    \/ /\ \A c \in Closers : closer[c] # "waiting"
       /\ \A t \in Tasks : call[t] = "accepted" => outcome[t] # "none"

(* The queue keeps the ledger's promise: one run at a time, at most        *)
(* MaxRuns of them, one end, nothing accepted after Close has begun and    *)
(* nothing run after it has returned (queue.go:8-10, 272-273).             *)
ImplementsLedger == Ledger!LedgerSpec

(* "trabalho enfileirado nao se perde num deploy" (bootstrap.go:425):      *)
(* an accepted task is not lost because the queue was closed.              *)
NoTaskLostByClose == \A t \in Tasks : outcome[t] # "lostClosed"

(* "shutdown gracioso" (queue.go:2): closing the queue does not kill the   *)
(* process.                                                                *)
CloseNeverCrashes == ~crashed
=============================================================================
