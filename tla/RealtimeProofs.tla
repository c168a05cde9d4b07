---------------------------- MODULE RealtimeProofs ----------------------------
(***************************************************************************)
(* What holds of the queue in memory and of the realtime hub.              *)
(*                                                                         *)
(* The queue: for every number of tasks, workers and closers, every buffer *)
(* and every configuration, its invariants, and that it implements the     *)
(* ledger of its tasks.                                                    *)
(*                                                                         *)
(* The hub: for any number of connections, publishers and updates, and any *)
(* capacity of the channels.  The invariant has three parts: the values of *)
(* the variables; what the lock guarantees, that nobody meets a channel    *)
(* that is closed; and the line of updates of a connection, which leads    *)
(* from what a publisher is about to send through the channel and the      *)
(* writer to the peer.                                                     *)
(***************************************************************************)
EXTENDS Queue, Hub, SequenceTheorems, TLAPS

(* What the channel's two operations do to the sequence of its elements.   *)
LEMMA SendLemma ==
    ASSUME NEW S, NEW s \in Seq(S), NEW e \in S
    PROVE  /\ Append(s, e) \in Seq(S)
           /\ Len(Append(s, e)) = Len(s) + 1
           /\ \A i \in 1..Len(s) : Append(s, e)[i] = s[i]
           /\ Append(s, e)[Len(s) + 1] = e
    OBVIOUS

LEMMA ReceiveLemma ==
    ASSUME NEW S, NEW s \in Seq(S), s # <<>>
    PROVE  /\ Head(s) \in S
           /\ Tail(s) \in Seq(S)
           /\ Len(s) \in Nat \ {0}
           /\ Len(Tail(s)) = Len(s) - 1
           /\ Head(s) = s[1]
           /\ \A i \in 1..Len(Tail(s)) : Tail(s)[i] = s[i + 1]
    OBVIOUS

-----------------------------------------------------------------------------
(* The initial state has the types of TypeOK.                              *)
LEMMA InitTypeOK == Init => TypeOK
    <1> SUFFICES ASSUME Init PROVE TypeOK
        OBVIOUS
    <1> USE DEF Init
    <1>0. closed \in BOOLEAN /\ crashed \in BOOLEAN
        BY Zenon
    <1>1. /\ handlers \subseteq Names
          /\ maxRetries \in RetryLimits \cup {DefaultMaxRetries}
          /\ maxAge \in AgeLimits \cup {DefaultMaxAge}
          /\ now \in 0..MaxNow
        BY ClockAssumption
    <1>2. tasks \in Seq(Tasks) /\ Len(tasks) <= Buffer
        BY BufferAssumption
    <1>3. /\ call \in [Tasks -> CallStates]
          /\ enqueuedAt \in [Tasks -> 0..MaxNow]
          /\ attempt \in [Tasks -> Nat]
          /\ retry \in [Tasks -> RetryStates]
          /\ outcome \in [Tasks -> Outcomes]
          /\ runs \in [Tasks -> Nat]
        BY ClockAssumption DEF CallStates, RetryStates, Outcomes
    <1>4. /\ wpc \in [Workers -> WorkerStates]
          /\ job \in [Workers -> Tasks \cup {NoTask}]
          /\ limit \in [Workers -> RetryLimits \cup {DefaultMaxRetries}]
          /\ closer \in [Closers -> CloserStates]
        BY DEF WorkerStates, CloserStates
    <1> QED
        BY <1>0, <1>1, <1>2, <1>3, <1>4 DEF TypeOK

(* A worker that is not waiting holds a task: what the types of a step     *)
(* that stores job[w] rest on.                                             *)
Busy(w) == wpc[w] \in {"process", "handler"}

WorkerHoldsTask == \A w \in Workers : Busy(w) => job[w] \in Tasks

TypeInv == TypeOK /\ WorkerHoldsTask

(* Every step keeps the types, and workers holding what they process.      *)
LEMMA StepTypeInv == TypeInv /\ [Next]_vars => TypeInv'
    <1> SUFFICES ASSUME TypeInv, [Next]_vars PROVE TypeInv'
        OBVIOUS
    <1> USE DEF TypeInv, TypeOK, WorkerHoldsTask, Busy, CallStates, RetryStates,
                WorkerStates, CloserStates, Outcomes
    <1>1. CASE Configure
        BY <1>1 DEF Configure, Register, SetMaxRetries, SetMaxAge, callers, pool
    <1>2. CASE Tick
        BY <1>2, ClockAssumption DEF Tick, callers, pool
    <1>3. ASSUME NEW t \in Tasks, EnqueueCheck(t) PROVE TypeInv'
        BY <1>3 DEF EnqueueCheck, config, pool
    <1>4. ASSUME NEW t \in Tasks, EnqueueSend(t) PROVE TypeInv'
        <2>1. tasks' \in Seq(Tasks) /\ Len(tasks') <= Buffer
            BY <1>4, SendLemma, BufferAssumption DEF EnqueueSend, HasRoom
        <2> QED
            BY <1>4, <2>1 DEF EnqueueSend, config, pool
    <1>5. ASSUME NEW w \in Workers, Receive(w) PROVE TypeInv'
        <2>1. Head(tasks) \in Tasks /\ tasks' \in Seq(Tasks) /\ Len(tasks') <= Buffer
            BY <1>5, ReceiveLemma, BufferAssumption DEF Receive
        <2> QED
            BY <1>5, <2>1 DEF Receive, config, callers
    <1>6. ASSUME NEW w \in Workers, Exit(w) PROVE TypeInv'
        BY <1>6 DEF Exit, config, callers
    <1>7. ASSUME NEW w \in Workers, Discard(w) PROVE TypeInv'
        BY <1>7 DEF Discard, Release, config, callers
    <1>8. ASSUME NEW w \in Workers, Start(w) PROVE TypeInv'
        BY <1>8 DEF Start, config, callers
    <1>9. ASSUME NEW w \in Workers, NEW how \in {"handled", "panic"}, Finish(w, how)
          PROVE TypeInv'
        BY <1>9 DEF Finish, Release, config, callers
    <1>10. ASSUME NEW w \in Workers, GiveUp(w) PROVE TypeInv'
        BY <1>10 DEF GiveUp, Release, config, callers
    <1>11. ASSUME NEW w \in Workers, Retry(w) PROVE TypeInv'
        BY <1>11 DEF Retry, Release, config, callers
    <1>12. ASSUME NEW t \in Tasks, RequeueCheck(t) PROVE TypeInv'
        BY <1>12 DEF RequeueCheck, config, callers, pool
    <1>13. ASSUME NEW t \in Tasks, RequeueSend(t) PROVE TypeInv'
        <2>1. tasks' \in Seq(Tasks) /\ Len(tasks') <= Buffer
            BY <1>13, SendLemma, BufferAssumption DEF RequeueSend, HasRoom
        <2> QED
            BY <1>13, <2>1 DEF RequeueSend, config, callers, pool
    <1>14. ASSUME NEW t \in Tasks, RequeuePanic(t) PROVE TypeInv'
        BY <1>14 DEF RequeuePanic, config, callers, pool
    <1>15. ASSUME NEW c \in Closers, CloseBegin(c) PROVE TypeInv'
        BY <1>15 DEF CloseBegin, config, callers, pool
    <1>16. ASSUME NEW c \in Closers, CloseReturn(c) PROVE TypeInv'
        BY <1>16 DEF CloseReturn, config, callers, pool
    <1>17. CASE UNCHANGED vars
        BY <1>17 DEF vars, config, callers, pool
    <1> QED
        BY <1>1, <1>2, <1>3, <1>4, <1>5, <1>6, <1>7, <1>8, <1>9, <1>10, <1>11,
           <1>12, <1>13, <1>14, <1>15, <1>16, <1>17
        DEF Next, Caller, Worker, Timer, Closer

(* Type correctness: in particular the channel never holds more than its   *)
(* capacity, whatever callers and timers do at once (queue.go:252).        *)
THEOREM TypeCorrect == Spec => []TypeOK
    <1>1. Init => TypeInv
        BY InitTypeOK DEF TypeInv, WorkerHoldsTask, Busy, Init
    <1>2. TypeInv => TypeOK
        BY DEF TypeInv
    <1> QED
        BY <1>1, <1>2, StepTypeInv, PTL DEF Spec

-----------------------------------------------------------------------------
(* Where a task is.  Each lemma says what one way of moving a task does to *)
(* one of the three sets Queued, Held and Retrying.                        *)

NoDup == \A i, j \in 1..Len(tasks) : tasks[i] = tasks[j] => i = j
OneJob == \A v, w \in Workers : job[v] = job[w] /\ job[v] # NoTask => v = w

LEMMA QueuedAfterSend ==
    ASSUME TypeOK, NoDup, NEW t \in Tasks, t \notin Queued,
           tasks' = Append(tasks, t)
    PROVE  Queued' = Queued \cup {t} /\ NoDup'
    <1> DEFINE n == Len(tasks)
    <1>1. tasks \in Seq(Tasks) /\ n \in Nat
        BY DEF TypeOK
    <1>2. /\ Len(tasks') = n + 1
          /\ \A i \in 1..n : tasks'[i] = tasks[i]
          /\ tasks'[n + 1] = t
        BY <1>1, SendLemma
    <1>3. \A i \in 1..n : tasks[i] # t
        BY DEF Queued
    <1> HIDE DEF n
    <1>4. Queued' = {tasks'[i] : i \in 1..(n + 1)}
        BY <1>2 DEF Queued
    <1>5. Queued = {tasks[i] : i \in 1..n}
        BY DEF Queued, n
    <1>6. Queued' = Queued \cup {t}
        <2>1. 1..(n + 1) = (1..n) \cup {n + 1}
            BY <1>1
        <2> QED
            BY <1>2, <1>4, <1>5, <2>1
    <1>7. NoDup'
        BY <1>1, <1>2, <1>3 DEF NoDup, n
    <1> QED
        BY <1>6, <1>7

LEMMA QueuedAfterReceive ==
    ASSUME TypeOK, NoDup, tasks # <<>>, tasks' = Tail(tasks)
    PROVE  /\ Head(tasks) \in Queued
           /\ Queued' = Queued \ {Head(tasks)}
           /\ NoDup'
    <1> DEFINE n == Len(tasks)
    <1>1. tasks \in Seq(Tasks)
        BY DEF TypeOK
    <1>2. /\ n \in Nat \ {0}
          /\ Len(tasks') = n - 1
          /\ Head(tasks) = tasks[1]
          /\ \A i \in 1..(n - 1) : tasks'[i] = tasks[i + 1]
        BY <1>1, ReceiveLemma
    <1>3. \A i, j \in 1..n : tasks[i] = tasks[j] => i = j
        BY DEF NoDup
    <1>4. Queued = {tasks[i] : i \in 1..n} /\ Queued' = {tasks'[i] : i \in 1..(n - 1)}
        BY <1>2 DEF Queued
    <1>5. NoDup'
        BY <1>2, <1>3 DEF NoDup
    <1> HIDE DEF n
    <1>6. Queued' \subseteq Queued \ {Head(tasks)}
        <2> SUFFICES ASSUME NEW i \in 1..(n - 1)
                     PROVE  tasks'[i] \in Queued /\ tasks'[i] # Head(tasks)
            BY <1>4
        <2>1. i + 1 \in 1..n /\ 1 \in 1..n /\ i + 1 # 1
            BY <1>2
        <2>2. tasks'[i] = tasks[i + 1]
            BY <1>2
        <2>3. tasks[i + 1] # tasks[1]
            BY <1>3, <2>1
        <2> QED
            BY <1>2, <1>4, <2>1, <2>2, <2>3
    <1>7. Queued \ {Head(tasks)} \subseteq Queued'
        <2> SUFFICES ASSUME NEW i \in 1..n, tasks[i] # Head(tasks)
                     PROVE  tasks[i] \in Queued'
            BY <1>4
        <2>1. i # 1
            BY <1>2
        <2>2. i - 1 \in 1..(n - 1) /\ (i - 1) + 1 = i
            BY <1>2, <2>1
        <2>3. tasks'[i - 1] = tasks[i]
            BY <1>2, <2>2
        <2> QED
            BY <1>4, <2>2, <2>3
    <1>8. Head(tasks) \in Queued
        BY <1>2, <1>4
    <1> QED
        BY <1>5, <1>6, <1>7, <1>8

LEMMA HeldAfterTake ==
    ASSUME TypeOK, OneJob, NEW w \in Workers, job[w] = NoTask,
           NEW t \in Tasks, t \notin Held, job' = [job EXCEPT ![w] = t]
    PROVE  Held' = Held \cup {t} /\ OneJob'
    <1>1. Held' = Held \cup {t}
        BY NoTaskAssumption DEF Held, TypeOK
    <1>2. OneJob'
        BY NoTaskAssumption DEF OneJob, Held, TypeOK
    <1> QED
        BY <1>1, <1>2

LEMMA HeldAfterRelease ==
    ASSUME TypeOK, OneJob, NEW w \in Workers, job[w] \in Tasks,
           job' = [job EXCEPT ![w] = NoTask]
    PROVE  /\ job[w] \in Held
           /\ Held' = Held \ {job[w]}
           /\ OneJob'
    <1>1. job[w] \in Held
        BY DEF Held
    <1>2. Held' = Held \ {job[w]}
        BY NoTaskAssumption DEF Held, OneJob, TypeOK
    <1>3. OneJob'
        BY NoTaskAssumption DEF OneJob, TypeOK
    <1> QED
        BY <1>1, <1>2, <1>3

LEMMA Unmoved ==
    /\ UNCHANGED tasks => Queued' = Queued /\ (NoDup => NoDup')
    /\ UNCHANGED job => Held' = Held /\ (OneJob => OneJob')
    /\ UNCHANGED retry => Retrying' = Retrying
    BY DEF Queued, NoDup, Held, OneJob, Retrying

(* The inductive invariant behind OnePlace and Conserved: they need each   *)
(* other (a send must find its task outside the channel, which follows     *)
(* from the retry or the call it comes from), and they need that a worker  *)
(* holds a task exactly while it is busy.                                  *)
JobIffBusy == \A w \in Workers : job[w] # NoTask <=> Busy(w)

Apart ==
    /\ Queued \cap Held = {}
    /\ Queued \cap Retrying = {}
    /\ Held \cap Retrying = {}
    /\ \A t \in Queued \cup Held \cup Retrying : outcome[t] = "none"

PlaceInv == TypeInv /\ JobIffBusy /\ NoDup /\ OneJob /\ Apart /\ Conserved

LEMMA InitPlaceInv == Init => PlaceInv
    <1> SUFFICES ASSUME Init PROVE PlaceInv
        OBVIOUS
    <1>1. TypeInv
        BY InitTypeOK DEF TypeInv, WorkerHoldsTask, Busy, Init
    <1>2. JobIffBusy /\ OneJob
        BY DEF Init, JobIffBusy, Busy, OneJob
    <1>3. Queued = {} /\ Held = {} /\ Retrying = {} /\ NoDup
        BY NoTaskAssumption DEF Init, Queued, Held, Retrying, NoDup
    <1>4. Apart /\ Conserved
        BY <1>3 DEF Init, Apart, Conserved
    <1> QED
        BY <1>1, <1>2, <1>3, <1>4 DEF PlaceInv

LEMMA StepPlaceInv == PlaceInv /\ [Next]_vars => PlaceInv'
    <1> SUFFICES ASSUME PlaceInv, [Next]_vars PROVE PlaceInv'
        OBVIOUS
    <1>0. TypeInv'
        BY StepTypeInv DEF PlaceInv
    <1>a. /\ TypeOK /\ TypeInv /\ JobIffBusy /\ NoDup /\ OneJob
          /\ Apart /\ Conserved
        BY DEF PlaceInv, TypeInv
    <1>b. Queued \subseteq Tasks /\ Held \subseteq Tasks /\ Retrying \subseteq Tasks
        <2>1. Queued \subseteq Tasks
            BY <1>a DEF TypeOK, Queued
        <2> QED
            BY <2>1 DEF Held, Retrying
    <1> SUFFICES JobIffBusy' /\ NoDup' /\ OneJob' /\ Apart' /\ Conserved'
        BY <1>0 DEF PlaceInv
    <1>1. CASE Configure \/ Tick \/ UNCHANGED vars
        <2>1. UNCHANGED <<tasks, wpc, job, retry, call, outcome>>
            BY <1>1 DEF Configure, Register, SetMaxRetries, SetMaxAge, Tick, vars,
                        callers, pool
        <2> QED
            BY <1>a, <2>1, Unmoved DEF JobIffBusy, Busy, Apart, Conserved
    <1>2. ASSUME NEW t \in Tasks, EnqueueCheck(t)
          PROVE  JobIffBusy' /\ NoDup' /\ OneJob' /\ Apart' /\ Conserved'
        <2>1. /\ UNCHANGED <<tasks, wpc, job, retry, outcome>>
              /\ \A u \in Tasks : call'[u] = "accepted" <=> call[u] = "accepted"
            BY <1>a, <1>2 DEF EnqueueCheck, pool, TypeOK
        <2> QED
            BY <1>a, <2>1, Unmoved DEF JobIffBusy, Busy, Apart, Conserved
    <1>3. ASSUME NEW t \in Tasks, EnqueueSend(t)
          PROVE  JobIffBusy' /\ NoDup' /\ OneJob' /\ Apart' /\ Conserved'
        <2>1. UNCHANGED <<wpc, job, retry, outcome>>
            BY <1>3 DEF EnqueueSend, pool
        <2>2. /\ t \notin Queued \cup Held \cup Retrying
              /\ outcome[t] = "none"
            BY <1>a, <1>3 DEF EnqueueSend, Conserved
        <2>3. CASE ~closed /\ HasRoom
            <3>1. tasks' = Append(tasks, t) /\ call' = [call EXCEPT ![t] = "accepted"]
                BY <1>3, <2>3 DEF EnqueueSend
            <3>2. Queued' = Queued \cup {t} /\ NoDup'
                BY <1>a, <2>2, <3>1, QueuedAfterSend
            <3>3. Apart'
                BY <1>a, <2>1, <2>2, <3>2, Unmoved DEF Apart
            <3>4. Conserved'
                BY <1>a, <1>b, <2>1, <3>1, <3>2, Unmoved DEF Conserved, TypeOK
            <3> QED
                BY <1>a, <2>1, <3>2, <3>3, <3>4, Unmoved DEF JobIffBusy, Busy
        <2>4. CASE ~(~closed /\ HasRoom)
            <3>1. /\ UNCHANGED tasks
                  /\ \A u \in Tasks : call'[u] = "accepted" <=> call[u] = "accepted"
                BY <1>a, <1>3, <2>4 DEF EnqueueSend, TypeOK
            <3> QED
                BY <1>a, <2>1, <3>1, Unmoved DEF JobIffBusy, Busy, Apart, Conserved
        <2> QED
            BY <2>3, <2>4
    <1>4. ASSUME NEW w \in Workers, Receive(w)
          PROVE  JobIffBusy' /\ NoDup' /\ OneJob' /\ Apart' /\ Conserved'
        <2> DEFINE t == Head(tasks)
        <2>1. /\ tasks # <<>> /\ tasks' = Tail(tasks)
              /\ job' = [job EXCEPT ![w] = t]
              /\ wpc[w] = "receive" /\ wpc' = [wpc EXCEPT ![w] = "process"]
              /\ UNCHANGED <<retry, outcome, call>>
            BY <1>4 DEF Receive, callers
        <2>2. job[w] = NoTask
            BY <1>a, <2>1 DEF JobIffBusy, Busy
        <2>3. t \in Queued /\ Queued' = Queued \ {t} /\ NoDup'
            BY <1>a, <2>1, QueuedAfterReceive
        <2> HIDE DEF t
        <2>4. t \in Tasks /\ t \notin Held
            BY <1>a, <1>b, <2>3 DEF Apart
        <2>5. Held' = Held \cup {t} /\ OneJob'
            BY <1>a, <2>1, <2>2, <2>4, HeldAfterTake
        <2>6. JobIffBusy'
            BY <1>a, <2>1, <2>4, NoTaskAssumption DEF JobIffBusy, Busy, TypeOK
        <2>7. Apart'
            BY <1>a, <2>1, <2>3, <2>5, Unmoved DEF Apart
        <2>8. Conserved'
            BY <1>a, <2>1, <2>3, <2>5, Unmoved DEF Conserved
        <2> QED
            BY <2>3, <2>5, <2>6, <2>7, <2>8
    <1>5. ASSUME NEW w \in Workers, Exit(w) \/ Start(w)
          PROVE  JobIffBusy' /\ NoDup' /\ OneJob' /\ Apart' /\ Conserved'
        <2>1. /\ UNCHANGED <<tasks, job, retry, outcome, call>>
              /\ \A v \in Workers : Busy(v)' <=> Busy(v)
            BY <1>a, <1>5 DEF Exit, Start, callers, TypeOK, Busy
        <2> QED
            BY <1>a, <2>1, Unmoved DEF JobIffBusy, Apart, Conserved
    <1>6. ASSUME NEW w \in Workers, NEW e \in Outcomes \ {"none"},
                 Busy(w), Release(w), outcome' = [outcome EXCEPT ![job[w]] = e],
                 UNCHANGED <<tasks, call, retry>>
          PROVE  JobIffBusy' /\ NoDup' /\ OneJob' /\ Apart' /\ Conserved'
        <2> DEFINE t == job[w]
        <2>1. t \in Tasks
            BY <1>a, <1>6 DEF TypeInv, WorkerHoldsTask
        <2>2. t \in Held /\ Held' = Held \ {t} /\ OneJob'
            BY <1>a, <1>6, <2>1, HeldAfterRelease DEF Release
        <2>3. JobIffBusy'
            BY <1>a, <1>6 DEF JobIffBusy, Busy, Release, TypeOK
        <2> HIDE DEF t
        <2>4. t \notin Queued /\ t \notin Retrying
            BY <1>a, <2>2 DEF Apart
        <2>5. \A u \in Tasks : outcome'[u] = IF u = t THEN e ELSE outcome[u]
            BY <1>a, <1>6 DEF TypeOK, t
        <2>6. Apart'
            BY <1>a, <1>b, <1>6, <2>2, <2>4, <2>5, Unmoved DEF Apart
        <2>7. Conserved'
            BY <1>a, <1>b, <1>6, <2>1, <2>2, <2>5, Unmoved DEF Conserved
        <2> QED
            BY <1>a, <1>6, <2>2, <2>3, <2>6, <2>7, Unmoved
    <1>7. ASSUME NEW w \in Workers, Retry(w)
          PROVE  JobIffBusy' /\ NoDup' /\ OneJob' /\ Apart' /\ Conserved'
        <2> DEFINE t == job[w]
        <2>1. /\ t \in Tasks /\ Busy(w) /\ Release(w)
              /\ retry' = [retry EXCEPT ![t] = "timer"]
              /\ UNCHANGED <<tasks, call, outcome>>
            BY <1>a, <1>7 DEF Retry, callers, TypeInv, WorkerHoldsTask, Busy
        <2>2. t \in Held /\ Held' = Held \ {t} /\ OneJob'
            BY <1>a, <2>1, HeldAfterRelease DEF Release
        <2>3. JobIffBusy'
            BY <1>a, <2>1 DEF JobIffBusy, Busy, Release, TypeOK
        <2> HIDE DEF t
        <2>4. Retrying' = Retrying \cup {t}
            BY <1>a, <2>1 DEF Retrying, TypeOK
        <2>5. Apart'
            BY <1>a, <2>1, <2>2, <2>4, Unmoved DEF Apart
        <2>6. Conserved'
            BY <1>a, <2>1, <2>2, <2>4, Unmoved DEF Conserved
        <2> QED
            BY <1>a, <2>1, <2>2, <2>3, <2>5, <2>6, Unmoved
    <1>8. ASSUME NEW t \in Tasks, NEW e \in Outcomes \ {"none"}, t \in Retrying,
                 retry' = [retry EXCEPT ![t] = "none"],
                 outcome' = [outcome EXCEPT ![t] = e],
                 UNCHANGED <<tasks, wpc, job, call>>
          PROVE  JobIffBusy' /\ NoDup' /\ OneJob' /\ Apart' /\ Conserved'
        <2>1. Retrying' = Retrying \ {t}
            BY <1>a, <1>8 DEF Retrying, TypeOK
        <2>2. t \notin Queued /\ t \notin Held
            BY <1>a, <1>8 DEF Apart
        <2>3. \A u \in Tasks : outcome'[u] = IF u = t THEN e ELSE outcome[u]
            BY <1>a, <1>8 DEF TypeOK
        <2>4. Apart'
            BY <1>a, <1>b, <1>8, <2>1, <2>2, <2>3, Unmoved DEF Apart
        <2>5. Conserved'
            BY <1>a, <1>b, <1>8, <2>1, <2>3, Unmoved DEF Conserved
        <2> QED
            BY <1>a, <1>8, <2>4, <2>5, Unmoved DEF JobIffBusy, Busy
    <1>9. ASSUME NEW t \in Tasks, RequeueCheck(t)
          PROVE  JobIffBusy' /\ NoDup' /\ OneJob' /\ Apart' /\ Conserved'
        <2>1. t \in Retrying /\ UNCHANGED <<tasks, wpc, job, call>>
            BY <1>9 DEF RequeueCheck, Retrying, callers, pool
        <2>2. CASE closed
            BY <1>8, <1>9, <2>1, <2>2 DEF RequeueCheck, Outcomes
        <2>3. CASE ~closed
            <3>1. retry' = [retry EXCEPT ![t] = "checked"]
                BY <1>9, <2>3 DEF RequeueCheck
            <3>2. Retrying' = Retrying
                BY <1>a, <2>1, <3>1 DEF Retrying, TypeOK
            <3>3. UNCHANGED outcome
                BY <1>a, <1>9, <2>3 DEF RequeueCheck, TypeOK
            <3> QED
                BY <1>a, <2>1, <3>2, <3>3, Unmoved DEF JobIffBusy, Busy, Apart, Conserved
        <2> QED
            BY <2>2, <2>3
    <1>10. ASSUME NEW t \in Tasks, RequeueSend(t)
           PROVE  JobIffBusy' /\ NoDup' /\ OneJob' /\ Apart' /\ Conserved'
        <2>1. /\ t \in Retrying /\ UNCHANGED <<wpc, job, call>>
              /\ retry' = [retry EXCEPT ![t] = "none"]
            BY <1>10 DEF RequeueSend, Retrying, callers, pool
        <2>2. CASE ~HasRoom
            BY <1>8, <1>10, <2>1, <2>2 DEF RequeueSend, Outcomes
        <2>3. CASE HasRoom
            <3>1. tasks' = Append(tasks, t) /\ UNCHANGED outcome
                BY <1>a, <1>10, <2>3 DEF RequeueSend, TypeOK
            <3>2. t \notin Queued
                BY <1>a, <2>1 DEF Apart
            <3>3. Queued' = Queued \cup {t} /\ NoDup'
                BY <1>a, <3>1, <3>2, QueuedAfterSend
            <3>4. Retrying' = Retrying \ {t}
                BY <1>a, <2>1 DEF Retrying, TypeOK
            <3>5. Apart'
                BY <1>a, <2>1, <3>1, <3>3, <3>4, Unmoved DEF Apart
            <3>6. Conserved'
                BY <1>a, <2>1, <3>1, <3>3, <3>4, Unmoved DEF Conserved
            <3> QED
                BY <1>a, <2>1, <3>3, <3>5, <3>6, Unmoved DEF JobIffBusy, Busy
        <2> QED
            BY <2>2, <2>3
    <1>11. ASSUME NEW t \in Tasks, RequeuePanic(t)
           PROVE  JobIffBusy' /\ NoDup' /\ OneJob' /\ Apart' /\ Conserved'
        <2>1. UNCHANGED <<tasks, wpc, job, retry, call, outcome>>
            BY <1>11 DEF RequeuePanic, callers, pool
        <2> QED
            BY <1>a, <2>1, Unmoved DEF JobIffBusy, Busy, Apart, Conserved
    <1>12. ASSUME NEW c \in Closers, CloseBegin(c) \/ CloseReturn(c)
           PROVE  JobIffBusy' /\ NoDup' /\ OneJob' /\ Apart' /\ Conserved'
        <2>1. UNCHANGED <<tasks, wpc, job, retry, call, outcome>>
            BY <1>12 DEF CloseBegin, CloseReturn, callers, pool
        <2> QED
            BY <1>a, <2>1, Unmoved DEF JobIffBusy, Busy, Apart, Conserved
    <1>13. ASSUME NEW w \in Workers,
                  Discard(w) \/ Finish(w, "handled") \/ Finish(w, "panic") \/ GiveUp(w)
           PROVE  JobIffBusy' /\ NoDup' /\ OneJob' /\ Apart' /\ Conserved'
        <2>1. /\ Busy(w) /\ Release(w) /\ UNCHANGED <<tasks, call, retry>>
              /\ \E e \in Outcomes \ {"none"} :
                    outcome' = [outcome EXCEPT ![job[w]] = e]
            BY <1>13 DEF Discard, Finish, GiveUp, Busy, callers, Outcomes
        <2> QED
            BY <1>6, <2>1
    <1> QED
        BY <1>1, <1>2, <1>3, <1>4, <1>5, <1>7, <1>9, <1>10, <1>11, <1>12, <1>13
        DEF Next, Caller, Worker, Timer, Closer

(* A task is in one place only: handed to one worker, or in the channel    *)
(* once, or in one timer, or ended (queue.go:8).                           *)
THEOREM TaskInOnePlace == Spec => []OnePlace
    <1>1. PlaceInv => OnePlace
        BY DEF PlaceInv, NoDup, OneJob, Apart, OnePlace
    <1> QED
        BY <1>1, InitPlaceInv, StepPlaceInv, PTL DEF Spec

(* No accepted task vanishes and none enters unaccepted: every way out of  *)
(* the queue is one of the ends process() and requeue() log.               *)
THEOREM AcceptedConserved == Spec => []Conserved
    <1>1. PlaceInv => Conserved
        BY DEF PlaceInv
    <1> QED
        BY <1>1, InitPlaceInv, StepPlaceInv, PTL DEF Spec

(* What Queue.tla states of the tasks and their places, for any number of  *)
(* tasks, workers and closers.                                             *)
THEOREM QueueIsSound == Spec => []QueueSound
    <1>1. TypeOK /\ OnePlace /\ Conserved => QueueSound
        BY DEF QueueSound
    <1> QED
        BY <1>1, TypeCorrect, TaskInOnePlace, AcceptedConserved, PTL

-----------------------------------------------------------------------------
(* Close.  The workers leave only when the channel is closed and drained,  *)
(* and nothing refills it: sends find the flag set.                        *)
DrainInv ==
    /\ \A w \in Workers : wpc[w] = "exited" => closed /\ tasks = <<>>
    /\ \A c \in Closers : closer[c] \in {"waiting", "returned"} => closed
    /\ \A c \in Closers :
          closer[c] = "returned" => \A w \in Workers : wpc[w] = "exited"

CloseInv == PlaceInv /\ DrainInv

LEMMA InitCloseInv == Init => CloseInv
    BY InitPlaceInv DEF CloseInv, DrainInv, Init

LEMMA StepCloseInv == CloseInv /\ [Next]_vars => CloseInv'
    <1> SUFFICES ASSUME CloseInv, [Next]_vars PROVE DrainInv'
        BY StepPlaceInv DEF CloseInv
    <1>a. TypeOK /\ DrainInv
        BY DEF CloseInv, PlaceInv, TypeInv
    <1> USE <1>a
    <1>1. CASE Configure \/ Tick \/ UNCHANGED vars
        <2>1. UNCHANGED <<closed, tasks, wpc, closer>>
            BY <1>1 DEF Configure, Register, SetMaxRetries, SetMaxAge, Tick, vars,
                        callers, pool
        <2> QED
            BY <2>1 DEF DrainInv
    <1>2. ASSUME NEW t \in Tasks, Caller(t) \/ Timer(t) PROVE DrainInv'
        <2>1. UNCHANGED <<closed, wpc, closer>> /\ (closed => UNCHANGED tasks)
            BY <1>2 DEF Caller, Timer, EnqueueCheck, EnqueueSend, RequeueCheck,
                        RequeueSend, RequeuePanic, pool
        <2> QED
            BY <2>1 DEF DrainInv
    <1>3. ASSUME NEW w \in Workers, Worker(w) PROVE DrainInv'
        <2>1. UNCHANGED <<closed, closer>> /\ wpc[w] # "exited"
            BY <1>3 DEF Worker, Receive, Exit, Discard, Start, Finish, GiveUp, Retry
        <2>2. CASE Receive(w)
            <3>1. \A v \in Workers : wpc'[v] # "exited"
                BY <2>2 DEF Receive, DrainInv, TypeOK
            <3> QED
                BY <2>1, <3>1 DEF DrainInv
        <2>3. CASE Exit(w)
            BY <2>1, <2>3 DEF Exit, DrainInv, TypeOK
        <2>4. CASE ~Receive(w) /\ ~Exit(w)
            <3>1. UNCHANGED tasks /\ \A v \in Workers : wpc'[v] = "exited" <=> wpc[v] = "exited"
                BY <1>3, <2>4 DEF Worker, Discard, Start, Finish, GiveUp, Retry,
                                  Release, TypeOK
            <3> QED
                BY <2>1, <3>1 DEF DrainInv
        <2> QED
            BY <2>2, <2>3, <2>4
    <1>4. ASSUME NEW c \in Closers, CloseBegin(c) PROVE DrainInv'
        <2>1. /\ closed' /\ UNCHANGED <<tasks, wpc>>
              /\ \A d \in Closers : closer'[d] = "returned" <=> closer[d] = "returned"
            BY <1>4 DEF CloseBegin, pool, TypeOK
        <2> QED
            BY <2>1 DEF DrainInv
    <1>5. ASSUME NEW c \in Closers, CloseReturn(c) PROVE DrainInv'
        <2>1. /\ UNCHANGED <<closed, tasks, wpc>> /\ closer[c] = "waiting"
              /\ \A w \in Workers : wpc[w] = "exited"
              /\ \A d \in Closers : d # c => closer'[d] = closer[d]
            BY <1>5 DEF CloseReturn, pool, TypeOK
        <2> QED
            BY <2>1 DEF DrainInv
    <1> QED
        BY <1>1, <1>2, <1>3, <1>4, <1>5 DEF Next, Closer

(* When Close returns, the channel is empty and no worker holds a task     *)
(* (queue.go:272-273, 293-297).                                            *)
THEOREM CloseHasDrained == Spec => []CloseDrains
    <1>1. CloseInv => CloseDrains
        <2> SUFFICES ASSUME CloseInv, NEW c \in Closers, closer[c] = "returned"
                     PROVE  tasks = <<>> /\ Held = {}
            BY DEF CloseDrains
        <2>1. \A w \in Workers : wpc[w] = "exited" /\ tasks = <<>>
            BY DEF CloseInv, DrainInv
        <2>2. \A w \in Workers : job[w] = NoTask
            BY <2>1 DEF CloseInv, PlaceInv, JobIffBusy, Busy
        <2> QED
            BY <2>1, <2>2, NoTaskAssumption, WorkersAssumption DEF Held
    <1> QED
        BY <1>1, InitCloseInv, StepCloseInv, PTL DEF Spec

(* Nothing enters a closed queue, whoever had passed the test of the flag  *)
(* before (queue.go:226-233, 380-387).                                     *)
THEOREM ClosedTakesNothing == Spec => NothingEntersAfterClose
    <1> DEFINE Step == closed => /\ closed'
                                 /\ Len(tasks') <= Len(tasks)
                                 /\ \A t \in Tasks :
                                        call[t] # "accepted" => call'[t] # "accepted"
    <1>1. TypeInv /\ [Next]_vars => [Step]_vars
        <2> SUFFICES ASSUME TypeInv, Next, closed PROVE Step
            BY Zenon
        <2>a. TypeOK /\ tasks \in Seq(Tasks)
            BY DEF TypeInv, TypeOK
        <2>0. Len(tasks) \in Nat
            BY <2>a
        <2>1. CASE Configure \/ Tick
            <3>1. UNCHANGED <<closed, tasks, call>>
                BY <2>1 DEF Configure, Register, SetMaxRetries, SetMaxAge, Tick, callers
            <3> QED
                BY <2>0, <3>1
        <2>2. ASSUME NEW t \in Tasks, Caller(t) PROVE Step
            <3>1. UNCHANGED <<closed, tasks>>
                BY <2>2 DEF Caller, EnqueueCheck, EnqueueSend
            <3>2. \A u \in Tasks : call[u] # "accepted" => call'[u] # "accepted"
                BY <2>a, <2>2 DEF Caller, EnqueueCheck, EnqueueSend, TypeOK
            <3> QED
                BY <2>0, <3>1, <3>2
        <2>3. ASSUME NEW t \in Tasks, Timer(t) PROVE Step
            <3>1. UNCHANGED <<closed, tasks, call>>
                BY <2>3 DEF Timer, RequeueCheck, RequeueSend, RequeuePanic, callers
            <3> QED
                BY <2>0, <3>1
        <2>4. ASSUME NEW w \in Workers, Worker(w) PROVE Step
            <3>1. UNCHANGED <<closed, call>>
                BY <2>4 DEF Worker, Receive, Exit, Discard, Start, Finish, GiveUp,
                            Retry, callers
            <3>2. CASE Receive(w)
                BY <2>a, <3>1, <3>2, ReceiveLemma DEF Receive
            <3>3. CASE ~Receive(w)
                <4>1. UNCHANGED tasks
                    BY <2>4, <3>3 DEF Worker, Exit, Discard, Start, Finish, GiveUp, Retry
                <4> QED
                    BY <2>0, <3>1, <4>1
            <3> QED
                BY <3>2, <3>3
        <2>5. ASSUME NEW c \in Closers, Closer(c) PROVE Step
            <3>1. closed' = TRUE /\ UNCHANGED <<tasks, call>>
                BY <2>5 DEF Closer, CloseBegin, CloseReturn, callers
            <3> QED
                BY <2>0, <3>1
        <2> QED
            BY <2>1, <2>2, <2>3, <2>4, <2>5 DEF Next
    <1>2. Init => TypeInv
        BY InitPlaceInv DEF PlaceInv
    <1> QED
        BY <1>1, <1>2, StepTypeInv, PTL DEF Spec, NothingEntersAfterClose

-----------------------------------------------------------------------------
(* Attempts.  A task whose handler runs has been started once more than    *)
(* its attempt counter says, one that waits exactly as often; the counter  *)
(* stays below every limit because it is compared with a limit before it   *)
(* grows, also when SetMaxRetries lowers the limit meanwhile.              *)
AttemptInv ==
    \A t \in Tasks :
        /\ attempt[t] < MaxRuns
        /\ runs[t] <= attempt[t] + 1
        /\ t \in Running => runs[t] = attempt[t] + 1
        /\ t \notin Running /\ outcome[t] = "none" => runs[t] = attempt[t]

RunInv == PlaceInv /\ AttemptInv

LEMMA InitRunInv == Init => RunInv
    BY InitPlaceInv, NoTaskAssumption, RetryAssumption
    DEF RunInv, AttemptInv, Running, Init

LEMMA StepRunInv == RunInv /\ [Next]_vars => RunInv'
    <1> SUFFICES ASSUME RunInv, [Next]_vars PROVE AttemptInv'
        BY StepPlaceInv DEF RunInv
    <1>a. TypeOK /\ OneJob /\ JobIffBusy /\ Apart /\ AttemptInv
        BY DEF RunInv, PlaceInv, TypeInv
    <1>b. \A t \in Tasks : attempt[t] \in Nat /\ runs[t] \in Nat
        BY <1>a DEF TypeOK
    (* Steps that leave the counters and the running handlers alone.       *)
    <1>c. ASSUME UNCHANGED <<attempt, runs>>,
                 \A t \in Tasks : outcome'[t] = "none" => outcome[t] = "none",
                 \A t \in Tasks : t \in Running' => t \in Running,
                 \A t \in Tasks :
                    t \in Running => t \in Running' \/ outcome'[t] # "none"
          PROVE  AttemptInv'
        BY <1>a, <1>c DEF AttemptInv
    <1>1. CASE Configure \/ Tick \/ UNCHANGED vars
        <2>1. UNCHANGED <<attempt, runs, outcome, wpc, job>>
            BY <1>1 DEF Configure, Register, SetMaxRetries, SetMaxAge, Tick, vars,
                        callers, pool
        <2> QED
            BY <1>c, <2>1 DEF Running
    <1>2. ASSUME NEW t \in Tasks, Caller(t) \/ Timer(t) PROVE AttemptInv'
        <2>1. UNCHANGED <<attempt, runs, wpc, job>>
            BY <1>2 DEF Caller, Timer, EnqueueCheck, EnqueueSend, RequeueCheck,
                        RequeueSend, RequeuePanic, pool
        <2>2. \A u \in Tasks : outcome'[u] = "none" => outcome[u] = "none"
            BY <1>a, <1>2 DEF Caller, Timer, EnqueueCheck, EnqueueSend, RequeueCheck,
                        RequeueSend, RequeuePanic, TypeOK
        <2> QED
            BY <1>c, <2>1, <2>2 DEF Running
    <1>3. ASSUME NEW c \in Closers, Closer(c) PROVE AttemptInv'
        <2>1. UNCHANGED <<attempt, runs, outcome, wpc, job>>
            BY <1>3 DEF Closer, CloseBegin, CloseReturn, pool
        <2> QED
            BY <1>c, <2>1 DEF Running
    <1>4. ASSUME NEW w \in Workers, Receive(w) \/ Exit(w) PROVE AttemptInv'
        <2>1. UNCHANGED <<attempt, runs, outcome>> /\ wpc[w] = "receive"
              /\ wpc'[w] # "handler"
              /\ \A v \in Workers : v # w => wpc'[v] = wpc[v] /\ job'[v] = job[v]
            BY <1>a, <1>4 DEF Receive, Exit, TypeOK
        <2> QED
            BY <1>c, <2>1 DEF Running
    <1>5. ASSUME NEW w \in Workers, Busy(w) PROVE job[w] \in Tasks
        BY <1>5 DEF RunInv, PlaceInv, TypeInv, WorkerHoldsTask
    <1>6. ASSUME NEW w \in Workers, Busy(w), Release(w), UNCHANGED <<attempt, runs>>,
                 outcome'[job[w]] # "none",
                 \A t \in Tasks : t # job[w] => outcome'[t] = outcome[t]
          PROVE  AttemptInv'
        <2>1. /\ wpc'[w] = "receive"
              /\ \A v \in Workers : v # w => wpc'[v] = wpc[v] /\ job'[v] = job[v]
            BY <1>a, <1>6 DEF Release, TypeOK
        <2> QED
            BY <1>c, <1>6, <2>1 DEF Running
    <1>7. ASSUME NEW w \in Workers,
                 Discard(w) \/ Finish(w, "handled") \/ Finish(w, "panic") \/ GiveUp(w)
          PROVE  AttemptInv'
        <2>1. /\ Busy(w) /\ Release(w) /\ UNCHANGED <<attempt, runs>>
              /\ \E e \in Outcomes \ {"none"} :
                    outcome' = [outcome EXCEPT ![job[w]] = e]
            BY <1>7 DEF Discard, Finish, GiveUp, Busy, Outcomes
        <2>2. /\ outcome'[job[w]] # "none"
              /\ \A t \in Tasks : t # job[w] => outcome'[t] = outcome[t]
            BY <1>a, <1>5, <2>1 DEF TypeOK
        <2> QED
            BY <1>6, <2>1, <2>2
    <1>8. ASSUME NEW w \in Workers, Start(w) PROVE AttemptInv'
        <2> DEFINE t == job[w]
        <2>1. /\ Busy(w) /\ t \in Tasks /\ wpc[w] = "process"
              /\ UNCHANGED <<attempt, outcome, job>>
            BY <1>5, <1>8 DEF Start, Busy
        <2>2. /\ runs'[t] = runs[t] + 1 /\ \A u \in Tasks : u # t => runs'[u] = runs[u]
              /\ wpc'[w] = "handler"
              /\ \A v \in Workers : v # w => wpc'[v] = wpc[v]
            BY <1>a, <1>8, <2>1 DEF Start, TypeOK
        <2>3. t \notin Running
            BY <1>a, <2>1, NoTaskAssumption DEF Running, OneJob
        <2>4. outcome[t] = "none"
            BY <1>a, <2>1 DEF Apart, Held
        <2>5. Running' = Running \cup {t}
            BY <2>1, <2>2, <2>3 DEF Running
        <2> HIDE DEF t
        <2>6. runs[t] = attempt[t]
            BY <1>a, <2>1, <2>3, <2>4 DEF AttemptInv
        <2> QED
            BY <1>a, <1>b, <2>1, <2>2, <2>5, <2>6 DEF AttemptInv
    <1>9. ASSUME NEW w \in Workers, Retry(w) PROVE AttemptInv'
        <2> DEFINE t == job[w]
        <2>1. /\ Busy(w) /\ t \in Tasks /\ wpc[w] = "handler" /\ Release(w)
              /\ attempt[t] + 1 < limit[w]
              /\ UNCHANGED <<runs, outcome>>
            <3>1. ~(attempt[t] + 1 >= limit[w])
                BY <1>9 DEF Retry, LastAttempt
            <3>2. limit[w] \in Int /\ t \in Tasks
                BY <1>a, <1>5, <1>9, RetryAssumption DEF Retry, Busy, TypeOK
            <3> QED
                BY <1>5, <1>9, <1>b, <3>1, <3>2 DEF Retry, Busy
        <2>2. /\ attempt'[t] = attempt[t] + 1
              /\ \A u \in Tasks : u # t => attempt'[u] = attempt[u]
            BY <1>a, <1>9, <2>1 DEF Retry, TypeOK
        <2>3. t \in Running
            BY <2>1 DEF Running
        <2>4. Running' = Running \ {t}
            <3>1. /\ wpc'[w] = "receive"
                  /\ \A v \in Workers : v # w => wpc'[v] = wpc[v] /\ job'[v] = job[v]
                BY <1>a, <2>1 DEF Release, TypeOK
            <3>2. \A v \in Workers : job[v] = t => v = w
                BY <1>a, <2>1, NoTaskAssumption DEF OneJob
            <3> QED
                BY <3>1, <3>2 DEF Running
        <2>5. limit[w] <= MaxRuns /\ limit[w] \in Int /\ MaxRuns \in Nat
            BY <1>a, RetryAssumption DEF TypeOK
        <2> HIDE DEF t
        <2>6. attempt[t] + 1 < MaxRuns
            BY <1>b, <2>1, <2>5
        <2>7. runs[t] = attempt[t] + 1
            BY <1>a, <2>1, <2>3 DEF AttemptInv
        <2> QED
            BY <1>a, <1>b, <2>1, <2>2, <2>4, <2>6, <2>7 DEF AttemptInv
    <1> QED
        BY <1>1, <1>2, <1>3, <1>4, <1>7, <1>8, <1>9 DEF Next, Worker

(* The handler of a task is started at most as often as the largest retry  *)
(* limit ever in force allows (queue.go:364).                              *)
THEOREM AttemptsAreBounded == Spec => []AttemptsBounded
    <1>1. RunInv => AttemptsBounded
        <2> SUFFICES ASSUME RunInv, NEW t \in Tasks PROVE runs[t] <= MaxRuns
            BY DEF AttemptsBounded
        <2>1. attempt[t] \in Nat /\ runs[t] \in Nat /\ MaxRuns \in Nat
            BY RetryAssumption DEF RunInv, PlaceInv, TypeInv, TypeOK
        <2>2. attempt[t] < MaxRuns /\ runs[t] <= attempt[t] + 1
            BY DEF RunInv, AttemptInv
        <2> QED
            BY <2>1, <2>2
    <1> QED
        BY <1>1, InitRunInv, StepRunInv, PTL DEF Spec

-----------------------------------------------------------------------------
(* Handlers.  A call past its check has found its name, and Register only  *)
(* adds names.                                                             *)
HandlerInv ==
    /\ \A t \in Tasks : call[t] \in {"checked", "accepted"} => NameOf[t] \in handlers
    /\ HandlerKnown

KnownInv == PlaceInv /\ HandlerInv

LEMMA StepKnownInv == KnownInv /\ [Next]_vars => KnownInv'
    <1> SUFFICES ASSUME KnownInv, [Next]_vars PROVE HandlerInv'
        BY StepPlaceInv DEF KnownInv
    <1>a. TypeOK /\ Conserved /\ HandlerInv
        BY DEF KnownInv, PlaceInv, TypeInv
    <1>1. CASE Configure \/ Tick \/ UNCHANGED vars
        <2>1. UNCHANGED <<call, outcome>> /\ handlers \subseteq handlers'
            BY <1>1 DEF Configure, Register, SetMaxRetries, SetMaxAge, Tick, vars,
                        config, callers
        <2> QED
            BY <1>a, <2>1 DEF HandlerInv, HandlerKnown
    <1>2. ASSUME NEW t \in Tasks, EnqueueCheck(t) PROVE HandlerInv'
        BY <1>a, <1>2 DEF EnqueueCheck, config, HandlerInv, HandlerKnown, TypeOK
    <1>3. ASSUME NEW t \in Tasks, EnqueueSend(t) PROVE HandlerInv'
        BY <1>a, <1>3 DEF EnqueueSend, config, HandlerInv, HandlerKnown, TypeOK
    <1>4. ASSUME NEW t \in Tasks, Timer(t) PROVE HandlerInv'
        <2>1. /\ UNCHANGED <<call, handlers>>
              /\ \A u \in Tasks : outcome'[u] = "nohandler" => outcome[u] = "nohandler"
            BY <1>a, <1>4 DEF Timer, RequeueCheck, RequeueSend, RequeuePanic, config,
                              callers, TypeOK
        <2> QED
            BY <1>a, <2>1 DEF HandlerInv, HandlerKnown
    <1>5. ASSUME NEW w \in Workers, Worker(w) PROVE HandlerInv'
        <2>1. UNCHANGED <<call, handlers>>
            BY <1>5 DEF Worker, Receive, Exit, Discard, Start, Finish, GiveUp, Retry,
                        config, callers
        <2>2. CASE Discard(w)
            <3>1. job[w] \in Tasks
                BY <2>2 DEF Discard, KnownInv, PlaceInv, TypeInv, WorkerHoldsTask, Busy
            <3>2. call[job[w]] = "accepted"
                BY <1>a, <3>1 DEF Conserved, Held
            <3>3. NameOf[job[w]] \in handlers
                BY <1>a, <3>1, <3>2 DEF HandlerInv
            <3>4. outcome' = [outcome EXCEPT ![job[w]] = "aged"]
                BY <2>2, <3>3 DEF Discard
            <3> QED
                BY <1>a, <2>1, <3>4 DEF HandlerInv, HandlerKnown, TypeOK
        <2>3. CASE ~Discard(w)
            <3>1. \A u \in Tasks : outcome'[u] = "nohandler" => outcome[u] = "nohandler"
                BY <1>a, <1>5, <2>3 DEF Worker, Receive, Exit, Start, Finish, GiveUp,
                                        Retry, TypeOK
            <3> QED
                BY <1>a, <2>1, <3>1 DEF HandlerInv, HandlerKnown
        <2> QED
            BY <2>2, <2>3
    <1>6. ASSUME NEW c \in Closers, Closer(c) PROVE HandlerInv'
        <2>1. UNCHANGED <<call, outcome, handlers>>
            BY <1>6 DEF Closer, CloseBegin, CloseReturn, config, callers
        <2> QED
            BY <1>a, <2>1 DEF HandlerInv, HandlerKnown
    <1> QED
        BY <1>1, <1>2, <1>3, <1>4, <1>5, <1>6 DEF Next, Caller

(* In memory mode no worker ever discards a task for want of a handler     *)
(* (queue.go:354).                                                         *)
THEOREM HandlersAreKnown == Spec => []HandlerKnown
    <1>1. Init => KnownInv
        BY InitPlaceInv DEF KnownInv, HandlerInv, HandlerKnown, Init
    <1>2. KnownInv => HandlerKnown
        BY DEF KnownInv, HandlerInv
    <1> QED
        BY <1>1, <1>2, StepKnownInv, PTL DEF Spec

-----------------------------------------------------------------------------
(* The queue implements the ledger of module TaskLedger: Init maps to      *)
(* LedgerInit, every step to a step of the ledger or to a stutter.         *)
phaseOf == [t \in Tasks |-> PhaseOf(t)]
isOver == \E c \in Closers : closer[c] = "returned"

LedgerInv == RunInv /\ CloseInv

(* What a step of the ledger that moves one task amounts to.               *)
LEMMA MoveLemma ==
    ASSUME NEW t \in Tasks, NEW from, NEW to,
           PhaseOf(t) = from, PhaseOf(t)' = to,
           \A u \in Tasks \ {t} : PhaseOf(u)' = PhaseOf(u)
    PROVE  Ledger!Move(t, from, to)
    <1>1. phaseOf[t] = from
        BY DEF phaseOf
    <1>2. phaseOf' = [phaseOf EXCEPT ![t] = to]
        BY DEF phaseOf
    <1> QED
        BY <1>1, <1>2 DEF Ledger!Move, phaseOf

LEMMA StutterLemma ==
    ASSUME UNCHANGED runs, UNCHANGED closed, isOver' = isOver,
           \A u \in Tasks : PhaseOf(u)' = PhaseOf(u)
    PROVE  UNCHANGED Ledger!ledger
    <1>1. phaseOf' = phaseOf
        BY DEF phaseOf
    <1>2. (~closed)' = ~closed
        BY Zenon
    <1> QED
        BY <1>1, <1>2 DEF Ledger!ledger, phaseOf, isOver

LEMMA InitLedger == Init => Ledger!LedgerInit
    <1> SUFFICES ASSUME Init PROVE Ledger!LedgerInit
        OBVIOUS
    <1>1. \A t \in Tasks : PhaseOf(t) = "offered"
        BY DEF Init, PhaseOf
    <1>2. ~closed /\ ~isOver /\ runs = [t \in Tasks |-> 0]
        BY DEF Init, isOver
    <1> QED
        BY <1>1, <1>2 DEF Ledger!LedgerInit, isOver

LEMMA SamePhase ==
    ASSUME NEW u \in Tasks, call'[u] = call[u], outcome'[u] = outcome[u],
           u \in Running' <=> u \in Running
    PROVE  PhaseOf(u)' = PhaseOf(u)
    BY DEF PhaseOf

(* Every step of the queue is a step of the ledger or a stutter.           *)
LEMMA StepLedger ==
    LedgerInv /\ LedgerInv' /\ [Next]_vars => [Ledger!LedgerNext]_(Ledger!ledger)
    <1> SUFFICES ASSUME LedgerInv, LedgerInv', [Next]_vars
                 PROVE  Ledger!LedgerNext \/ UNCHANGED Ledger!ledger
        BY Zenon
    <1>a. /\ TypeOK /\ OneJob /\ JobIffBusy /\ Apart /\ Conserved
          /\ AttemptInv /\ DrainInv
        BY DEF LedgerInv, RunInv, CloseInv, PlaceInv, TypeInv
    <1>b. ASSUME NEW t \in Tasks, t \in Held
          PROVE  /\ call[t] = "accepted" /\ outcome[t] = "none"
                 /\ t \notin Retrying
        BY <1>a, <1>b DEF Apart, Conserved
    <1>c. ASSUME UNCHANGED <<wpc, job>>
          PROVE  Running' = Running
        BY <1>c DEF Running
    <1>1. CASE Configure \/ Tick \/ UNCHANGED vars
        <2>1. UNCHANGED <<closed, runs, call, outcome, wpc, job, closer>>
            BY <1>1 DEF Configure, Register, SetMaxRetries, SetMaxAge, Tick, vars,
                        callers, pool
        <2>2. \A u \in Tasks : PhaseOf(u)' = PhaseOf(u)
            BY <1>c, <2>1, SamePhase
        <2> QED
            BY <2>1, <2>2, StutterLemma DEF isOver
    <1>2. ASSUME NEW t \in Tasks, Caller(t)
          PROVE  Ledger!LedgerNext \/ UNCHANGED Ledger!ledger
        <2>1. /\ UNCHANGED <<closed, runs, outcome, wpc, job, closer>>
              /\ call[t] \in {"idle", "checked"}
              /\ \A u \in Tasks \ {t} : call'[u] = call[u]
            BY <1>a, <1>2 DEF Caller, EnqueueCheck, EnqueueSend, pool, TypeOK
        <2>2. Running' = Running /\ t \notin Running /\ outcome[t] = "none"
            <3>1. t \notin Held /\ outcome[t] = "none"
                BY <1>a, <2>1 DEF Conserved
            <3> QED
                BY <1>c, <2>1, <3>1 DEF Held, Running
        <2>3. \A u \in Tasks \ {t} : PhaseOf(u)' = PhaseOf(u)
            BY <2>1, <2>2, SamePhase
        <2>4. PhaseOf(t) = "offered"
            BY <2>1 DEF PhaseOf
        <2>5. CASE call'[t] = "checked"
            <3>1. PhaseOf(t)' = "offered"
                BY <2>5 DEF PhaseOf
            <3> QED
                BY <2>1, <2>3, <2>4, <3>1, StutterLemma DEF isOver
        <2>6. CASE call'[t] = "accepted"
            <3>1. PhaseOf(t)' = "pending"
                BY <2>1, <2>2, <2>6 DEF PhaseOf
            <3>2. ~closed
                BY <1>a, <1>2, <2>6 DEF Caller, EnqueueCheck, EnqueueSend, TypeOK
            <3>3. Ledger!Move(t, "offered", "pending")
                BY <2>3, <2>4, <3>1, MoveLemma
            <3>4. Ledger!Accept(t)
                <4>1. isOver' = isOver /\ (~closed)' = ~closed
                    BY <2>1 DEF isOver
                <4> QED
                    BY <2>1, <3>2, <3>3, <4>1 DEF Ledger!Accept, isOver
            <3> QED
                BY <3>4 DEF Ledger!LedgerNext
        <2>7. CASE call'[t] \notin {"checked", "accepted"}
            <3>1. PhaseOf(t)' = "refused"
                <4>1. call'[t] # "idle"
                    BY <1>a, <1>2 DEF Caller, EnqueueCheck, EnqueueSend, TypeOK
                <4> QED
                    BY <2>7, <4>1 DEF PhaseOf
            <3>2. Ledger!Move(t, "offered", "refused")
                BY <2>3, <2>4, <3>1, MoveLemma
            <3>3. Ledger!Refuse(t)
                <4>1. isOver' = isOver /\ (~closed)' = ~closed
                    BY <2>1 DEF isOver
                <4> QED
                    BY <2>1, <3>2, <4>1 DEF Ledger!Refuse, isOver
            <3> QED
                BY <3>3 DEF Ledger!LedgerNext
        <2> QED
            BY <2>5, <2>6, <2>7
    (* A pending or running task ends.                                     *)
    <1>3. ASSUME NEW t \in Tasks, call[t] = "accepted", outcome[t] = "none",
                 outcome'[t] # "none",
                 \A u \in Tasks \ {t} :
                    outcome'[u] = outcome[u] /\ (u \in Running' <=> u \in Running),
                 UNCHANGED <<closed, runs, call, closer>>
          PROVE  Ledger!LedgerNext
        <2>1. PhaseOf(t) \in {"running", "pending"} /\ PhaseOf(t)' = "ended"
            BY <1>3 DEF PhaseOf
        <2>2. \A u \in Tasks \ {t} : PhaseOf(u)' = PhaseOf(u)
            BY <1>3, SamePhase
        <2>3. Ledger!Move(t, "running", "ended") \/ Ledger!Move(t, "pending", "ended")
            <3>1. CASE PhaseOf(t) = "running"
                BY <2>1, <2>2, <3>1, MoveLemma
            <3>2. CASE PhaseOf(t) = "pending"
                BY <2>1, <2>2, <3>2, MoveLemma
            <3> QED
                BY <2>1, <3>1, <3>2
        <2>4. isOver' = isOver /\ (~closed)' = ~closed
            BY <1>3 DEF isOver
        <2>5. Ledger!End(t)
            BY <1>3, <2>3, <2>4 DEF Ledger!End, isOver
        <2> QED
            BY <2>5 DEF Ledger!LedgerNext
    <1>4. ASSUME NEW t \in Tasks, Timer(t)
          PROVE  Ledger!LedgerNext \/ UNCHANGED Ledger!ledger
        <2>1. UNCHANGED <<closed, runs, call, wpc, job, closer>> /\ t \in Retrying
            BY <1>4 DEF Timer, RequeueCheck, RequeueSend, RequeuePanic, Retrying,
                        callers, pool
        <2>2. \A u \in Tasks \ {t} : outcome'[u] = outcome[u]
            BY <1>a, <1>4 DEF Timer, RequeueCheck, RequeueSend, RequeuePanic, TypeOK
        <2>3. call[t] = "accepted" /\ outcome[t] = "none"
            BY <1>a, <2>1 DEF Apart, Conserved
        <2>4. CASE outcome'[t] # "none"
            BY <1>3, <1>c, <2>1, <2>2, <2>3, <2>4
        <2>5. CASE outcome'[t] = "none"
            <3>1. \A u \in Tasks : PhaseOf(u)' = PhaseOf(u)
                BY <1>c, <2>1, <2>2, <2>3, <2>5, SamePhase
            <3> QED
                BY <2>1, <3>1, StutterLemma DEF isOver
        <2> QED
            BY <2>4, <2>5
    <1>5. ASSUME NEW w \in Workers, Receive(w) \/ Exit(w)
          PROVE  Ledger!LedgerNext \/ UNCHANGED Ledger!ledger
        <2>1. /\ UNCHANGED <<closed, runs, call, outcome, closer>>
              /\ wpc[w] = "receive" /\ wpc'[w] # "handler"
              /\ \A v \in Workers : v # w => wpc'[v] = wpc[v] /\ job'[v] = job[v]
            BY <1>a, <1>5 DEF Receive, Exit, callers, TypeOK
        <2>2. Running' = Running
            BY <2>1 DEF Running
        <2>3. \A u \in Tasks : PhaseOf(u)' = PhaseOf(u)
            BY <2>1, <2>2, SamePhase
        <2> QED
            BY <2>1, <2>3, StutterLemma DEF isOver
    <1>6. ASSUME NEW w \in Workers, Busy(w)
          PROVE  job[w] \in Tasks /\ job[w] \in Held
        BY <1>6 DEF LedgerInv, RunInv, PlaceInv, TypeInv, WorkerHoldsTask, Held
    <1>7. ASSUME NEW w \in Workers, Busy(w), Release(w)
          PROVE  Running' = Running \ {job[w]}
        <2>1. /\ wpc'[w] = "receive"
              /\ \A v \in Workers : v # w => wpc'[v] = wpc[v] /\ job'[v] = job[v]
            BY <1>a, <1>7 DEF Release, TypeOK
        <2>2. \A v \in Workers : job[v] = job[w] => v = w
            BY <1>a, <1>6, <1>7, NoTaskAssumption DEF OneJob
        <2> QED
            BY <2>1, <2>2 DEF Running
    <1>8. ASSUME NEW w \in Workers,
                 Discard(w) \/ Finish(w, "handled") \/ Finish(w, "panic") \/ GiveUp(w)
          PROVE  Ledger!LedgerNext
        <2> DEFINE t == job[w]
        <2>1. /\ Busy(w) /\ Release(w) /\ UNCHANGED <<closed, runs, call, closer>>
              /\ \E e \in Outcomes \ {"none"} : outcome' = [outcome EXCEPT ![t] = e]
            BY <1>8 DEF Discard, Finish, GiveUp, Busy, Outcomes, callers
        <2>2. t \in Tasks /\ call[t] = "accepted" /\ outcome[t] = "none"
            BY <1>6, <1>b, <2>1
        <2>3. Running' = Running \ {t}
            BY <1>7, <2>1
        <2>4. outcome'[t] # "none" /\ \A u \in Tasks \ {t} : outcome'[u] = outcome[u]
            BY <1>a, <2>1, <2>2 DEF TypeOK
        <2> HIDE DEF t
        <2> QED
            BY <1>3, <2>1, <2>2, <2>3, <2>4
    <1>9. ASSUME NEW w \in Workers, Start(w)
          PROVE  Ledger!LedgerNext
        <2>0. PICK t \in Tasks : t = job[w]
            BY <1>6, <1>9 DEF Start, Busy
        <2>1. /\ Busy(w) /\ wpc[w] = "process"
              /\ UNCHANGED <<closed, call, outcome, closer, job>>
              /\ runs' = [runs EXCEPT ![t] = @ + 1]
            BY <1>9, <2>0 DEF Start, Busy, callers
        <2>2. t \in Tasks /\ call[t] = "accepted" /\ outcome[t] = "none"
            BY <1>6, <1>b, <2>0, <2>1
        <2>3. t \notin Running /\ Running' = Running \cup {t}
            <3>1. \A v \in Workers : job[v] = t => v = w
                BY <1>a, <2>0, <2>1, <2>2, NoTaskAssumption DEF OneJob
            <3>2. wpc'[w] = "handler" /\ \A v \in Workers : v # w => wpc'[v] = wpc[v]
                BY <1>a, <1>9 DEF Start, TypeOK
            <3> QED
                BY <2>0, <2>1, <2>2, <3>1, <3>2 DEF Running
        <2>4. ~isOver
            BY <1>a, <2>1 DEF DrainInv, isOver
        <2>5. runs[t] < MaxRuns
            BY <1>a, <2>2, <2>3 DEF AttemptInv
        <2>6. PhaseOf(t) = "pending" /\ PhaseOf(t)' = "running"
            BY <2>1, <2>2, <2>3 DEF PhaseOf
        <2>7. \A u \in Tasks \ {t} : PhaseOf(u)' = PhaseOf(u)
            BY <2>1, <2>3, SamePhase
        <2>8. Ledger!Move(t, "pending", "running")
            BY <2>2, <2>6, <2>7, MoveLemma
        <2>9. isOver' = isOver /\ (~closed)' = ~closed
            BY <2>1 DEF isOver
        <2>10. Ledger!Run(t)
            BY <2>1, <2>4, <2>5, <2>8, <2>9 DEF Ledger!Run, isOver
        <2> QED
            BY <2>2, <2>10 DEF Ledger!LedgerNext
    <1>10. ASSUME NEW w \in Workers, Retry(w)
           PROVE  Ledger!LedgerNext
        <2>0. PICK t \in Tasks : t = job[w]
            BY <1>6, <1>10 DEF Retry, Busy
        <2>1. /\ Busy(w) /\ Release(w) /\ wpc[w] = "handler"
              /\ UNCHANGED <<closed, runs, call, outcome, closer>>
            BY <1>10 DEF Retry, Busy, callers
        <2>2. t \in Tasks /\ call[t] = "accepted" /\ outcome[t] = "none"
            BY <1>6, <1>b, <2>0, <2>1
        <2>3. t \in Running /\ Running' = Running \ {t}
            BY <1>7, <2>0, <2>1, <2>2 DEF Running
        <2>4. PhaseOf(t) = "running" /\ PhaseOf(t)' = "pending"
            BY <2>1, <2>2, <2>3 DEF PhaseOf
        <2>5. \A u \in Tasks \ {t} : PhaseOf(u)' = PhaseOf(u)
            BY <2>1, <2>3, SamePhase
        <2>6. Ledger!Move(t, "running", "pending")
            BY <2>2, <2>4, <2>5, MoveLemma
        <2>7. isOver' = isOver /\ (~closed)' = ~closed
            BY <2>1 DEF isOver
        <2>8. Ledger!Again(t)
            BY <2>1, <2>6, <2>7 DEF Ledger!Again, isOver
        <2> QED
            BY <2>2, <2>8 DEF Ledger!LedgerNext
    <1>11. ASSUME NEW c \in Closers, CloseBegin(c)
           PROVE  Ledger!LedgerNext \/ UNCHANGED Ledger!ledger
        <2>1. /\ UNCHANGED <<runs, call, outcome, wpc, job>> /\ closed'
              /\ \A d \in Closers : closer'[d] = "returned" <=> closer[d] = "returned"
            BY <1>a, <1>11 DEF CloseBegin, callers, pool, TypeOK
        <2>2. \A u \in Tasks : PhaseOf(u)' = PhaseOf(u)
            BY <1>c, <2>1, SamePhase
        <2>3. isOver' = isOver
            BY <2>1 DEF isOver
        <2>4. CASE closed
            BY <2>1, <2>2, <2>3, <2>4, StutterLemma, Zenon
        <2>5. CASE ~closed
            <3>1. phaseOf' = phaseOf
                BY <2>2 DEF phaseOf
            <3>2. (~closed)' = FALSE
                BY <2>1
            <3>3. Ledger!Stop
                BY <2>1, <2>3, <2>5, <3>1, <3>2 DEF Ledger!Stop, isOver, phaseOf
            <3> QED
                BY <3>3 DEF Ledger!LedgerNext
        <2> QED
            BY <2>4, <2>5
    <1>12. ASSUME NEW c \in Closers, CloseReturn(c)
           PROVE  Ledger!LedgerNext \/ UNCHANGED Ledger!ledger
        <2>1. /\ UNCHANGED <<closed, runs, call, outcome, wpc, job>>
              /\ closer[c] = "waiting" /\ closer'[c] = "returned"
              /\ \A w \in Workers : wpc[w] = "exited"
            BY <1>a, <1>12 DEF CloseReturn, callers, pool, TypeOK
        <2>2. \A u \in Tasks : PhaseOf(u)' = PhaseOf(u)
            BY <1>c, <2>1, SamePhase
        <2>3. isOver' = TRUE
            BY <2>1 DEF isOver
        <2>4. CASE isOver
            BY <2>1, <2>2, <2>3, <2>4, StutterLemma
        <2>5. CASE ~isOver
            <3>1. phaseOf' = phaseOf /\ (~closed)' = ~closed
                BY <2>1, <2>2 DEF phaseOf
            <3>2. closed
                BY <1>a, <2>1 DEF DrainInv
            <3>3. \A t \in Tasks : phaseOf[t] # "running"
                BY <2>1 DEF phaseOf, PhaseOf, Running
            <3>4. Ledger!BeOver
                BY <2>1, <2>3, <2>5, <3>1, <3>2, <3>3 DEF Ledger!BeOver, isOver, phaseOf
            <3> QED
                BY <3>4 DEF Ledger!LedgerNext
        <2> QED
            BY <2>4, <2>5
    <1> QED
        BY <1>1, <1>2, <1>4, <1>5, <1>8, <1>9, <1>10, <1>11, <1>12
        DEF Next, Worker, Closer

(* The queue implements the ledger: one run of a task at a time and at     *)
(* most MaxRuns of them, one end, nothing accepted once Close has begun    *)
(* and nothing run once it has returned.                                   *)
THEOREM QueueImplementsLedger == Spec => ImplementsLedger
    <1>1. Init => LedgerInv
        BY InitRunInv, InitCloseInv DEF LedgerInv
    <1>2. LedgerInv /\ [Next]_vars => LedgerInv'
        BY StepRunInv, StepCloseInv DEF LedgerInv
    <1> QED
        BY <1>1, <1>2, InitLedger, StepLedger, PTL
        DEF Spec, ImplementsLedger, Ledger!LedgerSpec

-----------------------------------------------------------------------------
(* The hub.                                                               *)

Messages == Publishers \X Nat

PumpStates == [Clients -> [Pumps -> {"none", "run", "write", "unregister", "done"}]]

HubTypes ==
    /\ clients \subseteq Clients
    /\ socket \in [Clients -> {"none", "open", "dropped", "closed"}]
    /\ chan \in [Clients -> Seq(Messages)]
    /\ \A c \in Clients : Len(chan[c]) <= Capacity
    /\ chanClosed \in [Clients -> BOOLEAN]
    /\ pump \in PumpStates
    /\ writing \in [Clients -> {NoOne} \cup Messages]
    /\ \A c \in Clients : pump[c]["writer"] = "write" => writing[c] \in Messages
    /\ received \in [Clients -> Seq(Messages)]
    /\ next \in [Publishers -> Nat]
    /\ todo \in [Publishers -> SUBSET Clients]
    /\ publishing \subseteq Publishers
    /\ holder \in {NoOne} \cup (Clients \X Pumps)
    /\ panicked = FALSE

(* The holder of the write lock is alone, in the middle of Unregister, and *)
(* its connection is registered still.                                     *)
HolderInv ==
    holder # NoOne =>
        /\ publishing = {}
        /\ holder[1] \in clients
        /\ pump[holder[1]][holder[2]] = "unregister"

(* Only Unregister's own connection is registered with a closed channel.   *)
ChannelInv ==
    /\ \A c \in clients : chanClosed[c] => holder # NoOne /\ holder[1] = c
    /\ \A c \in Clients :
          pump[c]["reader"] = "none" => c \notin clients /\ ~chanClosed[c]

(* A publisher has registered connections before it, and something to say. *)
VisitInv ==
    \A p \in Publishers :
        /\ p \in publishing => todo[p] \subseteq clients /\ ~NoOp(Update(p))
        /\ p \notin publishing => todo[p] = {}

LockInv == HolderInv /\ ChannelInv /\ VisitInv

(* The updates for a connection that their publishers have sent it.        *)
Addressed(c, m) ==
    \/ Scope(m) = Everyone
    \/ Scope(m) = KeyOf[c] /\ KeyOf[c] # NoKey

Sent(c, m) ==
    \/ m[2] < next[m[1]]
    \/ m[2] = next[m[1]] /\ m[1] \in publishing /\ c \notin todo[m[1]]

SentTo(c) == {m \in Messages : Addressed(c, m) /\ Sent(c, m)}

(* Of two updates, one may follow the other.                               *)
Before(m, n) == m[1] = n[1] => m[2] < n[2]

Sorted(s) == \A i, j \in 1..Len(s) : i < j => Before(s[i], s[j])

AllIn(s, S) == \A i \in 1..Len(s) : s[i] \in S
AllBefore(s, m) == \A i \in 1..Len(s) : Before(s[i], m)
AllAfter(m, s) == \A i \in 1..Len(s) : Before(m, s[i])
Precedes(s, t) == \A i \in 1..Len(s) : AllAfter(s[i], t)

(* The peer's updates, then the writer's, then the channel's.              *)
LineInv(c) ==
    /\ Sorted(received[c]) /\ AllIn(received[c], SentTo(c))
    /\ Sorted(chan[c]) /\ AllIn(chan[c], SentTo(c))
    /\ Precedes(received[c], chan[c])
    /\ writing[c] # NoOne =>
          /\ writing[c] \in SentTo(c)
          /\ AllBefore(received[c], writing[c])
          /\ AllAfter(writing[c], chan[c])

HubInv == HubTypes /\ LockInv /\ \A c \in Clients : LineInv(c)

-----------------------------------------------------------------------------
(* Taking the head of a line and joining its end.                          *)

LEMMA HeadAndTail ==
    ASSUME NEW S, NEW s \in Seq(S), s # <<>>
    PROVE  /\ Head(s) \in S /\ Head(s) = s[1] /\ Len(s) >= 1
           /\ Tail(s) \in Seq(S) /\ Len(Tail(s)) = Len(s) - 1
           /\ \A i \in 1..Len(Tail(s)) : Tail(s)[i] = s[i + 1]
  <1>1. Len(s) \in Nat /\ Len(s) # 0
    BY EmptySeq, LenProperties
  <1> QED
    BY <1>1, HeadTailProperties, ElementOfSeq

LEMMA Appended ==
    ASSUME NEW S, NEW s \in Seq(S), NEW m \in S
    PROVE  /\ Append(s, m) \in Seq(S) /\ Len(Append(s, m)) = Len(s) + 1
           /\ \A i \in 1..Len(s) : Append(s, m)[i] = s[i]
           /\ Append(s, m)[Len(s) + 1] = m
  BY AppendProperties

LEMMA HubInvInit == HubInit => HubInv
  <1> SUFFICES ASSUME HubInit PROVE HubInv
    OBVIOUS
  <1>1. HubTypes
    BY HubAssumption DEF HubInit, HubTypes, NoOne, Pumps, PumpStates
  <1>2. LockInv
    BY DEF HubInit, LockInv, HolderInv, ChannelInv, VisitInv, NoOne, Pumps
  <1>3. ASSUME NEW c \in Clients PROVE LineInv(c)
    BY DEF HubInit, LineInv, Sorted, AllIn, Precedes, NoOne
  <1> QED
    BY <1>1, <1>2, <1>3 DEF HubInv

-----------------------------------------------------------------------------
(* Where a pump goes: to is a place, and the other pumps stay.             *)
PumpMoves(c, p, to) ==
    /\ pump' \in PumpStates
    /\ pump'[c][p] = to
    /\ \A d \in Clients, q \in Pumps : d # c \/ q # p => pump'[d][q] = pump[d][q]

LEMMA GotoMoves ==
    ASSUME pump \in PumpStates, NEW c \in Clients
    PROVE  /\ Goto(c, "reader", "unregister") => PumpMoves(c, "reader", "unregister")
           /\ \A to \in {"write", "run", "unregister", "done"} :
                 Goto(c, "writer", to) => PumpMoves(c, "writer", to)
           /\ \A p \in Pumps : Goto(c, p, "done") => PumpMoves(c, p, "done")
  BY DEF Goto, PumpMoves, PumpStates, Pumps

LEMMA HubTypesNext == HubInv /\ [HubNext]_hubVars => HubTypes'
  <1> SUFFICES ASSUME HubInv, [HubNext]_hubVars PROVE HubTypes'
    OBVIOUS
  <1> USE DEF HubInv, HubTypes, conn
  <1>1. ASSUME NEW c \in Clients, Accept(c) \/ Drop(c) PROVE HubTypes'
    BY <1>1 DEF Accept, Drop
  <1>2. ASSUME NEW c \in Clients, Connect(c) PROVE HubTypes'
    <2>1. pump' = [pump EXCEPT ![c] = [reader |-> "run", writer |-> "run"]]
      BY <1>2 DEF Connect
    <2>2. [reader |-> "run", writer |-> "run"]
            \in [{"reader", "writer"} -> {"none", "run", "write", "unregister", "done"}]
      OBVIOUS
    <2>3. pump' \in PumpStates
      BY <2>1, <2>2 DEF PumpStates, Pumps
    <2>4. \A d \in Clients : pump'[d]["writer"] = "write" => pump[d]["writer"] = "write"
      BY <2>1 DEF PumpStates
    <2> QED
      BY <1>2, <2>3, <2>4 DEF Connect
  <1>3. ASSUME NEW c \in Clients, ReadFails(c) PROVE HubTypes'
    <2>1. PumpMoves(c, "reader", "unregister")
      BY <1>3, GotoMoves DEF ReadFails
    <2> QED
      BY <1>3, <2>1 DEF ReadFails, PumpMoves, Pumps
  <1>4. ASSUME NEW c \in Clients, Take(c) PROVE HubTypes'
    <2>1. /\ Head(chan[c]) \in Messages
          /\ Tail(chan[c]) \in Seq(Messages) /\ Len(Tail(chan[c])) <= Capacity
      <3>1. chan[c] \in Seq(Messages) /\ chan[c] # <<>> /\ Len(chan[c]) <= Capacity
        BY <1>4 DEF Take
      <3>2. Len(chan[c]) \in Nat
        BY <3>1, LenProperties
      <3> QED
        BY <3>1, <3>2, HeadAndTail, HubAssumption
    <2>2. PumpMoves(c, "writer", "write")
      BY <1>4, GotoMoves DEF Take
    <2> QED
      BY <1>4, <2>1, <2>2 DEF Take, PumpMoves, Pumps
  <1>5. ASSUME NEW c \in Clients, WriteSucceeds(c) PROVE HubTypes'
    <2>1. Append(received[c], writing[c]) \in Seq(Messages)
      BY <1>5, Appended DEF WriteSucceeds
    <2>2. PumpMoves(c, "writer", "run")
      BY <1>5, GotoMoves DEF WriteSucceeds
    <2> QED
      BY <1>5, <2>1, <2>2 DEF WriteSucceeds, PumpMoves, Pumps
  <1>6. ASSUME NEW c \in Clients, WriteFails(c) \/ PingFails(c) \/ ChannelEnds(c)
        PROVE  HubTypes'
    <2>1. \E to \in {"unregister", "done"} : PumpMoves(c, "writer", to)
      BY <1>6, GotoMoves DEF WriteFails, PingFails, ChannelEnds
    <2>2. CASE WriteFails(c)
      BY <2>1, <2>2 DEF WriteFails, PumpMoves, Pumps
    <2>3. CASE PingFails(c)
      BY <2>1, <2>3 DEF PingFails, PumpMoves, Pumps
    <2>4. CASE ChannelEnds(c)
      BY <2>1, <2>4 DEF ChannelEnds, PumpMoves, Pumps
    <2> QED
      BY <1>6, <2>2, <2>3, <2>4
  <1>7. ASSUME NEW c \in Clients, NEW p \in Pumps, UnregisterBegin(c, p) PROVE HubTypes'
    <2>1. c \in clients => chanClosed[c] = FALSE
      <3>1. c \in clients => ~chanClosed[c]
        BY <1>7, Zenon DEF UnregisterBegin, WriteLockFree, LockInv, ChannelInv
      <3>2. chanClosed[c] \in BOOLEAN
        OBVIOUS
      <3> QED
        BY <3>1, <3>2
    <2>2. panicked' = FALSE
      BY <1>7, <2>1 DEF UnregisterBegin
    <2>3. CASE c \in clients
      <3>1. holder' = <<c, p>> /\ chanClosed' = [chanClosed EXCEPT ![c] = TRUE]
        BY <1>7, <2>3 DEF UnregisterBegin
      <3>2. holder' \in Clients \X Pumps
        BY <3>1
      <3>3. chanClosed' \in [Clients -> BOOLEAN]
        BY <3>1
      <3> QED
        BY <1>7, <2>2, <2>3, <3>2, <3>3 DEF UnregisterBegin
    <2>4. CASE c \notin clients
      <3>1. PumpMoves(c, p, "done")
        BY <1>7, <2>4, GotoMoves DEF UnregisterBegin
      <3>2. pump' \in PumpStates /\ \A d \in Clients :
                pump'[d]["writer"] = "write" => pump[d]["writer"] = "write"
        BY <3>1 DEF PumpMoves, Pumps
      <3> QED
        BY <1>7, <2>4, <3>2 DEF UnregisterBegin
    <2> QED
      BY <2>3, <2>4
  <1>8. ASSUME NEW c \in Clients, NEW p \in Pumps, UnregisterEnd(c, p) PROVE HubTypes'
    <2>1. PumpMoves(c, p, "done")
      BY <1>8, GotoMoves DEF UnregisterEnd
    <2>2. pump' \in PumpStates /\ \A d \in Clients :
              pump'[d]["writer"] = "write" => pump[d]["writer"] = "write"
      BY <2>1 DEF PumpMoves, Pumps
    <2> QED
      BY <1>8, <2>2 DEF UnregisterEnd
  <1>9. ASSUME NEW p \in Publishers,
               PublishNothing(p) \/ PublishBegin(p) \/ PublishEnd(p)
        PROVE  HubTypes'
    <2>1. CASE PublishNothing(p)
      BY <2>1 DEF PublishNothing
    <2>2. CASE PublishBegin(p)
      BY <2>2 DEF PublishBegin
    <2>3. CASE PublishEnd(p)
      BY <2>3 DEF PublishEnd
    <2> QED
      BY <1>9, <2>1, <2>2, <2>3
  <1>10. ASSUME NEW p \in Publishers, NEW c \in Clients, Visit(p, c) PROVE HubTypes'
    <2>1. chanClosed[c] = FALSE
      <3>1. p \in publishing /\ c \in clients
        BY <1>10 DEF Visit, LockInv, VisitInv
      <3>2. holder = NoOne
        BY <3>1 DEF LockInv, HolderInv
      <3>3. ~chanClosed[c]
        BY <3>1, <3>2, Zenon DEF LockInv, ChannelInv
      <3> QED
        BY <3>3
    <2>2. panicked' = FALSE
      BY <1>10, <2>1 DEF Visit
    <2>3. Update(p) \in Messages
      BY DEF Update, Messages
    <2>4. chan' \in [Clients -> Seq(Messages)] /\ \A d \in Clients : Len(chan'[d]) <= Capacity
      <3>1. CASE UNCHANGED chan
        BY <3>1
      <3>2. CASE chan' = [chan EXCEPT ![c] = Append(@, Update(p))] /\ Len(chan[c]) < Capacity
        <4>1. /\ Append(chan[c], Update(p)) \in Seq(Messages)
              /\ Len(Append(chan[c], Update(p))) = Len(chan[c]) + 1
          BY <2>3, Appended
        <4>2. Len(chan[c]) \in Nat
          BY LenProperties
        <4> QED
          BY <3>2, <4>1, <4>2, HubAssumption
      <3>3. \/ UNCHANGED chan
            \/ chan' = [chan EXCEPT ![c] = Append(@, Update(p))] /\ Len(chan[c]) < Capacity
        BY <1>10 DEF Visit
      <3> QED
        BY <3>1, <3>2, <3>3
    <2> QED
      BY <1>10, <2>2, <2>4 DEF Visit
  <1>11. ASSUME UNCHANGED hubVars PROVE HubTypes'
    BY <1>11 DEF hubVars
  <1> QED
    BY <1>1, <1>2, <1>3, <1>4, <1>5, <1>6, <1>7, <1>8, <1>9, <1>10, <1>11
       DEF HubNext, Peer, Writer, Unregister, Publish

LEMMA LockInvNext == HubInv /\ [HubNext]_hubVars => LockInv'
  <1> SUFFICES ASSUME HubInv, [HubNext]_hubVars PROVE LockInv'
    OBVIOUS
  <1> USE DEF HubInv, HubTypes, PumpStates, Pumps, conn, NoOne
  (* The steps of the peers, the pumps and the channels leave the lock, its  *)
  (* readers and the registered connections; no pump leaves Unregister.      *)
  <1>1. ASSUME UNCHANGED <<clients, chanClosed, next, todo, publishing, holder>>,
               \A d \in Clients, q \in Pumps :
                  /\ pump[d][q] = "unregister" => pump'[d][q] = "unregister"
                  /\ pump'[d]["reader"] = "none" => pump[d]["reader"] = "none"
        PROVE  LockInv'
    <2>1. HolderInv'
      BY <1>1 DEF LockInv, HolderInv
    <2>2. ChannelInv'
      BY <1>1 DEF LockInv, ChannelInv
    <2>3. VisitInv'
      BY <1>1 DEF LockInv, VisitInv, NoOp, Update
    <2> QED
      BY <2>1, <2>2, <2>3 DEF LockInv
  <1>2. ASSUME NEW c \in Clients, Peer(c) \/ ReadFails(c) \/ Writer(c) PROVE LockInv'
    <2>1. UNCHANGED <<clients, chanClosed, next, todo, publishing, holder>>
      BY <1>2 DEF Peer, Accept, Drop, ReadFails, Writer, Take, WriteSucceeds, WriteFails,
                  PingFails, ChannelEnds
    <2>2. \A d \in Clients, q \in Pumps :
             /\ pump[d][q] = "unregister" => pump'[d][q] = "unregister"
             /\ pump'[d]["reader"] = "none" => pump[d]["reader"] = "none"
      <3>1. CASE Peer(c)
        BY <3>1 DEF Peer, Accept, Drop
      <3>2. CASE ReadFails(c)
        <4>1. PumpMoves(c, "reader", "unregister") /\ pump[c]["reader"] = "run"
          BY <3>2, GotoMoves DEF ReadFails
        <4> QED
          BY <4>1 DEF PumpMoves, Pumps
      <3>3. CASE Take(c) \/ WriteSucceeds(c) \/ WriteFails(c)
        BY <3>3, GotoMoves DEF Take, WriteSucceeds, WriteFails, PumpMoves
      <3>4. CASE PingFails(c)
        <4>1. PumpMoves(c, "writer", "unregister") /\ pump[c]["writer"] = "run"
          BY <3>4, GotoMoves DEF PingFails
        <4> QED
          BY <4>1 DEF PumpMoves
      <3>5. CASE ChannelEnds(c)
        <4>1. PumpMoves(c, "writer", "done") /\ pump[c]["writer"] = "run"
          BY <3>5, GotoMoves DEF ChannelEnds
        <4> QED
          BY <4>1 DEF PumpMoves
      <3> QED
        BY <1>2, <3>1, <3>2, <3>3, <3>4, <3>5 DEF Writer
    <2> QED
      BY <1>1, <2>1, <2>2
  <1>3. ASSUME NEW c \in Clients, Connect(c) PROVE LockInv'
    <2>1. /\ holder = NoOne /\ publishing = {} /\ clients' = clients \cup {c}
          /\ UNCHANGED <<chanClosed, next, todo, publishing, holder>>
          /\ pump'[c]["reader"] = "run"
          /\ \A d \in Clients : d # c => pump'[d] = pump[d]
      BY <1>3 DEF Connect, WriteLockFree
    <2>2. ~chanClosed[c]
      BY <1>3 DEF Connect, LockInv, ChannelInv
    <2>3. \A d \in clients' : ~chanClosed'[d]
      BY <2>1, <2>2 DEF LockInv, ChannelInv
    <2>4. ASSUME NEW d \in Clients, pump'[d]["reader"] = "none"
          PROVE  d \notin clients' /\ ~chanClosed'[d]
      BY <2>1, <2>4 DEF LockInv, ChannelInv
    <2>5. ChannelInv'
      BY <2>3, <2>4 DEF ChannelInv
    <2>6. VisitInv'
      BY <2>1 DEF LockInv, VisitInv, NoOp, Update
    <2> QED
      BY <2>1, <2>5, <2>6 DEF LockInv, HolderInv
  <1>4. ASSUME NEW c \in Clients, NEW p \in Pumps, UnregisterBegin(c, p) PROVE LockInv'
    <2>1. CASE c \notin clients
      <3>1. UNCHANGED <<clients, chanClosed, next, todo, publishing, holder>>
        BY <1>4, <2>1 DEF UnregisterBegin
      <3>2. \A d \in Clients, q \in Pumps :
               pump'[d]["reader"] = "none" => pump[d]["reader"] = "none"
        BY <1>4, <2>1, GotoMoves DEF UnregisterBegin, PumpMoves
      <3>3. holder = NoOne
        BY <1>4 DEF UnregisterBegin, WriteLockFree
      <3>4. ChannelInv'
        BY <3>1, <3>2 DEF LockInv, ChannelInv
      <3>5. VisitInv'
        BY <3>1 DEF LockInv, VisitInv, NoOp, Update
      <3> QED
        BY <3>1, <3>3, <3>4, <3>5 DEF LockInv, HolderInv
    <2>2. CASE c \in clients
      <3>1. /\ holder = NoOne /\ publishing = {} /\ pump[c][p] = "unregister"
            /\ holder' = <<c, p>> /\ chanClosed' = [chanClosed EXCEPT ![c] = TRUE]
            /\ UNCHANGED <<clients, pump, next, todo, publishing>>
        BY <1>4, <2>2 DEF UnregisterBegin, WriteLockFree
      <3>2. \A d \in clients : d # c => ~chanClosed'[d]
        BY <3>1 DEF LockInv, ChannelInv
      <3>3. holder'[1] = c /\ holder'[2] = p /\ holder' # NoOne
        BY <3>1
      <3>4. \A d \in Clients : pump[d]["reader"] = "none" => d \notin clients /\ ~chanClosed'[d]
        BY <2>2, <3>1 DEF LockInv, ChannelInv
      <3>5. ChannelInv'
        BY <3>1, <3>2, <3>3, <3>4 DEF ChannelInv
      <3>6. VisitInv'
        BY <3>1 DEF LockInv, VisitInv, NoOp, Update
      <3> QED
        BY <2>2, <3>1, <3>3, <3>5, <3>6 DEF LockInv, HolderInv
    <2> QED
      BY <2>1, <2>2
  <1>5. ASSUME NEW c \in Clients, NEW p \in Pumps, UnregisterEnd(c, p) PROVE LockInv'
    <2>1. /\ holder = <<c, p>> /\ holder' = NoOne /\ clients' = clients \ {c}
          /\ UNCHANGED <<chanClosed, next, todo, publishing>>
      BY <1>5 DEF UnregisterEnd
    <2>2. \A d \in Clients : pump'[d]["reader"] = "none" => pump[d]["reader"] = "none"
      BY <1>5, GotoMoves DEF UnregisterEnd, PumpMoves
    <2>3. publishing = {}
      BY <2>1 DEF LockInv, HolderInv
    <2>4. \A d \in clients' : ~chanClosed'[d]
      BY <2>1 DEF LockInv, ChannelInv
    <2>5. ChannelInv'
      BY <2>1, <2>2, <2>4 DEF LockInv, ChannelInv
    <2>6. VisitInv'
      BY <2>1, <2>3 DEF LockInv, VisitInv
    <2> QED
      BY <2>1, <2>5, <2>6 DEF LockInv, HolderInv
  <1>6. ASSUME NEW p \in Publishers, Publish(p) PROVE LockInv'
    <2>1. UNCHANGED <<clients, chanClosed, pump, holder>>
      BY <1>6 DEF Publish, PublishNothing, PublishBegin, PublishEnd, Visit
    <2>2. publishing' # publishing /\ publishing' # {} => holder = NoOne
      BY <1>6 DEF Publish, PublishNothing, PublishBegin, PublishEnd, Visit, LockInv, HolderInv
    <2>3. ChannelInv'
      BY <2>1 DEF LockInv, ChannelInv
    <2>4. HolderInv'
      BY <2>1, <2>2 DEF LockInv, HolderInv
    <2>5. \A q \in Publishers : q # p =>
             next'[q] = next[q] /\ todo'[q] = todo[q] /\ (q \in publishing' <=> q \in publishing)
      BY <1>6 DEF Publish, PublishNothing, PublishBegin, PublishEnd, Visit
    <2>6. /\ p \in publishing' => todo'[p] \subseteq clients /\ ~NoOp(Update(p))'
          /\ p \notin publishing' => todo'[p] = {}
      <3>1. CASE PublishNothing(p)
        BY <3>1 DEF PublishNothing, LockInv, VisitInv
      <3>2. CASE PublishBegin(p)
        BY <3>2 DEF PublishBegin, NoOp, Update
      <3>3. CASE PublishEnd(p)
        BY <3>3 DEF PublishEnd
      <3>4. CASE \E c \in Clients : Visit(p, c)
        BY <3>4 DEF Visit, LockInv, VisitInv, NoOp, Update
      <3> QED
        BY <1>6, <3>1, <3>2, <3>3, <3>4 DEF Publish
    <2>7. VisitInv'
      BY <2>1, <2>5, <2>6 DEF LockInv, VisitInv, NoOp, Update
    <2> QED
      BY <2>3, <2>4, <2>7 DEF LockInv
  <1>7. ASSUME UNCHANGED hubVars PROVE LockInv'
    BY <1>1, <1>7 DEF hubVars
  <1> QED
    BY <1>2, <1>3, <1>4, <1>5, <1>6, <1>7 DEF HubNext, Unregister

(* A publisher that goes on has sent no less: every update it had sent is  *)
(* one it has sent, whatever it does next.                                 *)
LEMMA SentStays ==
    ASSUME HubInv, [HubNext]_hubVars, NEW c \in Clients, NEW m \in SentTo(c)
    PROVE  m \in SentTo(c)'
  <1> USE DEF HubInv, HubTypes, Messages
  <1>1. m \in Messages /\ m[1] \in Publishers /\ m[2] \in Nat /\ Addressed(c, m) /\ Sent(c, m)
    BY DEF SentTo
  <1>2. Addressed(c, m)'
    BY <1>1 DEF Addressed, Scope
  <1>3. CASE UNCHANGED <<next, todo, publishing>>
    BY <1>1, <1>2, <1>3 DEF SentTo, Sent
  <1>4. ASSUME NEW p \in Publishers, Publish(p) PROVE Sent(c, m)'
    <2>1. CASE PublishNothing(p)
      <3>1. p \notin publishing /\ UNCHANGED <<todo, publishing>>
            /\ next' = [next EXCEPT ![p] = @ + 1]
        BY <2>1 DEF PublishNothing
      <3> QED
        BY <1>1, <3>1 DEF Sent
    <2>2. CASE PublishBegin(p)
      <3>1. p \notin publishing /\ publishing' = publishing \cup {p} /\ UNCHANGED next
            /\ \A q \in Publishers : q # p => todo'[q] = todo[q]
        BY <2>2 DEF PublishBegin
      <3> QED
        BY <1>1, <3>1 DEF Sent
    <2>3. CASE PublishEnd(p)
      <3>1. publishing' = publishing \ {p} /\ UNCHANGED todo
            /\ next' = [next EXCEPT ![p] = @ + 1]
        BY <2>3 DEF PublishEnd
      <3> QED
        BY <1>1, <3>1 DEF Sent
    <2>4. ASSUME NEW d \in Clients, Visit(p, d) PROVE Sent(c, m)'
      <3>1. UNCHANGED <<next, publishing>> /\ \A q \in Publishers : todo'[q] \subseteq todo[q]
        BY <2>4 DEF Visit
      <3> QED
        BY <1>1, <3>1 DEF Sent
    <2> QED
      BY <1>4, <2>1, <2>2, <2>3, <2>4 DEF Publish
  <1>5. CASE \E p \in Publishers : Publish(p)
    BY <1>1, <1>2, <1>4, <1>5 DEF SentTo
  <1>6. UNCHANGED <<next, todo, publishing>> \/ \E p \in Publishers : Publish(p)
    BY DEF HubNext, hubVars, Peer, Accept, Drop, Connect, ReadFails, Writer, Take,
           WriteSucceeds, WriteFails, PingFails, ChannelEnds, Unregister, UnregisterBegin,
           UnregisterEnd
  <1> QED
    BY <1>3, <1>5, <1>6

(* What a publisher is about to send to a connection follows all that it   *)
(* has sent it.                                                            *)
LEMMA UpdateFollows ==
    ASSUME HubInv, NEW c \in Clients, NEW p \in Publishers, c \in todo[p], p \in publishing,
           NEW m \in SentTo(c)
    PROVE  Before(m, Update(p))
  BY DEF HubInv, HubTypes, Messages, SentTo, Sent, Before, Update

LEMMA LineInvNext ==
    HubInv /\ [HubNext]_hubVars => \A c \in Clients : LineInv(c)'
  <1> SUFFICES ASSUME HubInv, [HubNext]_hubVars, NEW c \in Clients PROVE LineInv(c)'
    OBVIOUS
  <1> DEFINE r == received[c]
             w == writing[c]
             h == chan[c]
  <1>0. /\ r \in Seq(Messages) /\ h \in Seq(Messages) /\ w \in {NoOne} \cup Messages
        /\ Len(r) \in Nat /\ Len(h) \in Nat
        /\ \A i \in 1..Len(r) : r[i] \in Messages
        /\ \A i \in 1..Len(h) : h[i] \in Messages
    <2>1. r \in Seq(Messages) /\ h \in Seq(Messages) /\ w \in {NoOne} \cup Messages
      BY DEF HubInv, HubTypes
    <2> QED
      BY <2>1, LenProperties, ElementOfSeq
  <1>1. LineInv(c)
    BY DEF HubInv
  <1>2. SentTo(c) \subseteq SentTo(c)' /\ SentTo(c) \subseteq Messages
    BY SentStays DEF SentTo
  <1>3. AllIn(r, SentTo(c)')
    BY <1>1, <1>2 DEF LineInv, AllIn
  <1>4. AllIn(h, SentTo(c)')
    BY <1>1, <1>2 DEF LineInv, AllIn
  <1>5. w # NoOne => w \in SentTo(c)'
    BY <1>1, <1>2 DEF LineInv
  (* Nothing of the line moves.                                              *)
  <1>6. ASSUME received'[c] = r, writing'[c] = w, chan'[c] = h PROVE LineInv(c)'
    BY <1>1, <1>3, <1>4, <1>5, <1>6 DEF LineInv, Sorted, AllIn, AllBefore, AllAfter, Precedes
  (* The writer drops what it has in hand.                                   *)
  <1>7. ASSUME received'[c] = r, writing'[c] = NoOne, chan'[c] = h PROVE LineInv(c)'
    BY <1>1, <1>3, <1>4, <1>7 DEF LineInv, Sorted, AllIn, AllBefore, AllAfter, Precedes
  (* The peer receives it.                                                   *)
  <1>8. ASSUME w \in Messages, w # NoOne, received'[c] = Append(r, w), writing'[c] = NoOne,
               chan'[c] = h
        PROVE  LineInv(c)'
    <2> DEFINE s == Append(r, w)
    <2>1. /\ Len(s) = Len(r) + 1 /\ s[Len(r) + 1] = w
          /\ \A i \in 1..Len(r) : s[i] = r[i]
      BY <1>0, <1>8, Appended
    <2>2. /\ Sorted(r) /\ AllBefore(r, w) /\ AllAfter(w, h) /\ Precedes(r, h) /\ Sorted(h)
          /\ AllIn(r, SentTo(c)) /\ AllIn(h, SentTo(c))
      BY <1>1, <1>8 DEF LineInv
    <2> HIDE DEF r, w, h, s
    <2>3. Sorted(s)
      <3> SUFFICES ASSUME NEW i \in 1..Len(s), NEW j \in 1..Len(s), i < j PROVE Before(s[i], s[j])
        BY DEF Sorted
      <3>1. i \in 1..Len(r) /\ s[i] = r[i]
        BY <1>0, <2>1
      <3>2. CASE j = Len(r) + 1
        BY <2>1, <2>2, <3>1, <3>2 DEF AllBefore
      <3>3. CASE j # Len(r) + 1
        <4>1. j \in 1..Len(r) /\ s[j] = r[j]
          BY <1>0, <2>1, <3>3
        <4> QED
          BY <2>2, <3>1, <4>1 DEF Sorted
      <3> QED
        BY <3>2, <3>3
    <2>4. Precedes(s, h)
      BY <1>0, <2>1, <2>2 DEF Precedes
    <2>5. AllIn(s, SentTo(c)')
      BY <1>0, <1>3, <1>5, <1>8, <2>1 DEF AllIn
    <2>6. received'[c] = s /\ chan'[c] = h /\ writing'[c] = NoOne
      BY <1>8 DEF s
    <2> QED
      BY <1>4, <2>2, <2>3, <2>4, <2>5, <2>6
         DEF LineInv, AllIn, Sorted, Precedes, AllAfter
  (* The writer takes the oldest update of the channel.                      *)
  <1>9. ASSUME h # <<>>, received'[c] = r, writing'[c] = Head(h),
               chan'[c] = Tail(h)
        PROVE  LineInv(c)'
    <2> DEFINE t == Tail(h)
    <2>1. /\ Head(h) = h[1] /\ Len(h) >= 1 /\ Len(t) = Len(h) - 1
          /\ \A i \in 1..Len(t) : t[i] = h[i + 1]
      BY <1>0, <1>9, HeadAndTail
    <2>2. Sorted(r) /\ Precedes(r, h) /\ Sorted(h) /\ AllIn(r, SentTo(c)) /\ AllIn(h, SentTo(c))
      BY <1>1 DEF LineInv
    <2> HIDE DEF r, w, h, t
    <2>3. Sorted(t)
      <3>1. \A i, j \in 1..Len(t) : i < j =>
               i + 1 \in 1..Len(h) /\ j + 1 \in 1..Len(h) /\ i + 1 < j + 1
        BY <1>0, <2>1
      <3> QED
        BY <2>1, <2>2, <3>1 DEF Sorted
    <2>4. AllAfter(Head(h), t)
      BY <1>0, <2>1, <2>2 DEF Sorted, AllAfter
    <2>5. Precedes(r, t)
      BY <1>0, <2>1, <2>2 DEF Precedes, AllAfter
    <2>6. AllBefore(r, Head(h))
      BY <1>0, <2>1, <2>2 DEF Precedes, AllAfter, AllBefore
    <2>7. Head(h) \in SentTo(c)' /\ AllIn(t, SentTo(c)')
      BY <1>0, <1>4, <2>1 DEF AllIn
    <2>8. received'[c] = r /\ writing'[c] = Head(h) /\ chan'[c] = t
      BY <1>9 DEF t
    <2> QED
      BY <1>3, <2>2, <2>3, <2>4, <2>5, <2>6, <2>7, <2>8
         DEF LineInv, AllIn, Sorted, Precedes, AllBefore, AllAfter
  (* A publisher sends its update.                                           *)
  <1>10. ASSUME NEW p \in Publishers, Visit(p, c), Reaches(Update(p), c), received'[c] = r,
                writing'[c] = w, chan'[c] = Append(h, Update(p))
         PROVE  LineInv(c)'
    <2> DEFINE m == Update(p)
               s == Append(h, m)
    <2>1. m \in Messages /\ c \in todo[p] /\ p \in publishing /\ ~NoOp(m)
      BY <1>10 DEF Visit, HubInv, HubTypes, LockInv, VisitInv, Update, Messages
    <2>2. /\ Len(s) = Len(h) + 1 /\ s[Len(h) + 1] = m
          /\ \A i \in 1..Len(h) : s[i] = h[i]
      BY <1>0, <2>1, Appended
    <2>3. /\ Sorted(r) /\ Precedes(r, h) /\ Sorted(h) /\ AllIn(r, SentTo(c)) /\ AllIn(h, SentTo(c))
          /\ w # NoOne => AllBefore(r, w) /\ AllAfter(w, h) /\ w \in SentTo(c)
      BY <1>1 DEF LineInv
    <2>4. \A n \in SentTo(c) : Before(n, m)
      BY <2>1, UpdateFollows
    <2>5. m \in SentTo(c)'
      <3>1. Addressed(c, m)
        BY <1>10, <2>1, HubAssumption DEF Reaches, Addressed, NoOp
      <3>2. /\ next' = next /\ publishing' = publishing /\ c \notin todo'[p]
        BY <1>10 DEF Visit, HubInv, HubTypes
      <3>3. m[1] = p /\ m[2] = next[p]
        BY DEF Update
      <3> QED
        BY <2>1, <3>1, <3>2, <3>3 DEF SentTo, Sent, Addressed, Scope
    <2>6. AllBefore(r, m) /\ AllBefore(h, m) /\ (w # NoOne => Before(w, m))
      BY <1>0, <2>3, <2>4 DEF AllBefore, AllIn
    <2>7. received'[c] = r /\ writing'[c] = w /\ chan'[c] = s
      BY <1>10
    <2> HIDE DEF r, w, h, s, m
    <2>8. Sorted(s)
      BY <1>0, <2>2, <2>3, <2>6 DEF Sorted, AllBefore
    <2>9. Precedes(r, s)
      BY <1>0, <2>2, <2>3, <2>6 DEF Precedes, AllAfter, AllBefore
    <2>10. w # NoOne => AllAfter(w, s)
      BY <1>0, <2>2, <2>3, <2>6 DEF AllAfter
    <2>11. AllIn(s, SentTo(c)')
      BY <1>0, <1>4, <2>2, <2>5 DEF AllIn
    <2> QED
      BY <1>3, <1>5, <2>3, <2>7, <2>8, <2>9, <2>10, <2>11
         DEF LineInv, AllIn, Sorted, Precedes, AllBefore, AllAfter
  <1> HIDE DEF r, w, h
  <1>11. ASSUME NEW d \in Clients, Peer(d) \/ Connect(d) \/ ReadFails(d) \/ Writer(d)
         PROVE  LineInv(c)'
    <2>1. CASE d # c \/ Peer(d) \/ Connect(d) \/ ReadFails(d) \/ PingFails(d) \/ ChannelEnds(d)
      <3>1. received'[c] = r /\ writing'[c] = w /\ chan'[c] = h
        BY <1>11, <2>1 DEF Peer, Accept, Drop, Connect, ReadFails, Writer, Take, WriteSucceeds,
                          WriteFails, PingFails, ChannelEnds, conn, HubInv, HubTypes, r, w, h
      <3> QED
        BY <1>6, <3>1
    <2>2. CASE d = c /\ Take(d)
      <3>1. /\ h # <<>> /\ received'[c] = r /\ writing'[c] = Head(h) /\ chan'[c] = Tail(h)
        BY <2>2 DEF Take, HubInv, HubTypes, r, w, h
      <3> QED
        BY <1>9, <3>1
    <2>3. CASE d = c /\ WriteSucceeds(d)
      <3>1. /\ received'[c] = Append(r, w) /\ writing'[c] = NoOne /\ chan'[c] = h
            /\ w \in Messages
        BY <2>3 DEF WriteSucceeds, HubInv, HubTypes, conn, r, w, h
      <3>2. PICK q \in Publishers, n \in Nat : w = <<q, n>>
        BY <3>1 DEF Messages
      <3>3. w # NoOne
        BY <3>2 DEF NoOne
      <3> QED
        BY <1>8, <3>1, <3>3
    <2>4. CASE d = c /\ WriteFails(d)
      <3>1. received'[c] = r /\ writing'[c] = NoOne /\ chan'[c] = h
        BY <2>4 DEF WriteFails, HubInv, HubTypes, conn, r, w, h
      <3> QED
        BY <1>7, <3>1
    <2> QED
      BY <1>11, <2>1, <2>2, <2>3, <2>4 DEF Writer
  <1>12. ASSUME NEW p \in Publishers, NEW d \in Clients, Visit(p, d) PROVE LineInv(c)'
    <2>1. received'[c] = r /\ writing'[c] = w
      BY <1>12 DEF Visit, r, w
    <2>2. \/ chan'[c] = h
          \/ d = c /\ Reaches(Update(p), c) /\ chan'[c] = Append(h, Update(p))
      BY <1>12 DEF Visit, HubInv, HubTypes, h
    <2> QED
      BY <1>6, <1>10, <1>12, <2>1, <2>2
  <1>13. ASSUME UNCHANGED <<received, writing, chan>> PROVE LineInv(c)'
    BY <1>6, <1>13 DEF r, w, h
  <1>14. ASSUME NEW d \in Clients, NEW p \in Pumps, Unregister(d, p) PROVE LineInv(c)'
    BY <1>13, <1>14 DEF Unregister, UnregisterBegin, UnregisterEnd
  <1>15. ASSUME NEW p \in Publishers, Publish(p) PROVE LineInv(c)'
    BY <1>12, <1>13, <1>15 DEF Publish, PublishNothing, PublishBegin, PublishEnd, conn
  <1>16. ASSUME UNCHANGED hubVars PROVE LineInv(c)'
    BY <1>13, <1>16 DEF hubVars, conn
  <1> QED
    BY <1>11, <1>14, <1>15, <1>16 DEF HubNext

LEMMA HubInvNext == HubInv /\ [HubNext]_hubVars => HubInv'
  BY HubTypesNext, LockInvNext, LineInvNext DEF HubInv

-----------------------------------------------------------------------------
(* No goroutine of the hub sends on a closed channel or closes one twice,  *)
(* the write lock excludes the publishers, and no channel holds more than  *)
(* its capacity (realtime.go:24-44, 138-151; client.go:50-100).                           *)
THEOREM HubIsSound == HubSpec => []HubSound
  <1>1. HubInv => HubSound
    <2> SUFFICES ASSUME HubInv PROVE HubSound
      OBVIOUS
    <2>1. ASSUME NEW c \in Clients
          PROVE  \A i \in DOMAIN chan[c] : chan[c][i][1] \in Publishers
      <3>1. chan[c] \in Seq(Messages)
        BY DEF HubInv, HubTypes
      <3>2. DOMAIN chan[c] = 1..Len(chan[c]) /\ \A i \in 1..Len(chan[c]) : chan[c][i] \in Messages
        BY <3>1, LenProperties, ElementOfSeq
      <3> QED
        BY <3>2 DEF Messages
    <2>2. holder = NoOne \/ publishing = {}
      BY DEF HubInv, LockInv, HolderInv
    <2>3. HubTypeOK
      BY <2>1, <2>2 DEF HubInv, HubTypes, HubTypeOK, PumpStates
    <2> QED
      BY <2>3 DEF HubInv, HubTypes, HubSound, NeverPanics
  <1> QED
    BY <1>1, HubInvInit, HubInvNext, PTL DEF HubSpec

(* A peer receives only updates for everyone or for the session whose      *)
(* cookie it came with, those of one publisher in the order they were      *)
(* published and none twice (realtime.go:21-73; client.go:50-87).          *)
THEOREM UpdatesInOrder == HubSpec => []DeliveredAsPublished
  <1>1. HubInv => DeliveredAsPublished
    <2> SUFFICES ASSUME HubInv, NEW c \in Clients
                 PROVE  /\ \A i \in DOMAIN received[c] :
                             \/ Scope(received[c][i]) = Everyone
                             \/ Scope(received[c][i]) = KeyOf[c] /\ KeyOf[c] # NoKey
                        /\ \A i, j \in DOMAIN received[c] :
                             i < j /\ received[c][i][1] = received[c][j][1] =>
                               received[c][i][2] < received[c][j][2]
      BY DEF DeliveredAsPublished, OnlyAddressees, InOrder
    <2>1. received[c] \in Seq(Messages)
      BY DEF HubInv, HubTypes
    <2>2. DOMAIN received[c] = 1..Len(received[c])
      BY <2>1, LenProperties
    <2>3. Sorted(received[c]) /\ AllIn(received[c], SentTo(c))
      BY DEF HubInv, LineInv
    <2>4. \A i \in DOMAIN received[c] : Addressed(c, received[c][i])
      BY <2>2, <2>3 DEF AllIn, SentTo
    <2> QED
      BY <2>2, <2>3, <2>4 DEF Sorted, Before, Addressed
  <1> QED
    BY <1>1, HubInvInit, HubInvNext, PTL DEF HubSpec
=============================================================================
