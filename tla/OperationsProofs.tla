-------------------------- MODULE OperationsProofs --------------------------
(***************************************************************************)
(* What holds of the operations of a deployment for any number of          *)
(* replicas, tasks and workers, of migrators and files, of mails and of    *)
(* modules: the queue the replicas share in Redis, the migrations of their *)
(* database, a server from its settings to its exit, and the Core.         *)
(***************************************************************************)
EXTENDS Migrate, RedisQueue, Server, Lifecycle, SequenceFacts

-----------------------------------------------------------------------------
(* Sequences without repetitions.                                          *)

Elements(s) == {s[i] : i \in 1..Len(s)}
Distinct(s) == \A i, j \in 1..Len(s) : s[i] = s[j] => i = j

LEMMA TailDistinct ==
    ASSUME NEW S, NEW s \in Seq(S), s # <<>>, Distinct(s)
    PROVE  /\ Head(s) \in S /\ Head(s) \in Elements(s)
           /\ Tail(s) \in Seq(S) /\ Distinct(Tail(s))
           /\ Elements(Tail(s)) = Elements(s) \ {Head(s)}
  <1> DEFINE t == Tail(s)
             n == Len(s)
  <1>1. n \in Nat /\ n # 0
    BY EmptySeq, LenProperties
  <1>2. /\ Head(s) = s[1] /\ Head(s) \in S /\ t \in Seq(S) /\ Len(t) = n - 1
        /\ \A i \in 1..Len(t) : t[i] = s[i + 1]
    BY <1>1, HeadTailProperties
  <1> HIDE DEF t, n
  <1>3. \A i \in 1..Len(t) : i + 1 \in 1..n /\ i + 1 # 1
    BY <1>1, <1>2
  <1>4. \A i \in 1..n : i = 1 \/ (i - 1 \in 1..Len(t) /\ t[i - 1] = s[i])
    BY <1>1, <1>2
  <1>5. Distinct(t)
    BY <1>2, <1>3 DEF Distinct, n
  <1>6. Head(s) \in Elements(s)
    BY <1>1, <1>2 DEF Elements, n
  <1>7. ASSUME NEW x PROVE x \in Elements(t) <=> x \in Elements(s) /\ x # Head(s)
    <2>1. ASSUME NEW i \in 1..Len(t) PROVE t[i] \in Elements(s) /\ t[i] # Head(s)
      BY <1>1, <1>2, <1>3 DEF Elements, Distinct, n
    <2>2. ASSUME NEW i \in 1..n, s[i] # Head(s) PROVE s[i] \in Elements(t)
      BY <1>2, <1>4, <2>2 DEF Elements
    <2> QED
      BY <2>1, <2>2 DEF Elements, n
  <1> QED
    BY <1>2, <1>5, <1>6, <1>7 DEF t

LEMMA AppendDistinct ==
    ASSUME NEW S, NEW s \in Seq(S), NEW x \in S, x \notin Elements(s), Distinct(s)
    PROVE  /\ Append(s, x) \in Seq(S) /\ Distinct(Append(s, x))
           /\ Elements(Append(s, x)) = Elements(s) \cup {x}
  <1> DEFINE t == Append(s, x)
             n == Len(s)
  <1>1. n \in Nat /\ t \in Seq(S) /\ Len(t) = n + 1 /\ t[n + 1] = x
        /\ \A i \in 1..n : t[i] = s[i]
    BY AppendProperties, LenProperties
  <1> HIDE DEF t
  <1>2. \A i \in 1..Len(t) : i = n + 1 \/ i \in 1..n
    BY <1>1
  <1>3. \A i \in 1..n : t[i] # x
    BY <1>1 DEF Elements
  <1>4. Distinct(t)
    BY <1>1, <1>2, <1>3 DEF Distinct
  <1>5. \A i \in 1..n : i \in 1..Len(t)
    BY <1>1
  <1>6. n + 1 \in 1..Len(t)
    BY <1>1
  <1>7. Elements(t) = Elements(s) \cup {x}
    BY <1>1, <1>2, <1>5, <1>6 DEF Elements
  <1> QED
    BY <1>1, <1>4, <1>7 DEF t

-----------------------------------------------------------------------------
(* The queue of the replicas: a task is in one place, and what is known of *)
(* it there; the pool is known by the process it belongs to.               *)

Pool == Replicas \X Workers

PlaceInv ==
    /\ Distinct(list)
    /\ \A p, q \in Pool : job[p] = job[q] /\ job[p] # NoTask => p = q
    /\ \A p \in Pool : job[p] # NoTask => job[p] \notin Listed /\ send[job[p]] = "none"
    /\ \A t \in Listed : send[t] = "none"

Nowhere(t) ==
    /\ t \notin Listed /\ send[t] = "none"
    /\ \A p \in Pool : job[p] # t

TaskInv(t) ==
    /\ call[t] = "idle" => Nowhere(t) /\ starts[t] = 0 /\ attempt[t] = 0
    /\ call[t] = "sending" => send[t] \in {"length", "push"}
    /\ call[t] = "accepted" => ~Nowhere(t) \/ outcome[t] # "none"
    /\ attempt[t] < MaxRetries /\ starts[t] <= MaxRetries
    /\ t \in Listed \/ send[t] # "none" => starts[t] <= attempt[t]

JobInv(p) ==
    /\ ~up[p[1]] => wpc[p] = "dead"
    /\ wpc[p] = "process" => starts[job[p]] <= attempt[job[p]]
    /\ wpc[p] = "handler" => starts[job[p]] <= attempt[job[p]] + 1

RedisInv ==
    /\ RedisTypeOK
    /\ PlaceInv
    /\ \A t \in Tasks : TaskInv(t)
    /\ \A p \in Pool : JobInv(p)

LEMMA ListedElements == Listed = Elements(list)
  BY DEF Listed, Elements

LEMMA RedisInvInit == RedisInit => RedisInv
  <1> SUFFICES ASSUME RedisInit PROVE RedisInv
    OBVIOUS
  <1> USE RedisAssumption DEF RedisInit
  <1>1. list = <<>> /\ Len(list) = 0 /\ list \in Seq(Tasks)
    BY EmptySeq
  <1>2. Listed = {}
    BY <1>1 DEF Listed
  <1>3. RedisTypeOK
    BY <1>1 DEF RedisTypeOK
  <1>4. PlaceInv
    BY <1>1, <1>2 DEF PlaceInv, Distinct, Pool
  <1>5. ASSUME NEW t \in Tasks PROVE TaskInv(t)
    BY <1>2 DEF TaskInv, Nowhere, Pool
  <1>6. ASSUME NEW p \in Pool PROVE JobInv(p)
    BY DEF JobInv, Pool
  <1> QED
    BY <1>3, <1>4, <1>5, <1>6 DEF RedisInv

LEMMA RedisTypesNext == RedisInv /\ [RedisNext]_redisVars => RedisTypeOK'
  <1> SUFFICES ASSUME RedisInv, [RedisNext]_redisVars PROVE RedisTypeOK'
    OBVIOUS
  <1> USE RedisAssumption DEF RedisInv, RedisTypeOK, replica, pool, bounds, Pool
  <1>0. \A t \in Tasks : Append(list, t) \in Seq(Tasks)
    BY AppendProperties
  <1>1. ASSUME NEW t \in Tasks, NEW r \in Replicas, Enqueue(t, r) PROVE RedisTypeOK'
    <2>1. home' \in [Tasks -> Replicas]
      BY <1>1 DEF Enqueue
    <2>2. /\ call' \in [Tasks -> {"idle", "sending", "accepted", "failed", "gone",
                                  "ErrQueueFull", "ErrQueueClosed", "ErrNoHandler"}]
          /\ send' \in [Tasks -> {"none", "timer", "length", "push"}]
      <3>1. CASE closed[r] \/ ~registered[r]
        <4>1. UNCHANGED send /\ \E how \in {"ErrQueueClosed", "ErrNoHandler"} :
                 call' = [call EXCEPT ![t] = how]
          BY <1>1, <3>1 DEF Enqueue
        <4> QED
          BY <4>1
      <3>2. CASE ~(closed[r] \/ ~registered[r])
        <4>1. call' = [call EXCEPT ![t] = "sending"] /\ send' = [send EXCEPT ![t] = "length"]
          BY <1>1, <3>2 DEF Enqueue
        <4> QED
          BY <4>1
      <3> QED
        BY <3>1, <3>2
    <2> QED
      BY <1>1, <2>1, <2>2 DEF Enqueue
  <1>2. ASSUME NEW t \in Tasks, Requeue(t) PROVE RedisTypeOK'
    BY <1>2 DEF Requeue
  <1>3. ASSUME NEW t \in Tasks, SendRefused(t) PROVE RedisTypeOK'
    BY <1>3 DEF SendRefused, SendEnds
  <1>4. ASSUME NEW t \in Tasks, SendLength(t) PROVE RedisTypeOK'
    BY <1>4 DEF SendLength, Fault
  <1>5. ASSUME NEW t \in Tasks, SendPush(t) PROVE RedisTypeOK'
    BY <1>0, <1>5 DEF SendPush, SendEnds
  <1>6. ASSUME NEW t \in Tasks, PushFails(t) PROVE RedisTypeOK'
    <2>1. list' \in Seq(Tasks) /\ redisFaults' \in 0..MaxRedisFaults
      <3>1. list' \in {list, Append(list, t)}
        BY <1>6 DEF PushFails
      <3>2. \/ redisFaults' = redisFaults
            \/ redisFaults < MaxRedisFaults /\ redisFaults' = redisFaults + 1
        BY <1>6 DEF PushFails, Fault
      <3>3. redisFaults' \in 0..MaxRedisFaults
        BY <3>2
      <3> QED
        BY <1>0, <3>1, <3>3
    <2>2. send' \in [Tasks -> {"none", "timer", "length", "push"}]
      BY <1>6 DEF PushFails, SendEnds
    <2>3. /\ UNCHANGED <<replica, pool, home, attempt, starts, stops>>
          /\ \/ call' = [call EXCEPT ![t] = "failed"] /\ UNCHANGED outcome
             \/ outcome' = [outcome EXCEPT ![t] = "lost"] /\ UNCHANGED call
      BY <1>6 DEF PushFails, SendEnds, Fault
    <2> QED
      BY <2>1, <2>2, <2>3
  <1>7. ASSUME NEW p \in Pool, Loop(p) PROVE RedisTypeOK'
    BY <1>7 DEF Loop
  <1>8. ASSUME NEW p \in Pool, Pop(p) PROVE RedisTypeOK'
    <2>1. Head(list) \in Tasks /\ Tail(list) \in Seq(Tasks)
      BY <1>8, HeadTailProperties DEF Pop
    <2> QED
      BY <1>8, <2>1 DEF Pop
  <1>9. ASSUME NEW p \in Pool, PopNothing(p) PROVE RedisTypeOK'
    <2>1. list # <<>> => Head(list) \in Tasks /\ Tail(list) \in Seq(Tasks)
      BY HeadTailProperties
    <2>2. list' \in Seq(Tasks) /\ redisFaults' \in 0..MaxRedisFaults /\ UNCHANGED stops
      <3>1. \/ list' = list
            \/ list # <<>> /\ list' = Tail(list)
        BY <1>9 DEF PopNothing
      <3>2. /\ UNCHANGED stops
            /\ \/ redisFaults' = redisFaults
               \/ redisFaults < MaxRedisFaults /\ redisFaults' = redisFaults + 1
        BY <1>9 DEF PopNothing, Fault
      <3>3. redisFaults' \in 0..MaxRedisFaults
        BY <3>2
      <3>4. list' \in Seq(Tasks)
        BY <2>1, <3>1
      <3> QED
        BY <3>2, <3>3, <3>4
    <2>3. \/ UNCHANGED outcome
          \/ list # <<>> /\ outcome' = [outcome EXCEPT ![Head(list)] = "lost"]
      BY <1>9 DEF PopNothing
    <2>4. /\ wpc[p] = "popping" /\ UNCHANGED <<replica, job, call, send, home, attempt, starts>>
          /\ \E to \in {"exited", "loop"} : wpc' = [wpc EXCEPT ![p] = to]
      BY <1>9 DEF PopNothing
    <2>5. outcome' \in [Tasks -> {"none", "done", "exhausted", "aged", "nohandler", "lost",
                                   "stopped"}]
      BY <2>1, <2>3
    <2> QED
      BY <2>2, <2>4, <2>5
  <1>10. ASSUME NEW p \in Pool, Discard(p) PROVE RedisTypeOK'
    BY <1>10 DEF Discard, Release
  <1>11. ASSUME NEW p \in Pool, Start(p) PROVE RedisTypeOK'
    BY <1>11 DEF Start
  <1>12. ASSUME NEW p \in Pool, Finish(p) PROVE RedisTypeOK'
    <2>1. job[p] \in Tasks /\ UNCHANGED <<list, replica, call, send, home, attempt, starts, bounds>>
      BY <1>12 DEF Finish
    <2>2. outcome' \in [Tasks -> {"none", "done", "exhausted", "aged", "nohandler", "lost",
                                   "stopped"}]
      <3>1. \E how \in {"done", "exhausted"} : outcome' = [outcome EXCEPT ![job[p]] = how]
        BY <1>12 DEF Finish
      <3> QED
        BY <2>1, <3>1
    <2>3. wpc' = [wpc EXCEPT ![p] = "loop"] /\ job' = [job EXCEPT ![p] = NoTask]
      BY <1>12 DEF Finish, Release
    <2>4. \A q \in Pool : job'[q] # NoTask <=> wpc'[q] \in {"process", "handler"}
      BY <2>3
    <2> QED
      BY <2>1, <2>2, <2>3, <2>4
  <1>13. ASSUME NEW p \in Pool, Retry(p) PROVE RedisTypeOK'
    BY <1>13 DEF Retry, Release
  <1>14. ASSUME NEW r \in Replicas, Register(r) \/ CloseBegin(r) \/ CloseCancel(r) \/ CloseReturn(r)
         PROVE  RedisTypeOK'
    <2>1. CASE Register(r)
      BY <2>1 DEF Register
    <2>2. CASE CloseBegin(r)
      BY <2>2 DEF CloseBegin
    <2>3. CASE CloseCancel(r)
      BY <2>3 DEF CloseCancel
    <2>4. CASE CloseReturn(r)
      BY <2>4 DEF CloseReturn
    <2> QED
      BY <1>14, <2>1, <2>2, <2>3, <2>4
  <1>15. ASSUME NEW r \in Replicas, Stop(r) PROVE RedisTypeOK'
    BY <1>15 DEF Stop
  <1>16. ASSUME NEW r \in Replicas, Restart(r) PROVE RedisTypeOK'
    <2>1. up' \in [Replicas -> BOOLEAN]
      BY <1>16 DEF Restart
    <2>2. wpc' \in [Pool -> {"loop", "popping", "process", "handler", "exited", "dead"}]
      BY <1>16 DEF Restart
    <2>3. \A p \in Pool : wpc'[p] = wpc[p] \/ (wpc'[p] = "loop" /\ wpc[p] = "dead")
      <3> TAKE p \in Pool
      <3>1. wpc'[p] = IF p[1] = r THEN "loop" ELSE wpc[p]
        BY <1>16 DEF Restart
      <3>2. p[1] = r => wpc[p] = "dead"
        BY <1>16 DEF Restart, JobInv
      <3> QED
        BY <3>1, <3>2
    <2> QED
      <3>1. UNCHANGED <<list, registered, closed, closer, job, call, send, home, attempt, outcome,
                           starts, bounds>>
        BY <1>16 DEF Restart
      <3>2. \A q \in Pool : job'[q] # NoTask <=> wpc'[q] \in {"process", "handler"}
        BY <2>3, <3>1
      <3> QED
        BY <2>1, <2>2, <3>1, <3>2
  <1>17. ASSUME UNCHANGED redisVars PROVE RedisTypeOK'
    BY <1>17 DEF redisVars
  <1> QED
    BY <1>1, <1>2, <1>3, <1>4, <1>5, <1>6, <1>7, <1>8, <1>9, <1>10, <1>11, <1>12, <1>13,
       <1>14, <1>15, <1>16, <1>17 DEF RedisNext, Sender, Worker, Replica

LEMMA PlaceInvNext == RedisInv /\ [RedisNext]_redisVars => PlaceInv'
  <1> SUFFICES ASSUME RedisInv, [RedisNext]_redisVars PROVE PlaceInv'
    OBVIOUS
  <1> USE RedisAssumption DEF RedisInv, RedisTypeOK, replica, pool, bounds, Pool
  <1>0. /\ \A p \in Pool : job[p] # NoTask <=> wpc[p] \in {"process", "handler"}
        /\ \A p \in Pool : job[p] # NoTask => job[p] \in Tasks
    OBVIOUS
  (* The list stays, hands are emptied at most, and who begins to send a     *)
  (* task has it nowhere else.                                               *)
  <1>1. ASSUME UNCHANGED list, \A p \in Pool : job'[p] \in {job[p], NoTask},
               \A t \in Tasks : send'[t] # "none" =>
                  \/ send[t] # "none"
                  \/ t \notin Listed /\ \A p \in Pool : job'[p] # t
        PROVE  PlaceInv'
    <2>1. Listed' = Listed /\ Distinct(list)' /\ Listed \subseteq Tasks
      BY <1>1 DEF PlaceInv, Distinct, Listed
    <2>2. \A p, q \in Pool : job'[p] = job'[q] /\ job'[p] # NoTask => p = q
      BY <1>1 DEF PlaceInv
    <2>3. ASSUME NEW p \in Pool, job'[p] # NoTask
          PROVE  job'[p] \notin Listed /\ send'[job'[p]] = "none"
      BY <1>0, <1>1, <2>3 DEF PlaceInv
    <2>4. \A t \in Listed : send'[t] = "none"
      BY <1>1, <2>1 DEF PlaceInv
    <2> QED
      BY <2>1, <2>2, <2>3, <2>4 DEF PlaceInv
  (* The sender puts its task into the list.                                 *)
  <1>2. ASSUME NEW t \in Tasks, send[t] # "none", list' = Append(list, t), UNCHANGED job,
               send' = [send EXCEPT ![t] = "none"]
        PROVE  PlaceInv'
    <2>1. t \notin Listed
      BY <1>2 DEF PlaceInv
    <2>2. Listed = Elements(list) /\ Listed' = Elements(list')
      BY DEF Listed, Elements
    <2>3. Distinct(list) /\ list \in Seq(Tasks)
      BY DEF PlaceInv
    <2>4. Distinct(list') /\ Listed' = Listed \cup {t}
      BY <1>2, <2>1, <2>2, <2>3, AppendDistinct
    <2> QED
      BY <1>2, <2>4 DEF PlaceInv
  (* The head of the list leaves it, into the hands of p or of nobody.       *)
  <1>3. ASSUME NEW p \in Pool, list # <<>>, list' = Tail(list), UNCHANGED send,
               job' \in {job, [job EXCEPT ![p] = Head(list)]}
        PROVE  PlaceInv'
    <2>1. /\ Distinct(list') /\ Listed' = Listed \ {Head(list)}
          /\ Head(list) \in Listed /\ Head(list) \in Tasks
      <3>1. Listed = Elements(list) /\ Listed' = Elements(list')
        BY DEF Listed, Elements
      <3>2. Distinct(list) /\ list \in Seq(Tasks)
        BY DEF PlaceInv
      <3> QED
        BY <1>3, <3>1, <3>2, TailDistinct
    <2>2. send[Head(list)] = "none" /\ \A q \in Pool : job[q] # Head(list)
      BY <2>1 DEF PlaceInv
    <2>3. CASE job' = job
      BY <1>3, <2>1, <2>3 DEF PlaceInv
    <2>4. CASE job' = [job EXCEPT ![p] = Head(list)]
      <3>1. job'[p] = Head(list) /\ \A q \in Pool : q # p => job'[q] = job[q]
        BY <2>4
      <3>2. ASSUME NEW q \in Pool, NEW r \in Pool, job'[q] = job'[r], job'[q] # NoTask
            PROVE  q = r
        <4>1. q = p => r = p
          BY <2>2, <3>1, <3>2
        <4>2. r = p => q = p
          BY <2>2, <3>1, <3>2
        <4>3. q # p /\ r # p => q = r
          BY <3>1, <3>2 DEF PlaceInv
        <4> QED
          BY <4>1, <4>2, <4>3
      <3>3. \A q \in Pool : job'[q] # NoTask => job'[q] \notin Listed' /\ send[job'[q]] = "none"
        BY <2>1, <2>2, <3>1 DEF PlaceInv
      <3>4. \A t \in Listed' : send[t] = "none"
        BY <2>1 DEF PlaceInv
      <3> QED
        BY <1>3, <2>1, <3>2, <3>3, <3>4 DEF PlaceInv
    <2> QED
      BY <1>3, <2>3, <2>4
  <1>4. ASSUME UNCHANGED <<list, job, send>> PROVE PlaceInv'
    BY <1>1, <1>4
  <1>5. ASSUME NEW t \in Tasks, NEW r \in Replicas, Enqueue(t, r) PROVE PlaceInv'
    <2>1. Nowhere(t)
      BY <1>5 DEF Enqueue, TaskInv
    <2>2. UNCHANGED <<list, job>> /\ \A u \in Tasks : u # t => send'[u] = send[u]
      BY <1>5 DEF Enqueue
    <2> QED
      BY <1>1, <2>1, <2>2 DEF Nowhere
  <1>6. ASSUME NEW t \in Tasks, Requeue(t) \/ SendRefused(t) \/ SendLength(t) PROVE PlaceInv'
    <2>1. /\ UNCHANGED <<list, job>> /\ send[t] # "none"
          /\ \A u \in Tasks : u # t => send'[u] = send[u]
      BY <1>6 DEF Requeue, SendRefused, SendLength, SendEnds
    <2> QED
      BY <1>1, <2>1
  <1>7. ASSUME NEW t \in Tasks, SendPush(t) \/ PushFails(t) PROVE PlaceInv'
    <2>1. /\ send[t] = "push" /\ UNCHANGED job /\ send' = [send EXCEPT ![t] = "none"]
          /\ UNCHANGED list \/ list' = Append(list, t)
      BY <1>7 DEF SendPush, PushFails, SendEnds
    <2> QED
      BY <1>1, <1>2, <2>1
  <1>8. ASSUME NEW p \in Pool, Pop(p) PROVE PlaceInv'
    BY <1>3, <1>8 DEF Pop
  <1>9. ASSUME NEW p \in Pool, PopNothing(p) PROVE PlaceInv'
    <2>1. UNCHANGED <<job, send>> /\ (UNCHANGED list \/ (list # <<>> /\ list' = Tail(list)))
      BY <1>9 DEF PopNothing
    <2> QED
      BY <1>3, <1>4, <1>9, <2>1
  <1>10. ASSUME NEW p \in Pool, Discard(p) \/ Finish(p) PROVE PlaceInv'
    BY <1>1, <1>10 DEF Discard, Finish, Release
  <1>11. ASSUME NEW p \in Pool, Retry(p) PROVE PlaceInv'
    <2>1. /\ UNCHANGED list /\ job' = [job EXCEPT ![p] = NoTask]
          /\ send' = [send EXCEPT ![job[p]] = "timer"] /\ wpc[p] = "handler"
      BY <1>11 DEF Retry, Release
    <2>2. job[p] \in Tasks /\ job[p] \notin Listed /\ \A q \in Pool : job'[q] # job[p]
      BY <1>0, <2>1 DEF PlaceInv
    <2> QED
      BY <1>1, <2>1, <2>2
  <1>12. ASSUME NEW r \in Replicas, Stop(r) PROVE PlaceInv'
    <2>1. /\ UNCHANGED list /\ \A p \in Pool : job'[p] \in {job[p], NoTask}
          /\ \A t \in Tasks : send'[t] \in {send[t], "none"}
      BY <1>12 DEF Stop
    <2> QED
      BY <1>1, <2>1
  <1>13. ASSUME NEW r \in Replicas, Replica(r), ~Stop(r) PROVE PlaceInv'
    BY <1>4, <1>13 DEF Replica, Register, Restart, CloseBegin, CloseCancel, CloseReturn
  <1>14. ASSUME NEW p \in Pool, Loop(p) \/ Start(p) PROVE PlaceInv'
    BY <1>4, <1>14 DEF Loop, Start
  <1>15. ASSUME UNCHANGED redisVars PROVE PlaceInv'
    BY <1>4, <1>15 DEF redisVars
  <1> QED
    BY <1>5, <1>6, <1>7, <1>8, <1>9, <1>10, <1>11, <1>12, <1>13, <1>14, <1>15
       DEF RedisNext, Sender, Worker

LEMMA JobInvNext == RedisInv /\ [RedisNext]_redisVars => \A p \in Pool : JobInv(p)'
  <1> SUFFICES ASSUME RedisInv, [RedisNext]_redisVars, NEW p \in Pool PROVE JobInv(p)'
    OBVIOUS
  <1> USE RedisAssumption DEF RedisInv, RedisTypeOK, replica, pool, bounds, Pool
  <1>0. /\ p[1] \in Replicas
        /\ \A q \in Pool : job[q] # NoTask <=> wpc[q] \in {"process", "handler"}
        /\ \A q \in Pool : job[q] # NoTask => job[q] \in Tasks
    OBVIOUS
  (* The worker stays, its process is up as before, and nothing is counted   *)
  (* for its task; or it has let it go.                                      *)
  <1>1. ASSUME ~up'[p[1]] => ~up[p[1]], wpc'[p] = wpc[p], job'[p] = job[p],
               wpc[p] \in {"process", "handler"} =>
                  starts'[job[p]] = starts[job[p]] /\ attempt'[job[p]] = attempt[job[p]]
        PROVE  JobInv(p)'
    BY <1>1 DEF JobInv
  <1>2. ASSUME up'[p[1]] = up[p[1]], wpc[p] # "dead", wpc'[p] \notin {"process", "handler"}
        PROVE  JobInv(p)'
    BY <1>2 DEF JobInv
  <1>3. ASSUME UNCHANGED <<up, wpc, job, starts, attempt>> PROVE JobInv(p)'
    BY <1>1, <1>3
  <1>4. ASSUME NEW t \in Tasks, Sender(t) \/ \E r \in Replicas : Enqueue(t, r)
        PROVE  JobInv(p)'
    BY <1>3, <1>4 DEF Sender, Enqueue, Requeue, SendRefused, SendLength, SendPush, PushFails
  <1>5. ASSUME NEW q \in Pool, Worker(q), q # p PROVE JobInv(p)'
    <2>1. UNCHANGED up /\ wpc'[p] = wpc[p]
      BY <1>5 DEF Worker, Loop, Pop, PopNothing, Discard, Start, Finish, Retry, Release
    <2>2. job'[p] = job[p]
      BY <1>5 DEF Worker, Loop, Pop, PopNothing, Discard, Start, Finish, Retry, Release
    <2>3. \/ UNCHANGED <<starts, attempt>>
          \/ /\ wpc[q] \in {"process", "handler"}
             /\ \A t \in Tasks : t # job[q] => starts'[t] = starts[t] /\ attempt'[t] = attempt[t]
      BY <1>5 DEF Worker, Loop, Pop, PopNothing, Discard, Start, Finish, Retry
    <2>4. wpc[p] \in {"process", "handler"} /\ wpc[q] \in {"process", "handler"} =>
             job[p] # job[q] /\ job[p] \in Tasks
      BY <1>0, <1>5 DEF PlaceInv
    <2> QED
      BY <1>1, <2>1, <2>2, <2>3, <2>4
  <1>6. ASSUME Loop(p) \/ PopNothing(p) \/ Discard(p) \/ Finish(p) \/ Retry(p) PROVE JobInv(p)'
    <2>1. UNCHANGED up /\ wpc[p] # "dead" /\ wpc'[p] \notin {"process", "handler"}
      BY <1>6 DEF Loop, PopNothing, Discard, Finish, Retry, Release
    <2> QED
      BY <1>2, <2>1
  <1>7. ASSUME Pop(p) PROVE JobInv(p)'
    <2>1. /\ UNCHANGED <<up, starts, attempt>> /\ wpc[p] = "popping" /\ wpc'[p] = "process"
          /\ job'[p] = Head(list) /\ list # <<>>
      BY <1>7 DEF Pop
    <2>2. Head(list) \in Listed /\ Head(list) \in Tasks
      BY <2>1, TailDistinct DEF PlaceInv, Listed, Elements
    <2> QED
      BY <2>1, <2>2 DEF JobInv, TaskInv
  <1>8. ASSUME Start(p) PROVE JobInv(p)'
    <2>1. /\ UNCHANGED <<up, job, attempt>> /\ wpc[p] = "process" /\ wpc'[p] = "handler"
          /\ job[p] \in Tasks /\ starts'[job[p]] = starts[job[p]] + 1
      BY <1>0, <1>8 DEF Start
    <2>2. starts[job[p]] \in Nat /\ attempt[job[p]] \in Nat
      BY <2>1
    <2>3. starts[job[p]] <= attempt[job[p]]
      BY <2>1 DEF JobInv
    <2>4. up[p[1]]
      BY <2>1 DEF JobInv
    <2>5. up'[p[1]]
      BY <2>1, <2>4
    <2> QED
      BY <2>1, <2>2, <2>3, <2>5 DEF JobInv
  <1>9. ASSUME NEW r \in Replicas, Stop(r) PROVE JobInv(p)'
    <2>1. /\ UNCHANGED <<starts, attempt>>
          /\ IF p[1] = r THEN wpc'[p] = "dead"
             ELSE wpc'[p] = wpc[p] /\ job'[p] = job[p] /\ up'[p[1]] = up[p[1]]
      BY <1>0, <1>9 DEF Stop
    <2> QED
      BY <1>1, <2>1 DEF JobInv
  <1>10. ASSUME NEW r \in Replicas, Restart(r) PROVE JobInv(p)'
    <2>1. /\ UNCHANGED <<starts, attempt, job>>
          /\ IF p[1] = r THEN wpc'[p] = "loop" /\ up'[r] = TRUE
             ELSE wpc'[p] = wpc[p] /\ up'[p[1]] = up[p[1]]
      BY <1>0, <1>10 DEF Restart
    <2> QED
      BY <1>1, <2>1 DEF JobInv
  <1>11. ASSUME NEW r \in Replicas, Replica(r), ~Stop(r), ~Restart(r) PROVE JobInv(p)'
    BY <1>3, <1>11 DEF Replica, Register, CloseBegin, CloseCancel, CloseReturn
  <1>12. ASSUME UNCHANGED redisVars PROVE JobInv(p)'
    BY <1>3, <1>12 DEF redisVars
  <1> QED
    BY <1>4, <1>5, <1>6, <1>7, <1>8, <1>9, <1>10, <1>11, <1>12 DEF RedisNext, Worker

LEMMA TaskInvNext == RedisInv /\ [RedisNext]_redisVars => \A t \in Tasks : TaskInv(t)'
  <1> SUFFICES ASSUME RedisInv, [RedisNext]_redisVars, NEW u \in Tasks PROVE TaskInv(u)'
    OBVIOUS
  <1> USE RedisAssumption DEF RedisInv, RedisTypeOK, replica, pool, bounds, Pool
  <1>0. /\ starts[u] \in Nat /\ attempt[u] \in Nat /\ u # NoTask
        /\ \A p \in Pool : job[p] # NoTask <=> wpc[p] \in {"process", "handler"}
        /\ \A p \in Pool : job[p] # NoTask => job[p] \in Tasks
        /\ TaskInv(u)
    OBVIOUS
  (* Nothing happens to the task.                                            *)
  <1>1. ASSUME call'[u] = call[u], send'[u] = send[u], outcome'[u] = outcome[u],
               starts'[u] = starts[u], attempt'[u] = attempt[u],
               u \in Listed' <=> u \in Listed,
               \A p \in Pool : job'[p] = u <=> job[p] = u
        PROVE  TaskInv(u)'
    BY <1>0, <1>1 DEF TaskInv, Nowhere
  (* It was somewhere, so it has been sent; it is nowhere now but has an     *)
  (* outcome, or its caller knows.                                           *)
  <1>2. ASSUME ~Nowhere(u), starts'[u] = starts[u], attempt'[u] = attempt[u],
               u \notin Listed', send'[u] = "none",
               call'[u] \in {call[u], "ErrQueueFull", "failed", "gone"},
               call[u] = "sending" => call'[u] # "sending",
               call'[u] = "accepted" => outcome'[u] # "none"
        PROVE  TaskInv(u)'
    BY <1>0, <1>2 DEF TaskInv, Nowhere
  <1>3. ASSUME NEW t \in Tasks, NEW r \in Replicas, Enqueue(t, r) PROVE TaskInv(u)'
    <2>1. /\ UNCHANGED <<list, job, attempt, outcome, starts>> /\ call[t] = "idle"
          /\ \A v \in Tasks : v # t => call'[v] = call[v] /\ send'[v] = send[v]
          /\ \/ call'[t] \in {"ErrQueueClosed", "ErrNoHandler"} /\ UNCHANGED send
             \/ call'[t] = "sending" /\ send'[t] = "length"
      BY <1>3 DEF Enqueue
    <2>2. CASE u = t
      BY <1>0, <2>1, <2>2 DEF TaskInv, Nowhere, Listed
    <2>3. CASE u # t
      BY <1>1, <2>1, <2>3 DEF Listed
    <2> QED
      BY <2>2, <2>3
  <1>4. ASSUME NEW t \in Tasks, Sender(t) PROVE TaskInv(u)'
    <2>1. /\ UNCHANGED <<job, attempt, starts>> /\ send[t] # "none"
          /\ \A v \in Tasks : v # t =>
                call'[v] = call[v] /\ send'[v] = send[v] /\ outcome'[v] = outcome[v]
      BY <1>4 DEF Sender, Requeue, SendRefused, SendLength, SendPush, PushFails, SendEnds
    <2>2. UNCHANGED list \/ list' = Append(list, t)
      BY <1>4 DEF Sender, Requeue, SendRefused, SendLength, SendPush, PushFails
    <2>3. UNCHANGED Listed \/ Listed' = Listed \cup {t}
      <3>1. Distinct(list) /\ list \in Seq(Tasks) /\ t \notin Elements(list)
        BY <2>1, ListedElements DEF PlaceInv
      <3>2. Listed = Elements(list) /\ Listed' = Elements(list')
        BY DEF Listed, Elements
      <3>3. list' = Append(list, t) => Elements(list') = Elements(list) \cup {t}
        BY <3>1, AppendDistinct
      <3> QED
        BY <2>2, <3>2, <3>3
    <2>4. CASE u # t
      BY <1>1, <2>1, <2>3, <2>4
    <2>5. CASE u = t
      <3>1. ~Nowhere(u) /\ u \notin Listed /\ call[u] # "idle"
            /\ starts'[u] = starts[u] /\ attempt'[u] = attempt[u] /\ starts[u] <= attempt[u]
        BY <1>0, <2>1, <2>5 DEF Nowhere, PlaceInv, TaskInv
      <3>2. CASE Requeue(t)
        <4>1. /\ UNCHANGED <<list, call>> /\ send[u] = "timer"
              /\ \/ send'[u] = "length"
                 \/ send'[u] = "none" /\ outcome'[u] = "lost"
          BY <2>5, <3>2 DEF Requeue
        <4>2. UNCHANGED Listed /\ call[u] # "sending"
          BY <1>0, <4>1 DEF Listed, TaskInv
        <4> QED
          BY <1>0, <1>2, <3>1, <4>1, <4>2 DEF TaskInv, Nowhere
      <3>3. CASE SendRefused(t)
        <4>1. /\ UNCHANGED list /\ send'[u] = "none"
              /\ IF call[u] = "sending" THEN call'[u] = "ErrQueueFull"
                 ELSE call'[u] = call[u] /\ outcome'[u] = "lost"
          BY <2>5, <3>3 DEF SendRefused, SendEnds
        <4> QED
          BY <1>2, <3>1, <4>1 DEF Listed
      <3>4. CASE SendLength(t)
        <4>1. UNCHANGED <<list, call, outcome>> /\ send'[u] = "push"
          BY <2>5, <3>4 DEF SendLength
        <4> QED
          BY <1>0, <3>1, <4>1 DEF TaskInv, Nowhere, Listed
      <3>5. CASE SendPush(t) \/ PushFails(t)
        <4>1. /\ send'[u] = "none" /\ call'[u] # "sending"
              /\ call'[u] \in {call[u], "accepted", "failed"}
              /\ Listed' = Listed /\ call'[u] = "accepted" => outcome'[u] # "none"
          <5>1. CASE SendPush(t)
            <6>1. list' = Append(list, t) /\ send'[u] = "none" /\ call'[u] # "sending"
                  /\ call'[u] \in {call[u], "accepted"}
              BY <2>5, <5>1 DEF SendPush, SendEnds
            <6>2. u \in Listed'
              <7>1. list \in Seq(Tasks)
                OBVIOUS
              <7>2. Len(list') = Len(list) + 1 /\ list'[Len(list) + 1] = t /\ Len(list) \in Nat
                BY <6>1, <7>1, AppendProperties, LenProperties
              <7>3. Len(list) + 1 \in 1..Len(list')
                BY <7>2
              <7> QED
                BY <2>5, <7>2, <7>3 DEF Listed
            <6> QED
              BY <3>1, <6>1, <6>2
          <5>2. CASE PushFails(t)
            BY <2>5, <5>2 DEF PushFails, SendEnds
          <5> QED
            BY <3>5, <5>1, <5>2
        <4>2. CASE UNCHANGED Listed
          BY <1>0, <3>1, <4>1, <4>2 DEF TaskInv
        <4>3. CASE Listed' = Listed \cup {t}
          BY <1>0, <2>5, <3>1, <4>1, <4>3 DEF TaskInv, Nowhere
        <4> QED
          BY <2>3, <4>2, <4>3
      <3> QED
        BY <1>4, <3>2, <3>3, <3>4, <3>5 DEF Sender
    <2> QED
      BY <2>4, <2>5
  <1>5. ASSUME NEW p \in Pool, Pop(p) \/ PopNothing(p) PROVE TaskInv(u)'
    <2>1. UNCHANGED <<call, send, starts, attempt>> /\ wpc[p] = "popping"
      BY <1>5 DEF Pop, PopNothing
    <2>2. \/ UNCHANGED <<list, job, outcome>>
          \/ /\ list # <<>> /\ list' = Tail(list)
             /\ \/ job' = [job EXCEPT ![p] = Head(list)] /\ UNCHANGED outcome
                \/ UNCHANGED job /\ outcome' = [outcome EXCEPT ![Head(list)] = "lost"]
      BY <1>5 DEF Pop, PopNothing
    <2>3. CASE UNCHANGED <<list, job, outcome>>
      BY <1>1, <2>1, <2>3 DEF Listed
    <2>4. CASE list # <<>> /\ list' = Tail(list)
      <3> DEFINE h == Head(list)
      <3>1. Listed' = Listed \ {h} /\ h \in Listed /\ h \in Tasks
        <4>1. Listed = Elements(list) /\ Listed' = Elements(list')
          BY DEF Listed, Elements
        <4>2. Distinct(list) /\ list \in Seq(Tasks)
          BY DEF PlaceInv
        <4> QED
          BY <2>4, <4>1, <4>2, TailDistinct
      <3>2. job[p] = NoTask
        BY <1>0, <2>1
      <3> HIDE DEF h
      <3>3. \/ UNCHANGED outcome /\ job'[p] = h /\ \A q \in Pool : q # p => job'[q] = job[q]
            \/ UNCHANGED <<list, job, outcome>>
            \/ outcome'[h] = "lost" /\ UNCHANGED job
               /\ \A t \in Tasks : t # h => outcome'[t] = outcome[t]
        BY <2>2, <3>1 DEF h
      <3>4. CASE u # h
        BY <1>0, <1>1, <2>1, <3>1, <3>2, <3>3, <3>4
      <3>5. CASE u = h
        <4>1. ~Nowhere(u) /\ send[u] = "none"
          BY <3>1, <3>5 DEF Nowhere, PlaceInv
        <4>2. CASE job'[p] = h
          BY <1>0, <2>1, <3>1, <3>5, <4>1, <4>2 DEF TaskInv, Nowhere
        <4>3. CASE outcome'[h] = "lost"
          BY <1>0, <1>2, <2>1, <3>1, <3>5, <4>1, <4>3 DEF TaskInv
        <4>4. CASE UNCHANGED <<list, job, outcome>>
          BY <2>3, <4>4
        <4> QED
          BY <3>3, <4>2, <4>3, <4>4
      <3> QED
        BY <3>4, <3>5
    <2> QED
      BY <2>2, <2>3, <2>4
  <1>6. ASSUME NEW p \in Pool, Discard(p) \/ Finish(p) PROVE TaskInv(u)'
    <2>1. /\ UNCHANGED <<list, call, send, starts, attempt>> /\ job[p] # NoTask
          /\ job' = [job EXCEPT ![p] = NoTask]
      BY <1>0, <1>6 DEF Discard, Finish, Release
    <2>2. \E o \in {"aged", "nohandler", "done", "exhausted"} :
             outcome' = [outcome EXCEPT ![job[p]] = o]
      BY <1>6 DEF Discard, Finish
    <2>3. CASE u = job[p]
      <3>1. ~Nowhere(u) /\ u \notin Listed /\ send[u] = "none"
        BY <2>1, <2>3 DEF Nowhere, PlaceInv
      <3> QED
        BY <1>0, <1>2, <2>1, <2>2, <2>3, <3>1 DEF Listed, TaskInv
    <2>4. CASE u # job[p]
      BY <1>0, <1>1, <2>1, <2>2, <2>4 DEF Listed
    <2> QED
      BY <2>3, <2>4
  <1>7. ASSUME NEW p \in Pool, Start(p) PROVE TaskInv(u)'
    <2>1. /\ UNCHANGED <<list, job, call, send, outcome, attempt>> /\ wpc[p] = "process"
          /\ starts' = [starts EXCEPT ![job[p]] = @ + 1] /\ job[p] # NoTask
      BY <1>0, <1>7 DEF Start
    <2>2. CASE u = job[p]
      <3>1. ~Nowhere(u) /\ u \notin Listed /\ send[u] = "none"
        BY <2>1, <2>2 DEF Nowhere, PlaceInv
      <3>2. starts'[u] = starts[u] + 1 /\ starts[u] <= attempt[u]
        BY <2>1, <2>2 DEF JobInv
      <3>3. UNCHANGED Listed
        BY <2>1 DEF Listed
      <3> QED
        BY <1>0, <2>1, <3>1, <3>2, <3>3 DEF TaskInv, Nowhere
    <2>3. CASE u # job[p]
      BY <1>1, <2>1, <2>3 DEF Listed
    <2> QED
      BY <2>2, <2>3
  <1>8. ASSUME NEW p \in Pool, Retry(p) PROVE TaskInv(u)'
    <2>1. /\ UNCHANGED <<list, call, outcome, starts>> /\ wpc[p] = "handler" /\ job[p] # NoTask
          /\ job' = [job EXCEPT ![p] = NoTask]
          /\ attempt' = [attempt EXCEPT ![job[p]] = @ + 1]
          /\ send' = [send EXCEPT ![job[p]] = "timer"]
          /\ ~(attempt[job[p]] + 1 >= MaxRetries)
      BY <1>0, <1>8 DEF Retry, Release, LastAttempt
    <2>2. CASE u = job[p]
      <3>1. ~Nowhere(u) /\ u \notin Listed /\ call[u] # "sending"
        BY <1>0, <2>1, <2>2 DEF Nowhere, PlaceInv, TaskInv
      <3>2. /\ attempt'[u] = attempt[u] + 1 /\ starts[u] <= attempt[u] + 1 /\ send'[u] = "timer"
            /\ attempt[u] + 1 < MaxRetries
        BY <1>0, <2>1, <2>2 DEF JobInv
      <3>3. UNCHANGED Listed
        BY <2>1 DEF Listed
      <3> QED
        BY <1>0, <2>1, <3>1, <3>2, <3>3 DEF TaskInv, Nowhere
    <2>3. CASE u # job[p]
      BY <1>0, <1>1, <2>1, <2>3 DEF Listed
    <2> QED
      BY <2>2, <2>3
  <1>9. ASSUME NEW r \in Replicas, Stop(r) PROVE TaskInv(u)'
    <2> DEFINE inHand == {job[<<r, w>>] : w \in Workers} \ {NoTask}
               sending == {t \in Tasks : home[t] = r /\ send[t] # "none"}
               callers == {t \in sending : call[t] = "sending"}
    <2>1. /\ UNCHANGED <<list, attempt, starts>>
          /\ job' = [p \in DOMAIN job |-> IF p[1] = r THEN NoTask ELSE job[p]]
          /\ send' = [t \in Tasks |-> IF t \in sending THEN "none" ELSE send[t]]
          /\ call' = [t \in Tasks |-> IF t \in callers THEN "gone" ELSE call[t]]
          /\ outcome' = [t \in Tasks |->
                           IF t \in inHand \cup (sending \ callers) THEN "stopped"
                           ELSE outcome[t]]
      BY <1>9 DEF Stop
    <2>2. UNCHANGED Listed
      BY <2>1 DEF Listed
    <2>3. ASSUME NEW p \in Pool, p[1] = r, job[p] # NoTask PROVE job[p] \in inHand
      <3>1. p = <<r, p[2]>> /\ p[2] \in Workers
        BY <2>3
      <3>2. job[<<r, p[2]>>] # NoTask
        BY <2>3, <3>1
      <3>3. job[<<r, p[2]>>] \in inHand
        BY <3>1, <3>2
      <3> QED
        BY <3>1, <3>3
    <2>4. CASE u \in inHand
      <3>1. PICK w \in Workers : u = job[<<r, w>>]
        BY <2>4
      <3>2. <<r, w>> \in Pool
        OBVIOUS
      <3>3. ~Nowhere(u) /\ u \notin Listed /\ send[u] = "none"
        BY <1>0, <3>1, <3>2 DEF Nowhere, PlaceInv
      <3>4. call'[u] = call[u] /\ send'[u] = "none" /\ outcome'[u] = "stopped"
        BY <2>1, <2>4, <3>3
      <3>5. call[u] # "sending"
        BY <1>0, <3>3 DEF TaskInv
      <3> QED
        BY <1>2, <2>1, <2>2, <3>3, <3>4, <3>5
    <2>5. CASE u \in sending
      <3>1. ~Nowhere(u) /\ u \notin Listed
        BY <2>5 DEF Nowhere, PlaceInv
      <3>2. send'[u] = "none" /\ IF call[u] = "sending" THEN call'[u] = "gone"
                                 ELSE call'[u] = call[u] /\ outcome'[u] = "stopped"
        BY <2>1, <2>5
      <3> QED
        BY <1>2, <2>1, <2>2, <3>1, <3>2
    <2>6. CASE u \notin inHand /\ u \notin sending
      <3>1. call'[u] = call[u] /\ send'[u] = send[u] /\ outcome'[u] = outcome[u]
        BY <2>1, <2>6
      <3>2. \A p \in Pool : job'[p] = IF p[1] = r THEN NoTask ELSE job[p]
        BY <2>1
      <3> HIDE DEF inHand
      <3>3. ASSUME NEW p \in Pool PROVE job'[p] = u <=> job[p] = u
        <4>1. p[1] = r => job[p] # u /\ job'[p] # u
          BY <1>0, <2>3, <2>6, <3>2
        <4>2. p[1] # r => job'[p] = job[p]
          BY <3>2
        <4> QED
          BY <4>1, <4>2
      <3> QED
        BY <1>1, <2>1, <2>2, <3>1, <3>3
    <2> QED
      BY <2>4, <2>5, <2>6
  <1>10. ASSUME UNCHANGED <<list, job, call, send, outcome, starts, attempt>> PROVE TaskInv(u)'
    BY <1>1, <1>10 DEF Listed
  <1>11. ASSUME NEW p \in Pool, Loop(p) PROVE TaskInv(u)'
    BY <1>10, <1>11 DEF Loop
  <1>12. ASSUME NEW r \in Replicas, Replica(r), ~Stop(r) PROVE TaskInv(u)'
    BY <1>10, <1>12 DEF Replica, Register, Restart, CloseBegin, CloseCancel, CloseReturn
  <1>13. ASSUME UNCHANGED redisVars PROVE TaskInv(u)'
    BY <1>10, <1>13 DEF redisVars
  <1> QED
    BY <1>3, <1>4, <1>5, <1>6, <1>7, <1>8, <1>9, <1>11, <1>12, <1>13 DEF RedisNext, Worker

LEMMA RedisInvNext == RedisInv /\ [RedisNext]_redisVars => RedisInv'
  BY RedisTypesNext, PlaceInvNext, TaskInvNext, JobInvNext DEF RedisInv, Pool

(* A task is in the list once, with one worker of one replica or in one    *)
(* sender, an accepted one is accounted for, and no handler is started     *)
(* more than maxRetries times on it, across replicas, retries, crashes,    *)
(* restarts and failed commands of Redis (queue.go:140-386).               *)
THEOREM ReplicasShareSoundly == RedisSpec => []RedisQueueSound
  <1>1. RedisInv => RedisQueueSound
    <2> SUFFICES ASSUME RedisInv PROVE RedisQueueSound
      OBVIOUS
    <2> USE RedisAssumption
    <2>1. DOMAIN job = Pool /\ NoTask \notin Tasks /\ \A t \in Listed : t \in Tasks
      <3>1. DOMAIN job = Pool /\ list \in Seq(Tasks)
        BY DEF RedisInv, RedisTypeOK, Pool
      <3> QED
        BY <3>1, ElementOfSeq DEF Listed
    <2>2. OnePlace
      <3>1. \A i, j \in 1..Len(list) : list[i] = list[j] => i = j
        BY DEF RedisInv, PlaceInv, Distinct
      <3>2. \A p, q \in DOMAIN job : job[p] = job[q] /\ job[p] # NoTask => p = q
        BY <2>1 DEF RedisInv, PlaceInv
      <3>3. \A t \in Held : t \notin Listed /\ send[t] = "none"
        BY <2>1 DEF RedisInv, PlaceInv, Held
      <3>4. \A t \in Listed : send[t] = "none"
        BY DEF RedisInv, PlaceInv
      <3> QED
        BY <3>1, <3>2, <3>3, <3>4 DEF OnePlace, Sending
    <2>3. AcceptedAccounted
      <3> SUFFICES ASSUME NEW t \in Tasks, call[t] = "accepted", outcome[t] = "none",
                          t \notin Held, t \notin Sending
                   PROVE  t \in Listed
        BY DEF AcceptedAccounted
      <3>1. send[t] = "none" /\ \A p \in Pool : job[p] # t
        BY <2>1 DEF Held, Sending
      <3>2. ~Nowhere(t)
        BY DEF RedisInv, TaskInv
      <3> QED
        BY <3>1, <3>2 DEF Nowhere
    <2>4. AttemptsHold
      BY DEF RedisInv, TaskInv, AttemptsHold
    <2> QED
      BY <2>2, <2>3, <2>4 DEF RedisQueueSound, RedisInv
  <1> QED
    BY <1>1, RedisInvInit, RedisInvNext, PTL DEF RedisSpec

(* A task leaves the list only for the hands of a worker, or with the      *)
(* reply of a BRPOP that failed: the end of a replica takes none with it   *)
(* (queue.go:140-189, 278-331).                                            *)
THEOREM ListOutlivesReplicas == RedisSpec => ListSurvivesStops
  <1>1. RedisInv /\ [RedisNext]_redisVars =>
           [\A t \in Listed : t \notin Listed' => t \in Held' \/ outcome'[t] = "lost"]_redisVars
    <2> SUFFICES ASSUME RedisInv, [RedisNext]_redisVars, NEW t \in Listed, t \notin Listed'
                 PROVE  t \in Held' \/ outcome'[t] = "lost"
      OBVIOUS
    <2> USE RedisAssumption DEF RedisInv, RedisTypeOK, replica, pool, bounds
    <2>1. list \in Seq(Tasks) /\ t \in Tasks /\ Distinct(list)
      <3>1. list \in Seq(Tasks)
        OBVIOUS
      <3> QED
        BY <3>1, ElementOfSeq DEF Listed, PlaceInv
    <2>2. Listed = Elements(list) /\ Listed' = Elements(list')
      BY DEF Listed, Elements
    <2>3. ~UNCHANGED list
      BY <2>2
    <2>4. ASSUME NEW u \in Tasks, list' = Append(list, u) PROVE FALSE
      <3>1. \A i \in 1..Len(list) : i \in 1..Len(list') /\ list'[i] = list[i]
        BY <2>1, <2>4, AppendProperties, LenProperties
      <3> QED
        BY <3>1 DEF Listed
    <2>5. ASSUME list # <<>>, list' = Tail(list) PROVE t = Head(list)
      BY <2>1, <2>2, <2>5, TailDistinct
    <2>6. CASE \E p \in Replicas \X Workers : Pop(p)
      <3>1. PICK p \in Replicas \X Workers : Pop(p)
        BY <2>6
      <3>2. job'[p] = t
        BY <2>5, <3>1 DEF Pop
      <3> QED
        BY <2>1, <3>1, <3>2 DEF Held, Pop
    <2>7. CASE \E p \in Replicas \X Workers : PopNothing(p)
      BY <2>1, <2>3, <2>5, <2>7 DEF PopNothing
    <2>8. CASE \E u \in Tasks : SendPush(u) \/ PushFails(u)
      BY <2>3, <2>4, <2>8 DEF SendPush, PushFails
    <2> QED
      BY <2>3, <2>6, <2>7, <2>8
         DEF RedisNext, redisVars, Sender, Requeue, SendRefused, SendLength, Enqueue, Worker,
             Loop, Discard, Start, Finish, Retry, Replica, Register, Stop, Restart, CloseBegin,
             CloseCancel, CloseReturn
  <1> QED
    BY <1>1, RedisInvInit, RedisInvNext, PTL DEF RedisSpec, ListSurvivesStops

-----------------------------------------------------------------------------
(* The shared list as a ledger: what a task's phase is, and that every     *)
(* step of the replicas is a step of the ledger or a stutter.              *)

NoOutcomeYet == \A t \in Tasks : call[t] \in {"idle", "sending"} => outcome[t] = "none"

SharedInv == RedisInv /\ NoOutcomeYet

InHand(t) == \E p \in Pool : job[p] = t
InHandler(t) == \E p \in Pool : job[p] = t /\ wpc[p] = "handler"

PhaseIs(t) ==
    SharedPhase(t) =
      IF call[t] \in {"idle", "sending"} THEN "offered"
      ELSE IF InHandler(t) THEN "running"
      ELSE IF t \in Listed \/ InHand(t) \/ send[t] # "none" THEN "pending"
      ELSE IF outcome[t] # "none" THEN "ended" ELSE "refused"

LEMMA PhaseCases == RedisTypeOK => \A t \in Tasks : PhaseIs(t)
  <1> SUFFICES ASSUME RedisTypeOK, NEW t \in Tasks PROVE PhaseIs(t)
    OBVIOUS
  <1>1. DOMAIN job = Pool
    BY DEF RedisTypeOK, Pool
  <1>2. t \in Handled <=> InHandler(t)
    BY <1>1 DEF Handled, InHandler
  <1>3. t \in Listed \cup Held \cup Sending <=> t \in Listed \/ InHand(t) \/ send[t] # "none"
    BY <1>1 DEF Held, Sending, InHand
  <1> QED
    BY <1>2, <1>3 DEF SharedPhase, PhaseIs

LEMMA NextPhaseCases == RedisTypeOK' => \A t \in Tasks : PhaseIs(t)'
  <1>1. (RedisTypeOK => \A t \in Tasks : PhaseIs(t))'
    BY PhaseCases, PTL
  <1> QED
    BY <1>1

(* A task that is in the list, in a worker's hands or in a retry was sent, *)
(* and is in one of these places.                                          *)
LEMMA SentTask ==
    ASSUME RedisInv, NEW t \in Tasks
    PROVE  /\ t \in Listed => /\ call[t] \notin {"idle", "sending"}
                              /\ ~InHand(t) /\ send[t] = "none"
           /\ InHand(t) => /\ call[t] \notin {"idle", "sending"}
                           /\ t \notin Listed /\ send[t] = "none"
           /\ send[t] # "none" /\ call[t] # "sending" =>
                 call[t] # "idle" /\ t \notin Listed /\ ~InHand(t)
           /\ send[t] = "timer" => call[t] # "sending"
           /\ call[t] = "sending" => t \notin Listed /\ ~InHand(t) /\ send[t] # "none"
           /\ call[t] = "idle" => t \notin Listed /\ ~InHand(t) /\ send[t] = "none"
  <1>1. TaskInv(t) /\ PlaceInv /\ t # NoTask
    BY RedisAssumption DEF RedisInv
  <1>2. call[t] = "idle" => t \notin Listed /\ ~InHand(t) /\ send[t] = "none"
    BY <1>1 DEF TaskInv, Nowhere, InHand
  <1>3. call[t] = "sending" => send[t] \in {"length", "push"}
    BY <1>1 DEF TaskInv
  <1>4. t \in Listed => ~InHand(t) /\ send[t] = "none"
    BY <1>1 DEF PlaceInv, InHand
  <1>5. InHand(t) => send[t] = "none"
    BY <1>1 DEF PlaceInv, InHand
  <1> QED
    BY <1>2, <1>3, <1>4, <1>5

LEMMA NoOutcomeYetNext == SharedInv /\ [RedisNext]_redisVars => NoOutcomeYet'
  <1> SUFFICES ASSUME SharedInv, [RedisNext]_redisVars, NEW t \in Tasks,
                      call'[t] \in {"idle", "sending"}
               PROVE  outcome'[t] = "none"
    BY DEF NoOutcomeYet
  <1> USE RedisAssumption DEF replica, pool, bounds
  <1>0. RedisInv /\ RedisTypeOK /\ (call[t] \in {"idle", "sending"} => outcome[t] = "none")
    BY DEF SharedInv, NoOutcomeYet, RedisInv
  <1>1. /\ call = [v \in Tasks |-> call[v]] /\ outcome = [v \in Tasks |-> outcome[v]]
        /\ send = [v \in Tasks |-> send[v]]
    BY <1>0 DEF RedisTypeOK
  <1>2. ASSUME UNCHANGED outcome, call[t] \in {"idle", "sending"} PROVE outcome'[t] = "none"
    BY <1>0, <1>2
  <1>3. ASSUME NEW u \in Tasks, SendEnds(u, "ErrQueueFull") \/ SendEnds(u, "accepted")
                                  \/ SendEnds(u, "failed"),
               send[u] # "none"
        PROVE  outcome'[t] = "none"
    <2>1. call[t] \in {"idle", "sending"}
      BY <1>1, <1>3 DEF SendEnds
    <2>2. \/ UNCHANGED outcome
          \/ call[u] # "sending" /\ \A v \in Tasks : v # u => outcome'[v] = outcome[v]
      BY <1>1, <1>3 DEF SendEnds
    <2>3. call[u] # "sending" => call[u] # "idle"
      BY <1>0, <1>3, SentTask
    <2> QED
      BY <1>0, <2>1, <2>2, <2>3
  (* Only of a task in hands or in the list is an outcome known.             *)
  <1>4. ASSUME UNCHANGED call, NEW u \in Tasks, InHand(u) \/ u \in Listed,
               \A v \in Tasks : v # u => outcome'[v] = outcome[v]
        PROVE  outcome'[t] = "none"
    <2>1. call[u] \notin {"idle", "sending"}
      BY <1>0, <1>4, SentTask
    <2> QED
      BY <1>0, <1>4, <2>1
  <1>5. ASSUME NEW u \in Tasks, NEW r \in Replicas, Enqueue(u, r) PROVE outcome'[t] = "none"
    <2>1. UNCHANGED outcome /\ (call'[t] = call[t] \/ call[t] = "idle")
      BY <1>1, <1>5 DEF Enqueue
    <2> QED
      BY <1>2, <2>1
  <1>6. ASSUME NEW u \in Tasks, Requeue(u) PROVE outcome'[t] = "none"
    <2>1. UNCHANGED call /\ send[u] = "timer" /\ \A v \in Tasks : v # u => outcome'[v] = outcome[v]
      BY <1>1, <1>6 DEF Requeue
    <2>2. call[u] \notin {"idle", "sending"}
      BY <1>0, <2>1, SentTask
    <2> QED
      BY <1>0, <2>1, <2>2
  <1>7. ASSUME NEW u \in Tasks, SendRefused(u) \/ SendPush(u) \/ PushFails(u)
        PROVE  outcome'[t] = "none"
    BY <1>3, <1>7 DEF SendRefused, SendPush, PushFails
  <1>8. ASSUME NEW p \in Pool, Discard(p) \/ Finish(p) PROVE outcome'[t] = "none"
    <2>1. job[p] \in Tasks /\ InHand(job[p])
      BY <1>0, <1>8 DEF Discard, Finish, InHand, RedisTypeOK, Pool
    <2>2. UNCHANGED call /\ \A v \in Tasks : v # job[p] => outcome'[v] = outcome[v]
      BY <1>1, <1>8 DEF Discard, Finish
    <2> QED
      BY <1>4, <2>1, <2>2
  <1>9. ASSUME NEW p \in Pool, PopNothing(p) PROVE outcome'[t] = "none"
    <2>1. CASE UNCHANGED outcome
      BY <1>2, <1>9, <2>1 DEF PopNothing
    <2>2. CASE list # <<>> /\ outcome' = [outcome EXCEPT ![Head(list)] = "lost"]
      <3>1. list \in Seq(Tasks) /\ Distinct(list)
        BY <1>0 DEF RedisTypeOK, RedisInv, PlaceInv
      <3>2. Head(list) \in Tasks /\ Head(list) \in Listed
        BY <2>2, <3>1, TailDistinct, ListedElements
      <3> QED
        BY <1>1, <1>4, <1>9, <2>2, <3>2 DEF PopNothing
    <2> QED
      BY <1>9, <2>1, <2>2 DEF PopNothing
  <1>10. ASSUME NEW r \in Replicas, Stop(r) PROVE outcome'[t] = "none"
    <2> DEFINE callers == {u \in Tasks : home[u] = r /\ send[u] # "none" /\ call[u] = "sending"}
    <2>1. call'[t] = IF t \in callers THEN "gone" ELSE call[t]
      BY <1>10 DEF Stop
    <2>2. call[t] \in {"idle", "sending"} /\ t \notin callers
      BY <2>1
    <2>3. ~InHand(t) /\ (send[t] = "none" \/ home[t] # r)
      BY <1>0, <2>2, SentTask
    <2>4. t \notin {job[<<r, w>>] : w \in Workers}
      BY <2>3 DEF InHand, Pool
    <2>5. outcome'[t] = outcome[t]
      BY <1>10, <2>3, <2>4 DEF Stop
    <2> QED
      BY <1>0, <2>2, <2>5
  <1>11. ASSUME UNCHANGED <<outcome, call>> PROVE outcome'[t] = "none"
    BY <1>2, <1>11
  <1>12. ASSUME NEW u \in Tasks, SendLength(u) PROVE outcome'[t] = "none"
    BY <1>11, <1>12 DEF SendLength
  <1>13. ASSUME NEW p \in Pool, Loop(p) \/ Pop(p) \/ Start(p) \/ Retry(p)
         PROVE  outcome'[t] = "none"
    BY <1>11, <1>13 DEF Loop, Pop, Start, Retry
  <1>14. ASSUME NEW r \in Replicas, Replica(r), ~Stop(r) PROVE outcome'[t] = "none"
    BY <1>11, <1>14 DEF Replica, Register, Restart, CloseBegin, CloseCancel, CloseReturn
  <1>15. ASSUME UNCHANGED redisVars PROVE outcome'[t] = "none"
    BY <1>11, <1>15 DEF redisVars
  <1> QED
    BY <1>5, <1>6, <1>7, <1>8, <1>9, <1>10, <1>12, <1>13, <1>14, <1>15
       DEF RedisNext, Sender, Worker, Pool

(* What a step that moves one task, or none, is for the ledger.            *)
LEMMA SharedMove ==
    ASSUME NEW t \in Tasks, NEW from, NEW to, SharedPhase(t) = from, SharedPhase(t)' = to,
           \A u \in Tasks \ {t} : SharedPhase(u)' = SharedPhase(u)
    PROVE  Shared!Move(t, from, to)
  <1> DEFINE phases == [u \in Tasks |-> SharedPhase(u)]
  <1>1. phases[t] = from /\ phases' = [phases EXCEPT ![t] = to]
    OBVIOUS
  <1> QED
    BY <1>1 DEF Shared!Move

LEMMA SharedKept ==
    ASSUME UNCHANGED starts, \A u \in Tasks : SharedPhase(u)' = SharedPhase(u)
    PROVE  UNCHANGED Shared!ledger
  BY DEF Shared!ledger

(* A task that stays where it is and is told nothing keeps its phase.      *)
LEMMA SharedSame ==
    ASSUME RedisTypeOK, RedisTypeOK', NEW u \in Tasks,
           call'[u] = call[u], outcome'[u] = outcome[u],
           send'[u] = "none" <=> send[u] = "none",
           u \in Listed' <=> u \in Listed,
           InHand(u)' <=> InHand(u), InHandler(u)' <=> InHandler(u)
    PROVE  SharedPhase(u)' = SharedPhase(u)
  BY PhaseCases, NextPhaseCases DEF PhaseIs

(* The hands of the workers, when none of them or one of them moves.       *)
LEMMA SameHands ==
    ASSUME NEW u \in Tasks, UNCHANGED job,
           \A p \in Pool : job[p] = u => (wpc'[p] = "handler" <=> wpc[p] = "handler")
    PROVE  (InHand(u)' <=> InHand(u)) /\ (InHandler(u)' <=> InHandler(u))
  BY DEF InHand, InHandler

LEMMA OneHand ==
    ASSUME NEW u \in Tasks, NEW p \in Pool, job[p] # u, job'[p] # u,
           \A q \in Pool : q # p => job'[q] = job[q] /\ wpc'[q] = wpc[q]
    PROVE  (InHand(u)' <=> InHand(u)) /\ (InHandler(u)' <=> InHandler(u))
  BY DEF InHand, InHandler

LEMMA InitShared == RedisInit => Shared!LedgerInit
  <1> SUFFICES ASSUME RedisInit PROVE Shared!LedgerInit
    OBVIOUS
  <1>1. \A t \in Tasks : SharedPhase(t) = "offered"
    BY DEF RedisInit, SharedPhase
  <1> QED
    BY <1>1 DEF Shared!LedgerInit, RedisInit

(* A sender: of its task the ledger notes that it was accepted or refused, *)
(* or, if it was a retry, that it stays or has ended.                      *)
LEMMA SenderShares ==
    ASSUME SharedInv, SharedInv', NEW t \in Tasks,
           Sender(t) \/ \E r \in Replicas : Enqueue(t, r)
    PROVE  Shared!SharedNext \/ UNCHANGED Shared!ledger
  <1> USE RedisAssumption DEF replica, pool, bounds
  <1>0. /\ RedisInv /\ RedisTypeOK /\ RedisTypeOK' /\ list \in Seq(Tasks)
        /\ Distinct(list) /\ (call[t] \in {"idle", "sending"} => outcome[t] = "none")
        /\ call = [v \in Tasks |-> call[v]] /\ outcome = [v \in Tasks |-> outcome[v]]
        /\ send = [v \in Tasks |-> send[v]]
    <2>1. RedisInv /\ RedisTypeOK /\ RedisTypeOK' /\ Distinct(list)
      BY DEF SharedInv, RedisInv, PlaceInv
    <2>2. call[t] \in {"idle", "sending"} => outcome[t] = "none"
      BY DEF SharedInv, NoOutcomeYet
    <2> QED
      BY <2>1, <2>2 DEF RedisTypeOK
  <1>1. UNCHANGED <<job, wpc, starts>>
    BY DEF Sender, Enqueue, Requeue, SendRefused, SendLength, SendPush, PushFails
  <1>2. /\ \A u \in Tasks : InHand(u)' <=> InHand(u)
        /\ \A u \in Tasks : InHandler(u)' <=> InHandler(u)
    BY <1>1 DEF InHand, InHandler
  <1>3. InHandler(t) => InHand(t)
    BY DEF InHandler, InHand
  <1>4. \A u \in Tasks \ {t} : call'[u] = call[u] /\ outcome'[u] = outcome[u] /\ send'[u] = send[u]
    BY <1>0 DEF Sender, Enqueue, Requeue, SendRefused, SendLength, SendPush, PushFails, SendEnds
  <1>5. /\ UNCHANGED list \/ (list' = Append(list, t) /\ send[t] = "push" /\ send'[t] = "none")
        /\ UNCHANGED list => Listed' = Listed
        /\ ~UNCHANGED list => Listed' = Listed \cup {t}
    <2>1. UNCHANGED list \/ (list' = Append(list, t) /\ send[t] = "push" /\ send'[t] = "none")
      <3>1. CASE SendPush(t) \/ PushFails(t)
        BY <1>0, <3>1 DEF SendPush, PushFails, SendEnds
      <3>2. ASSUME Requeue(t) \/ SendRefused(t) \/ SendLength(t) PROVE UNCHANGED list
        BY <3>2 DEF Requeue, SendRefused, SendLength
      <3>3. ASSUME \E r \in Replicas : Enqueue(t, r) PROVE UNCHANGED list
        BY <3>3 DEF Enqueue
      <3>4. \/ SendPush(t) \/ PushFails(t) \/ Requeue(t) \/ SendRefused(t) \/ SendLength(t)
            \/ \E r \in Replicas : Enqueue(t, r)
        BY DEF Sender
      <3> QED
        BY <3>1, <3>2, <3>3, <3>4
    <2>2. UNCHANGED list => Listed' = Listed
      BY DEF Listed
    <2>3. ASSUME list' = Append(list, t), send[t] = "push" PROVE Listed' = Listed \cup {t}
      <3>1. t \notin Elements(list)
        BY <1>0, <2>3, SentTask, ListedElements
      <3>2. Listed = Elements(list) /\ Listed' = Elements(list')
        BY DEF Listed, Elements
      <3>3. list \in Seq(Tasks) /\ Distinct(list)
        BY <1>0
      <3>4. Elements(Append(list, t)) = Elements(list) \cup {t}
        BY <3>1, <3>3, AppendDistinct
      <3> QED
        BY <2>3, <3>2, <3>4
    <2>4. send[t] = "push" /\ list' = Append(list, t) => Listed' = Listed \cup {t}
      BY <2>3
    <2> QED
      BY <2>1, <2>2, <2>4
  <1>6. \A u \in Tasks \ {t} : SharedPhase(u)' = SharedPhase(u)
    BY <1>0, <1>2, <1>4, <1>5, SharedSame
  <1>7. ASSUME SharedPhase(t)' = SharedPhase(t) PROVE UNCHANGED Shared!ledger
    BY <1>1, <1>6, <1>7, SharedKept
  <1>8. ASSUME NEW from \in {"offered", "pending"}, NEW to,
               <<from, to>> \in {<<"offered", "refused">>, <<"offered", "pending">>,
                                 <<"pending", "ended">>},
               SharedPhase(t) = from, SharedPhase(t)' = to
        PROVE  Shared!SharedNext
    <2>1. Shared!Move(t, from, to)
      BY <1>6, <1>8, SharedMove
    <2>2. Shared!Refuse(t) \/ Shared!Accept(t) \/ Shared!End(t)
      BY <1>1, <1>8, <2>1 DEF Shared!Refuse, Shared!Accept, Shared!End
    <2> QED
      BY <2>2 DEF Shared!SharedNext, Shared!LedgerNext
  (* enqueueTask ends: its task is in the list, or nowhere.                  *)
  <1>9. ASSUME NEW result \in {"ErrQueueFull", "accepted", "failed"}, SendEnds(t, result),
               send[t] # "none", send[t] # "timer",
               result = "accepted" => t \in Listed'
        PROVE  Shared!SharedNext \/ UNCHANGED Shared!ledger
    <2>1. send'[t] = "none" /\ ~InHandler(t) /\ ~InHand(t) /\ t \notin Listed
      BY <1>0, <1>3, <1>9, SentTask DEF SendEnds
    <2>2. CASE call[t] = "sending"
      <3>1. call'[t] = result /\ outcome'[t] = "none" /\ SharedPhase(t) = "offered"
        <4>1. call'[t] = result /\ outcome' = outcome
          BY <1>0, <1>9, <2>2 DEF SendEnds
        <4>2. outcome[t] = "none" /\ SharedPhase(t) = "offered"
          BY <1>0, <2>2, PhaseCases DEF PhaseIs
        <4> QED
          BY <4>1, <4>2
      <3>2. SharedPhase(t)' = IF t \in Listed' THEN "pending" ELSE "refused"
        BY <1>0, <1>2, <1>9, <2>1, <3>1, NextPhaseCases DEF PhaseIs
      <3> QED
        BY <1>8, <3>1, <3>2
    <2>3. CASE call[t] # "sending"
      <3>1. call[t] # "idle" /\ call'[t] = call[t] /\ SharedPhase(t) = "pending"
        BY <1>0, <1>9, <2>1, <2>3, SentTask, PhaseCases DEF SendEnds, PhaseIs
      <3>2. t \notin Listed' => outcome'[t] = "lost"
        BY <1>0, <1>9, <2>3 DEF SendEnds
      <3>3. SharedPhase(t)' = IF t \in Listed' THEN "pending" ELSE "ended"
        BY <1>0, <1>2, <2>1, <2>3, <3>1, <3>2, NextPhaseCases DEF PhaseIs
      <3> QED
        BY <1>7, <1>8, <3>1, <3>3
    <2> QED
      BY <2>2, <2>3
  <1>10. CASE SendRefused(t) \/ SendPush(t) \/ PushFails(t)
    <2>1. SendPush(t) => t \in Listed'
      <3>1. ASSUME SendPush(t) PROVE list' = Append(list, t)
        BY <3>1 DEF SendPush
      <3>2. ASSUME list' = Append(list, t) PROVE t \in Listed'
        <4>1. Len(list) \in Nat /\ Len(list') = Len(list) + 1 /\ list'[Len(list) + 1] = t
          BY <1>0, <3>2, AppendProperties, LenProperties
        <4> QED
          BY <4>1 DEF Listed
      <3> QED
        BY <3>1, <3>2
    <2> QED
      BY <1>9, <1>10, <2>1 DEF SendRefused, SendPush, PushFails
  <1>11. CASE SendLength(t)
    <2>1. UNCHANGED <<list, call, outcome>> /\ send[t] # "none" /\ send'[t] # "none"
      BY <1>0, <1>11 DEF SendLength
    <2>2. SharedPhase(t)' = SharedPhase(t)
      BY <1>0, <1>2, <1>5, <2>1, SharedSame
    <2> QED
      BY <1>7, <2>2
  <1>12. CASE Requeue(t)
    <2>1. /\ UNCHANGED <<list, call>> /\ send[t] = "timer" /\ call[t] \notin {"idle", "sending"}
          /\ t \notin Listed /\ ~InHand(t)
          /\ \/ send'[t] = "none" /\ outcome'[t] = "lost"
             \/ send'[t] = "length" /\ outcome'[t] = outcome[t]
      BY <1>0, <1>12, SentTask DEF Requeue
    <2>2. CASE send'[t] = "none" /\ outcome'[t] = "lost"
      <3>1. SharedPhase(t) = "pending"
        BY <1>0, <1>3, <2>1, PhaseCases DEF PhaseIs
      <3>2. SharedPhase(t)' = "ended"
        BY <1>0, <1>2, <1>3, <1>5, <2>1, <2>2, NextPhaseCases DEF PhaseIs
      <3> QED
        BY <1>8, <3>1, <3>2
    <2>3. CASE send'[t] = "length" /\ outcome'[t] = outcome[t]
      <3>1. SharedPhase(t)' = SharedPhase(t)
        BY <1>0, <1>2, <1>5, <2>1, <2>3, SharedSame
      <3> QED
        BY <1>7, <3>1
    <2> QED
      BY <2>1, <2>2, <2>3
  <1>13. CASE \E r \in Replicas : Enqueue(t, r)
    <2>1. /\ UNCHANGED <<list, outcome>>
          /\ call[t] = "idle" /\ send[t] = "none" /\ outcome[t] = "none"
          /\ t \notin Listed /\ ~InHand(t)
          /\ \/ call'[t] \in {"ErrQueueClosed", "ErrNoHandler"} /\ send'[t] = "none"
             \/ call'[t] = "sending"
      <3>1. PICK r \in Replicas : Enqueue(t, r)
        BY <1>13
      <3>2. UNCHANGED <<list, outcome>> /\ call[t] = "idle"
        BY <3>1 DEF Enqueue
      <3>3. t \notin Listed /\ ~InHand(t) /\ send[t] = "none"
        BY <1>0, <3>2, SentTask
      <3>4. \/ call'[t] \in {"ErrQueueClosed", "ErrNoHandler"} /\ send'[t] = "none"
            \/ call'[t] = "sending"
        BY <1>0, <3>1, <3>3 DEF Enqueue
      <3> QED
        BY <1>0, <3>2, <3>3, <3>4
    <2>2. SharedPhase(t) = "offered"
      BY <1>0, <2>1, PhaseCases DEF PhaseIs
    <2>3. SharedPhase(t)' \in {"refused", "offered"}
      BY <1>0, <1>2, <1>3, <1>5, <2>1, NextPhaseCases DEF PhaseIs
    <2> QED
      BY <1>7, <1>8, <2>2, <2>3
  <1> QED
    BY <1>10, <1>11, <1>12, <1>13 DEF Sender

(* A worker: its task is run, waits for its retry, or ends; or the head of *)
(* the list has come into its hands, or was lost.                          *)
LEMMA WorkerShares ==
    ASSUME SharedInv, SharedInv', NEW p \in Pool, Worker(p)
    PROVE  Shared!SharedNext \/ UNCHANGED Shared!ledger
  <1> USE RedisAssumption DEF replica, pool, bounds
  <1>0. /\ RedisInv /\ RedisTypeOK /\ RedisTypeOK' /\ list \in Seq(Tasks)
        /\ Distinct(list) /\ JobInv(p)
        /\ outcome = [v \in Tasks |-> outcome[v]] /\ send = [v \in Tasks |-> send[v]]
        /\ starts \in [Tasks -> Nat]
        /\ job = [q \in Pool |-> job[q]] /\ wpc = [q \in Pool |-> wpc[q]]
    <2>1. /\ RedisInv /\ RedisTypeOK /\ RedisTypeOK' /\ Distinct(list) /\ JobInv(p)
      BY DEF SharedInv, RedisInv, PlaceInv
    <2> QED
      BY <2>1 DEF RedisTypeOK, Pool
  <1>1. /\ \A q \in Pool : job[q] # NoTask <=> wpc[q] \in {"process", "handler"}
        /\ job[p] # NoTask => job[p] \in Tasks
    BY <1>0 DEF RedisTypeOK, Pool
  <1>2. UNCHANGED call /\ \A q \in Pool : q # p => job'[q] = job[q] /\ wpc'[q] = wpc[q]
    BY <1>0 DEF Worker, Loop, Pop, PopNothing, Discard, Start, Finish, Retry, Release
  <1>3. UNCHANGED list => Listed' = Listed
    BY DEF Listed
  <1>4. ASSUME UNCHANGED starts, \A u \in Tasks : SharedPhase(u)' = SharedPhase(u)
        PROVE  UNCHANGED Shared!ledger
    BY <1>4, SharedKept
  <1>5. CASE Loop(p) \/ (PopNothing(p) /\ UNCHANGED <<list, outcome>>)
    <2>1. /\ UNCHANGED <<list, outcome, send, starts, job>>
          /\ wpc[p] \in {"loop", "popping"} /\ wpc'[p] # "handler"
      BY <1>0, <1>5 DEF Loop, PopNothing
    <2>2. \A u \in Tasks : job[p] # u
      BY <1>1, <2>1
    <2>3. \A u \in Tasks : SharedPhase(u)' = SharedPhase(u)
      BY <1>0, <1>2, <1>3, <2>1, <2>2, OneHand, SharedSame
    <2> QED
      BY <1>4, <2>1, <2>3
  (* The head of the list leaves it, for the hands of p or for nobody's.     *)
  <1>6. ASSUME list # <<>>, list' = Tail(list), wpc[p] = "popping"
        PROVE  \E t \in Tasks :
                  /\ t = Head(list) /\ SharedPhase(t) = "pending"
                  /\ call[t] \notin {"idle", "sending"}
                  /\ send[t] = "none" /\ ~InHand(t) /\ t \notin Listed'
                  /\ \A u \in Tasks \ {t} : u \in Listed' <=> u \in Listed
    <2>1. Listed = Elements(list) /\ Listed' = Elements(list')
      BY DEF Listed, Elements
    <2>2. Head(list) \in Tasks /\ Head(list) \in Listed /\ Listed' = Listed \ {Head(list)}
      BY <1>0, <1>6, <2>1, TailDistinct
    <2>3. /\ call[Head(list)] \notin {"idle", "sending"}
          /\ send[Head(list)] = "none" /\ ~InHand(Head(list))
      BY <1>0, <2>2, SentTask
    <2>4. ~InHandler(Head(list))
      BY <2>3 DEF InHand, InHandler
    <2>5. SharedPhase(Head(list)) = "pending"
      BY <1>0, <2>2, <2>3, <2>4, PhaseCases DEF PhaseIs
    <2> QED
      BY <2>2, <2>3, <2>5
  <1>7. CASE PopNothing(p) /\ ~UNCHANGED <<list, outcome>>
    <2>1. /\ list # <<>> /\ list' = Tail(list) /\ wpc[p] = "popping" /\ wpc'[p] # "handler"
          /\ outcome' = [outcome EXCEPT ![Head(list)] = "lost"] /\ UNCHANGED <<job, send, starts>>
      BY <1>0, <1>7 DEF PopNothing
    <2>2. PICK t \in Tasks :
             /\ t = Head(list) /\ SharedPhase(t) = "pending"
             /\ call[t] \notin {"idle", "sending"}
             /\ send[t] = "none" /\ ~InHand(t) /\ t \notin Listed'
             /\ \A u \in Tasks \ {t} : u \in Listed' <=> u \in Listed
      BY <1>6, <2>1
    <2>3. \A u \in Tasks : job[p] # u /\ job'[p] # u
      BY <1>1, <2>1
    <2>4. \A u \in Tasks \ {t} : outcome'[u] = outcome[u]
      BY <2>1, <2>2, <1>0
    <2>5. \A u \in Tasks \ {t} : SharedPhase(u)' = SharedPhase(u)
      BY <1>0, <1>2, <2>1, <2>2, <2>3, <2>4, OneHand, SharedSame
    <2>6. ~InHand(t)' /\ ~InHandler(t)'
      BY <2>1, <2>2 DEF InHand, InHandler
    <2>7. outcome'[t] = "lost"
      BY <1>0, <2>1, <2>2
    <2>8. SharedPhase(t)' = "ended"
      BY <1>0, <1>2, <2>1, <2>2, <2>6, <2>7, NextPhaseCases DEF PhaseIs
    <2>9. Shared!End(t)
      BY <2>1, <2>2, <2>5, <2>8, SharedMove DEF Shared!End
    <2> QED
      BY <2>9 DEF Shared!SharedNext, Shared!LedgerNext
  <1>8. CASE Pop(p)
    <2>1. /\ list # <<>> /\ list' = Tail(list) /\ wpc[p] = "popping" /\ wpc'[p] = "process"
          /\ job'[p] = Head(list) /\ UNCHANGED <<outcome, send, starts>>
      BY <1>0, <1>8 DEF Pop
    <2>2. PICK t \in Tasks :
             /\ t = Head(list) /\ SharedPhase(t) = "pending"
             /\ call[t] \notin {"idle", "sending"}
             /\ send[t] = "none" /\ ~InHand(t) /\ t \notin Listed'
             /\ \A u \in Tasks \ {t} : u \in Listed' <=> u \in Listed
      BY <1>6, <2>1
    <2>3. \A u \in Tasks : job[p] # u
      BY <1>1, <2>1
    <2>4. \A u \in Tasks \ {t} : SharedPhase(u)' = SharedPhase(u)
      BY <1>0, <1>2, <2>1, <2>2, <2>3, OneHand, SharedSame
    <2>5. InHand(t)' /\ ~InHandler(t)'
      BY <1>2, <2>1, <2>2 DEF InHand, InHandler
    <2>6. SharedPhase(t)' = "pending"
      BY <1>0, <1>2, <2>2, <2>5, NextPhaseCases DEF PhaseIs
    <2> QED
      BY <1>4, <2>1, <2>2, <2>4, <2>6
  (* The worker has a task, and no other has it.                             *)
  <1>9. ASSUME wpc[p] \in {"process", "handler"}
        PROVE  \E t \in Tasks :
                  /\ t = job[p] /\ call[t] \notin {"idle", "sending"}
                  /\ send[t] = "none" /\ t \notin Listed
                  /\ \A q \in Pool : q # p => job[q] # t
                  /\ SharedPhase(t) = IF wpc[p] = "handler" THEN "running" ELSE "pending"
    <2>1. job[p] \in Tasks /\ InHand(job[p])
      BY <1>1, <1>9 DEF InHand
    <2>2. /\ call[job[p]] \notin {"idle", "sending"} /\ send[job[p]] = "none"
          /\ job[p] \notin Listed
      BY <1>0, <2>1, SentTask
    <2>3. \A q \in Pool : q # p => job[q] # job[p]
      BY <1>0, <2>1 DEF RedisInv, PlaceInv
    <2>4. InHandler(job[p]) <=> wpc[p] = "handler"
      BY <2>3 DEF InHandler
    <2>5. SharedPhase(job[p]) = IF wpc[p] = "handler" THEN "running" ELSE "pending"
      BY <1>0, <2>1, <2>2, <2>4, PhaseCases DEF PhaseIs
    <2> QED
      BY <2>1, <2>2, <2>3, <2>5
  (* The worker lets its task go.                                            *)
  <1>10. ASSUME NEW t \in Tasks, t = job[p], \A q \in Pool : q # p => job[q] # t,
                Release(p), UNCHANGED list,
                \A u \in Tasks \ {t} : outcome'[u] = outcome[u] /\ send'[u] = send[u]
         PROVE  /\ ~InHand(t)' /\ ~InHandler(t)'
                /\ \A u \in Tasks \ {t} : SharedPhase(u)' = SharedPhase(u)
    <2>1. job'[p] = NoTask
      BY <1>0, <1>10 DEF Release
    <2>2. \A u \in Tasks \ {t} : SharedPhase(u)' = SharedPhase(u)
      BY <1>0, <1>2, <1>3, <1>10, <2>1, OneHand, SharedSame
    <2>3. \A q \in Pool : job'[q] # t
      BY <1>2, <1>10, <2>1
    <2> QED
      BY <2>2, <2>3 DEF InHand, InHandler
  <1>11. CASE Discard(p) \/ Finish(p)
    <2>1. /\ wpc[p] \in {"process", "handler"} /\ Release(p) /\ UNCHANGED <<list, send, starts>>
          /\ \E why \in {"aged", "nohandler", "done", "exhausted"} :
                outcome' = [outcome EXCEPT ![job[p]] = why]
      BY <1>11 DEF Discard, Finish
    <2>2. PICK t \in Tasks :
             /\ t = job[p] /\ call[t] \notin {"idle", "sending"} /\ send[t] = "none"
             /\ t \notin Listed /\ SharedPhase(t) \in {"running", "pending"}
             /\ \A q \in Pool : q # p => job[q] # t
      BY <1>9, <2>1
    <2>3. outcome'[t] # "none" /\ \A u \in Tasks \ {t} : outcome'[u] = outcome[u]
      BY <1>0, <2>1, <2>2
    <2>4. /\ ~InHand(t)' /\ ~InHandler(t)'
          /\ \A u \in Tasks \ {t} : SharedPhase(u)' = SharedPhase(u)
      BY <1>10, <2>1, <2>2, <2>3
    <2>5. SharedPhase(t)' = "ended"
      BY <1>0, <1>2, <1>3, <2>1, <2>2, <2>3, <2>4, NextPhaseCases DEF PhaseIs
    <2>6. Shared!End(t)
      BY <2>1, <2>2, <2>4, <2>5, SharedMove DEF Shared!End
    <2> QED
      BY <2>6 DEF Shared!SharedNext, Shared!LedgerNext
  <1>12. CASE Retry(p)
    <2>1. /\ wpc[p] = "handler" /\ Release(p) /\ UNCHANGED <<list, outcome, starts>>
          /\ send' = [send EXCEPT ![job[p]] = "timer"]
      BY <1>12 DEF Retry
    <2>2. PICK t \in Tasks :
             /\ t = job[p] /\ call[t] \notin {"idle", "sending"} /\ SharedPhase(t) = "running"
             /\ \A q \in Pool : q # p => job[q] # t
      BY <1>9, <2>1
    <2>3. send'[t] = "timer" /\ \A u \in Tasks \ {t} : send'[u] = send[u]
      BY <1>0, <2>1, <2>2
    <2>4. /\ ~InHandler(t)' /\ \A u \in Tasks \ {t} : SharedPhase(u)' = SharedPhase(u)
      BY <1>10, <2>1, <2>2, <2>3
    <2>5. SharedPhase(t)' = "pending"
      BY <1>0, <1>2, <2>2, <2>3, <2>4, NextPhaseCases DEF PhaseIs
    <2>6. Shared!Again(t)
      BY <2>1, <2>2, <2>4, <2>5, SharedMove DEF Shared!Again
    <2> QED
      BY <2>6 DEF Shared!SharedNext, Shared!LedgerNext
  <1>13. CASE Start(p)
    <2>1. /\ wpc[p] = "process" /\ wpc'[p] = "handler" /\ UNCHANGED <<list, job, send, outcome>>
          /\ starts' = [starts EXCEPT ![job[p]] = @ + 1]
      BY <1>0, <1>13 DEF Start
    <2>2. PICK t \in Tasks :
             /\ t = job[p] /\ call[t] \notin {"idle", "sending"} /\ SharedPhase(t) = "pending"
             /\ \A q \in Pool : q # p => job[q] # t
      BY <1>9, <2>1
    <2>3. starts[t] < MaxRetries
      <3>1. starts[t] <= attempt[t] /\ attempt[t] < MaxRetries
        BY <1>0, <2>1, <2>2 DEF JobInv, RedisInv, TaskInv
      <3>2. starts[t] \in Nat /\ attempt[t] \in Nat /\ MaxRetries \in Nat
        BY <1>0, <2>2 DEF RedisTypeOK
      <3> QED
        BY <3>1, <3>2
    <2>4. InHandler(t)'
      BY <2>1, <2>2 DEF InHandler
    <2>5. \A u \in Tasks \ {t} : SharedPhase(u)' = SharedPhase(u)
      BY <1>0, <1>2, <1>3, <2>1, <2>2, OneHand, SharedSame
    <2>6. SharedPhase(t)' = "running"
      BY <1>0, <1>2, <2>2, <2>4, NextPhaseCases DEF PhaseIs
    <2>7. Shared!Run(t)
      BY <2>1, <2>2, <2>3, <2>5, <2>6, SharedMove DEF Shared!Run
    <2> QED
      BY <2>7 DEF Shared!SharedNext, Shared!LedgerNext
  <1> QED
    BY <1>5, <1>7, <1>8, <1>11, <1>12, <1>13 DEF Worker

(* A replica: while its process runs it moves no task, and when it ends    *)
(* what it held and sent falls.                                            *)
LEMMA ReplicaShares ==
    ASSUME SharedInv, SharedInv', NEW r \in Replicas, Replica(r)
    PROVE  Shared!SharedNext \/ UNCHANGED Shared!ledger
  <1> USE RedisAssumption DEF replica, pool, bounds
  <1>0. /\ RedisInv /\ RedisTypeOK /\ RedisTypeOK' /\ NoOutcomeYet
        /\ \A p \in Pool : job[p] # NoTask <=> wpc[p] \in {"process", "handler"}
        /\ \A p \in Pool : JobInv(p)
        /\ wpc = [p \in Pool |-> wpc[p]] /\ job = [p \in Pool |-> job[p]]
    <2>1. /\ RedisInv /\ RedisTypeOK /\ RedisTypeOK' /\ NoOutcomeYet
          /\ \A p \in Pool : JobInv(p)
      BY DEF SharedInv, RedisInv
    <2> QED
      BY <2>1 DEF RedisTypeOK, Pool
  <1>1. CASE ~Stop(r)
    <2>1. UNCHANGED <<list, job, call, send, outcome, starts>>
      BY <1>1 DEF Replica, Register, Restart, CloseBegin, CloseCancel, CloseReturn
    <2>2. \A p \in Pool : job[p] # NoTask => wpc'[p] = wpc[p]
      <3>1. UNCHANGED wpc \/ Restart(r)
        BY <1>1 DEF Replica, Register, CloseBegin, CloseCancel, CloseReturn
      <3>2. ASSUME Restart(r), NEW p \in Pool, job[p] # NoTask PROVE wpc'[p] = wpc[p]
        <4>1. up[p[1]]
          BY <1>0, <3>2 DEF JobInv
        <4>2. p[1] # r
          BY <3>2, <4>1 DEF Restart
        <4> QED
          BY <1>0, <3>2, <4>2 DEF Restart
      <3> QED
        BY <3>1, <3>2
    <2>3. \A u \in Tasks : (InHand(u)' <=> InHand(u)) /\ (InHandler(u)' <=> InHandler(u))
      BY <2>1, <2>2, SameHands
    <2>4. Listed' = Listed
      BY <2>1 DEF Listed
    <2>5. \A u \in Tasks : SharedPhase(u)' = SharedPhase(u)
      BY <1>0, <2>1, <2>3, <2>4, SharedSame
    <2> QED
      BY <2>1, <2>5, SharedKept
  <1>2. CASE Stop(r)
    <2> DEFINE inHands == {job[<<r, w>>] : w \in Workers} \ {NoTask}
               sending == {t \in Tasks : home[t] = r /\ send[t] # "none"}
               callers == {t \in sending : call[t] = "sending"}
               fallen == inHands \cup sending
    <2>1. /\ UNCHANGED <<list, starts>> /\ Listed' = Listed
          /\ wpc' = [p \in Pool |-> IF p[1] = r THEN "dead" ELSE wpc[p]]
          /\ job' = [p \in Pool |-> IF p[1] = r THEN NoTask ELSE job[p]]
          /\ send' = [t \in Tasks |-> IF t \in sending THEN "none" ELSE send[t]]
          /\ call' = [t \in Tasks |-> IF t \in callers THEN "gone" ELSE call[t]]
          /\ outcome' = [t \in Tasks |-> IF t \in inHands \cup (sending \ callers) THEN "stopped"
                                         ELSE outcome[t]]
      BY <1>0, <1>2 DEF Stop, Listed
    <2>2. \A t \in Tasks : t \in inHands <=> \E p \in Pool : p[1] = r /\ job[p] = t
      <3>1. \A p \in Pool : p[1] = r => \E w \in Workers : p = <<r, w>>
        BY DEF Pool
      <3>2. \A w \in Workers : <<r, w>> \in Pool /\ <<r, w>>[1] = r
        BY DEF Pool
      <3>3. ASSUME NEW t \in Tasks, t \in inHands PROVE \E p \in Pool : p[1] = r /\ job[p] = t
        BY <3>2, <3>3
      <3>4. ASSUME NEW t \in Tasks, NEW p \in Pool, p[1] = r, job[p] = t PROVE t \in inHands
        BY <3>1, <3>4
      <3> QED
        BY <3>3, <3>4
    <2>3. inHands \subseteq Tasks
      <3>1. \A p \in Pool : job[p] \in Tasks \cup {NoTask}
        BY <1>0 DEF RedisTypeOK, Pool
      <3>2. \A w \in Workers : <<r, w>> \in Pool
        BY DEF Pool
      <3> QED
        BY <3>1, <3>2
    (* What the process held or sent is nowhere now.                           *)
    <2>4. ASSUME NEW t \in fallen
          PROVE  /\ SharedPhase(t) \in {"offered", "pending", "running"}
                 /\ SharedPhase(t)' = IF SharedPhase(t) = "offered" THEN "refused" ELSE "ended"
      <3>1. t \in Tasks /\ PhaseIs(t) /\ PhaseIs(t)'
        BY <1>0, <2>3, PhaseCases, NextPhaseCases
      <3>2. t \notin Listed /\ send'[t] = "none"
        <4>1. CASE t \in inHands
          <5>1. InHand(t)
            BY <2>2, <3>1, <4>1 DEF InHand
          <5>2. t \notin Listed /\ send[t] = "none"
            BY <1>0, <3>1, <5>1, SentTask
          <5> QED
            BY <2>1, <3>1, <5>2
        <4>2. CASE t \in sending
          BY <1>0, <2>1, <3>1, <4>2, SentTask
        <4> QED
          BY <4>1, <4>2
      <3>3. ~InHand(t)' /\ ~InHandler(t)'
        <4>1. ASSUME NEW p \in Pool, job'[p] = t PROVE FALSE
          <5>1. p[1] # r /\ job[p] = t
            BY <2>1, <3>1, <4>1
          <5>2. t \in inHands => FALSE
            <6>1. \A q \in Pool : job[q] = t => q = p
              BY <1>0, <3>1, <5>1 DEF RedisInv, PlaceInv
            <6> QED
              BY <2>2, <3>1, <5>1, <6>1
          <5>3. t \in sending => FALSE
            BY <1>0, <3>1, <5>1, SentTask DEF InHand
          <5> QED
            BY <5>2, <5>3
        <4> QED
          BY <4>1 DEF InHand, InHandler
      <3>4. CASE t \in callers
        <4>1. SharedPhase(t) = "offered"
          BY <3>1, <3>4 DEF PhaseIs
        <4>2. ~InHand(t)
          BY <1>0, <3>1, <3>4, SentTask
        <4>3. t \notin inHands /\ outcome[t] = "none"
          BY <1>0, <2>2, <3>1, <3>4, <4>2 DEF InHand, NoOutcomeYet
        <4>4. call'[t] = "gone" /\ outcome'[t] = "none"
          BY <2>1, <3>1, <3>4, <4>3
        <4> QED
          BY <2>1, <3>1, <3>2, <3>3, <4>1, <4>4 DEF PhaseIs
      <3>5. CASE t \notin callers
        <4>1. outcome'[t] = "stopped" /\ call'[t] = call[t]
          BY <2>1, <3>1, <3>5
        <4>2. call[t] \notin {"idle", "sending"} /\ (InHand(t) \/ send[t] # "none")
          <5>1. t \in inHands => InHand(t)
            BY <2>2, <3>1 DEF InHand
          <5>2. t \in sending => send[t] # "none" /\ call[t] # "sending"
            BY <3>5
          <5> QED
            BY <1>0, <3>1, <5>1, <5>2, SentTask
        <4> QED
          BY <2>1, <3>1, <3>2, <3>3, <4>1, <4>2 DEF PhaseIs
      <3> QED
        BY <3>4, <3>5
    <2>5. ASSUME NEW t \in Tasks \ fallen PROVE SharedPhase(t)' = SharedPhase(t)
      <3>1. call'[t] = call[t] /\ outcome'[t] = outcome[t] /\ send'[t] = send[t]
        BY <2>1, <2>5
      <3>2. \A p \in Pool : job[p] = t => p[1] # r
        BY <2>2, <2>5
      <3>3. \A p \in Pool : job'[p] = t => job[p] = t /\ wpc'[p] = wpc[p]
        BY <2>1
      <3>4. \A p \in Pool : job[p] = t => job'[p] = t /\ wpc'[p] = wpc[p]
        BY <2>1, <3>2
      <3>5. (InHand(t)' <=> InHand(t)) /\ (InHandler(t)' <=> InHandler(t))
        BY <3>3, <3>4 DEF InHand, InHandler
      <3> QED
        BY <1>0, <2>1, <3>1, <3>5, SharedSame
    <2> HIDE DEF fallen
    <2>6. fallen \in SUBSET Tasks
      BY <2>3 DEF fallen
    <2>7. Shared!Fall(fallen)
      BY <2>1, <2>4, <2>5, <2>6 DEF Shared!Fall
    <2> QED
      BY <2>6, <2>7 DEF Shared!SharedNext
  <1> QED
    BY <1>1, <1>2

LEMMA StepShared ==
    SharedInv /\ SharedInv' /\ [RedisNext]_redisVars => [Shared!SharedNext]_(Shared!ledger)
  <1> SUFFICES ASSUME SharedInv, SharedInv', [RedisNext]_redisVars
               PROVE  Shared!SharedNext \/ UNCHANGED Shared!ledger
    OBVIOUS
  <1>1. CASE UNCHANGED redisVars
    <2>1. /\ UNCHANGED <<list, job, wpc, call, send, outcome, starts>>
          /\ RedisTypeOK /\ RedisTypeOK'
      BY <1>1 DEF redisVars, pool, SharedInv, RedisInv
    <2>2. \A u \in Tasks : (InHand(u)' <=> InHand(u)) /\ (InHandler(u)' <=> InHandler(u))
      BY <2>1, SameHands
    <2>3. Listed' = Listed
      BY <2>1 DEF Listed
    <2> QED
      BY <2>1, <2>2, <2>3, SharedSame, SharedKept
  <1> QED
    BY <1>1, SenderShares, WorkerShares, ReplicaShares DEF RedisNext, Pool

(* The replicas share the list as one ledger of tasks: every step of every *)
(* replica, of Redis or of a crash is a step of SharedLedger or a stutter, *)
(* and no end of a replica touches the list (queue.go:140-386).            *)
THEOREM ReplicasImplementLedger == RedisSpec => ReplicasShareLedger
  <1>1. RedisInit => SharedInv
    BY RedisInvInit DEF SharedInv, NoOutcomeYet, RedisInit
  <1>2. SharedInv /\ [RedisNext]_redisVars => SharedInv'
    BY RedisInvNext, NoOutcomeYetNext DEF SharedInv
  <1>3. RedisSpec => Shared!SharedSpec
    BY <1>1, <1>2, InitShared, StepShared, PTL DEF RedisSpec, Shared!SharedSpec
  <1> QED
    BY <1>3, ListOutlivesReplicas, PTL DEF ReplicasShareLedger

-----------------------------------------------------------------------------
(* The least of the files, and of the positions of a file's tables.        *)

LEMMA LeastElement ==
    ASSUME NEW S, S \subseteq Nat, S # {}
    PROVE  Least(S) \in S /\ \A j \in S : Least(S) <= j
  BY LeastNumber DEF Least

-----------------------------------------------------------------------------
(* The migrations.  What a run knows of the file it works on, which files  *)
(* it has passed, and how far a removal has come.                          *)

HasTables(f) ==
    \A o \in ObjectsOf(f) : Kind[o] = "table" \/ Tables(f) = {} => o \in schema

(* The migrator is at a statement of a file it has not seen recorded.      *)
AtWork(m) ==
    pc[m] \in {"check", "execute", "record"} =>
        /\ todo[m] # {} /\ File(m) \notin seen[m]
        /\ pc[m] = "check" => pos[m] \in Tables(File(m))
        /\ pc[m] = "execute" => pos[m] \in DOMAIN Up[File(m)]

(* A file of the directory is still to be visited or is recorded, and what *)
(* the loop over a file's statements has passed exists.                    *)
WorkInv(m) ==
    /\ AtWork(m)
    /\ pc[m] \in Idle => todo[m] = {}
    /\ alone => todo[m] \subseteq disk
    /\ pc[m] \notin Idle => \A g \in disk \cap Kept : g \in todo[m] \cup recorded
    /\ seen[m] \cap Kept \subseteq recorded
    /\ pc[m] = "check" =>
          \A i \in Tables(File(m)) : i < pos[m] => Up[File(m)][i] \in schema
    /\ pc[m] = "execute" =>
          \A i \in DOMAIN Up[File(m)] : i < pos[m] => Up[File(m)][i] \in schema
    /\ pc[m] = "record" => HasTables(File(m))

(* A removal has the database to itself, and what its down section has     *)
(* passed is gone.                                                         *)
RemovalInv ==
    /\ rpc # "idle" => alone /\ rfile \in Undoable /\ \A m \in Migrators : pc[m] \in Idle
    /\ rpc = "down" => \A i \in DOMAIN Up[rfile] : i > rpos => Up[rfile][i] \notin schema
    /\ rpc \in {"unrecord", "remove"} => ObjectsOf(rfile) \cap schema = {}
    /\ rpc = "remove" => rfile \notin recorded

MigrateTypes ==
    /\ alone \in BOOLEAN
    /\ schema \subseteq Objects
    /\ recorded \subseteq Files
    /\ disk \subseteq Files
    /\ pc \in [Migrators -> Idle \cup {"listed", "next", "check", "execute", "record"}]
    /\ todo \in [Migrators -> SUBSET Files]
    /\ seen \in [Migrators -> SUBSET Files]
    /\ pos \in [Migrators -> Nat]
    /\ rpc \in {"idle", "down", "unrecord", "remove"}
    /\ rpc # "idle" => rfile \in Files
    /\ rpc = "down" => rpos \in DOMAIN Up[rfile]
    /\ faults \in 0..MaxFaults

MigrateInv ==
    /\ MigrateTypes /\ RemovalInv
    /\ RecordedInOrder /\ RecordedHasTables /\ UndoLeavesNothing
    /\ \A m \in Migrators : WorkInv(m)

(* What a file is, and the file a migrator works on.                       *)
LEMMA FileFacts ==
    ASSUME NEW f \in Files
    PROVE  /\ f \in Nat /\ Up[f] \in Seq(Objects) /\ Len(Up[f]) \in Nat
           /\ DOMAIN Up[f] = 1..Len(Up[f])
           /\ \A i \in DOMAIN Up[f] : Up[f][i] \in Objects /\ Up[f][i] \in ObjectsOf(f)
           /\ \A o \in ObjectsOf(f) : \E i \in DOMAIN Up[f] : o = Up[f][i]
           /\ Up[f] # <<>> <=> Len(Up[f]) # 0
           /\ Tables(f) \subseteq DOMAIN Up[f] /\ Tables(f) \subseteq Nat
  <1>1. f \in Nat /\ Up[f] \in Seq(Objects)
    BY MigrateAssumption
  <1>2. Len(Up[f]) \in Nat /\ DOMAIN Up[f] = 1..Len(Up[f])
        /\ \A i \in DOMAIN Up[f] : Up[f][i] \in Objects
    BY <1>1
  <1>3. Up[f] # <<>> <=> Len(Up[f]) # 0
    BY <1>1, EmptySeq
  <1>4. Tables(f) \subseteq DOMAIN Up[f] /\ Tables(f) \subseteq Nat
    BY <1>2 DEF Tables
  <1> QED
    BY <1>1, <1>2, <1>3, <1>4 DEF ObjectsOf

LEMMA CurrentFile ==
    ASSUME MigrateTypes, NEW m \in Migrators, todo[m] # {}
    PROVE  File(m) \in todo[m] /\ File(m) \in Files /\ \A g \in todo[m] : File(m) <= g
  <1>1. todo[m] \subseteq Files /\ todo[m] \subseteq Nat
    BY MigrateAssumption DEF MigrateTypes
  <1> QED
    BY <1>1, LeastElement DEF File

(* The initial states.                                                     *)
LEMMA MigrateInvInit == Init => MigrateInv
  <1> SUFFICES ASSUME Init PROVE MigrateInv
    OBVIOUS
  <1> USE DEF Init, Idle
  <1>1. MigrateTypes
    BY MigrateAssumption DEF MigrateTypes
  <1>2. RemovalInv /\ RecordedInOrder /\ RecordedHasTables
    BY DEF RemovalInv, RecordedInOrder, RecordedHasTables
  <1>3. UndoLeavesNothing
    BY DEF UndoLeavesNothing
  <1>4. ASSUME NEW m \in Migrators PROVE WorkInv(m)
    BY DEF WorkInv, AtWork
  <1> QED
    BY <1>1, <1>2, <1>3, <1>4 DEF MigrateInv

(* A step of one migrator leaves the others, the directory and a removal   *)
(* alone, and only adds to the database.                                   *)
MigratorMoves(m) ==
    /\ MigrateTypes'
    /\ alone' = alone /\ disk' = disk /\ UNCHANGED remover
    /\ schema \subseteq schema' /\ recorded \subseteq recorded'
    /\ \A n \in Migrators \ {m} :
          pc'[n] = pc[n] /\ todo'[n] = todo[n] /\ seen'[n] = seen[n] /\ pos'[n] = pos[n]

(* What an end of a run does.                                              *)
LEMMA RunEnds ==
    ASSUME MigrateTypes, NEW m \in Migrators, NEW how \in Idle, Ends(m, how)
    PROVE  /\ pc' \in [Migrators -> Idle \cup {"listed", "next", "check", "execute", "record"}]
           /\ todo' \in [Migrators -> SUBSET Files] /\ seen' \in [Migrators -> SUBSET Files]
           /\ pos' \in [Migrators -> Nat]
           /\ pc'[m] = how /\ todo'[m] = {} /\ seen'[m] = {}
           /\ \A n \in Migrators \ {m} :
                 pc'[n] = pc[n] /\ todo'[n] = todo[n] /\ seen'[n] = seen[n] /\ pos'[n] = pos[n]
  BY DEF MigrateTypes, Ends

LEMMA EndedWork ==
    ASSUME NEW m \in Migrators, pc'[m] \in Idle, todo'[m] = {}, seen'[m] = {}
    PROVE  WorkInv(m)'
  BY DEF WorkInv, AtWork, Idle

LEMMA MigratorFrame ==
    ASSUME MigrateInv, NEW m \in Migrators, Run(m) \/ Step(m) \/ Fail(m)
    PROVE  MigratorMoves(m)
  <1> USE DEF MigrateInv, MigrateTypes, MigratorMoves, database, migrator, remover
  <1>1. CASE Run(m)
    BY <1>1 DEF Run
  <1>2. CASE ReadApplied(m)
    BY <1>2 DEF ReadApplied
  <1>3. CASE Skip(m)
    BY <1>3 DEF Skip
  <1>4. CASE ReadFile(m)
    <2>1. CASE File(m) \notin disk
      <3>1. Ends(m, "failed")
        BY <1>4, <2>1 DEF ReadFile
      <3> QED
        BY <1>4, <3>1, RunEnds DEF ReadFile, Idle
    <2>2. CASE File(m) \in disk
      <3>1. File(m) \in Files
        BY <1>4, CurrentFile DEF ReadFile
      <3>2. Tables(File(m)) # {} => Least(Tables(File(m))) \in Nat
        BY <3>1, FileFacts, LeastElement
      <3>3. pos' \in [Migrators -> Nat]
        <4>1. PICK i \in Nat : pos' = [pos EXCEPT ![m] = i]
          BY <1>4, <2>2, <3>2 DEF ReadFile
        <4> QED
          BY <4>1
      <3> QED
        BY <1>4, <2>2, <3>3 DEF ReadFile
    <2> QED
      BY <2>1, <2>2
  <1>5. CASE CheckTable(m)
    <2>1. todo[m] # {} /\ File(m) \in Files
      BY <1>5, CurrentFile DEF CheckTable, WorkInv, AtWork
    <2>2. TablesLeft(m) # {} => Least(TablesLeft(m)) \in Nat
      BY <2>1, FileFacts, LeastElement DEF TablesLeft
    <2>3. pos' \in [Migrators -> Nat]
      BY <1>5, <2>2 DEF CheckTable
    <2>4. faults' \in 0..MaxFaults
      <3>1. faults \in Nat /\ MaxFaults \in Nat /\ faults <= MaxFaults
        BY MigrateAssumption
      <3>2. faults' = faults \/ (faults < MaxFaults /\ faults' = faults + 1)
        BY <1>5 DEF CheckTable
      <3> QED
        BY <3>1, <3>2
    <2>5. pc' \in [Migrators -> Idle \cup {"listed", "next", "check", "execute", "record"}]
      BY <1>5 DEF CheckTable
    <2> QED
      BY <1>5, <2>3, <2>4, <2>5 DEF CheckTable
  <1>6. CASE Execute(m)
    <2> DEFINE o == Up[File(m)][pos[m]]
    <2>1. todo[m] # {} /\ File(m) \in Files /\ pos[m] \in DOMAIN Up[File(m)]
      BY <1>6, CurrentFile DEF Execute, WorkInv, AtWork
    <2>2. o \in Objects
      BY <2>1, FileFacts
    <2> HIDE DEF o
    <2>3. CASE Accepts(o)
      <3>1. /\ schema' = schema \cup {o}
            /\ pos' = [pos EXCEPT ![m] = @ + 1]
            /\ pc' = [pc EXCEPT ![m] = IF pos[m] = Len(Up[File(m)]) THEN "record" ELSE @]
            /\ UNCHANGED <<todo, seen>>
        BY <1>6, <2>3 DEF Execute, o
      <3> QED
        BY <1>6, <2>2, <3>1 DEF Execute
    <2>4. CASE ~Accepts(o)
      <3>1. Ends(m, "failed") /\ UNCHANGED schema
        BY <1>6, <2>4 DEF Execute, o
      <3> QED
        BY <1>6, <3>1, RunEnds DEF Execute, Idle
    <2> QED
      BY <2>3, <2>4
  <1>7. CASE Record(m)
    <2>1. File(m) \in Files
      BY <1>7, CurrentFile DEF Record, WorkInv, AtWork
    <2>2. CASE File(m) \in recorded
      <3>1. Ends(m, "failed")
        BY <1>7, <2>2 DEF Record
      <3> QED
        BY <1>7, <2>1, <3>1, RunEnds DEF Record, Idle
    <2>3. CASE File(m) \notin recorded
      BY <1>7, <2>1, <2>3 DEF Record
    <2> QED
      BY <2>2, <2>3
  <1>8. CASE Return(m)
    <2>1. Ends(m, "done")
      BY <1>8 DEF Return
    <2> QED
      BY <1>8, <2>1, RunEnds DEF Return, Idle
  <1>9. CASE Fail(m)
    <2>1. Ends(m, "failed")
      BY <1>9 DEF Fail
    <2>2. faults' \in 0..MaxFaults
      BY <1>9, MigrateAssumption DEF Fail
    <2> QED
      BY <1>9, <2>1, <2>2, RunEnds DEF Fail, Idle
  <1> QED
    BY <1>1, <1>2, <1>3, <1>4, <1>5, <1>6, <1>7, <1>8, <1>9 DEF Step

(* What a migrator that does not move relies on.                           *)
LEMMA BystanderWorks ==
    ASSUME NEW n \in Migrators, WorkInv(n),
           pc'[n] = pc[n], todo'[n] = todo[n], seen'[n] = seen[n], pos'[n] = pos[n],
           alone' = alone, disk' \subseteq disk, alone => todo[n] \subseteq disk',
           pc[n] \notin Idle => schema \subseteq schema',
           recorded \cap Kept \subseteq recorded'
    PROVE  WorkInv(n)'
  <1> USE DEF WorkInv
  <1>1. Kept' = Kept /\ File(n)' = File(n)
    BY DEF Kept, File
  <1>2. AtWork(n)'
    BY <1>1 DEF AtWork
  <1>3. pc[n] \in {"check", "execute", "record"} => schema \subseteq schema'
    BY DEF Idle
  <1>4. HasTables(File(n)) /\ schema \subseteq schema' => HasTables(File(n))'
    BY <1>1 DEF HasTables
  <1> QED
    BY <1>1, <1>2, <1>3, <1>4

(* What the migrator that moves relies on next.                            *)
LEMMA MigratorWorks ==
    ASSUME MigrateInv, NEW m \in Migrators, Run(m) \/ Step(m) \/ Fail(m)
    PROVE  WorkInv(m)'
  <1> USE DEF MigrateInv, MigrateTypes, Idle, database, migrator, remover
  <1>1. /\ Kept' = Kept /\ MigrateTypes' /\ disk' = disk /\ alone' = alone
        /\ schema \subseteq schema' /\ recorded \subseteq recorded'
    BY MigratorFrame DEF MigratorMoves, Kept
  <1>2. ASSUME NEW how \in Idle, Ends(m, how) PROVE WorkInv(m)'
    BY <1>2, RunEnds, EndedWork
  <1>3. WorkInv(m)
    OBVIOUS
  <1>4. CASE Run(m)
    <2>1. pc'[m] = "listed" /\ todo'[m] = disk /\ seen'[m] = seen[m]
      BY <1>4 DEF Run
    <2> QED
      BY <1>1, <1>3, <2>1 DEF WorkInv, AtWork
  <1>5. CASE ReadApplied(m)
    <2>1. pc[m] = "listed" /\ pc'[m] = "next" /\ todo'[m] = todo[m] /\ seen'[m] = recorded
      BY <1>5 DEF ReadApplied
    <2> QED
      BY <1>1, <1>3, <2>1 DEF WorkInv, AtWork
  <1>6. CASE Skip(m)
    <2>1. /\ pc[m] = "next" /\ pc'[m] = "next" /\ seen'[m] = seen[m]
          /\ todo'[m] = todo[m] \ {File(m)} /\ File(m) \in seen[m]
      BY <1>6 DEF Skip, AlreadyApplied
    <2>2. File(m) \in Kept => File(m) \in recorded
      BY <1>3, <2>1 DEF WorkInv
    <2>3. \A g \in disk \cap Kept : g \in todo'[m] \cup recorded
      BY <1>3, <2>1, <2>2 DEF WorkInv
    <2> QED
      BY <1>1, <1>3, <2>1, <2>3 DEF WorkInv, AtWork
  <1>7. CASE ReadFile(m)
    <2> DEFINE f == File(m)
    <2>1. todo[m] # {} /\ f \in Files /\ f \notin seen[m] /\ pc[m] = "next"
      BY <1>7, CurrentFile DEF ReadFile, AlreadyApplied
    <2>2. CASE f \notin disk
      BY <1>2, <1>7, <2>2 DEF ReadFile
    <2>3. CASE f \in disk
      <3>1. /\ pc'[m] = IF Tables(f) # {} THEN "check"
                         ELSE IF Up[f] # <<>> THEN "execute" ELSE "record"
            /\ pos'[m] = IF Tables(f) # {} THEN Least(Tables(f)) ELSE 1
            /\ todo'[m] = todo[m] /\ seen'[m] = seen[m] /\ schema' = schema
        BY <1>7, <2>3 DEF ReadFile
      <3>2. File(m)' = f
        BY <3>1 DEF File
      <3> HIDE DEF f
      <3>3. CASE Tables(f) # {}
        <4>1. pos'[m] \in Tables(f) /\ \A i \in Tables(f) : pos'[m] <= i
          <5>1. Tables(f) \subseteq Nat
            BY <2>1, FileFacts
          <5>2. Least(Tables(f)) \in Tables(f) /\ \A i \in Tables(f) : Least(Tables(f)) <= i
            BY <3>3, <5>1, LeastElement
          <5> QED
            BY <3>1, <3>3, <5>2
        <4>2. Tables(f) \subseteq Nat /\ pos'[m] \in Nat
          BY <2>1, <4>1, FileFacts
        <4>3. \A i \in Tables(f) : ~(i < pos'[m])
          BY <4>1, <4>2
        <4> QED
          BY <1>1, <1>3, <2>1, <3>1, <3>2, <3>3, <4>1, <4>3 DEF WorkInv, AtWork
      <3>4. CASE Tables(f) = {} /\ Up[f] # <<>>
        <4>1. DOMAIN Up[f] = 1..Len(Up[f]) /\ Len(Up[f]) \in Nat /\ Len(Up[f]) # 0
          BY <2>1, <3>4, FileFacts
        <4>2. 1 \in DOMAIN Up[f] /\ \A i \in DOMAIN Up[f] : ~(i < 1)
          BY <4>1
        <4> QED
          BY <1>1, <1>3, <2>1, <3>1, <3>2, <3>4, <4>2 DEF WorkInv, AtWork
      <3>5. CASE Tables(f) = {} /\ Up[f] = <<>>
        <4>1. ObjectsOf(f) = {}
          BY <3>5 DEF ObjectsOf
        <4>2. HasTables(File(m))'
          BY <3>2, <4>1 DEF HasTables
        <4> QED
          BY <1>1, <1>3, <2>1, <3>1, <3>2, <3>5, <4>2 DEF WorkInv, AtWork
      <3> QED
        BY <3>3, <3>4, <3>5
    <2> QED
      BY <2>2, <2>3
  <1>8. CASE CheckTable(m)
    <2> DEFINE f == File(m)
    <2>1. /\ todo[m] # {} /\ f \in Files /\ f \notin seen[m] /\ pos[m] \in Tables(f)
          /\ pc[m] = "check" /\ todo'[m] = todo[m] /\ seen'[m] = seen[m] /\ schema' = schema
          /\ recorded' = recorded
      BY <1>3, <1>8, CurrentFile DEF CheckTable, WorkInv, AtWork
    <2>2. File(m)' = f
      BY <2>1 DEF File
    <2>3. Tables(f) \subseteq Nat /\ Tables(f) \subseteq DOMAIN Up[f] /\ pos[m] \in Nat
          /\ DOMAIN Up[f] = 1..Len(Up[f]) /\ Len(Up[f]) \in Nat
      BY <2>1, FileFacts
    <2>4. \A i \in Tables(f) : i < pos[m] => Up[f][i] \in schema
      BY <1>3, <2>1 DEF WorkInv
    <2>5. TablesLeft(m) = {i \in Tables(f) : i > pos[m]}
      BY DEF TablesLeft
    <2>6. Asked(m) = Up[f][pos[m]]
      BY DEF Asked
    <2> HIDE DEF f
    <2>7. CASE Asked(m) \in schema /\ TablesLeft(m) = {} /\ pc'[m] = "record"
      <3>1. \A i \in Tables(f) : Up[f][i] \in schema
        <4>1. \A i \in Tables(f) : i < pos[m] \/ i = pos[m]
          BY <2>3, <2>5, <2>7
        <4> QED
          BY <2>4, <2>6, <2>7, <4>1
      <3>2. \A i \in DOMAIN Up[f] : Kind[Up[f][i]] = "table" => i \in Tables(f)
        BY DEF Tables
      <3>3. \A o \in ObjectsOf(f) : Kind[o] = "table" \/ Tables(f) = {} => o \in schema'
        BY <2>1, <3>1, <3>2 DEF ObjectsOf
      <3>4. HasTables(File(m))'
        BY <2>2, <3>3 DEF HasTables
      <3> QED
        BY <1>1, <1>3, <2>1, <2>2, <2>7, <3>4 DEF WorkInv, AtWork
    <2>8. CASE /\ Asked(m) \in schema /\ TablesLeft(m) # {}
               /\ pos'[m] = Least(TablesLeft(m)) /\ pc'[m] = pc[m]
      <3>1. pos'[m] \in TablesLeft(m) /\ \A i \in TablesLeft(m) : pos'[m] <= i
        <4>1. TablesLeft(m) \subseteq Nat
          BY <2>3, <2>5
        <4> QED
          BY <2>8, <4>1, LeastElement
      <3>2. \A i \in Tables(f) : i < pos'[m] => Up[f][i] \in schema
        <4>1. \A i \in Tables(f) : i < pos'[m] => i < pos[m] \/ i = pos[m]
          BY <2>3, <2>5, <3>1
        <4> QED
          BY <2>4, <2>6, <2>8, <4>1
      <3> QED
        BY <1>1, <1>3, <2>1, <2>2, <2>5, <2>8, <3>1, <3>2 DEF WorkInv, AtWork
    <2>9. CASE pc'[m] = "execute" /\ pos'[m] = 1
      <3>1. 1 \in DOMAIN Up[f] /\ \A i \in DOMAIN Up[f] : ~(i < 1)
        BY <2>1, <2>3
      <3> QED
        BY <1>1, <1>3, <2>1, <2>2, <2>9, <3>1 DEF WorkInv, AtWork
    <2>10. \/ Asked(m) \in schema /\ TablesLeft(m) = {} /\ pc'[m] = "record"
           \/ /\ Asked(m) \in schema /\ TablesLeft(m) # {}
              /\ pos'[m] = Least(TablesLeft(m)) /\ pc'[m] = pc[m]
           \/ pc'[m] = "execute" /\ pos'[m] = 1
      <3>1. CASE Asked(m) \in schema /\ pc'[m] # "execute"
        <4>1. pc[m] = "check" /\ pc' # [pc EXCEPT ![m] = "execute"]
          BY <1>8, <3>1 DEF CheckTable
        <4>2. IF TablesLeft(m) = {}
              THEN pc' = [pc EXCEPT ![m] = "record"] /\ UNCHANGED pos
              ELSE pos' = [pos EXCEPT ![m] = Least(TablesLeft(m))] /\ UNCHANGED pc
          BY <1>8, <4>1 DEF CheckTable
        <4>3. CASE TablesLeft(m) = {}
          BY <3>1, <4>2, <4>3
        <4>4. CASE TablesLeft(m) # {}
          <5>1. pos' = [pos EXCEPT ![m] = Least(TablesLeft(m))] /\ pc' = pc
            BY <4>2, <4>4
          <5>2. pos'[m] = Least(TablesLeft(m))
            BY <5>1
          <5> QED
            BY <3>1, <4>4, <5>1, <5>2
        <4> QED
          BY <4>3, <4>4
      <3>2. CASE Asked(m) \notin schema \/ pc'[m] = "execute"
        BY <1>8, <3>2 DEF CheckTable
      <3> QED
        BY <3>1, <3>2
    <2> QED
      BY <2>1, <2>7, <2>8, <2>9, <2>10
  <1>9. CASE Execute(m)
    <2> DEFINE f == File(m)
               o == Up[f][pos[m]]
    <2>1. /\ todo[m] # {} /\ f \in Files /\ f \notin seen[m] /\ pos[m] \in DOMAIN Up[f]
          /\ pc[m] = "execute" /\ recorded' = recorded
      BY <1>3, <1>9, CurrentFile DEF Execute, WorkInv, AtWork
    <2>2. CASE ~Accepts(o)
      <3>1. Ends(m, "failed")
        BY <1>9, <2>2 DEF Execute
      <3> QED
        BY <1>2, <3>1
    <2>3. CASE Accepts(o)
      <3>1. /\ schema' = schema \cup {o} /\ pos'[m] = pos[m] + 1
            /\ pc'[m] = IF pos[m] = Len(Up[f]) THEN "record" ELSE "execute"
            /\ todo'[m] = todo[m] /\ seen'[m] = seen[m]
        BY <1>9, <2>1, <2>3 DEF Execute
      <3>2. File(m)' = f
        BY <3>1 DEF File
      <3>3. DOMAIN Up[f] = 1..Len(Up[f]) /\ Len(Up[f]) \in Nat /\ pos[m] \in 1..Len(Up[f])
        BY <2>1, FileFacts
      <3>4. \A i \in DOMAIN Up[f] : i < pos[m] => Up[f][i] \in schema
        BY <1>3, <2>1 DEF WorkInv
      <3>5. \A i \in DOMAIN Up[f] : i < pos'[m] => Up[f][i] \in schema'
        <4>1. \A i \in DOMAIN Up[f] : i < pos'[m] => i < pos[m] \/ i = pos[m]
          BY <3>1, <3>3
        <4> QED
          BY <3>1, <3>4, <4>1
      <3> HIDE DEF o, f
      <3>6. CASE pos[m] = Len(Up[f])
        <4>1. \A i \in DOMAIN Up[f] : i < pos'[m]
          BY <3>1, <3>3, <3>6
        <4>2. \A x \in ObjectsOf(f) : x \in schema'
          BY <3>5, <4>1 DEF ObjectsOf
        <4>3. HasTables(File(m))'
          BY <3>2, <4>2 DEF HasTables
        <4> QED
          BY <1>1, <1>3, <2>1, <3>1, <3>2, <3>6, <4>3 DEF WorkInv, AtWork
      <3>7. CASE pos[m] # Len(Up[f])
        <4>1. pos'[m] \in DOMAIN Up[f]
          BY <3>1, <3>3, <3>7
        <4> QED
          BY <1>1, <1>3, <2>1, <3>1, <3>2, <3>5, <3>7, <4>1 DEF WorkInv, AtWork
      <3> QED
        BY <3>6, <3>7
    <2> QED
      BY <2>2, <2>3
  <1>10. CASE Record(m)
    <2>1. CASE File(m) \in recorded
      <3>1. Ends(m, "failed")
        BY <1>10, <2>1 DEF Record
      <3> QED
        BY <1>2, <3>1
    <2>2. CASE File(m) \notin recorded
      <3>1. /\ pc[m] = "record" /\ pc'[m] = "next" /\ todo'[m] = todo[m] \ {File(m)}
            /\ seen'[m] = seen[m] /\ recorded' = recorded \cup {File(m)}
        BY <1>10, <2>2 DEF Record
      <3> QED
        BY <1>1, <1>3, <3>1 DEF WorkInv, AtWork
    <2> QED
      BY <2>1, <2>2
  <1>11. CASE Return(m) \/ Fail(m)
    <2>1. Ends(m, "done") \/ Ends(m, "failed")
      BY <1>11 DEF Return, Fail
    <2> QED
      BY <1>2, <2>1
  <1> QED
    BY <1>4, <1>5, <1>6, <1>7, <1>8, <1>9, <1>10, <1>11 DEF Step

(* A migrator's step and the database: only Execute adds an object, to the *)
(* file the migrator works on, and only Record adds a name.                *)
LEMMA MigratorWrites ==
    ASSUME MigrateInv, NEW m \in Migrators, Run(m) \/ Step(m) \/ Fail(m)
    PROVE  /\ schema' = schema \/ (todo[m] # {} /\ \E o \in ObjectsOf(File(m)) :
                                     schema' = schema \cup {o})
           /\ \/ recorded' = recorded
              \/ /\ pc[m] = "record" /\ todo[m] # {} /\ schema' = schema
                 /\ recorded' = recorded \cup {File(m)}
  <1> USE DEF MigrateInv, database
  <1>1. CASE Execute(m)
    <2> DEFINE o == Up[File(m)][pos[m]]
    <2>1. todo[m] # {} /\ File(m) \in Files /\ pos[m] \in DOMAIN Up[File(m)]
          /\ recorded' = recorded
      BY <1>1, CurrentFile DEF Execute, WorkInv, AtWork
    <2>2. o \in ObjectsOf(File(m))
      BY <2>1, FileFacts
    <2>3. schema' = schema \/ schema' = schema \cup {o}
      BY <1>1 DEF Execute
    <2> QED
      BY <2>1, <2>2, <2>3
  <1>2. CASE Record(m)
    BY <1>2 DEF Record, WorkInv, AtWork
  <1>3. CASE ~Execute(m) /\ ~Record(m)
    BY <1>3 DEF Step, Run, ReadApplied, Skip, ReadFile, CheckTable, Return, Fail
  <1> QED
    BY <1>1, <1>2, <1>3

LEMMA MigratorSound ==
    ASSUME MigrateInv, NEW m \in Migrators, Run(m) \/ Step(m) \/ Fail(m)
    PROVE  RemovalInv' /\ RecordedInOrder' /\ RecordedHasTables' /\ UndoLeavesNothing'
  <1> USE DEF MigrateInv
  <1>1. /\ alone' = alone /\ disk' = disk /\ Kept' = Kept /\ rpc' = rpc
        /\ schema \subseteq schema' /\ recorded \subseteq recorded'
    BY MigratorFrame DEF MigratorMoves, Kept, remover
  <1>2. /\ schema' = schema \/ (todo[m] # {} /\ \E o \in ObjectsOf(File(m)) :
                                  schema' = schema \cup {o})
        /\ \/ recorded' = recorded
           \/ /\ pc[m] = "record" /\ todo[m] # {} /\ schema' = schema
              /\ recorded' = recorded \cup {File(m)}
    BY MigratorWrites
  <1>3. rpc = "idle"
    <2>1. Run(m) => (alone => rpc = "idle")
      BY DEF Run
    <2>2. Step(m) \/ Fail(m) => pc[m] \notin Idle
      BY DEF Idle, Step, ReadApplied, Skip, ReadFile, CheckTable, Execute, Record, Return, Fail
    <2> QED
      BY <2>1, <2>2 DEF RemovalInv
  <1>4. todo[m] # {} => /\ File(m) \in Files /\ File(m) \in todo[m]
                        /\ \A g \in todo[m] : File(m) <= g
                        /\ alone => File(m) \in disk
    BY CurrentFile DEF WorkInv
  <1>5. RemovalInv'
    BY <1>1, <1>3 DEF RemovalInv
  <1>6. RecordedInOrder'
    <2>1. SUFFICES ASSUME NEW f \in recorded', NEW g \in disk \cap Kept, g < f
                   PROVE  g \in recorded'
      BY <1>1 DEF RecordedInOrder
    <2>2. CASE f \in recorded
      BY <1>1, <2>1, <2>2 DEF RecordedInOrder
    <2>3. CASE f \notin recorded
      <3>1. f = File(m) /\ pc[m] = "record" /\ todo[m] # {}
        BY <1>2, <2>1, <2>3
      <3>2. f \in Nat /\ g \in Nat
        BY <1>4, <3>1, MigrateAssumption DEF MigrateTypes
      <3>3. g \notin todo[m]
        BY <1>4, <2>1, <3>1, <3>2
      <3>4. g \in recorded
        BY <3>1, <3>3 DEF WorkInv, Idle
      <3> QED
        BY <1>1, <3>4
    <2> QED
      BY <2>2, <2>3
  <1>7. RecordedHasTables'
    <2>1. SUFFICES ASSUME NEW f \in recorded' \cap Kept, NEW o \in ObjectsOf(f),
                          Kind[o] = "table" \/ Tables(f) = {}
                   PROVE  o \in schema'
      BY <1>1 DEF RecordedHasTables
    <2>2. CASE f \in recorded
      BY <1>1, <2>1, <2>2 DEF RecordedHasTables
    <2>3. CASE f \notin recorded
      <3>1. f = File(m) /\ pc[m] = "record"
        BY <1>2, <2>1, <2>3
      <3>2. HasTables(f)
        BY <3>1 DEF WorkInv
      <3> QED
        BY <1>1, <2>1, <3>2 DEF HasTables
    <2> QED
      BY <2>2, <2>3
  <1>8. UndoLeavesNothing'
    <2>1. SUFFICES ASSUME alone, NEW f \in Undoable \ disk
                   PROVE  f \notin recorded' /\ ObjectsOf(f) \cap schema' = {}
      BY <1>1 DEF UndoLeavesNothing
    <2>2. f \notin recorded /\ ObjectsOf(f) \cap schema = {}
      BY <2>1 DEF UndoLeavesNothing
    <2>3. todo[m] # {} => File(m) # f /\ File(m) \in Files
      BY <1>4, <2>1
    <2>4. f \notin recorded'
      BY <1>2, <2>2, <2>3
    <2>5. todo[m] # {} => ObjectsOf(f) \cap ObjectsOf(File(m)) = {}
      BY <2>1, <2>3, UndoableAssumption
    <2> QED
      BY <1>2, <2>2, <2>4, <2>5
  <1> QED
    BY <1>5, <1>6, <1>7, <1>8

(* A step of removemigration, or of somebody who removes a file, leaves    *)
(* every migrator where it is.                                             *)
LEMMA RemoverKeepsWork ==
    ASSUME MigrateInv, alone' = alone, UNCHANGED migrator, disk' \subseteq disk,
           recorded \cap Kept \subseteq recorded',
           \/ schema' = schema
           \/ \A n \in Migrators : pc[n] \in Idle,
           disk' = disk \/ (alone => \A n \in Migrators : pc[n] \in Idle)
    PROVE  \A n \in Migrators : WorkInv(n)'
  <1> TAKE n \in Migrators
  <1> USE DEF MigrateInv, migrator
  <1>1. alone => todo[n] \subseteq disk'
    BY DEF WorkInv
  <1>2. pc[n] \notin Idle => schema \subseteq schema'
    OBVIOUS
  <1> QED
    BY <1>1, <1>2, BystanderWorks

(* The steps of a removal.                                                 *)
LEMMA RemovalSound ==
    ASSUME MigrateInv, Removal \/ FailRemoval
    PROVE  MigrateInv'
  <1> USE DEF MigrateInv, MigrateTypes, database, migrator
  <1>1. /\ alone /\ alone' = alone /\ Kept' = Kept /\ UNCHANGED migrator
        /\ rfile \in Undoable /\ rfile \in Files /\ rfile \notin Kept
        /\ \A n \in Migrators : pc[n] \in Idle
    <2>1. rpc # "idle" /\ alone' = alone /\ UNCHANGED migrator
      BY DEF Removal, Undo, Unrecord, RemoveLast, FailRemoval
    <2> QED
      BY <2>1, MigrateAssumption DEF RemovalInv, Kept
  <1>2. DOMAIN Up[rfile] = 1..Len(Up[rfile]) /\ Len(Up[rfile]) \in Nat
    BY <1>1, FileFacts
  <1>3. CASE Undo
    <2> DEFINE o == Up[rfile][rpos]
    <2>1. /\ rpc = "down" /\ rpos \in 1..Len(Up[rfile]) /\ recorded' = recorded /\ disk' = disk
          /\ faults' = faults /\ o \in ObjectsOf(rfile)
      BY <1>1, <1>2, <1>3, FileFacts DEF Undo
    <2>2. schema' = schema \/ schema' = (schema \ {o}) \ Children(o)
      BY <1>3 DEF Undo
    <2>3. MigrateTypes'
      <3>1. \/ rpc' \in {"idle", "unrecord"}
            \/ rpc' = "down" /\ rfile' = rfile /\ rpos' \in 1..Len(Up[rfile])
        <4>1. CASE rpos = 1
          BY <1>3, <4>1 DEF Undo, RemoverEnds
        <4>2. CASE rpos # 1
          <5>1. rpos - 1 \in 1..Len(Up[rfile])
            BY <1>2, <2>1, <4>2
          <5> QED
            BY <1>3, <4>2, <5>1 DEF Undo, RemoverEnds
        <4> QED
          BY <4>1, <4>2
      <3>2. rpc' # "idle" => rfile' = rfile
        BY <1>3 DEF Undo, RemoverEnds
      <3>3. /\ rpc' \in {"idle", "down", "unrecord", "remove"}
            /\ rpc' # "idle" => rfile' \in Files
            /\ rpc' = "down" => rpos' \in DOMAIN Up[rfile']
        BY <1>1, <1>2, <3>1, <3>2
      <3> QED
        BY <1>1, <2>1, <2>2, <3>3
    <2>4. \A n \in Migrators : WorkInv(n)'
      BY <1>1, <2>1, RemoverKeepsWork
    <2>5. RecordedInOrder'
      BY <1>1, <2>1 DEF RecordedInOrder
    <2>6. RecordedHasTables'
      <3>1. SUFFICES ASSUME NEW f \in recorded \cap Kept, NEW x \in ObjectsOf(f), x \in schema
                     PROVE  x \in schema'
        BY <1>1, <2>1 DEF RecordedHasTables
      <3>2. f \in Files \ {rfile} /\ f \notin Undoable
        BY <1>1 DEF Kept
      <3>3. x # o /\ x \notin Children(o)
        BY <1>1, <2>1, <3>2, UndoableAssumption
      <3> QED
        BY <2>2, <3>1, <3>3
    <2>7. UndoLeavesNothing'
      BY <1>1, <2>1, <2>2 DEF UndoLeavesNothing
    <2>8. RemovalInv'
      <3>1. CASE rpc' = "idle"
        BY <3>1 DEF RemovalInv
      <3>2. CASE rpc' # "idle"
        <4>1. /\ schema' = (schema \ {o}) \ Children(o) /\ rpos' = rpos - 1 /\ rfile' = rfile
              /\ rpc' = IF rpos = 1 THEN "unrecord" ELSE "down"
          BY <1>3, <3>2 DEF Undo, RemoverEnds
        <4>2. \A i \in DOMAIN Up[rfile] : i > rpos - 1 => i = rpos \/ i > rpos
          BY <1>2, <2>1
        <4>3. \A i \in DOMAIN Up[rfile] : i > rpos - 1 => Up[rfile][i] \notin schema'
          BY <2>1, <4>1, <4>2 DEF RemovalInv
        <4>4. CASE rpos = 1
          <5>1. \A i \in DOMAIN Up[rfile] : i > rpos - 1
            BY <1>2, <4>4
          <5>2. ObjectsOf(rfile) \cap schema' = {}
            BY <4>3, <5>1 DEF ObjectsOf
          <5> QED
            BY <1>1, <4>1, <4>4, <5>2 DEF RemovalInv
        <4>5. CASE rpos # 1
          BY <1>1, <4>1, <4>3, <4>5 DEF RemovalInv
        <4> QED
          BY <4>4, <4>5
      <3> QED
        BY <3>1, <3>2
    <2> QED
      BY <2>3, <2>4, <2>5, <2>6, <2>7, <2>8
  <1>4. CASE Unrecord
    <2>1. /\ rpc = "unrecord" /\ rpc' = "remove" /\ recorded' = recorded \ {rfile}
          /\ schema' = schema /\ disk' = disk /\ rfile' = rfile /\ faults' = faults
      BY <1>4 DEF Unrecord
    <2>2. MigrateTypes'
      BY <1>1, <2>1
    <2>3. \A n \in Migrators : WorkInv(n)'
      BY <1>1, <2>1, RemoverKeepsWork
    <2>4. RecordedInOrder' /\ RecordedHasTables'
      BY <1>1, <2>1 DEF RecordedInOrder, RecordedHasTables
    <2>5. UndoLeavesNothing'
      BY <1>1, <2>1 DEF UndoLeavesNothing
    <2>6. RemovalInv'
      BY <1>1, <2>1 DEF RemovalInv
    <2> QED
      BY <2>2, <2>3, <2>4, <2>5, <2>6
  <1>5. CASE RemoveLast
    <2>1. /\ rpc = "remove" /\ rpc' = "idle" /\ recorded' = recorded
          /\ schema' = schema /\ disk' = disk \ {rfile} /\ faults' = faults
      BY <1>5 DEF RemoveLast, RemoverEnds
    <2>2. MigrateTypes'
      BY <1>1, <2>1
    <2>3. \A n \in Migrators : WorkInv(n)'
      BY <1>1, <2>1, RemoverKeepsWork
    <2>4. RecordedInOrder' /\ RecordedHasTables'
      BY <1>1, <2>1 DEF RecordedInOrder, RecordedHasTables
    <2>5. UndoLeavesNothing'
      BY <1>1, <2>1 DEF UndoLeavesNothing, RemovalInv
    <2>6. RemovalInv'
      BY <2>1 DEF RemovalInv
    <2> QED
      BY <2>2, <2>3, <2>4, <2>5, <2>6
  <1>6. CASE FailRemoval
    <2>1. /\ rpc' = "idle" /\ recorded' = recorded /\ schema' = schema /\ disk' = disk
          /\ faults < MaxFaults /\ faults' = faults + 1
      BY <1>6 DEF FailRemoval, RemoverEnds
    <2>2. MigrateTypes'
      BY <1>1, <2>1, MigrateAssumption
    <2>3. \A n \in Migrators : WorkInv(n)'
      BY <1>1, <2>1, RemoverKeepsWork
    <2>4. RecordedInOrder' /\ RecordedHasTables' /\ UndoLeavesNothing' /\ RemovalInv'
      BY <1>1, <2>1 DEF RecordedInOrder, RecordedHasTables, UndoLeavesNothing, RemovalInv
    <2> QED
      BY <2>2, <2>3, <2>4
  <1> QED
    BY <1>3, <1>4, <1>5, <1>6 DEF Removal

(* A file is taken from the directory, or a removal begins.                *)
LEMMA RemovalBegins ==
    ASSUME MigrateInv, NEW f \in Files, RemoveFromDisk(f) \/ RemoveAll(f)
    PROVE  MigrateInv'
  <1> USE DEF MigrateInv, MigrateTypes, database, migrator, remover
  <1>1. /\ alone' = alone /\ Kept' = Kept /\ UNCHANGED <<schema, recorded, faults, migrator>>
        /\ rpc = "idle" /\ (alone => \A n \in Migrators : pc[n] \in Idle) /\ disk' \subseteq disk
    BY DEF RemoveFromDisk, RemoveAll, MayRemove, Kept
  <1>2. \A n \in Migrators : WorkInv(n)'
    BY <1>1, RemoverKeepsWork
  <1>3. RecordedInOrder' /\ RecordedHasTables'
    BY <1>1 DEF RecordedInOrder, RecordedHasTables
  <1>4. CASE RemoveFromDisk(f)
    <2>1. disk' = disk \ {f} /\ f \notin Undoable /\ rpc' = "idle"
      BY <1>1, <1>4, MigrateAssumption DEF RemoveFromDisk
    <2>2. UndoLeavesNothing'
      BY <1>1, <2>1 DEF UndoLeavesNothing
    <2>3. MigrateTypes' /\ RemovalInv'
      BY <1>1, <2>1 DEF RemovalInv
    <2> QED
      BY <1>2, <1>3, <2>2, <2>3
  <1>5. CASE RemoveAll(f)
    <2>1. /\ disk' = disk /\ f \in Undoable /\ alone
          /\ rpc' = "down" /\ rfile' = f /\ rpos' = Len(Up[f])
      BY <1>5 DEF RemoveAll
    <2>2. DOMAIN Up[f] = 1..Len(Up[f]) /\ Len(Up[f]) \in Nat /\ Len(Up[f]) # 0
      BY <2>1, FileFacts, MigrateAssumption
    <2>3. Len(Up[f]) \in DOMAIN Up[f] /\ \A i \in DOMAIN Up[f] : ~(i > Len(Up[f]))
      BY <2>2
    <2>4. MigrateTypes'
      BY <1>1, <2>1, <2>3
    <2>5. RemovalInv'
      BY <1>1, <2>1, <2>3 DEF RemovalInv
    <2>6. UndoLeavesNothing'
      BY <1>1, <2>1 DEF UndoLeavesNothing
    <2> QED
      BY <1>2, <1>3, <2>4, <2>5, <2>6
  <1> QED
    BY <1>4, <1>5

(* Every step keeps the invariant.                                         *)
LEMMA MigrateInvNext == MigrateInv /\ [Next]_vars => MigrateInv'
  <1> SUFFICES ASSUME MigrateInv, [Next]_vars PROVE MigrateInv'
    OBVIOUS
  <1>1. CASE \E m \in Migrators : Run(m) \/ Step(m) \/ Fail(m)
    <2>1. PICK m \in Migrators : Run(m) \/ Step(m) \/ Fail(m)
      BY <1>1
    <2>2. MigratorMoves(m)
      BY <2>1, MigratorFrame
    <2>3. RemovalInv' /\ RecordedInOrder' /\ RecordedHasTables' /\ UndoLeavesNothing'
      BY <2>1, MigratorSound
    <2>4. WorkInv(m)'
      BY <2>1, MigratorWorks
    <2>5. ASSUME NEW n \in Migrators \ {m} PROVE WorkInv(n)'
      BY <2>2, BystanderWorks DEF MigratorMoves, MigrateInv, WorkInv
    <2> QED
      BY <2>2, <2>3, <2>4, <2>5 DEF MigratorMoves, MigrateInv
  <1>2. CASE \E f \in Files : RemoveFromDisk(f) \/ RemoveAll(f)
    BY <1>2, RemovalBegins
  <1>3. CASE Removal \/ FailRemoval
    BY <1>3, RemovalSound
  <1>4. CASE UNCHANGED vars
    <2> USE <1>4 DEF MigrateInv, vars, database, migrator, remover
    <2>1. \A n \in Migrators : WorkInv(n)'
      BY BystanderWorks DEF WorkInv
    <2> QED
      BY <2>1 DEF MigrateTypes, RemovalInv, RecordedInOrder, RecordedHasTables,
                  UndoLeavesNothing, Kept, Idle
  <1> QED
    BY <1>1, <1>2, <1>3, <1>4 DEF Next

(* Whoever migrates, dies, resumes or removes, no file is recorded before  *)
(* an earlier one that is still there, nor before its tables exist: for    *)
(* any number of processes, files, statements and failures                 *)
(* (migrate.go:17-129, removemigration.go:15-92).                         *)
THEOREM RecordIsSound == Spec => []RecordSound
  <1>1. MigrateInv => RecordSound
    <2> SUFFICES ASSUME MigrateInv PROVE RecordSound
      OBVIOUS
    <2>1. \A m \in Migrators : AtWork(m)
      BY DEF MigrateInv, WorkInv
    <2> QED
      BY <2>1 DEF MigrateInv, MigrateTypes, RecordSound, TypeOK, AtWork
  <1> QED
    BY <1>1, MigrateInvInit, MigrateInvNext, PTL DEF Spec

(* With one command at a time, a file that removemigration all has taken   *)
(* off the disk has left neither a record nor an object in the database,   *)
(* however many earlier attempts died half way.                            *)
THEOREM UndoneLeavesNothing == Spec => []UndoLeavesNothing
  <1>1. MigrateInv => UndoLeavesNothing
    BY DEF MigrateInv
  <1> QED
    BY <1>1, MigrateInvInit, MigrateInvNext, PTL DEF Spec

-----------------------------------------------------------------------------
(* The server.  What Init has made so far, how far the goroutine of the    *)
(* signal has come, and what is known of each mail.                        *)

ServerTypes ==
    /\ settings \in Settings
    /\ stage \in {"env", "database", "cache", "queue", "mail", "apps", "ready"}
    /\ parts \in [database : {"none", "configured", "fallback"},
                  cache : {"none", "memory", "redis", "closed"},
                  queue : {"none", "memory", "redis"},
                  mail : {"none", "direct", "queued"}, admin : BOOLEAN]
    /\ main \in {"init", "listen", "serving", "served", "exited", "failed"}
    /\ quit \in {"none", "waiting", "draining", "closeQueue", "queueClosing", "closeCache", "done"}
    /\ listener \in {"new", "open", "shut"} /\ signals \in {0, 1}
    /\ request \in [Mails -> {"none", "running", "sending", "ok", "error"}]
    /\ fate \in [Mails -> {"none", "aged", "lost", "elsewhere"}]
    /\ delivered \in [Mails -> 0..Tries]
    /\ mail \in [Mails -> Ledger!Phases]
    /\ runs \in [Mails -> 0..Tries]
    /\ accepting \in BOOLEAN /\ over \in BOOLEAN

BootInv ==
    /\ main \notin {"init", "failed"} => stage = "ready"
    /\ main = "init" => quit = "none"
    /\ stage # "env" => SecretsGood
    /\ parts.database = "fallback" => settings.debug
    /\ parts.admin => stage = "ready" /\ parts.database # "none"
    /\ parts.mail # "none" => stage \in {"apps", "ready"}
    /\ parts.mail = "queued" => parts.queue # "none"

(* The cleanup comes to the cache when the queue is over: nothing waits    *)
(* untaken in memory then, and nothing is accepted after.                  *)
EndInv ==
    /\ quit \in {"closeCache", "done"} => parts.queue = "none" \/ over
    /\ over => ~accepting /\ quit \in {"closeCache", "done"}
    /\ over /\ parts.queue = "memory" => Untaken = {}
    /\ main = "exited" => quit = "done"

(* A mail leaves at most once in a run, a request is told "ok" of one that *)
(* the queue has or that has left, and one that has ended has been tried,  *)
(* was too old, or was lost to the list in Redis.                          *)
MailInv(t) ==
    /\ main = "init" => request[t] = "none" /\ mail[t] = "offered"
    /\ mail[t] \in {"pending", "running", "ended"} => parts.mail = "queued"
    /\ request[t] = "sending" => parts.mail = "queued"
    /\ mail[t] = "running" => runs[t] > 0
    /\ mail[t] = "ended" => \/ runs[t] > 0
                            \/ fate[t] = "aged"
                            \/ parts.queue = "redis" /\ fate[t] \in {"elsewhere", "lost"}
    /\ request[t] = "ok" => mail[t] \in {"pending", "running", "ended"} \/ delivered[t] > 0
    /\ delivered[t] <= 1 \/ delivered[t] <= runs[t]
    /\ parts.mail = "queued" => /\ delivered[t] <= runs[t]
                                /\ mail[t] = "running" => delivered[t] < runs[t]
    /\ parts.mail # "queued" => /\ runs[t] = 0
                                /\ request[t] \in {"none", "running"} => delivered[t] = 0

ServerInv == ServerTypes /\ BootInv /\ EndInv /\ \A t \in Mails : MailInv(t)

LEMMA ServerInvInit == ServerInit => ServerInv
  <1> SUFFICES ASSUME ServerInit PROVE ServerInv
    OBVIOUS
  <1> USE ServerAssumption DEF ServerInit, Ledger!LedgerInit
  <1>1. ServerTypes
    <2>1. 0 \in 0..Tries
      OBVIOUS
    <2> QED
      BY <2>1 DEF ServerTypes, Ledger!Phases
  <1>2. BootInv /\ EndInv
    BY DEF BootInv, EndInv
  <1>3. ASSUME NEW t \in Mails PROVE MailInv(t)
    BY DEF MailInv
  <1> QED
    BY <1>1, <1>2, <1>3 DEF ServerInv

(* A step that is not about mails leaves what is known of each.            *)
LEMMA MailKept ==
    ASSUME NEW t \in Mails, MailInv(t), UNCHANGED <<request, delivered, mail, runs, fate>>,
           parts'.mail = parts.mail, main' = "init" => main = "init",
           parts'.queue = parts.queue \/ main = "init"
    PROVE  MailInv(t)'
  BY DEF MailInv

(* Init, one part at a time.                                               *)
LEMMA BootingSound ==
    ASSUME ServerInv, Booting
    PROVE  ServerInv'
  <1> USE DEF ServerInv, ServerTypes, OnlyParts, Advance, Fails, ends, queueState
  <1>1. /\ main = "init" /\ quit = "none" /\ ~over
        /\ UNCHANGED <<settings, quit, signals, listener, request, delivered, queueState, fate>>
        /\ main' \in {"init", "failed"} /\ stage # "ready"
    BY DEF Booting, LoadEnv, BadEnv, OpenDatabases, BadDatabase, OpenCache, OpenQueue, OpenMail,
           MountAdmin, BootInv, EndInv
  <1>2. EndInv'
    BY <1>1 DEF EndInv
  <1>3. CASE LoadEnv
    <2>1. parts' = parts /\ main' = main /\ stage = "env" /\ stage' = "database" /\ SecretsGood'
      BY <1>1, <1>3 DEF LoadEnv, SecretsGood
    <2>2. ServerTypes' /\ BootInv'
      BY <1>1, <2>1 DEF BootInv
    <2> QED
      BY <1>1, <1>2, <2>1, <2>2, MailKept
  <1>4. CASE BadEnv \/ BadDatabase
    <2>1. parts' = parts /\ main' = "failed" /\ stage' = stage
      BY <1>4 DEF BadEnv, BadDatabase
    <2>2. ServerTypes' /\ BootInv'
      BY <1>1, <2>1 DEF BootInv, SecretsGood
    <2> QED
      BY <1>1, <1>2, <2>1, <2>2, MailKept
  <1>5. CASE OpenDatabases
    <2>1. PICK db \in {"none", "configured", "fallback"} :
             (db = "fallback" => settings.debug) /\ parts' = [parts EXCEPT !.database = db]
      BY <1>5 DEF OpenDatabases
    <2>2. main' = main /\ stage = "database" /\ stage' = "cache"
      BY <1>5 DEF OpenDatabases
    <2>3. ServerTypes' /\ BootInv' /\ parts'.mail = parts.mail
      BY <1>1, <2>1, <2>2 DEF BootInv, SecretsGood
    <2> QED
      BY <1>1, <1>2, <2>2, <2>3, MailKept
  <1>6. CASE OpenCache
    <2>1. PICK b \in {"none", "redis", "memory"} : parts' = [parts EXCEPT !.cache = b]
      BY <1>6 DEF OpenCache, Backends
    <2>2. main' = main /\ stage = "cache" /\ stage' = "queue"
      BY <1>6 DEF OpenCache
    <2>3. ServerTypes' /\ BootInv' /\ parts'.mail = parts.mail
      BY <1>1, <2>1, <2>2 DEF BootInv, SecretsGood
    <2> QED
      BY <1>1, <1>2, <2>2, <2>3, MailKept
  <1>7. CASE OpenQueue
    <2>1. PICK b \in {"none", "redis", "memory"} : parts' = [parts EXCEPT !.queue = b]
      BY <1>7 DEF OpenQueue, Backends
    <2>2. main' = main /\ stage = "queue" /\ stage' = "mail"
      BY <1>7 DEF OpenQueue
    <2>3. ServerTypes' /\ BootInv' /\ parts'.mail = parts.mail
      BY <1>1, <2>1, <2>2 DEF BootInv, SecretsGood
    <2> QED
      BY <1>1, <1>2, <2>2, <2>3, MailKept
  <1>8. CASE OpenMail
    <2>1. PICK m \in {"none", "direct", "queued"} :
             (m = "queued" => parts.queue # "none") /\ parts' = [parts EXCEPT !.mail = m]
      BY <1>8 DEF OpenMail
    <2>2. main' = main /\ stage = "mail" /\ stage' = "apps" /\ parts.mail = "none"
      BY <1>8 DEF OpenMail, BootInv
    <2>3. ServerTypes' /\ BootInv'
      BY <1>1, <2>1, <2>2 DEF BootInv, SecretsGood
    <2>4. ASSUME NEW t \in Mails PROVE MailInv(t)'
      <3>1. /\ request[t] = "none" /\ delivered[t] = 0 /\ runs[t] = 0
            /\ mail[t] \notin {"pending", "running", "ended"}
        BY <1>1, <2>2 DEF MailInv
      <3> QED
        BY <1>1, <3>1 DEF MailInv
    <2> QED
      BY <1>2, <2>3, <2>4
  <1>9. CASE MountAdmin
    <2>1. parts' = [parts EXCEPT !.admin = settings.admin /\ parts.database # "none"]
      BY <1>9 DEF MountAdmin
    <2>2. main' = main /\ stage = "apps" /\ stage' = "ready"
      BY <1>9 DEF MountAdmin
    <2>3. ServerTypes' /\ BootInv' /\ parts'.mail = parts.mail
      BY <1>1, <2>1, <2>2 DEF BootInv, SecretsGood
    <2> QED
      BY <1>1, <1>2, <2>2, <2>3, MailKept
  <1> QED
    BY <1>3, <1>4, <1>5, <1>6, <1>7, <1>8, <1>9 DEF Booting

(* The goroutine that serves and the one that waits for the signal.        *)
LEMMA RunSound ==
    ASSUME ServerInv,
           Notify \/ Listen \/ ListenFails \/ ServeReturns \/ Exit \/ Signal
             \/ TakeSignal \/ RequestsOver
    PROVE  ServerInv'
  <1> USE DEF ServerInv, ServerTypes, OnlyEnds, ends, queueState, Running, CleanupDone
  <1>1. /\ UNCHANGED <<settings, stage, parts, request, delivered, queueState, fate>>
        /\ main' \in {"listen", "serving", "served", "exited", "failed"} \/ main' = main
        /\ main' # main /\ main' # "failed" => stage = "ready" /\ main' # "init"
        /\ main' = "init" => main = "init" /\ quit' = quit
        /\ quit' = quit \/ quit' \in {"waiting", "draining", "closeQueue"}
        /\ quit' # quit => quit \in {"none", "waiting", "draining"} /\ main' # "exited"
        /\ main' = "exited" => main = "exited" \/ quit = "done"
        /\ signals' \in {0, 1} /\ listener' \in {"new", "open", "shut"}
    <2>1. CASE Notify \/ Listen \/ ListenFails \/ ServeReturns \/ Exit
      BY <2>1 DEF Notify, Listen, ListenFails, ServeReturns, Exit, BootInv
    <2>2. CASE Signal \/ TakeSignal
      BY <2>2 DEF Signal, TakeSignal, BootInv
    <2>3. CASE RequestsOver
      BY <2>3 DEF RequestsOver, AfterShutdown, BootInv
    <2> QED
      BY <2>1, <2>2, <2>3
  <1>2. ServerTypes'
    BY <1>1
  <1>3. BootInv'
    BY <1>1 DEF BootInv, SecretsGood
  <1>4. EndInv'
    BY <1>1 DEF EndInv, Untaken
  <1>5. \A t \in Mails : MailInv(t)'
    BY <1>1, MailKept
  <1> QED
    BY <1>2, <1>3, <1>4, <1>5

(* The cleanup.                                                            *)
LEMMA CleanupSound ==
    ASSUME ServerInv, CloseQueue \/ QueueClosed \/ CloseCache
    PROVE  ServerInv'
  <1> USE DEF ServerInv, ServerTypes, OnlyQueue, ends, queueState, Running,
              Ledger!Stop, Ledger!BeOver
  <1>1. /\ UNCHANGED <<settings, stage, main, signals, listener>>
        /\ UNCHANGED <<request, delivered, mail, runs, fate>>
        /\ main \notin {"init", "exited"} /\ quit' # "none"
        /\ parts'.mail = parts.mail /\ parts'.queue = parts.queue
        /\ parts'.database = parts.database /\ parts'.admin = parts.admin
    BY DEF CloseQueue, QueueClosed, CloseCache, BootInv
  <1>2. BootInv'
    BY <1>1 DEF BootInv, SecretsGood
  <1>3. \A t \in Mails : MailInv(t)'
    BY <1>1, MailKept
  <1>4. CASE CloseQueue
    <2>1. /\ over' = over /\ ~over /\ parts' = parts /\ accepting' \in BOOLEAN
          /\ quit' = "queueClosing" \/ (quit' = "closeCache" /\ parts.queue = "none")
      BY <1>4 DEF CloseQueue, EndInv
    <2>2. ServerTypes' /\ EndInv'
      BY <1>1, <2>1 DEF EndInv
    <2> QED
      BY <1>2, <1>3, <2>2
  <1>5. CASE QueueClosed
    <2>1. /\ over' = TRUE /\ parts' = parts /\ ~accepting /\ accepting' = accepting
          /\ quit' = "closeCache" /\ (parts.queue = "memory" => Untaken = {})
      BY <1>5 DEF QueueClosed
    <2>2. ServerTypes' /\ EndInv'
      BY <1>1, <2>1 DEF EndInv, Untaken
    <2> QED
      BY <1>2, <1>3, <2>2
  <1>6. CASE CloseCache
    <2>1. /\ UNCHANGED queueState /\ quit = "closeCache" /\ quit' = "done"
          /\ parts' = [parts EXCEPT !.cache = IF @ = "none" THEN @ ELSE "closed"]
      BY <1>6 DEF CloseCache
    <2>2. ServerTypes' /\ EndInv'
      BY <1>1, <2>1 DEF EndInv, Untaken
    <2> QED
      BY <1>2, <1>3, <2>2
  <1> QED
    BY <1>4, <1>5, <1>6

(* A mail goes its way: what its steps do to it, and that they leave the   *)
(* other mails alone.                                                      *)
MailMoves(t) ==
    /\ UNCHANGED <<settings, stage, parts, ends, accepting, over>> /\ main # "init"
    /\ request' \in [Mails -> {"none", "running", "sending", "ok", "error"}]
    /\ fate' \in [Mails -> {"none", "aged", "lost", "elsewhere"}]
    /\ delivered' \in [Mails -> 0..Tries]
    /\ mail' \in [Mails -> Ledger!Phases]
    /\ runs' \in [Mails -> 0..Tries]
    /\ MailInv(t)'
    /\ over => ~(mail'[t] = "pending" /\ runs'[t] = 0 /\ ~(mail[t] = "pending" /\ runs[t] = 0))
    /\ \A u \in Mails \ {t} : /\ request'[u] = request[u] /\ delivered'[u] = delivered[u]
                              /\ mail'[u] = mail[u] /\ runs'[u] = runs[u] /\ fate'[u] = fate[u]

LEMMA MailStep ==
    ASSUME ServerInv, NEW t \in Mails, Arrive(t) \/ Mailing(t)
    PROVE  MailMoves(t)
  <1> USE DEF ServerInv, ServerTypes, OnlyMail, ends, queueState, Running, Ledger!Phases,
              Ledger!Move
  <1>1. MailInv(t) /\ runs[t] \in 0..Tries /\ delivered[t] \in 0..Tries /\ Tries \in Nat \ {0}
    BY ServerAssumption
  <1>2. CASE Arrive(t)
    BY <1>1, <1>2 DEF Arrive, MailMoves, MailInv
  <1>3. CASE LookAtQueue(t) \/ SendQueued(t)
    <2>1. CASE LookAtQueue(t)
      BY <1>1, <2>1 DEF LookAtQueue, Ledger!Refuse, Moves, MailMoves, MailInv, BootInv, EndInv
    <2>2. CASE SendQueued(t)
      <3>1. /\ \E to \in {"ok", "error"} : Moves(t, "sending", to)
            /\ UNCHANGED <<settings, stage, parts, ends, accepting, over, delivered, runs, fate>>
            /\ parts.mail = "queued" /\ main # "init"
        BY <1>1, <2>2 DEF SendQueued, Moves, Push, Ledger!Accept, Ledger!Refuse, MailInv
      <3>2. \/ Ledger!Move(t, "offered", "pending") /\ ~over
            \/ Ledger!Move(t, "offered", "refused") /\ Moves(t, "sending", "error")
        BY <2>2 DEF SendQueued, Push, Ledger!Accept, Ledger!Refuse, EndInv
      <3>3. CASE Ledger!Move(t, "offered", "pending") /\ ~over
        BY <1>1, <3>1, <3>3 DEF Moves, MailMoves, MailInv
      <3>4. CASE Ledger!Move(t, "offered", "refused") /\ Moves(t, "sending", "error")
        BY <1>1, <3>1, <3>4 DEF Moves, MailMoves, MailInv
      <3> QED
        BY <3>2, <3>3, <3>4
    <2> QED
      BY <1>3, <2>1, <2>2
  <1>4. CASE SendDirect(t)
    <2>1. delivered[t] = 0 /\ delivered[t] + 1 = 1 /\ 1 \in 0..Tries
      BY <1>1, <1>4 DEF SendDirect, Moves, MailInv
    <2>2. CASE Moves(t, "running", "ok") /\ delivered' = [delivered EXCEPT ![t] = @ + 1]
      BY <1>1, <1>4, <2>1, <2>2 DEF SendDirect, Moves, MailMoves, MailInv
    <2>3. CASE Moves(t, "running", "error") /\ UNCHANGED delivered
      BY <1>1, <1>4, <2>1, <2>3 DEF SendDirect, Moves, MailMoves, MailInv
    <2> QED
      BY <1>4, <2>2, <2>3 DEF SendDirect
  <1>5. CASE Work(t)
    <2>1. /\ UNCHANGED <<request, delivered, fate>> /\ mail[t] = "pending"
          /\ mail' = [mail EXCEPT ![t] = "running"] /\ runs' = [runs EXCEPT ![t] = @ + 1]
          /\ UNCHANGED <<settings, stage, parts, ends, accepting, over>> /\ runs[t] < Tries
      BY <1>5 DEF Work, Ledger!Run
    <2>2. runs[t] + 1 \in 0..Tries /\ runs[t] + 1 > 0 /\ delivered[t] <= runs[t]
          /\ delivered[t] < runs[t] + 1 /\ main # "init"
      BY <1>1, <2>1 DEF MailInv
    <2>3. MailInv(t)'
      BY <1>1, <2>1, <2>2 DEF MailInv
    <2> QED
      BY <1>1, <2>1, <2>2, <2>3 DEF MailMoves
  <1>6. ASSUME NEW to \in {"pending", "ended"}, Ledger!Move(t, "running", to),
               \/ delivered' = delivered
               \/ delivered' = [delivered EXCEPT ![t] = @ + 1],
               UNCHANGED <<settings, stage, parts, ends, accepting, over, request, runs, fate>>
        PROVE  MailMoves(t)
    <2>1. mail[t] = "running" /\ mail' = [mail EXCEPT ![t] = to]
      BY <1>6
    <2>2. delivered[t] < runs[t] /\ runs[t] > 0 /\ parts.mail = "queued" /\ main # "init"
      BY <1>1, <2>1 DEF MailInv
    <2>3. delivered'[t] <= runs[t] /\ delivered'[t] \in 0..Tries
      BY <1>1, <1>6, <2>2
    <2>4. delivered' \in [Mails -> 0..Tries]
      BY <1>6, <2>3
    <2>5. request[t] = "ok" => to \in {"pending", "running", "ended"}
      BY <1>6
    <2>6. MailInv(t)'
      BY <1>1, <1>6, <2>1, <2>2, <2>3, <2>5 DEF MailInv
    <2>7. mail' \in [Mails -> Ledger!Phases] /\ runs' = runs /\ runs'[t] # 0
      BY <1>1, <1>6, <2>1, <2>2
    <2>8. \A u \in Mails \ {t} : delivered'[u] = delivered[u] /\ mail'[u] = mail[u]
      BY <1>6, <2>1
    <2> HIDE DEF ends
    <2> QED
      BY <1>6, <2>2, <2>4, <2>6, <2>7, <2>8 DEF MailMoves
  <1>7. CASE Sent(t) \/ SendFails(t)
    <2>1. \E to \in {"pending", "ended"} : Ledger!Move(t, "running", to)
      BY <1>7 DEF Sent, SendFails, Ledger!End, Ledger!Again
    <2>2. /\ delivered' = delivered \/ delivered' = [delivered EXCEPT ![t] = @ + 1]
          /\ UNCHANGED <<settings, stage, parts, ends, accepting, over, request, runs, fate>>
      BY <1>7 DEF Sent, SendFails, Ledger!End, Ledger!Again
    <2> QED
      BY <1>6, <2>1, <2>2
  <1>8. CASE GiveUpMail(t)
    <2>1. /\ UNCHANGED <<settings, stage, parts, ends, accepting, over, request, runs, delivered>>
          /\ mail[t] = "pending" /\ mail' = [mail EXCEPT ![t] = "ended"]
      BY <1>8 DEF GiveUpMail, Ledger!End
    <2>2. \/ runs[t] > 0 /\ UNCHANGED fate
          \/ fate' = [fate EXCEPT ![t] = "aged"]
          \/ \E why \in {"elsewhere", "lost"} :
               parts.queue = "redis" /\ fate' = [fate EXCEPT ![t] = why]
      BY <1>8 DEF GiveUpMail
    <2>3. /\ fate' \in [Mails -> {"none", "aged", "lost", "elsewhere"}]
          /\ \A u \in Mails \ {t} : fate'[u] = fate[u]
      BY <2>2
    <2>4. \/ runs'[t] > 0 \/ fate'[t] = "aged"
          \/ parts'.queue = "redis" /\ fate'[t] \in {"elsewhere", "lost"}
      BY <2>1, <2>2
    <2>5. MailInv(t)' /\ main # "init"
      BY <1>1, <2>1, <2>4 DEF MailInv
    <2> QED
      BY <1>1, <2>1, <2>3, <2>5 DEF MailMoves
  <1> QED
    BY <1>2, <1>3, <1>4, <1>5, <1>6, <1>7, <1>8 DEF Mailing

LEMMA ServerInvNext == ServerInv /\ [ServerNext]_serverVars => ServerInv'
  <1> SUFFICES ASSUME ServerInv, [ServerNext]_serverVars PROVE ServerInv'
    OBVIOUS
  <1>1. CASE Booting
    BY <1>1, BootingSound
  <1>2. CASE Notify \/ Listen \/ ListenFails \/ ServeReturns \/ Exit \/ Signal
               \/ TakeSignal \/ RequestsOver
    BY <1>2, RunSound
  <1>3. CASE CloseQueue \/ QueueClosed \/ CloseCache
    BY <1>3, CleanupSound
  <1>4. CASE \E t \in Mails : Arrive(t) \/ Mailing(t)
    <2>1. PICK t \in Mails : MailMoves(t)
      BY <1>4, MailStep
    <2> USE <2>1 DEF MailMoves, ServerInv, ends
    <2>2. ServerTypes'
      BY DEF ServerTypes
    <2>3. BootInv'
      BY DEF BootInv, SecretsGood
    <2>4. EndInv'
      <3>1. over => Untaken' \subseteq Untaken
        BY DEF Untaken
      <3> QED
        BY <3>1 DEF EndInv
    <2>5. ASSUME NEW u \in Mails \ {t} PROVE MailInv(u)'
      <3>1. MailInv(u)
        OBVIOUS
      <3> QED
        BY <3>1 DEF MailInv
    <2> QED
      BY <2>2, <2>3, <2>4, <2>5
  <1>5. CASE UNCHANGED serverVars
    <2> USE <1>5 DEF serverVars, ends, queueState, ServerInv
    <2>1. ASSUME NEW t \in Mails PROVE MailInv(t)'
      BY MailKept
    <2> QED
      BY <2>1 DEF ServerTypes, BootInv, EndInv, SecretsGood, Untaken
  <1> QED
    BY <1>1, <1>2, <1>3, <1>4, <1>5 DEF ServerNext, Ending

(* Whatever Init finds and whenever the signal comes, nobody is served     *)
(* with the example secrets or, in production, from a database the         *)
(* framework made up, nor gets an admin without a database: for any number *)
(* of mails, tries and settings (bootstrap.go:98-282).                    *)
THEOREM ServesSoundly == ServerSpec => []ServerSound
  <1>1. ServerInv => ServerSound
    <2> SUFFICES ASSUME ServerInv PROVE ServerSound
      OBVIOUS
    <2> USE DEF ServerInv
    <2>1. ServerTypeOK
      BY DEF ServerTypes, ServerTypeOK
    <2>2. ServesOnlySound
      BY ServerAssumption DEF ServerTypes, BootInv, ServesOnlySound, SecretsGood
    <2> QED
      BY <2>1, <2>2 DEF ServerSound
  <1> QED
    BY <1>1, ServerInvInit, ServerInvNext, PTL DEF ServerSpec

(* When the process exits after a signal, every mail that a request was    *)
(* told is accepted has been tried, has left, was too old when a worker    *)
(* came to it or, with Redis only, waits in the list, is another replica's *)
(* or went with a lost reply, however the five seconds of Shutdown, the    *)
(* requests between Enqueue's look and its send, and the workers           *)
(* interleave (bootstrap.go:416-441, queue.go:222-258, queued.go:26-91).   *)
THEOREM NoMailForgotten == ServerSpec => []AcceptedMailIsTried
  <1>1. ServerInv => AcceptedMailIsTried
    <2> SUFFICES ASSUME ServerInv, main = "exited", NEW t \in Mails, request[t] = "ok"
                 PROVE  \/ runs[t] > 0 \/ delivered[t] > 0
                        \/ fate[t] = "aged"
                        \/ /\ parts.queue = "redis"
                           /\ mail[t] = "pending" \/ fate[t] \in {"elsewhere", "lost"}
      BY DEF AcceptedMailIsTried
    <2> USE DEF ServerInv
    <2>1. quit = "done" /\ (parts.queue = "none" \/ over) /\ runs[t] \in Nat /\ MailInv(t)
      BY ServerAssumption DEF EndInv, ServerTypes
    <2>2. CASE mail[t] = "pending"
      <3>1. parts.queue \in {"memory", "redis"}
        BY <2>1, <2>2 DEF MailInv, BootInv, ServerTypes
      <3>2. parts.queue = "memory" => runs[t] # 0
        BY <2>1, <2>2 DEF EndInv, Untaken
      <3> QED
        BY <2>1, <2>2, <3>1, <3>2
    <2>3. CASE mail[t] # "pending"
      BY <2>1, <2>3 DEF MailInv
    <2> QED
      BY <2>2, <2>3
  <1> QED
    BY <1>1, ServerInvInit, ServerInvNext, PTL DEF ServerSpec

-----------------------------------------------------------------------------
(* The Core.  A module has been stopped when the shutdown has passed its   *)
(* place in the list; what is known of it before and after, and what a     *)
(* module may hold at all.                                                 *)

Passed(i) ==
    \/ program.at = "stopped"
    \/ program.at \in {"stopping", "waiting"} /\ i > program.left

CoreTypes ==
    /\ active \in Seq(Modules) /\ Distinct(active)
    /\ Elements(active) \subseteq tried /\ tried \subseteq Modules
    /\ container \in [ContainerKeys -> Modules \cup {NoModule}]
    /\ \A k \in ContainerKeys : container[k] \in Elements(active) \cup {NoModule}
    /\ DOMAIN held = Modules
    /\ serve \in [Modules -> {"none", "launched", "serving", "ended"}]
    /\ calls \in [Modules -> {"none", "short", "stream"}]
    /\ late \subseteq stopping /\ stopping \subseteq Elements(active)
    /\ program \in [at : {"setup", "starting", "running", "stopping", "waiting", "stopped"},
                    left : Nat]
    /\ program.left <= Len(active)
    /\ program.at = "waiting" => program.left > 0 /\ Stopping \in stopping

HoldInv(m) ==
    /\ held[m] # {} => m \in Elements(active) \/ Is(m, {"sqlpostgres", "opentelemetry"})
    /\ calls[m] # "none" => serve[m] # "none"
    /\ serve[m] # "none" => Is(m, Servers)
    /\ "draining" \in held[m] => \E i \in 1..Len(active) : active[i] = m /\ Passed(i)

ListInv(i) ==
    /\ ~Passed(i) => Of(active[i]).kept \subseteq held[active[i]]
    /\ Passed(i) => /\ calls[active[i]] = "none" \/ active[i] \in late
                    /\ active[i] \in stopping \/ serve[active[i]] = "none"

CoreInv ==
    /\ CoreTypes
    /\ \A m \in Modules : HoldInv(m)
    /\ \A i \in 1..Len(active) : ListInv(i)

(* No adapter is draining before its Shutdown, a server keeps nothing      *)
(* before its Start, and only two leave something when Configure fails.    *)
LEMMA AdapterFacts ==
    ASSUME NEW m \in Modules
    PROVE  /\ "draining" \notin Of(m).kept
           /\ Is(m, Servers) => Of(m).kept = {}
           /\ \A x \in Of(m).failed : "draining" \notin x
           /\ ~Is(m, {"sqlpostgres", "opentelemetry"}) => Of(m).failed \subseteq {{}}
  <1>1. DOMAIN Adapters =
          {"sqlpostgres", "rabbitmq", "nats", "kafka", "opentelemetry", "cachememory", "s3", "ses",
           "smtp", "oauth2", "sendgrid", "soapclient", "prometheus", "restapi", "apigraphql",
           "apigrpc"}
    BY DEF Adapters
  <1> USE DEF Adapters, Adapter, Of, Is, Servers, HttpServers
  <1>2. CASE AdapterOf[m] = "nats"
    BY <1>2 DEF Nats
  <1>3. CASE AdapterOf[m] = "rabbitmq"
    BY <1>3 DEF RabbitMQ
  <1>4. CASE AdapterOf[m] = "sqlpostgres"
    BY <1>4 DEF SqlPostgres
  <1>5. CASE AdapterOf[m] = "opentelemetry"
    BY <1>5 DEF OpenTelemetry
  <1>6. CASE AdapterOf[m] = "cachememory"
    BY <1>6 DEF CacheMemory
  <1>7. CASE AdapterOf[m] \in {"kafka", "s3", "ses", "smtp"}
    BY <1>7 DEF Kafka, S3, Ses, Smtp, OnlyTried
  <1>8. CASE AdapterOf[m] \in {"oauth2", "sendgrid", "soapclient", "prometheus", "restapi",
                               "apigraphql", "apigrpc"}
    BY <1>8 DEF OAuth2, SendGrid, SoapClient, Prometheus, RestApi, ApiGraphQL, ApiGrpc,
                Connectionless
  <1> QED
    BY <1>1, <1>2, <1>3, <1>4, <1>5, <1>6, <1>7, <1>8, AdapterAssumption

LEMMA CoreInvInit == LifecycleInit => CoreInv
  <1> SUFFICES ASSUME LifecycleInit PROVE CoreInv
    OBVIOUS
  <1> USE DEF LifecycleInit
  <1>1. active \in Seq(Modules) /\ Len(active) = 0 /\ Distinct(active) /\ Elements(active) = {}
    BY DEF Distinct, Elements
  <1>2. CoreTypes
    BY <1>1 DEF CoreTypes
  <1>3. ASSUME NEW m \in Modules PROVE HoldInv(m)
    BY DEF HoldInv
  <1>4. \A i \in 1..Len(active) : ListInv(i)
    BY <1>1
  <1> QED
    BY <1>2, <1>3, <1>4 DEF CoreInv

LEMMA ListFacts ==
    ASSUME CoreTypes
    PROVE  /\ Len(active) \in Nat /\ program.left \in Nat /\ program.left <= Len(active)
           /\ \A i \in 1..Len(active) : active[i] \in Modules /\ active[i] \in Elements(active)
           /\ \A i, j \in 1..Len(active) : active[i] = active[j] => i = j
           /\ \A m \in Elements(active) : \E i \in 1..Len(active) : active[i] = m
  BY DEF CoreTypes, Distinct, Elements

(* A module is tried.                                                      *)
LEMMA TrySound ==
    ASSUME CoreInv, NEW m \in Modules,
           NotReady(m) \/ ConfigureFails(m) \/ Activate(m) \/ UseModule(m)
    PROVE  CoreInv'
  <1> USE DEF CoreInv
  <1>1. MayTry(m) /\ tried' = tried \cup {m} /\ m \notin Elements(active)
        /\ UNCHANGED <<serve, calls, stopping, late, program>>
    BY DEF NotReady, ConfigureFails, Activate, UseModule, Add, MayTry, CoreTypes
  <1>2. \A i : ~Passed(i) /\ ~Passed(i)'
    BY <1>1 DEF MayTry, Passed
  <1>3. \A n \in Modules : "draining" \notin held[n]
    BY <1>2 DEF HoldInv
  <1>4. CASE NotReady(m)
    <2>1. UNCHANGED <<active, container, held>>
      BY <1>4 DEF NotReady
    <2> QED
      BY <1>1, <1>2, <2>1 DEF CoreTypes, HoldInv, ListInv, MayTry
  <1>5. CASE ConfigureFails(m)
    <2>1. PICK left \in Of(m).failed : held' = [held EXCEPT ![m] = left]
      BY <1>5 DEF ConfigureFails
    <2>2. UNCHANGED <<active, container>>
      BY <1>5 DEF ConfigureFails
    <2>3. CoreTypes'
      BY <1>1, <2>1, <2>2 DEF CoreTypes, MayTry, Stopping, LastLeft
    <2>4. \A n \in Modules : held'[n] = IF n = m THEN left ELSE held[n]
      BY <2>1 DEF CoreTypes
    <2>5. ASSUME NEW n \in Modules PROVE HoldInv(n)'
      BY <1>1, <1>3, <2>2, <2>4, AdapterFacts DEF HoldInv, Is
    <2>6. ASSUME NEW i \in 1..Len(active) PROVE ListInv(i)'
      BY <1>1, <1>2, <2>2, <2>4, ListFacts DEF ListInv
    <2> QED
      BY <2>2, <2>3, <2>5, <2>6
  <1>6. CASE Activate(m) \/ UseModule(m)
    <2>1. /\ active' = Append(active, m) /\ held' = [held EXCEPT ![m] = Of(m).kept]
          /\ \/ container' = container
             \/ container' = [container EXCEPT ![ContainerKey[m]] = m]
      BY <1>6 DEF Activate, UseModule, Add, Provide
    <2>2. /\ active' \in Seq(Modules) /\ Distinct(active')
          /\ Elements(active') = Elements(active) \cup {m}
      BY <1>1, <2>1, AppendDistinct DEF CoreTypes
    <2>3. /\ Len(active') = Len(active) + 1 /\ active'[Len(active) + 1] = m
          /\ \A i \in 1..Len(active) : active'[i] = active[i]
      BY <2>1, AppendProperties DEF CoreTypes
    <2>4. \A n \in Modules : held'[n] = IF n = m THEN Of(m).kept ELSE held[n]
      BY <2>1 DEF CoreTypes
    <2>5. CoreTypes'
      <3>1. /\ container' \in [ContainerKeys -> Modules \cup {NoModule}]
            /\ \A k \in ContainerKeys : container'[k] \in Elements(active') \cup {NoModule}
        <4>1. ContainerKey[m] \in ContainerKeys
          BY DEF ContainerKeys
        <4>2. /\ container \in [ContainerKeys -> Modules \cup {NoModule}]
              /\ \A k \in ContainerKeys : container[k] \in Elements(active) \cup {NoModule}
          BY DEF CoreTypes
        <4>3. CASE container' = container
          BY <2>2, <4>2, <4>3
        <4>4. CASE container' = [container EXCEPT ![ContainerKey[m]] = m]
          BY <2>2, <4>1, <4>2, <4>4
        <4> QED
          BY <2>1, <4>3, <4>4
      <3>2. Elements(active') \subseteq tried' /\ tried' \subseteq Modules /\ DOMAIN held' = Modules
        BY <1>1, <2>1, <2>2 DEF CoreTypes
      <3>3. stopping' \subseteq Elements(active') /\ program.left <= Len(active')
        BY <1>1, <2>2, <2>3, ListFacts DEF CoreTypes
      <3>4. program.at # "waiting"
        BY <1>1 DEF MayTry
      <3> QED
        BY <1>1, <2>2, <3>1, <3>2, <3>3, <3>4 DEF CoreTypes
    <2>6. ASSUME NEW n \in Modules PROVE HoldInv(n)'
      BY <1>1, <1>3, <2>2, <2>4, AdapterFacts DEF HoldInv
    <2>7. ASSUME NEW i \in 1..Len(active') PROVE ListInv(i)'
      <3>1. i = Len(active) + 1 \/ i \in 1..Len(active)
        BY <2>3, ListFacts
      <3>2. CASE i = Len(active) + 1
        BY <1>2, <2>3, <2>4, <3>2 DEF ListInv
      <3>3. CASE i \in 1..Len(active)
        <4>1. active'[i] = active[i] /\ active[i] \in Modules \ {m}
          BY <1>1, <2>3, <3>3, ListFacts
        <4> QED
          BY <1>2, <2>4, <3>3, <4>1 DEF ListInv
      <3> QED
        BY <3>1, <3>2, <3>3
    <2> QED
      BY <2>5, <2>6, <2>7
  <1> QED
    BY <1>4, <1>5, <1>6

(* Run and Shutdown go through the list: what only moves the program, a    *)
(* call that is over or given up included.                                 *)
LEMMA ProgramSound ==
    ASSUME CoreInv,
           RunCore \/ ShutdownCore \/ StartFails \/ StartNothing \/ Stopped
             \/ CallsOver \/ GiveUp
    PROVE  CoreInv'
  <1> USE DEF CoreInv
  <1>1. /\ UNCHANGED <<active, tried, container, held, serve, calls, stopping>>
        /\ \/ late' = late
           \/ /\ program.at = "waiting" /\ late' = late \cup {Stopping}
    BY DEF RunCore, ShutdownCore, StartFails, StartNothing, Stopped, CallsOver, GiveUp
  <1>2. /\ Len(active) \in Nat /\ program.left \in Nat /\ program.left <= Len(active)
        /\ program \in [at : {"setup", "starting", "running", "stopping", "waiting", "stopped"},
                        left : Nat]
    BY ListFacts DEF CoreTypes
  <1>3. \/ /\ program.at \in {"setup", "starting"}
           /\ \E a \in {"starting", "running"}, n \in 0..Len(active) :
                 program' = [at |-> a, left |-> n]
        \/ /\ program.at = "running" /\ program' = [at |-> "stopping", left |-> Len(active)]
        \/ /\ program.at = "waiting" /\ program.left > 0
           /\ program' = [at |-> "stopping", left |-> program.left - 1]
        \/ /\ program.at = "stopping" /\ program' = [at |-> "stopped", left |-> 0]
           /\ program.left = 0
    <2>1. CASE RunCore \/ StartFails
      <3>1. Len(active) \in 0..Len(active) /\ 0 \in 0..Len(active)
        BY <1>2
      <3> QED
        BY <2>1, <3>1 DEF RunCore, StartFails
    <2>2. CASE StartNothing
      <3>1. program.left # 0 => program.left - 1 \in 0..Len(active)
        BY <1>2
      <3>2. [program EXCEPT !.left = @ - 1] = [at |-> program.at, left |-> program.left - 1]
        BY <1>2
      <3>3. 0 \in 0..Len(active)
        BY <1>2
      <3> QED
        BY <2>2, <3>1, <3>2, <3>3 DEF StartNothing
    <2>3. CASE ShutdownCore \/ Stopped
      BY <2>3 DEF ShutdownCore, Stopped
    <2>4. CASE CallsOver \/ GiveUp
      BY <1>2, <2>4 DEF CallsOver, GiveUp, Done, CoreTypes
    <2> QED
      BY <2>1, <2>2, <2>3, <2>4
  <1>4. CoreTypes'
    <2>1. program' \in [at : {"setup", "starting", "running", "stopping", "stopped"}, left : Nat]
          /\ program'.left <= Len(active)
      BY <1>2, <1>3
    <2> QED
      BY <1>1, <2>1 DEF CoreTypes
  <1>5. \A i \in 1..Len(active) : Passed(i) => Passed(i)'
    BY <1>2, <1>3 DEF Passed
  <1>6. ASSUME NEW i \in 1..Len(active), Passed(i)', ~Passed(i)
        PROVE  /\ program.at = "waiting" /\ active[i] = Stopping
               /\ calls[Stopping] = "none" \/ Stopping \in late'
    <2>1. CASE CallsOver \/ GiveUp
      <3>1. /\ program.at = "waiting" /\ program' = [at |-> "stopping", left |-> program.left - 1]
            /\ calls[Stopping] = "none" \/ Stopping \in late'
        BY <1>2, <2>1 DEF CallsOver, GiveUp, Done
      <3>2. i = program.left
        BY <1>2, <1>6, <3>1 DEF Passed
      <3> QED
        BY <3>1, <3>2 DEF Stopping, LastLeft
    <2>2. CASE RunCore \/ ShutdownCore \/ StartFails \/ StartNothing \/ Stopped
      BY <1>2, <1>6, <2>2 DEF RunCore, ShutdownCore, StartFails, StartNothing, Stopped, Passed
    <2> QED
      BY <2>1, <2>2
  <1>7. ASSUME NEW i \in 1..Len(active) PROVE ListInv(i)'
    BY <1>1, <1>5, <1>6 DEF ListInv, CoreTypes
  <1>8. ASSUME NEW m \in Modules PROVE HoldInv(m)'
    BY <1>1, <1>5 DEF HoldInv
  <1> QED
    BY <1>1, <1>4, <1>7, <1>8

(* The goroutine of a server, its calls, and what the application and nats *)
(* do when they like.                                                      *)
LEMMA OutsideSound ==
    ASSUME CoreInv, NEW m \in Modules,
           ServeBegins(m) \/ CallBegins(m) \/ CallEnds(m) \/ OpenTopic(m) \/ Drained(m)
    PROVE  CoreInv'
  <1> USE DEF CoreInv
  <1>1. UNCHANGED <<active, tried, container, stopping, late, program>>
    BY DEF ServeBegins, CallBegins, CallEnds, OpenTopic, Drained
  <1>2. \A i : Passed(i)' <=> Passed(i)
    BY <1>1 DEF Passed
  <1>3. CASE ServeBegins(m) /\ m \in stopping
    <2>1. /\ serve' = [serve EXCEPT ![m] = "ended"] /\ calls' = calls /\ serve[m] = "launched"
          /\ held' = [held EXCEPT ![m] = @ \ {"listener"}]
      BY <1>3 DEF ServeBegins
    <2>2. Is(m, Servers) /\ Of(m).kept = {}
      BY <2>1, AdapterFacts DEF HoldInv
    <2>3. CoreTypes'
      BY <1>1, <2>1 DEF CoreTypes, Stopping, LastLeft
    <2>4. \A n \in Modules : /\ held'[n] = IF n = m THEN held[n] \ {"listener"} ELSE held[n]
                             /\ serve'[n] = IF n = m THEN "ended" ELSE serve[n]
      BY <2>1 DEF CoreTypes
    <2>5. ASSUME NEW n \in Modules PROVE HoldInv(n)'
      BY <1>1, <1>2, <2>1, <2>2, <2>4 DEF HoldInv
    <2>6. ASSUME NEW i \in 1..Len(active) PROVE ListInv(i)'
      BY <1>1, <1>2, <1>3, <2>1, <2>2, <2>4, ListFacts DEF ListInv
    <2> QED
      BY <1>1, <2>3, <2>5, <2>6
  <1>4. CASE ServeBegins(m) /\ m \notin stopping
    <2>1. /\ serve' = [serve EXCEPT ![m] = "serving"] /\ UNCHANGED <<held, calls>>
          /\ serve[m] = "launched"
      BY <1>4 DEF ServeBegins
    <2>2. CoreTypes'
      BY <1>1, <2>1 DEF CoreTypes, Stopping, LastLeft
    <2>3. \A n \in Modules : serve'[n] = IF n = m THEN "serving" ELSE serve[n]
      BY <2>1 DEF CoreTypes
    <2>4. ASSUME NEW n \in Modules PROVE HoldInv(n)'
      BY <1>1, <1>2, <2>1, <2>3 DEF HoldInv
    <2>5. ASSUME NEW i \in 1..Len(active) PROVE ListInv(i)'
      BY <1>1, <1>2, <2>1, <2>3, ListFacts DEF ListInv
    <2> QED
      BY <1>1, <2>2, <2>4, <2>5
  <1>5. CASE CallBegins(m)
    <2>1. /\ UNCHANGED <<held, serve>> /\ serve[m] = "serving" /\ m \notin stopping
          /\ \E kind \in {"short", "stream"} : calls' = [calls EXCEPT ![m] = kind]
      BY <1>5 DEF CallBegins
    <2>2. CoreTypes'
      BY <1>1, <2>1 DEF CoreTypes, Stopping, LastLeft
    <2>3. \A n \in Modules \ {m} : calls'[n] = calls[n]
      BY <2>1 DEF CoreTypes
    <2>4. ASSUME NEW n \in Modules PROVE HoldInv(n)'
      BY <1>1, <1>2, <2>1, <2>3 DEF HoldInv
    <2>5. ASSUME NEW i \in 1..Len(active) PROVE ListInv(i)'
      <3>1. active[i] \in Modules /\ ListInv(i)
        BY ListFacts
      <3> QED
        BY <1>1, <1>2, <2>1, <2>3, <3>1 DEF ListInv
    <2> QED
      BY <1>1, <2>2, <2>4, <2>5
  <1>6. CASE CallEnds(m)
    <2>1. UNCHANGED <<held, serve>> /\ calls' = [calls EXCEPT ![m] = "none"]
      BY <1>6 DEF CallEnds
    <2>2. CoreTypes'
      BY <1>1, <2>1 DEF CoreTypes, Stopping, LastLeft
    <2>3. \A n \in Modules : calls'[n] = calls[n] \/ calls'[n] = "none"
      BY <2>1 DEF CoreTypes
    <2>4. ASSUME NEW n \in Modules PROVE HoldInv(n)'
      BY <1>1, <1>2, <2>1, <2>3 DEF HoldInv
    <2>5. ASSUME NEW i \in 1..Len(active) PROVE ListInv(i)'
      BY <1>1, <1>2, <2>1, <2>3, ListFacts DEF ListInv
    <2> QED
      BY <1>1, <2>2, <2>4, <2>5
  <1>7. CASE OpenTopic(m)
    <2>1. /\ UNCHANGED <<serve, calls>> /\ held' = [held EXCEPT ![m] = @ \cup {"topics"}]
          /\ m \in Elements(active)
      BY <1>7 DEF OpenTopic, ToSet, Elements, CoreTypes
    <2>2. CoreTypes'
      BY <1>1, <2>1 DEF CoreTypes, Stopping, LastLeft
    <2>3. \A n \in Modules : held'[n] = IF n = m THEN held[n] \cup {"topics"} ELSE held[n]
      BY <2>1 DEF CoreTypes
    <2>4. ASSUME NEW n \in Modules PROVE HoldInv(n)'
      BY <1>1, <1>2, <2>1, <2>3 DEF HoldInv
    <2>5. ASSUME NEW i \in 1..Len(active) PROVE ListInv(i)'
      BY <1>1, <1>2, <2>1, <2>3, ListFacts DEF ListInv
    <2> QED
      BY <1>1, <2>2, <2>4, <2>5
  <1>8. CASE Drained(m)
    <2>1. /\ UNCHANGED <<serve, calls>> /\ held' = [held EXCEPT ![m] = {}]
          /\ "draining" \in held[m]
      BY <1>8 DEF Drained
    <2>2. CoreTypes'
      BY <1>1, <2>1 DEF CoreTypes, Stopping, LastLeft
    <2>3. \A n \in Modules : held'[n] = IF n = m THEN {} ELSE held[n]
      BY <2>1 DEF CoreTypes
    <2>4. ASSUME NEW n \in Modules PROVE HoldInv(n)'
      BY <1>1, <1>2, <2>1, <2>3 DEF HoldInv
    <2>5. PICK k \in 1..Len(active) : active[k] = m /\ Passed(k)
      BY <2>1 DEF HoldInv
    <2>6. ASSUME NEW i \in 1..Len(active) PROVE ListInv(i)'
      BY <1>1, <1>2, <2>1, <2>3, <2>5, ListFacts DEF ListInv
    <2> QED
      BY <1>1, <2>2, <2>4, <2>6
  <1> QED
    BY <1>3, <1>4, <1>5, <1>6, <1>7, <1>8

(* A server starts.                                                        *)
LEMMA StartSound ==
    ASSUME CoreInv, StartServer
    PROVE  CoreInv'
  <1> USE DEF CoreInv
  <1> DEFINE m == Starting
  <1>1. /\ Len(active) \in Nat /\ program.left \in Nat /\ program.left <= Len(active)
        /\ program \in [at : {"setup", "starting", "running", "stopping", "waiting", "stopped"},
                        left : Nat]
    BY ListFacts DEF CoreTypes
  <1>2. /\ program.at = "starting" /\ program.left > 0 /\ Is(m, Servers)
        /\ held' = [held EXCEPT ![m] = @ \cup {"listener"}]
        /\ serve' = [serve EXCEPT ![m] = "launched"]
        /\ program' = [program EXCEPT !.left = @ - 1]
        /\ UNCHANGED <<active, tried, container, calls, stopping, late>>
    BY DEF StartServer
  <1>3. m \in Modules /\ m \in Elements(active)
    <2>1. Len(active) - program.left + 1 \in 1..Len(active)
      BY <1>1, <1>2
    <2> QED
      BY <2>1, ListFacts DEF Starting
  <1> HIDE DEF m
  <1>4. program'.at = "starting" /\ program' \in [at : {"starting"}, left : Nat]
        /\ program'.left <= Len(active)
    BY <1>1, <1>2
  <1>5. CoreTypes'
    BY <1>2, <1>4 DEF CoreTypes
  <1>6. \A i : ~Passed(i) /\ ~Passed(i)'
    BY <1>2, <1>4 DEF Passed
  <1>7. \A n \in Modules : /\ held'[n] = IF n = m THEN held[n] \cup {"listener"} ELSE held[n]
                           /\ serve'[n] = IF n = m THEN "launched" ELSE serve[n]
    BY <1>2 DEF CoreTypes
  <1>8. ASSUME NEW n \in Modules PROVE HoldInv(n)'
    BY <1>2, <1>3, <1>6, <1>7 DEF HoldInv
  <1>9. ASSUME NEW i \in 1..Len(active) PROVE ListInv(i)'
    <2>1. active[i] \in Modules /\ ListInv(i)
      BY ListFacts
    <2>2. held[active[i]] \subseteq held'[active[i]]
      BY <1>7, <2>1
    <2> QED
      BY <1>2, <1>6, <2>1, <2>2 DEF ListInv
  <1> QED
    BY <1>2, <1>5, <1>8, <1>9

(* The shutdown passes a server that never listened, begins to stop one    *)
(* that did, or stops another module.                                      *)
LEMMA StopSound ==
    ASSUME CoreInv, StopServer \/ StopModule
    PROVE  CoreInv'
  <1> USE DEF CoreInv
  <1> DEFINE m == Stopping
             left == program.left
  <1>1. /\ Len(active) \in Nat /\ left \in 1..Len(active) /\ program.at = "stopping"
        /\ program = [at |-> "stopping", left |-> left]
        /\ UNCHANGED <<active, tried, container, calls, late>>
    BY ListFacts DEF StopServer, StopModule, CoreTypes
  <1>2. m = active[left] /\ m \in Modules /\ m \in Elements(active)
    BY <1>1, ListFacts DEF Stopping, LastLeft
  <1>3. \A i \in 1..Len(active) : active[i] = m <=> i = left
    BY <1>1, <1>2, ListFacts
  <1>4. \A i \in 1..Len(active) : Passed(i) <=> i > left
    BY <1>1 DEF Passed
  <1>5. Done => program' = [at |-> "stopping", left |-> left - 1]
    BY <1>1 DEF Done
  <1> HIDE DEF left, m
  <1>6. Done => \A i \in 1..Len(active) : Passed(i)' <=> i = left \/ Passed(i)
    BY <1>1, <1>4, <1>5 DEF Passed
  <1>7. CASE StopServer /\ serve[m] = "none" /\ Is(m, HttpServers)
    <2>1. Done /\ UNCHANGED <<held, serve, stopping>>
      BY <1>7 DEF StopServer, m
    <2>2. CoreTypes'
      BY <1>1, <1>5, <2>1 DEF CoreTypes
    <2>3. ASSUME NEW n \in Modules PROVE HoldInv(n)'
      BY <1>1, <1>6, <2>1 DEF HoldInv
    <2>4. ASSUME NEW i \in 1..Len(active) PROVE ListInv(i)'
      BY <1>1, <1>2, <1>3, <1>6, <1>7, <2>1 DEF ListInv, HoldInv
    <2> QED
      BY <1>1, <2>2, <2>3, <2>4
  <1>8. CASE StopServer /\ ~(serve[m] = "none" /\ Is(m, HttpServers))
    <2>1. /\ stopping' = stopping \cup {m} /\ program' = [program EXCEPT !.at = "waiting"]
          /\ Is(m, Servers)
          /\ \/ /\ held' = [held EXCEPT ![m] = @ \ {"listener"}] /\ serve[m] = "serving"
                /\ serve' = [serve EXCEPT ![m] = "ended"]
             \/ UNCHANGED <<held, serve>>
      BY <1>8 DEF StopServer, m
    <2>2. program' = [at |-> "waiting", left |-> left]
      BY <1>1, <2>1
    <2>3. \A i \in 1..Len(active) : Passed(i)' <=> Passed(i)
      BY <1>4, <2>2 DEF Passed
    <2>4. Stopping' = m
      BY <1>1, <1>2, <2>2 DEF Stopping, LastLeft
    <2>5. CoreTypes'
      BY <1>1, <1>2, <2>1, <2>2, <2>4 DEF CoreTypes
    <2>6. /\ Of(m).kept = {}
          /\ \A n \in Modules \ {m} : held'[n] = held[n] /\ serve'[n] = serve[n]
          /\ held'[m] \subseteq held[m]
          /\ serve'[m] = "none" <=> serve[m] = "none"
      BY <1>2, <2>1, AdapterFacts DEF CoreTypes
    <2>7. ASSUME NEW n \in Modules PROVE HoldInv(n)'
      <3>1. held'[n] \subseteq held[n] /\ (serve'[n] = "none" <=> serve[n] = "none")
        BY <2>6
      <3> QED
        BY <1>1, <2>3, <3>1 DEF HoldInv
    <2>8. ASSUME NEW i \in 1..Len(active) PROVE ListInv(i)'
      <3>1. active[i] \in Modules /\ ListInv(i)
        BY ListFacts
      <3>2. /\ serve'[active[i]] = "none" <=> serve[active[i]] = "none"
            /\ Of(active[i]).kept \subseteq held[active[i]]
                 => Of(active[i]).kept \subseteq held'[active[i]]
        BY <2>6, <3>1
      <3> QED
        BY <1>1, <2>1, <2>3, <3>1, <3>2 DEF ListInv
    <2> QED
      BY <1>1, <2>5, <2>7, <2>8
  <1>9. CASE StopModule
    <2>1. /\ Done /\ ~Is(m, Servers) /\ held' = [held EXCEPT ![m] = Of(m).after]
          /\ UNCHANGED <<serve, stopping>>
      BY <1>9 DEF StopModule, m
    <2>2. CoreTypes'
      BY <1>1, <1>5, <2>1 DEF CoreTypes
    <2>3. \A n \in Modules \ {m} : held'[n] = held[n]
      BY <2>1 DEF CoreTypes
    <2>4. serve[m] = "none" /\ calls[m] = "none"
      BY <1>2, <2>1 DEF HoldInv
    <2>5. ASSUME NEW n \in Modules PROVE HoldInv(n)'
      <3>1. CASE n = m
        <4>1. \E i \in 1..Len(active) : active[i] = n /\ Passed(i)'
          BY <1>1, <1>2, <1>6, <2>1, <3>1
        <4> QED
          BY <1>1, <1>2, <2>1, <2>4, <3>1, <4>1 DEF HoldInv
      <3>2. CASE n # m
        BY <1>1, <1>6, <2>1, <2>3, <3>2 DEF HoldInv
      <3> QED
        BY <3>1, <3>2
    <2>6. ASSUME NEW i \in 1..Len(active) PROVE ListInv(i)'
      <3>1. active[i] \in Modules /\ ListInv(i)
        BY ListFacts
      <3>2. CASE i = left
        BY <1>1, <1>3, <1>6, <2>1, <2>4, <3>2 DEF ListInv
      <3>3. CASE i # left
        BY <1>1, <1>3, <1>6, <2>1, <2>3, <3>1, <3>3 DEF ListInv
      <3> QED
        BY <3>2, <3>3
    <2> QED
      BY <1>1, <2>2, <2>5, <2>6
  <1> QED
    BY <1>7, <1>8, <1>9

LEMMA CoreInvNext == CoreInv /\ [LifecycleNext]_lifecycleVars => CoreInv'
  <1> SUFFICES ASSUME CoreInv, [LifecycleNext]_lifecycleVars PROVE CoreInv'
    OBVIOUS
  <1>1. CASE UNCHANGED lifecycleVars
    BY <1>1 DEF lifecycleVars, CoreInv, CoreTypes, HoldInv, ListInv, Passed, Stopping, LastLeft
  <1> QED
    BY <1>1, TrySound, ProgramSound, OutsideSound, StartSound, StopSound
       DEF LifecycleNext, RunOrShutdown

(* Whatever fails, is stopped or is called, and in any order of the        *)
(* goroutines: what is not active holds nothing and is not found, and a    *)
(* call finds the modules activated before its server as Configure left    *)
(* them, for any number of modules (core.go:57-135, lifecycle.go:46-87).   *)
THEOREM CoreIsSound == LifecycleSpec => []ModulesSound
  <1>1. CoreInv => ModulesSound
    <2> SUFFICES ASSUME CoreInv PROVE ModulesSound
      OBVIOUS
    <2> USE DEF CoreInv
    <2>1. ToSet(active) = Elements(active) /\ DOMAIN active = 1..Len(active)
      BY DEF CoreTypes, ToSet, Elements
    <2>2. LifecycleTypeOK
      BY <2>1, ListFacts DEF CoreTypes, Distinct, IsInjective, LifecycleTypeOK
    <2>3. OnlyActiveHold
      BY <2>1 DEF CoreTypes, HoldInv, OnlyActiveHold
    <2>4. CallsKeepWhatTheyUse
      <3> SUFFICES ASSUME NEW i \in 1..Len(active), NEW j \in 1..Len(active), i < j,
                          calls[active[j]] # "none", active[j] \notin late
                   PROVE  Of(active[i]).kept \subseteq held[active[i]]
        BY <2>1 DEF CallsKeepWhatTheyUse
      <3>1. ~Passed(j)
        BY DEF ListInv
      <3>2. ~Passed(i)
        BY <3>1, ListFacts DEF Passed
      <3> QED
        BY <3>2 DEF ListInv
    <2> QED
      BY <2>2, <2>3, <2>4 DEF ModulesSound
  <1> QED
    BY <1>1, CoreInvInit, CoreInvNext, PTL DEF LifecycleSpec
=============================================================================
