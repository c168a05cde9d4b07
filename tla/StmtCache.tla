------------------------------ MODULE StmtCache ------------------------------
(***************************************************************************)
(* The cache of prepared statements of core/database/database.go, as the   *)
(* ORM's execCached, queryCached and queryRowCached (core/orm/exec.go) use *)
(* it from concurrent requests.                                            *)
(*                                                                         *)
(* PrepareCached looks a query up under the cache's lock, prepares it      *)
(* without the lock, takes the lock again to store it, and closes what     *)
(* lost its place after that; the caller executes the statement later      *)
(* still.  database/sql's Stmt.Close waits for the executions under way,   *)
(* and a closed statement refuses the next one.  DB.Close closes all the   *)
(* cached statements while it holds the cache's lock.                      *)
(***************************************************************************)
EXTENDS Naturals, FiniteSets

CONSTANTS
    Callers,    \* goroutines that execute queries
    Queries,    \* the texts they execute
    Stmts,      \* statement handles
    NoStmt,     \* nil
    MaxCached   \* maxCachedStmts

ASSUME StmtAssumption ==
    /\ NoStmt \notin Stmts
    /\ IsFiniteSet(Queries)
    /\ MaxCached \in Nat \ {0}

VARIABLES
    items,     \* c.items: the statement cached for each query, or NoStmt
    order,     \* the queries in the list c.order
    ahead,     \* of each, the queries nearer to the list's front
    open,      \* the statements prepared and not closed
    pc,        \* where each caller is
    query,     \* the query it executes
    stmt,      \* the statement it was given
    drop,      \* the statement put told it to close
    since,     \* the other queries used since it was given stmt (history)
    closer     \* where DB.Close is

cache == <<items, order, ahead>>
caller == <<pc, query, stmt, drop, since>>
vars == <<cache, open, caller, closer>>

Init ==
    /\ items = [q \in Queries |-> NoStmt]
    /\ order = {}
    /\ ahead = [q \in Queries |-> {}]
    /\ open = {}
    /\ pc = [g \in Callers |-> "idle"]
    /\ query \in [Callers -> Queries]
    /\ stmt = [g \in Callers |-> NoStmt]
    /\ drop = [g \in Callers |-> NoStmt]
    /\ since = [g \in Callers |-> {}]
    /\ closer = "idle"

-----------------------------------------------------------------------------
(* The list.                                                               *)

Cached(s) == \E q \in Queries : items[q] = s

LockFree == closer # "closing"

RoomForOneMore == Cardinality(order) <= MaxCached  \* variant: off by one
HasRoom == Cardinality(order) < MaxCached

(* Variant of the next operator: a query already listed is not moved.      *)
LeftInPlace(q) ==
    [x \in Queries |-> IF q \in order THEN ahead[x]
                       ELSE IF x \in order THEN ahead[x] \cup {q} ELSE {}]

(* ahead with q moved, or put, to the front.                               *)
Fronted(q) ==
    [x \in Queries |-> IF x = q THEN {}
                       ELSE IF x \in order THEN ahead[x] \cup {q} ELSE {}]

(* What the history notes when g is given a statement for q, of the        *)
(* callers that were given one before.                                     *)
Given == {"close", "execute", "run"}
Used(g, q) ==
    [h \in Callers |-> IF h # g /\ pc[h] \in Given
                       THEN since[h] \cup ({q} \ {query[h]}) ELSE {}]

-----------------------------------------------------------------------------
(* PrepareCached.                                                          *)

(* get: a hit moves the query to the front.                                *)
Hit(g, q) ==
    /\ pc[g] = "idle"
    /\ LockFree
    /\ items[q] # NoStmt
    /\ pc' = [pc EXCEPT ![g] = "execute"]
    /\ query' = [query EXCEPT ![g] = q]
    /\ stmt' = [stmt EXCEPT ![g] = items[q]]
    /\ ahead' = Fronted(q)
    /\ since' = Used(g, q)
    /\ UNCHANGED <<items, order, open, drop, closer>>

Miss(g, q) ==
    /\ pc[g] = "idle"
    /\ LockFree
    /\ items[q] = NoStmt
    /\ pc' = [pc EXCEPT ![g] = "prepare"]
    /\ query' = [query EXCEPT ![g] = q]
    /\ UNCHANGED <<cache, open, stmt, drop, since, closer>>

(* db.DB.Prepare; the new handle is one nobody refers to any more.         *)
Prepare(g, s) ==
    /\ pc[g] = "prepare"
    /\ closer # "closed"
    /\ s \notin open
    /\ ~Cached(s)
    /\ \A h \in Callers : stmt[h] # s /\ drop[h] # s
    /\ open' = open \cup {s}
    /\ stmt' = [stmt EXCEPT ![g] = s]
    /\ pc' = [pc EXCEPT ![g] = "put"]
    /\ UNCHANGED <<cache, query, drop, since, closer>>

(* It fails; the ORM executes the query without a statement.               *)
PrepareFails(g) ==
    /\ pc[g] = "prepare"
    /\ pc' = [pc EXCEPT ![g] = "idle"]
    /\ UNCHANGED <<cache, open, query, stmt, drop, since, closer>>

(* put: somebody else cached the query first.                              *)
PutExisting(g) ==
    LET q == query[g] IN
    /\ pc[g] = "put"
    /\ LockFree
    /\ items[q] # NoStmt
    /\ stmt' = [stmt EXCEPT ![g] = items[q]]
    /\ drop' = [drop EXCEPT ![g] = stmt[g]]
    /\ pc' = [pc EXCEPT ![g] = "close"]
    /\ ahead' = Fronted(q)
    /\ since' = Used(g, q)
    /\ UNCHANGED <<items, order, open, query, closer>>

(* put: there is room.                                                     *)
PutNew(g) ==
    LET q == query[g] IN
    /\ pc[g] = "put"
    /\ LockFree
    /\ items[q] = NoStmt
    /\ HasRoom
    /\ items' = [items EXCEPT ![q] = stmt[g]]
    /\ order' = order \cup {q}
    /\ ahead' = Fronted(q)
    /\ pc' = [pc EXCEPT ![g] = "execute"]
    /\ since' = Used(g, q)
    /\ UNCHANGED <<open, query, stmt, drop, closer>>

(* Variants of the next two operators: the evicted entry stays in the map; *)
(* the evicted statement is not handed back.                               *)
ItemsKept(q, s, old) == [items EXCEPT ![q] = s]
NothingToClose(old) == NoStmt

ItemsAfter(q, s, old) == [items EXCEPT ![q] = s, ![old] = NoStmt]
ToClose(old) == items[old]

(* put: the list is full, and its last entry leaves it.                    *)
PutEvicting(g, old) ==
    LET q == query[g] IN
    /\ pc[g] = "put"
    /\ LockFree
    /\ items[q] = NoStmt
    /\ ~HasRoom
    /\ old \in order /\ ahead[old] = order \ {old}
    /\ items' = ItemsAfter(q, stmt[g], old)
    /\ order' = (order \cup {q}) \ {old}
    /\ ahead' = [x \in Queries |-> IF x = old THEN {} ELSE Fronted(q)[x] \ {old}]
    /\ drop' = [drop EXCEPT ![g] = ToClose(old)]
    /\ pc' = [pc EXCEPT ![g] = "close"]
    /\ since' = Used(g, q)
    /\ UNCHANGED <<open, query, stmt, closer>>

Executing(s) == \E g \in Callers : pc[g] = "run" /\ stmt[g] = s

(* old.Close().                                                            *)
CloseDropped(g) ==
    /\ pc[g] = "close"
    /\ ~Executing(drop[g])
    /\ open' = open \ {drop[g]}
    /\ drop' = [drop EXCEPT ![g] = NoStmt]
    /\ pc' = [pc EXCEPT ![g] = "execute"]
    /\ UNCHANGED <<cache, query, stmt, since, closer>>

-----------------------------------------------------------------------------
(* stmt.Exec, Query or QueryRow.                                           *)

Execute(g) ==
    /\ pc[g] = "execute"
    /\ stmt[g] \in open
    /\ pc' = [pc EXCEPT ![g] = "run"]
    /\ UNCHANGED <<cache, open, query, stmt, drop, since, closer>>

(* "sql: statement is closed".                                             *)
ExecuteRefused(g) ==
    /\ pc[g] = "execute"
    /\ stmt[g] \notin open
    /\ pc' = [pc EXCEPT ![g] = "idle"]
    /\ stmt' = [stmt EXCEPT ![g] = NoStmt]
    /\ UNCHANGED <<cache, open, query, drop, since, closer>>

Return(g) ==
    /\ pc[g] = "run"
    /\ pc' = [pc EXCEPT ![g] = "idle"]
    /\ stmt' = [stmt EXCEPT ![g] = NoStmt]
    /\ UNCHANGED <<cache, open, query, drop, since, closer>>

-----------------------------------------------------------------------------
(* DB.Close: closeAll, and the connections.                                *)

CloseBegin ==
    /\ closer = "idle"
    /\ closer' = "closing"
    /\ UNCHANGED <<cache, open, caller>>

CloseNext(s) ==
    /\ closer = "closing"
    /\ Cached(s) /\ s \in open
    /\ ~Executing(s)
    /\ open' = open \ {s}
    /\ UNCHANGED <<cache, caller, closer>>

CloseKeepsLock ==  \* variant: the lock is not released
    /\ closer = "closing"
    /\ \A s \in open : ~Cached(s)
    /\ items' = [q \in Queries |-> NoStmt]
    /\ order' = {}
    /\ ahead' = [q \in Queries |-> {}]
    /\ UNCHANGED <<open, caller, closer>>

CloseEnd ==
    /\ closer = "closing"
    /\ \A s \in open : ~Cached(s)
    /\ items' = [q \in Queries |-> NoStmt]
    /\ order' = {}
    /\ ahead' = [q \in Queries |-> {}]
    /\ closer' = "emptied"
    /\ UNCHANGED <<open, caller>>

CloseConnections ==
    /\ closer = "emptied"
    /\ closer' = "closed"
    /\ UNCHANGED <<cache, open, caller>>

-----------------------------------------------------------------------------
Put(g) == PutExisting(g) \/ PutNew(g) \/ \E old \in Queries : PutEvicting(g, old)

Call(g) ==
    \/ \E s \in Stmts : Prepare(g, s)
    \/ PrepareFails(g) \/ Put(g) \/ CloseDropped(g)
    \/ Execute(g) \/ ExecuteRefused(g) \/ Return(g)

CloseDB == (\E s \in Stmts : CloseNext(s)) \/ CloseEnd \/ CloseConnections

Next ==
    \/ \E g \in Callers, q \in Queries : Hit(g, q) \/ Miss(g, q)
    \/ \E g \in Callers : Call(g)
    \/ CloseBegin \/ CloseDB

Spec == Init /\ [][Next]_vars

(* A call that has begun goes on: locks are passed on, the database        *)
(* answers; nobody need begin one, or close the connection.                *)
Fairness == WF_vars(CloseDB) /\ \A g \in Callers : WF_vars(Call(g))

FairSpec == Spec /\ Fairness

-----------------------------------------------------------------------------
(* The values of the variables; the cache holds at most MaxCached.         *)
TypeOK ==
    /\ items \in [Queries -> Stmts \cup {NoStmt}]
    /\ order \subseteq Queries /\ Cardinality(order) <= MaxCached
    /\ ahead \in [Queries -> SUBSET Queries]
    /\ open \subseteq Stmts
    /\ pc \in [Callers -> {"idle", "prepare", "put", "close", "execute", "run"}]
    /\ query \in [Callers -> Queries]
    /\ stmt \in [Callers -> Stmts \cup {NoStmt}]
    /\ drop \in [Callers -> Stmts \cup {NoStmt}]
    /\ since \in [Callers -> SUBSET Queries]
    /\ closer \in {"idle", "closing", "emptied", "closed"}

(* Map and list agree, and the cached statements are open, each for one    *)
(* query: a hit never gives away a statement that is closed already,       *)
(* whoever evicts, prepares or closes.                                     *)
CacheSound ==
    /\ order = {q \in Queries : items[q] # NoStmt}
    /\ \A q, r \in order : items[q] = items[r] => q = r
    /\ LockFree => \A q \in order : items[q] \in open

(* "sem isso, statements orfaos acumulam" (database.go:17): an open        *)
(* statement is cached, or is in the hands of the one caller that will     *)
(* cache or close it.                                                      *)
NoOrphans ==
    \A s \in open :
        \/ Cached(s)
        \/ \E g \in Callers : \/ pc[g] = "put" /\ stmt[g] = s
                              \/ pc[g] = "close" /\ drop[g] = s

(* The three together: no handle is used by two queries, closed while the  *)
(* cache would give it away, or left open with nobody to close it.         *)
CacheAccounted == TypeOK /\ CacheSound /\ NoOrphans

(* "o statement menos usado e evictado e fechado" (database.go:264): a     *)
(* statement is closed under a caller that was given it and has not        *)
(* executed it yet only after MaxCached other queries have been used       *)
(* meanwhile, or while the database is being closed.                       *)
ClosedOnlyIfDisplaced ==
    \A g \in Callers :
        pc[g] \in Given /\ stmt[g] \notin open =>
            Cardinality(since[g]) >= MaxCached \/ closer # "idle"

(* Every call ends: nobody waits for ever for the lock, for a statement to *)
(* come out of use, or for DB.Close, which waits for statements with the   *)
(* lock in hand.                                                           *)
EveryCallEnds ==
    /\ \A g \in Callers : pc[g] # "idle" ~> pc[g] = "idle"
    /\ closer = "closing" ~> closer = "closed"
=============================================================================
