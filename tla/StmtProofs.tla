----------------------------- MODULE StmtProofs -----------------------------
(***************************************************************************)
(* Proofs about the statement cache, for any number of callers, queries    *)
(* and handles and any size of the cache.                                  *)
(***************************************************************************)
EXTENDS StmtCache, FiniteSetTheorems, TLAPS

LEMMA OneMore ==
    ASSUME NEW S, IsFiniteSet(S), NEW x, Cardinality(S) < MaxCached
    PROVE  Cardinality(S \cup {x}) <= MaxCached
  <1>1. Cardinality(S) \in Nat
    BY FS_CardinalityType
  <1>2. Cardinality(S \cup {x}) = IF x \in S THEN Cardinality(S) ELSE Cardinality(S) + 1
    BY FS_AddElement
  <1> QED
    BY <1>1, <1>2, StmtAssumption

LEMMA OneForAnother ==
    ASSUME NEW S, IsFiniteSet(S), NEW x, NEW y \in S, Cardinality(S) <= MaxCached, x # y
    PROVE  Cardinality((S \cup {x}) \ {y}) <= MaxCached
  <1>1. IsFiniteSet(S \ {y}) /\ Cardinality(S \ {y}) = Cardinality(S) - 1
    BY FS_RemoveElement
  <1>2. Cardinality(S) \in Nat
    BY FS_CardinalityType
  <1>3. Cardinality(S \ {y}) < MaxCached
    BY <1>1, <1>2, StmtAssumption
  <1>4. (S \cup {x}) \ {y} = (S \ {y}) \cup {x}
    OBVIOUS
  <1> QED
    BY <1>1, <1>3, <1>4, OneMore

-----------------------------------------------------------------------------
(* The values of the variables.                                            *)

LEMMA FrontedType ==
    ASSUME TypeOK, NEW q \in Queries
    PROVE  Fronted(q) \in [Queries -> SUBSET Queries]
  BY DEF Fronted, TypeOK

LEMMA UsedType ==
    ASSUME TypeOK, NEW g \in Callers, NEW q \in Queries
    PROVE  Used(g, q) \in [Callers -> SUBSET Queries]
  BY DEF Used, TypeOK

LEMMA StepType ==
    ASSUME TypeOK, [Next]_vars
    PROVE  TypeOK'
  <1>1. CASE UNCHANGED vars
    BY <1>1 DEF vars, cache, caller, TypeOK
  <1>2. ASSUME NEW g \in Callers, NEW q \in Queries, Hit(g, q) \/ Miss(g, q)
        PROVE  TypeOK'
    <2>1. CASE Hit(g, q)
      BY <2>1, FrontedType, UsedType DEF Hit, TypeOK
    <2>2. CASE Miss(g, q)
      BY <2>2 DEF Miss, TypeOK, cache
    <2> QED
      BY <1>2, <2>1, <2>2
  <1>3. ASSUME NEW g \in Callers, NEW s \in Stmts, Prepare(g, s)
        PROVE  TypeOK'
    BY <1>3 DEF Prepare, TypeOK, cache
  <1>4. ASSUME NEW g \in Callers, PutExisting(g)
        PROVE  TypeOK'
    <2>1. query[g] \in Queries
      BY DEF TypeOK
    <2> QED
      BY <1>4, <2>1, FrontedType, UsedType DEF PutExisting, TypeOK
  <1>5. ASSUME NEW g \in Callers, PutNew(g)
        PROVE  TypeOK'
    <2>1. query[g] \in Queries
      BY DEF TypeOK
    <2>2. IsFiniteSet(order)
      BY FS_Subset, StmtAssumption DEF TypeOK
    <2>3. Cardinality(order') <= MaxCached
      BY <1>5, <2>2, OneMore DEF PutNew, HasRoom
    <2> QED
      BY <1>5, <2>1, <2>3, FrontedType, UsedType DEF PutNew, TypeOK
  <1>6. ASSUME NEW g \in Callers, NEW old \in Queries, PutEvicting(g, old)
        PROVE  TypeOK'
    <2>1. query[g] \in Queries
      BY DEF TypeOK
    <2>2. IsFiniteSet(order) /\ Cardinality(order) <= MaxCached
      BY FS_Subset, StmtAssumption DEF TypeOK
    <2>3. Cardinality(order') <= MaxCached
      <3>1. CASE query[g] = old
        <4>1. order' = order \ {old} /\ old \in order
          BY <1>6, <3>1 DEF PutEvicting
        <4>2. Cardinality(order \ {old}) = Cardinality(order) - 1 /\ Cardinality(order) \in Nat
          BY <2>2, <4>1, FS_RemoveElement, FS_CardinalityType
        <4> QED
          BY <2>2, <4>1, <4>2, StmtAssumption
      <3>2. CASE query[g] # old
        BY <1>6, <2>2, <3>2, OneForAnother DEF PutEvicting
      <3> QED
        BY <3>1, <3>2
    <2>4. items' \in [Queries -> Stmts \cup {NoStmt}]
      BY <1>6 DEF PutEvicting, ItemsAfter, TypeOK
    <2>5. ahead' \in [Queries -> SUBSET Queries]
      BY <1>6, <2>1, FrontedType DEF PutEvicting
    <2>6. drop' \in [Callers -> Stmts \cup {NoStmt}]
      BY <1>6 DEF PutEvicting, ToClose, TypeOK
    <2> QED
      BY <1>6, <2>1, <2>3, <2>4, <2>5, <2>6, UsedType DEF PutEvicting, TypeOK
  <1>7. ASSUME NEW g \in Callers,
               PrepareFails(g) \/ CloseDropped(g) \/ Execute(g)
               \/ ExecuteRefused(g) \/ Return(g)
        PROVE  TypeOK'
    BY <1>7 DEF PrepareFails, CloseDropped, Execute, ExecuteRefused, Return, TypeOK, cache
  <1>8. CASE CloseBegin \/ CloseConnections \/ \E s \in Stmts : CloseNext(s)
    BY <1>8 DEF CloseBegin, CloseConnections, CloseNext, TypeOK, cache, caller
  <1>9. CASE CloseEnd
    <2>1. Cardinality(order') <= MaxCached
      BY <1>9, FS_EmptySet, StmtAssumption DEF CloseEnd
    <2> QED
      BY <1>9, <2>1 DEF CloseEnd, TypeOK, caller
  <1> QED
    BY <1>1, <1>2, <1>3, <1>4, <1>5, <1>6, <1>7, <1>8, <1>9
    DEF Next, Call, Put, CloseDB

LEMMA InitType == Init => TypeOK
  BY FS_EmptySet, StmtAssumption DEF Init, TypeOK

-----------------------------------------------------------------------------
(* Whose hands a statement is in: one prepared and not cached yet is known *)
(* to its caller only; one taken out of the cache is out of it for good.   *)

Own(g) ==
    /\ stmt[g] \in open
    /\ ~Cached(stmt[g])
    /\ \A h \in Callers : drop[h] # stmt[g] /\ (h # g => stmt[h] # stmt[g])

Hands ==
    \A g \in Callers :
        /\ drop[g] # NoStmt <=> pc[g] = "close"
        /\ stmt[g] = NoStmt <=> pc[g] \in {"idle", "prepare"}
        /\ pc[g] = "put" => Own(g)
        /\ pc[g] = "close" => ~Cached(drop[g])

StmtInv == TypeOK /\ CacheSound /\ Hands

LEMMA PutNewSound ==
    ASSUME StmtInv, NEW g \in Callers, PutNew(g)
    PROVE  CacheSound' /\ Hands'
  <1> DEFINE q == query[g]
  <1>1. /\ q \in Queries /\ stmt[g] \in Stmts /\ stmt[g] # NoStmt
        /\ Own(g) /\ pc[g] = "put" /\ closer' = closer /\ open' = open /\ LockFree
        /\ items[q] = NoStmt
        /\ items' = [items EXCEPT ![q] = stmt[g]]
        /\ order' = order \cup {q}
        /\ pc' = [pc EXCEPT ![g] = "execute"]
        /\ UNCHANGED <<query, stmt, drop>>
    BY DEF PutNew, StmtInv, Hands, TypeOK
  <1>2. CacheSound'
    BY <1>1 DEF StmtInv, CacheSound, Own, Cached, LockFree, TypeOK
  <1>3. \A s : s # stmt[g] /\ s # NoStmt /\ ~Cached(s) => ~Cached(s)'
    BY <1>1 DEF Cached, StmtInv, TypeOK
  <1>4. Hands'
    BY <1>1, <1>3 DEF Hands, Own, StmtInv, TypeOK
  <1> QED
    BY <1>2, <1>4

LEMMA PutEvictingSound ==
    ASSUME StmtInv, NEW g \in Callers, NEW old \in Queries, PutEvicting(g, old)
    PROVE  CacheSound' /\ Hands'
  <1> DEFINE q == query[g]
  <1>1. /\ q \in Queries /\ stmt[g] \in Stmts /\ stmt[g] # NoStmt
        /\ Own(g) /\ pc[g] = "put" /\ closer' = closer /\ open' = open /\ LockFree
        /\ items[q] = NoStmt
        /\ items' = [items EXCEPT ![q] = stmt[g], ![old] = NoStmt]
        /\ order' = (order \cup {q}) \ {old}
        /\ old \in order
        /\ drop' = [drop EXCEPT ![g] = items[old]]
        /\ pc' = [pc EXCEPT ![g] = "close"]
        /\ UNCHANGED <<query, stmt>>
    BY DEF PutEvicting, ItemsAfter, ToClose, StmtInv, Hands, TypeOK
  <1>2. items[old] \in Stmts /\ items[old] # NoStmt /\ q # old /\ Cached(items[old])
    BY <1>1 DEF StmtInv, CacheSound, TypeOK, Cached
  <1>3. CacheSound'
    BY <1>1, <1>2 DEF StmtInv, CacheSound, Own, Cached, LockFree, TypeOK
  <1>4. \A s : s # stmt[g] /\ s # NoStmt /\ (~Cached(s) \/ s = items[old]) => ~Cached(s)'
    BY <1>1, <1>2 DEF Cached, StmtInv, CacheSound, TypeOK
  <1>5. items[old] # stmt[g]
    BY <1>1, <1>2 DEF Own
  <1>6. Hands'
    BY <1>1, <1>2, <1>4, <1>5 DEF Hands, Own, StmtInv, TypeOK
  <1> QED
    BY <1>3, <1>6

LEMMA StepSound ==
    ASSUME StmtInv, [Next]_vars
    PROVE  CacheSound' /\ Hands'
  <1> USE DEF StmtInv
  <1>1. ASSUME UNCHANGED cache, UNCHANGED open, closer' = closer
        PROVE  CacheSound'
    BY <1>1 DEF cache, CacheSound, LockFree
  <1>2. CASE UNCHANGED vars
    BY <1>1, <1>2 DEF vars, cache, caller, Hands, Own, Cached
  <1>3. ASSUME NEW g \in Callers, NEW q \in Queries, Hit(g, q)
        PROVE  CacheSound' /\ Hands'
    <2>1. CacheSound'
      BY <1>3 DEF Hit, CacheSound, LockFree
    <2>2. Hands'
      BY <1>3 DEF Hit, Hands, Own, Cached, TypeOK
    <2> QED
      BY <2>1, <2>2
  <1>4. ASSUME NEW g \in Callers, NEW q \in Queries, Miss(g, q)
        PROVE  CacheSound' /\ Hands'
    <2>1. Hands'
      BY <1>4 DEF Miss, Hands, Own, Cached, TypeOK, cache
    <2> QED
      BY <1>1, <1>4, <2>1 DEF Miss
  <1>5. ASSUME NEW g \in Callers, NEW s \in Stmts, Prepare(g, s)
        PROVE  CacheSound' /\ Hands'
    <2>1. CacheSound'
      BY <1>5 DEF Prepare, CacheSound, LockFree, cache
    <2>2. Hands'
      BY <1>5, StmtAssumption DEF Prepare, Hands, Own, Cached, TypeOK, cache
    <2> QED
      BY <2>1, <2>2
  <1>6. ASSUME NEW g \in Callers, PutExisting(g)
        PROVE  CacheSound' /\ Hands'
    <2>1. CacheSound'
      BY <1>6 DEF PutExisting, CacheSound, LockFree
    <2>2. Hands'
      BY <1>6 DEF PutExisting, Hands, Own, Cached, TypeOK
    <2> QED
      BY <2>1, <2>2
  <1>7. ASSUME NEW g \in Callers, CloseDropped(g)
        PROVE  CacheSound' /\ Hands'
    <2>1. CacheSound'
      BY <1>7 DEF CloseDropped, CacheSound, LockFree, cache, Hands, Cached, TypeOK
    <2>2. Hands'
      BY <1>7 DEF CloseDropped, Hands, Own, Cached, TypeOK, cache
    <2> QED
      BY <2>1, <2>2
  <1>8. ASSUME NEW g \in Callers, PrepareFails(g) \/ Execute(g)
        PROVE  CacheSound' /\ Hands'
    <2>1. Hands'
      BY <1>8 DEF PrepareFails, Execute, Hands, Own, Cached, TypeOK, cache
    <2> QED
      BY <1>1, <1>8, <2>1 DEF PrepareFails, Execute
  <1>9. ASSUME NEW g \in Callers, ExecuteRefused(g) \/ Return(g)
        PROVE  CacheSound' /\ Hands'
    <2>1. Hands'
      BY <1>9 DEF ExecuteRefused, Return, Hands, Own, Cached, TypeOK, cache
    <2> QED
      BY <1>1, <1>9, <2>1 DEF ExecuteRefused, Return
  <1>10. CASE CloseBegin \/ CloseConnections
    <2>1. CacheSound'
      BY <1>10 DEF CloseBegin, CloseConnections, CacheSound, LockFree, cache
    <2>2. Hands'
      BY <1>10 DEF CloseBegin, CloseConnections, Hands, Own, Cached, cache, caller
    <2> QED
      BY <2>1, <2>2
  <1>11. ASSUME NEW s \in Stmts, CloseNext(s)
         PROVE  CacheSound' /\ Hands'
    <2>1. CacheSound'
      BY <1>11 DEF CloseNext, CacheSound, LockFree, cache
    <2>2. Hands'
      BY <1>11 DEF CloseNext, Hands, Own, Cached, cache, caller
    <2> QED
      BY <2>1, <2>2
  <1>12. CASE CloseEnd
    <2>1. CacheSound'
      BY <1>12 DEF CloseEnd, CacheSound, TypeOK
    <2>2. Hands'
      BY <1>12 DEF CloseEnd, Hands, Own, Cached, TypeOK, caller
    <2> QED
      BY <2>1, <2>2
  <1> QED
    BY <1>2, <1>3, <1>4, <1>5, <1>6, <1>7, <1>8, <1>9, <1>10, <1>11, <1>12,
       PutNewSound, PutEvictingSound
    DEF Next, Call, Put, CloseDB

LEMMA InitSound == Init => StmtInv
  <1> SUFFICES ASSUME Init PROVE CacheSound /\ Hands
    BY InitType DEF StmtInv
  <1>1. CacheSound
    BY DEF Init, CacheSound
  <1>2. Hands
    BY DEF Init, Hands
  <1> QED
    BY <1>1, <1>2

LEMMA StmtStep == StmtInv /\ [Next]_vars => StmtInv'
  BY StepType, StepSound DEF StmtInv

LEMMA StmtAlways == Spec => []StmtInv
  BY InitSound, StmtStep, PTL DEF Spec

(* The variables of the cache and its callers keep their values, and the   *)
(* cache never holds more than MaxCached statements: put evicts before it  *)
(* grows (database.go:54).                                                 *)
THEOREM TypeCorrect == Spec => []TypeOK
  BY StmtAlways, PTL DEF StmtInv

(* Map and list of stmtCache agree whatever get, put and closeAll do at    *)
(* once, and a statement that get hands out is open when it does.          *)
THEOREM CacheStaysSound == Spec => []CacheSound
  BY StmtAlways, PTL DEF StmtInv

-----------------------------------------------------------------------------
(* Every open statement has somebody who will close it.                    *)

LEMMA InitOrphans == Init => NoOrphans
  BY DEF Init, NoOrphans

LEMMA StepOrphans ==
    ASSUME StmtInv, NoOrphans, [Next]_vars
    PROVE  NoOrphans'
  <1> USE DEF StmtInv
  <1>1. CASE UNCHANGED vars
    BY <1>1 DEF vars, cache, caller, NoOrphans, Cached
  <1>2. ASSUME NEW g \in Callers, NEW q \in Queries, Hit(g, q) \/ Miss(g, q)
        PROVE  NoOrphans'
    BY <1>2 DEF Hit, Miss, NoOrphans, Cached, TypeOK, cache
  <1>3. ASSUME NEW g \in Callers, NEW s \in Stmts, Prepare(g, s)
        PROVE  NoOrphans'
    BY <1>3 DEF Prepare, NoOrphans, Cached, TypeOK, cache
  <1>4. ASSUME NEW g \in Callers, PutExisting(g)
        PROVE  NoOrphans'
    BY <1>4 DEF PutExisting, NoOrphans, Cached, TypeOK
  <1>5. ASSUME NEW g \in Callers, PutNew(g)
        PROVE  NoOrphans'
    <2>1. query[g] \in Queries
      BY DEF TypeOK
    <2>2. \A s \in Stmts : Cached(s) \/ s = stmt[g] => Cached(s)'
      BY <1>5, <2>1, StmtAssumption DEF PutNew, Cached, TypeOK
    <2> QED
      BY <1>5, <2>2 DEF PutNew, NoOrphans, TypeOK
  <1>6. ASSUME NEW g \in Callers, NEW old \in Queries, PutEvicting(g, old)
        PROVE  NoOrphans'
    <2>1. query[g] \in Queries /\ query[g] # old
      BY <1>6 DEF PutEvicting, TypeOK, CacheSound
    <2>2. \A s \in Stmts : Cached(s) \/ s = stmt[g] => Cached(s)' \/ s = items[old]
      BY <1>6, <2>1, StmtAssumption DEF PutEvicting, ItemsAfter, Cached, TypeOK
    <2>3. pc'[g] = "close" /\ drop'[g] = items[old]
      BY <1>6 DEF PutEvicting, ToClose, TypeOK
    <2>4. \A h \in Callers \ {g} : pc'[h] = pc[h] /\ stmt'[h] = stmt[h] /\ drop'[h] = drop[h]
      BY <1>6 DEF PutEvicting, TypeOK
    <2>5. pc[g] = "put" /\ open' = open
      BY <1>6 DEF PutEvicting
    <2> QED
      BY <2>2, <2>3, <2>4, <2>5 DEF NoOrphans, TypeOK
  <1>7. ASSUME NEW g \in Callers, CloseDropped(g)
        PROVE  NoOrphans'
    BY <1>7 DEF CloseDropped, NoOrphans, Cached, TypeOK, cache
  <1>8. ASSUME NEW g \in Callers,
               PrepareFails(g) \/ Execute(g) \/ ExecuteRefused(g) \/ Return(g)
        PROVE  NoOrphans'
    BY <1>8 DEF PrepareFails, Execute, ExecuteRefused, Return, NoOrphans, Cached, TypeOK, cache
  <1>9. CASE CloseBegin \/ CloseConnections \/ \E s \in Stmts : CloseNext(s)
    BY <1>9 DEF CloseBegin, CloseConnections, CloseNext, NoOrphans, Cached, cache, caller
  <1>10. CASE CloseEnd
    BY <1>10 DEF CloseEnd, NoOrphans, caller
  <1> QED
    BY <1>1, <1>2, <1>3, <1>4, <1>5, <1>6, <1>7, <1>8, <1>9, <1>10
    DEF Next, Call, Put, CloseDB

(* A statement that PrepareCached prepares never loses its last owner: it  *)
(* is in the cache, or with the caller about to put or to close it.        *)
THEOREM NothingOrphaned == Spec => []NoOrphans
  <1>1. StmtInv /\ NoOrphans /\ [Next]_vars => NoOrphans'
    BY StepOrphans
  <1> QED
    BY <1>1, InitOrphans, StmtAlways, PTL DEF Spec

(* What StmtCache.tla states of the cache and its statements, for any      *)
(* number of callers, queries and handles and any limit.                   *)
THEOREM CacheAlwaysAccounted == Spec => []CacheAccounted
  <1>1. TypeOK /\ CacheSound /\ NoOrphans => CacheAccounted
    BY DEF CacheAccounted
  <1> QED
    BY <1>1, TypeCorrect, CacheStaysSound, NothingOrphaned, PTL

-----------------------------------------------------------------------------
(* Why a statement was closed: as long as fewer than MaxCached queries     *)
(* were used since a caller was given its statement, the statement is      *)
(* cached, and only queries used since are nearer to the front.            *)

InPlace(g) == items[query[g]] = stmt[g] /\ ahead[query[g]] \subseteq since[g]

Excused(g) == Cardinality(since[g]) >= MaxCached \/ closer # "idle"

Displaced == \A g \in Callers : pc[g] \in Given => Excused(g) \/ InPlace(g)

LEMMA LargerStays ==
    ASSUME NEW S, NEW T, S \subseteq T, T \subseteq Queries, Cardinality(S) >= MaxCached
    PROVE  Cardinality(T) >= MaxCached
  <1>1. IsFiniteSet(T)
    BY FS_Subset, StmtAssumption
  <1>2. IsFiniteSet(S) /\ Cardinality(S) <= Cardinality(T)
    BY <1>1, FS_Subset
  <1>3. Cardinality(S) \in Nat /\ Cardinality(T) \in Nat
    BY <1>1, <1>2, FS_CardinalityType
  <1> QED
    BY <1>2, <1>3, StmtAssumption

(* A use of a query by another caller takes no excuse away.                *)
LEMMA ExcuseStays ==
    ASSUME StmtInv, TypeOK', NEW h \in Callers, Excused(h),
           since[h] \subseteq since'[h], closer' = closer
    PROVE  Excused(h)'
  <1>1. CASE closer # "idle"
    BY <1>1 DEF Excused
  <1>2. CASE Cardinality(since[h]) >= MaxCached
    <2>1. since'[h] \subseteq Queries
      BY DEF TypeOK
    <2>2. Cardinality(since'[h]) >= MaxCached
      BY <1>2, <2>1, LargerStays
    <2> QED
      BY <2>2 DEF Excused
  <1> QED
    BY <1>1, <1>2 DEF Excused

(* Moving a query to the front leaves the others behind queries used since.*)
LEMMA FrontedInPlace ==
    ASSUME StmtInv, NEW q \in Queries, NEW g \in Callers, NEW h \in Callers \ {g},
           pc[h] \in Given, InPlace(h)
    PROVE  /\ Fronted(q)[query[h]] \subseteq Used(g, q)[h]
           /\ query[h] \in order
  <1>1. query[h] \in Queries /\ stmt[h] # NoStmt /\ ahead[query[h]] \subseteq since[h]
    BY DEF StmtInv, Hands, TypeOK, Given, InPlace
  <1>2. query[h] \in order
    BY <1>1 DEF StmtInv, CacheSound, InPlace
  <1>3. Used(g, q)[h] = since[h] \cup ({q} \ {query[h]})
    BY DEF Used
  <1>4. Fronted(q)[query[h]] = IF query[h] = q THEN {} ELSE ahead[query[h]] \cup {q}
    BY <1>1, <1>2 DEF Fronted
  <1> QED
    BY <1>1, <1>2, <1>3, <1>4

LEMMA UseDisplaces ==
    ASSUME StmtInv, Displaced, TypeOK', NEW g \in Callers, NEW q \in Queries,
           since' = Used(g, q), ahead' = Fronted(q), closer' = closer,
           query'[g] = q, items'[q] = stmt'[g],
           \A r \in order : items'[r] = items[r],
           \A h \in Callers \ {g} :
               pc'[h] = pc[h] /\ stmt'[h] = stmt[h] /\ query'[h] = query[h]
    PROVE  Displaced'
  <1> SUFFICES ASSUME NEW h \in Callers, pc'[h] \in Given
               PROVE  Excused(h)' \/ InPlace(h)'
    BY DEF Displaced, Given
  <1>1. CASE h = g
    BY <1>1 DEF InPlace, Fronted
  <1>2. CASE h # g /\ Excused(h)
    <2>1. since[h] \subseteq since'[h]
      BY <1>2 DEF Used, Given
    <2> QED
      BY <1>2, <2>1, ExcuseStays
  <1>3. CASE h # g /\ InPlace(h)
    BY <1>3, FrontedInPlace DEF InPlace
  <1> QED
    BY <1>1, <1>2, <1>3 DEF Displaced

LEMMA EvictDisplaces ==
    ASSUME StmtInv, Displaced, TypeOK', NEW g \in Callers, NEW old \in Queries,
           PutEvicting(g, old)
    PROVE  Displaced'
  <1> SUFFICES ASSUME NEW h \in Callers, pc'[h] \in Given
               PROVE  Excused(h)' \/ InPlace(h)'
    BY DEF Displaced, Given
  <1> DEFINE q == query[g]
  <1>1. /\ q \in Queries /\ q # old /\ q \notin order /\ pc[g] = "put"
        /\ old \in order /\ ahead[old] = order \ {old} /\ ~HasRoom
        /\ items' = [items EXCEPT ![q] = stmt[g], ![old] = NoStmt]
        /\ ahead' = [x \in Queries |-> IF x = old THEN {} ELSE Fronted(q)[x] \ {old}]
        /\ since' = Used(g, q) /\ closer' = closer
        /\ UNCHANGED <<query, stmt>>
    BY DEF PutEvicting, ItemsAfter, StmtInv, TypeOK, CacheSound
  <1>2. CASE h = g
    BY <1>1, <1>2 DEF InPlace, Fronted, StmtInv, TypeOK
  <1>3. ASSUME h # g
        PROVE  pc[h] \in Given /\ since'[h] = since[h] \cup ({q} \ {query[h]})
    <2>1. pc'[h] = pc[h]
      BY <1>3 DEF PutEvicting, StmtInv, TypeOK
    <2> QED
      BY <1>1, <1>3, <2>1 DEF Used, Given
  <1>4. CASE h # g /\ Excused(h)
    BY <1>1, <1>3, <1>4, ExcuseStays
  <1>5. CASE h # g /\ InPlace(h) /\ query[h] # old
    <2>1. query[h] \in order /\ Fronted(q)[query[h]] \subseteq since'[h]
      BY <1>1, <1>3, <1>5, FrontedInPlace
    <2>2. items'[query[h]] = items[query[h]] /\ query[h] \in Queries
      BY <1>1, <1>5, <2>1 DEF StmtInv, TypeOK
    <2> QED
      BY <1>1, <1>5, <2>1, <2>2 DEF InPlace
  <1>6. CASE h # g /\ InPlace(h) /\ query[h] = old
    <2>1. order \ {old} \subseteq since[h] /\ since'[h] = since[h] \cup {q}
      BY <1>1, <1>3, <1>6 DEF InPlace
    <2>2. (order \ {old}) \cup {q} \subseteq since'[h] /\ since'[h] \subseteq Queries
      BY <2>1 DEF TypeOK
    <2>3. IsFiniteSet(order)
      BY FS_Subset, StmtAssumption DEF StmtInv, TypeOK
    <2>4. IsFiniteSet(order \ {old}) /\ Cardinality(order \ {old}) = Cardinality(order) - 1
      BY <1>1, <2>3, FS_RemoveElement
    <2>5. Cardinality((order \ {old}) \cup {q}) = Cardinality(order \ {old}) + 1
      BY <1>1, <2>4, FS_AddElement
    <2>6. Cardinality(order) \in Nat /\ Cardinality(order) >= MaxCached
      BY <1>1, <2>3, FS_CardinalityType, StmtAssumption DEF HasRoom
    <2>7. Cardinality((order \ {old}) \cup {q}) >= MaxCached
      BY <2>4, <2>5, <2>6
    <2>8. Cardinality(since'[h]) >= MaxCached
      BY <2>2, <2>7, LargerStays
    <2> QED
      BY <2>8 DEF Excused
  <1> QED
    BY <1>2, <1>3, <1>4, <1>5, <1>6 DEF Displaced

LEMMA StepDisplaced ==
    ASSUME StmtInv, TypeOK', Displaced, [Next]_vars
    PROVE  Displaced'
  <1>1. ASSUME UNCHANGED cache, UNCHANGED query, UNCHANGED since, closer' = closer,
               \A g \in Callers : pc'[g] \in Given => pc[g] \in Given /\ stmt'[g] = stmt[g]
        PROVE  Displaced'
    BY <1>1 DEF cache, Displaced, Excused, InPlace, Given
  <1>2. CASE UNCHANGED vars
    BY <1>1, <1>2 DEF vars, caller
  <1>3. ASSUME NEW g \in Callers, NEW q \in Queries, Hit(g, q)
        PROVE  Displaced'
    BY <1>3, UseDisplaces DEF Hit, StmtInv, TypeOK
  <1>4. ASSUME NEW g \in Callers, NEW q \in Queries, Miss(g, q)
        PROVE  Displaced'
    <2>1. \A h \in Callers : pc'[h] \in Given => h # g /\ pc[h] \in Given
      BY <1>4 DEF Miss, Given, StmtInv, TypeOK
    <2> QED
      BY <1>4, <2>1 DEF Miss, cache, Displaced, Excused, InPlace, Given, StmtInv, TypeOK
  <1>5. ASSUME NEW g \in Callers, NEW s \in Stmts, Prepare(g, s)
        PROVE  Displaced'
    BY <1>1, <1>5 DEF Prepare, StmtInv, TypeOK, Given
  <1>6. ASSUME NEW g \in Callers, PutExisting(g)
        PROVE  Displaced'
    BY <1>6, UseDisplaces DEF PutExisting, StmtInv, TypeOK
  <1>7. ASSUME NEW g \in Callers, PutNew(g)
        PROVE  Displaced'
    <2>1. query[g] \in Queries /\ query[g] \notin order
      BY <1>7 DEF PutNew, StmtInv, TypeOK, CacheSound
    <2>2. items'[query[g]] = stmt'[g] /\ \A r \in order : items'[r] = items[r]
      BY <1>7, <2>1 DEF PutNew, StmtInv, TypeOK
    <2> QED
      BY <1>7, <2>1, <2>2, UseDisplaces DEF PutNew, StmtInv, TypeOK
  <1>8. ASSUME NEW g \in Callers,
               PrepareFails(g) \/ CloseDropped(g) \/ Execute(g)
               \/ ExecuteRefused(g) \/ Return(g)
        PROVE  Displaced'
    BY <1>1, <1>8
    DEF PrepareFails, CloseDropped, Execute, ExecuteRefused, Return, StmtInv, TypeOK, Given
  <1>9. CASE CloseBegin \/ CloseDB
    BY <1>9 DEF CloseBegin, CloseDB, CloseNext, CloseEnd, CloseConnections, Displaced, Excused
  <1> QED
    BY <1>2, <1>3, <1>4, <1>5, <1>6, <1>7, <1>8, <1>9, EvictDisplaces
    DEF Next, Call, Put, CloseDB

LEMMA DisplacedExplains == StmtInv /\ Displaced => ClosedOnlyIfDisplaced
  <1> SUFFICES ASSUME StmtInv, Displaced, NEW g \in Callers,
                      pc[g] \in Given, stmt[g] \notin open, ~Excused(g)
               PROVE  FALSE
    BY DEF ClosedOnlyIfDisplaced, Excused
  <1>1. InPlace(g) /\ LockFree
    BY DEF Displaced, Excused, LockFree
  <1>2. query[g] \in Queries /\ stmt[g] # NoStmt
    BY DEF StmtInv, TypeOK, Hands, Given
  <1> QED
    BY <1>1, <1>2 DEF InPlace, StmtInv, CacheSound

(* PrepareCached returns a statement outside the lock, so that eviction    *)
(* may close it before it is executed: that takes MaxCached other queries  *)
(* in between, or DB.Close.                                                *)
THEOREM ClosedOnlyWhenDisplaced == Spec => []ClosedOnlyIfDisplaced
  <1>1. Init => Displaced
    BY DEF Init, Displaced, Given
  <1>2. StmtInv /\ StmtInv' /\ Displaced /\ [Next]_vars => Displaced'
    BY StepDisplaced DEF StmtInv
  <1> QED
    BY <1>1, <1>2, StmtAlways, DisplacedExplains, PTL DEF Spec
=============================================================================
