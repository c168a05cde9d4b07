---------------------------- MODULE LoginProofs ----------------------------
(***************************************************************************)
(* Proofs about the session store, and about Login, which uses it through  *)
(* its operations only: for any number of identifiers, keys, requests and  *)
(* browsers, and any limits; and about the cache.                          *)
(***************************************************************************)
EXTENDS Login, Cache, FiniteSetTheorems, TLAPS

(* The store's invariant: the limits on the usable sessions of a key need  *)
(* the index to list them all.                                             *)
StoreInv == StoreTypeOK /\ IndexConsistent /\ LimitsHold

UsableOf(k) == {id \in Ids : Usable(id) /\ keyOf[id] = k}

LEMMA Smaller ==
    ASSUME NEW S, NEW T, IsFiniteSet(T), S \subseteq T, NEW n \in Nat,
           Cardinality(T) <= n
    PROVE  Cardinality(S) <= n
  BY FS_Subset, FS_CardinalityType

LEMMA OneMore ==
    ASSUME NEW S, IsFiniteSet(S), NEW x, NEW n \in Nat, Cardinality(S) < n
    PROVE  Cardinality(S \cup {x}) <= n /\ IsFiniteSet(S \cup {x})
  <1>1. Cardinality(S) \in Nat
    BY FS_CardinalityType
  <1>2. /\ IsFiniteSet(S \cup {x})
        /\ Cardinality(S \cup {x}) = IF x \in S THEN Cardinality(S) ELSE Cardinality(S) + 1
    BY FS_AddElement
  <1> QED
    BY <1>1, <1>2

-----------------------------------------------------------------------------
(* Steps that create no session.                                           *)

(* The usable sessions of a key do not become more when sessions leave the *)
(* map, or time passes, and the others keep their key and their time.      *)
LEMMA FewerUsable ==
    ASSUME StoreInv, sessions' \subseteq sessions, now' \in Nat, now' >= now,
           \A id \in sessions' : keyOf'[id] = keyOf[id] /\ expires'[id] = expires[id]
    PROVE  LimitsHold'
  <1>1. IsFiniteSet(sessions)
    BY IdAssumption, FS_Subset DEF StoreInv, StoreTypeOK
  <1>2. Cardinality(sessions') <= TotalCap
    BY <1>1, Smaller, LimitAssumption DEF StoreInv, LimitsHold
  <1>3. ASSUME NEW k \in Keys PROVE Cardinality(UsableOf(k)') <= KeyCap
    <2>1. UsableOf(k)' \subseteq UsableOf(k)
      BY DEF UsableOf, Usable, Expired, StoreInv, StoreTypeOK
    <2>2. IsFiniteSet(UsableOf(k))
      BY IdAssumption, FS_Subset DEF UsableOf
    <2>3. Cardinality(UsableOf(k)) <= KeyCap
      BY DEF StoreInv, LimitsHold, UsableOf
    <2> QED
      BY <2>1, <2>2, <2>3, Smaller, LimitAssumption
  <1> QED
    BY <1>2, <1>3 DEF LimitsHold, UsableOf

LEMMA ForgetLeaves ==
    ASSUME StoreTypeOK, NEW gone \in SUBSET Ids, Forget(gone), UNCHANGED <<issued, now>>
    PROVE  /\ sessions' = sessions \ gone
           /\ keyOf' \in [Ids -> Keys \cup {NoKey}]
           /\ expires' \in [Ids -> Nat]
           /\ \A id \in Ids \ gone : keyOf'[id] = keyOf[id] /\ expires'[id] = expires[id]
           /\ \A id \in Ids \cap gone : keyOf'[id] = NoKey /\ expires'[id] = 0
  BY DEF Forget, StoreTypeOK

LEMMA DeletePreserves ==
    ASSUME StoreInv, NEW id \in Ids, Delete(id)
    PROVE  StoreInv'
  <1>1. /\ Forget({id})
        /\ byKey' = [k \in Keys |-> IF k = keyOf[id] THEN byKey[k] \ {id} ELSE byKey[k]]
        /\ UNCHANGED <<limits, issued, now>>
    BY DEF Delete
  <1>2. /\ sessions' = sessions \ {id}
        /\ keyOf' \in [Ids -> Keys \cup {NoKey}]
        /\ expires' \in [Ids -> Nat]
        /\ \A i \in Ids \ {id} : keyOf'[i] = keyOf[i] /\ expires'[i] = expires[i]
        /\ keyOf'[id] = NoKey /\ expires'[id] = 0
    BY <1>1, ForgetLeaves DEF StoreInv
  <1>3. StoreTypeOK'
    BY <1>1, <1>2 DEF StoreInv, StoreTypeOK
  <1>4. IndexConsistent'
    BY <1>1, <1>2, KeyAssumption
    DEF StoreInv, StoreTypeOK, IndexConsistent, Usable, Expired
  <1>5. LimitsHold'
    BY <1>1, <1>2, <1>3, FewerUsable DEF StoreInv, StoreTypeOK
  <1> QED
    BY <1>3, <1>4, <1>5 DEF StoreInv

LEMMA GcPreserves ==
    ASSUME StoreInv, Gc
    PROVE  StoreInv'
  <1> DEFINE gone == {id \in sessions : Expired(id)}
  <1>1. /\ Forget(gone)
        /\ byKey' = [k \in Keys |-> byKey[k] \ {id \in gone : keyOf[id] = k}]
        /\ UNCHANGED <<limits, issued, now>>
    BY DEF Gc
  <1>2. gone \in SUBSET Ids
    BY DEF StoreInv, StoreTypeOK
  <1>3. /\ sessions' = sessions \ gone
        /\ keyOf' \in [Ids -> Keys \cup {NoKey}]
        /\ expires' \in [Ids -> Nat]
        /\ \A i \in Ids \ gone : keyOf'[i] = keyOf[i] /\ expires'[i] = expires[i]
        /\ \A i \in Ids \cap gone : keyOf'[i] = NoKey /\ expires'[i] = 0
    BY <1>1, <1>2, ForgetLeaves DEF StoreInv
  <1> HIDE DEF gone
  <1>4. StoreTypeOK'
    BY <1>1, <1>2, <1>3 DEF StoreInv, StoreTypeOK
  <1>5. IndexConsistent'
    BY <1>1, <1>2, <1>3, KeyAssumption
    DEF StoreInv, StoreTypeOK, IndexConsistent, Usable, Expired
  <1>6. LimitsHold'
    BY <1>1, <1>2, <1>3, <1>4, FewerUsable DEF StoreInv, StoreTypeOK
  <1> QED
    BY <1>4, <1>5, <1>6 DEF StoreInv

LEMMA RefusePreserves ==
    ASSUME StoreInv, NEW k \in Keys, RefuseKey(k)
    PROVE  StoreInv'
  <1>1. byKey' = [byKey EXCEPT ![k] = Alive(k)]
        /\ UNCHANGED <<sessions, keyOf, expires, limits, issued, now>>
    BY DEF RefuseKey
  <1>2. StoreTypeOK'
    BY <1>1 DEF StoreInv, StoreTypeOK, Alive
  <1>3. IndexConsistent'
    BY <1>1 DEF StoreInv, StoreTypeOK, IndexConsistent, Alive, Usable, Expired
  <1>4. LimitsHold'
    BY <1>1, FewerUsable DEF StoreInv, StoreTypeOK
  <1> QED
    BY <1>2, <1>3, <1>4 DEF StoreInv

LEMMA LimitsAndTimePreserve ==
    ASSUME StoreInv, Tick \/ \E l \in Limits : SetLimits(l)
    PROVE  StoreInv'
  <1>1. /\ UNCHANGED <<sessions, keyOf, expires, byKey, issued>>
        /\ limits' \in Limits
        /\ now' \in Nat /\ now' >= now
    BY DEF Tick, SetLimits, StoreInv, StoreTypeOK
  <1>2. StoreTypeOK'
    BY <1>1 DEF StoreInv, StoreTypeOK
  <1>3. IndexConsistent'
    BY <1>1 DEF StoreInv, StoreTypeOK, IndexConsistent, Usable, Expired
  <1>4. LimitsHold'
    BY <1>1, FewerUsable DEF StoreInv, StoreTypeOK
  <1> QED
    BY <1>2, <1>3, <1>4 DEF StoreInv

-----------------------------------------------------------------------------
(* The step that creates one: it is where the limits are at stake.         *)
LEMMA CreatePreserves ==
    ASSUME StoreInv, NEW id, NEW k \in Keys \cup {NoKey}, Create(id, k)
    PROVE  StoreInv'
  <1>1. /\ id \in Ids \ issued
        /\ ~StoreFull
        /\ k # NoKey => ~KeyFull(k)
        /\ issued' = issued \cup {id}
        /\ sessions' = sessions \cup {id}
        /\ keyOf' = [keyOf EXCEPT ![id] = k]
        /\ expires' = [expires EXCEPT ![id] = now + TTL]
        /\ byKey' = IF k = NoKey THEN byKey
                    ELSE [byKey EXCEPT ![k] = Alive(k) \cup {id}]
        /\ UNCHANGED <<limits, now>>
    BY DEF Create
  <1>2. limits.total \in 0..TotalCap /\ limits.perKey \in 0..KeyCap
    BY LimitAssumption DEF StoreInv, StoreTypeOK
  <1>3. StoreTypeOK'
    BY <1>1, TimeAssumption DEF StoreInv, StoreTypeOK, Alive
  <1>4. IndexConsistent'
    BY <1>1, KeyAssumption
    DEF StoreInv, StoreTypeOK, IndexConsistent, Alive, Usable, Expired
  <1>5. Cardinality(sessions') <= TotalCap
    <2>1. IsFiniteSet(sessions)
      BY IdAssumption, FS_Subset DEF StoreInv, StoreTypeOK
    <2>2. Cardinality(sessions) \in Nat
      BY <2>1, FS_CardinalityType
    <2>3. Cardinality(sessions) < TotalCap
      BY <1>1, <1>2, <2>2, LimitAssumption DEF StoreFull
    <2> QED
      BY <1>1, <2>1, <2>3, OneMore, LimitAssumption
  <1>6. ASSUME NEW j \in Keys PROVE Cardinality(UsableOf(j)') <= KeyCap
    <2>1. CASE j # k
      <3>1. UsableOf(j)' \subseteq UsableOf(j)
        BY <1>1, <2>1 DEF UsableOf, Usable, Expired, StoreInv, StoreTypeOK
      <3>2. IsFiniteSet(UsableOf(j))
        BY IdAssumption, FS_Subset DEF UsableOf
      <3>3. Cardinality(UsableOf(j)) <= KeyCap
        BY DEF StoreInv, LimitsHold, UsableOf
      <3> QED
        BY <3>1, <3>2, <3>3, Smaller, LimitAssumption
    <2>2. CASE j = k
      <3>1. UsableOf(j)' \subseteq Alive(k) \cup {id}
        BY <1>1, <2>2, KeyAssumption
        DEF UsableOf, Alive, Usable, Expired, StoreInv, StoreTypeOK, IndexConsistent
      <3>2. IsFiniteSet(Alive(k))
        <4>1. Alive(k) \subseteq Ids
          BY <2>2 DEF Alive, StoreInv, StoreTypeOK
        <4> QED
          BY <4>1, IdAssumption, FS_Subset
      <3>3. Cardinality(Alive(k)) < KeyCap
        <4>1. Cardinality(Alive(k)) \in Nat
          BY <3>2, FS_CardinalityType
        <4> QED
          BY <1>1, <1>2, <2>2, <4>1, KeyAssumption, LimitAssumption DEF KeyFull
      <3>4. Cardinality(Alive(k) \cup {id}) <= KeyCap /\ IsFiniteSet(Alive(k) \cup {id})
        BY <3>2, <3>3, OneMore, LimitAssumption
      <3> QED
        BY <3>1, <3>4, Smaller, LimitAssumption
    <2> QED
      BY <2>1, <2>2
  <1>7. LimitsHold'
    BY <1>5, <1>6 DEF LimitsHold, UsableOf
  <1> QED
    BY <1>3, <1>4, <1>7 DEF StoreInv

-----------------------------------------------------------------------------
LEMMA StoreInitially ==
    ASSUME StoreInit
    PROVE  StoreInv
  <1>1. StoreTypeOK
    BY DEF StoreInit, StoreTypeOK
  <1>2. IndexConsistent
    BY DEF StoreInit, IndexConsistent, Usable
  <1>3. LimitsHold
    <2>1. sessions = {} /\ \A k \in Keys : UsableOf(k) = {}
      BY DEF StoreInit, UsableOf, Usable
    <2> QED
      BY <2>1, FS_EmptySet, LimitAssumption DEF LimitsHold, UsableOf
  <1> QED
    BY <1>1, <1>2, <1>3 DEF StoreInv

LEMMA StoreStep ==
    ASSUME StoreInv, [StoreNext]_store
    PROVE  StoreInv'
  <1>1. CASE UNCHANGED store
    BY <1>1 DEF store, StoreInv, StoreTypeOK, IndexConsistent, LimitsHold, Usable, Expired
  <1>2. CASE \E id \in Ids : Delete(id)
    BY <1>2, DeletePreserves
  <1>3. CASE \E id \in Ids, k \in Keys \cup {NoKey} : Create(id, k)
    BY <1>3, CreatePreserves
  <1>4. CASE \E k \in Keys : RefuseKey(k)
    BY <1>4, RefusePreserves
  <1>5. CASE Tick \/ \E l \in Limits : SetLimits(l)
    BY <1>5, LimitsAndTimePreserve
  <1>6. CASE Gc
    BY <1>6, GcPreserves
  <1> QED
    BY <1>1, <1>2, <1>3, <1>4, <1>5, <1>6 DEF StoreNext

(* The session store keeps its index consistent and its limits, for every  *)
(* sequence of its operations (session.go:95-195).                         *)
THEOREM StoreIsSound == StoreSpec => [](IndexConsistent /\ LimitsHold)
  <1>1. StoreInit => StoreInv
    BY StoreInitially
  <1>2. StoreInv /\ [StoreNext]_store => StoreInv'
    BY StoreStep
  <1>3. StoreInv => IndexConsistent /\ LimitsHold
    BY DEF StoreInv
  <1> QED
    BY <1>1, <1>2, <1>3, PTL DEF StoreSpec

-----------------------------------------------------------------------------
(* Login.                                                                  *)

LEMMA LoginUsesStore ==
    ASSUME [Next]_vars, TypeOK
    PROVE  [StoreNext]_store
  <1>1. CASE UNCHANGED vars
    BY <1>1 DEF vars
  <1>2. CASE Application
    BY <1>2 DEF Application, StoreNext, StoreTypeOK, TypeOK
  <1>3. CASE \E r \in Requests, b \in Browsers, a \in Accounts :
               Send(r, b, a, "login") \/ Send(r, b, a, "logout")
    BY <1>3 DEF Send
  <1>4. ASSUME NEW r \in Requests, Serve(r)
        PROVE  [StoreNext]_store
    <2>1. CASE NewSession(r)
      BY <2>1 DEF NewSession, StoreNext
    <2>2. CASE DeleteSent(r, "delete", "new") \/ DeleteSent(r, "end", "cleared")
      <3>1. request[r].sent \in Ids
        BY <2>2 DEF DeleteSent, At, TypeOK, StoreTypeOK, Idle
      <3> QED
        BY <2>2, <3>1 DEF DeleteSent, StoreNext
    <2>3. CASE UNCHANGED store
      BY <2>3
    <2> QED
      BY <1>4, <2>1, <2>2, <2>3
      DEF Serve, Check, Query, Fail, Reset, Find, NoSession, Respond
  <1> QED
    BY <1>1, <1>2, <1>3, <1>4 DEF Next

LEMMA IssuedGrows ==
    ASSUME StoreTypeOK, [StoreNext]_store
    PROVE  issued \subseteq issued' /\ now' \in Nat /\ now' >= now
  <1>1. CASE UNCHANGED <<issued, now>>
    BY <1>1 DEF StoreTypeOK
  <1>2. CASE UNCHANGED store
    BY <1>1, <1>2 DEF store
  <1>3. CASE \E id \in Ids : Delete(id)
    BY <1>1, <1>3 DEF Delete
  <1>4. CASE \E id \in Ids, k \in Keys \cup {NoKey} : Create(id, k)
    BY <1>4 DEF Create, StoreTypeOK
  <1>5. CASE (\E k \in Keys : RefuseKey(k)) \/ (\E l \in Limits : SetLimits(l)) \/ Gc
    BY <1>1, <1>5 DEF RefuseKey, SetLimits, Gc
  <1>6. CASE Tick
    BY <1>6 DEF Tick, StoreTypeOK
  <1> QED
    BY <1>2, <1>3, <1>4, <1>5, <1>6 DEF StoreNext

(* A session that no longer works never works again.                       *)
LEMMA NeverUsableAgain ==
    ASSUME StoreTypeOK, [StoreNext]_store, NEW id \in issued, ~Usable(id)
    PROVE  ~Usable(id)'
  <1>1. CASE UNCHANGED store
    BY <1>1 DEF store, Usable, Expired
  <1>2. CASE \E i \in Ids, k \in Keys \cup {NoKey} : Create(i, k)
    BY <1>2 DEF Create, Usable, Expired, StoreTypeOK
  <1>3. ASSUME NEW i \in Ids, Delete(i) PROVE ~Usable(id)'
    <2>1. id \in sessions' => id \in sessions /\ expires'[id] = expires[id] /\ now' = now
      BY <1>3 DEF Delete, Forget, StoreTypeOK
    <2> QED
      BY <2>1 DEF Usable, Expired
  <1>4. CASE Gc
    <2>1. id \in sessions' => id \in sessions /\ expires'[id] = expires[id] /\ now' = now
      BY <1>4 DEF Gc, Forget, StoreTypeOK
    <2> QED
      BY <2>1 DEF Usable, Expired
  <1>5. CASE (\E k \in Keys : RefuseKey(k)) \/ (\E l \in Limits : SetLimits(l)) \/ Tick
    BY <1>5 DEF RefuseKey, SetLimits, Tick, Usable, Expired, StoreTypeOK
  <1> QED
    BY <1>1, <1>2, <1>3, <1>4, <1>5 DEF StoreNext

(* The part of TypeOK about the requests and the browsers.                 *)
RequestOK ==
    /\ cookie \in [Browsers -> issued \cup {NoId}]
    /\ request \in [Requests -> {Idle} \cup
           [at : States, browser : Browsers, account : Accounts,
            sent : issued \cup {NoId}, mine : issued \cup {NoId}]]
    /\ \A r \in Requests :
          /\ At(r, "respond") => request[r].mine # NoId
          /\ At(r, "delete") \/ At(r, "end") => request[r].sent # NoId

ThrottleOK ==
    /\ count \in [ThrottleKeys -> Nat]
    /\ resetAt \in [ThrottleKeys -> Nat]
    /\ lastSweep \in 0..now

LEMMA TypeParts == TypeOK <=> StoreTypeOK /\ RequestOK /\ ThrottleOK
  BY DEF TypeOK, RequestOK, ThrottleOK

Record(iss) == [at : States, browser : Browsers, account : Accounts,
                sent : iss \cup {NoId}, mine : iss \cup {NoId}]

LEMMA IdleApart == \A iss : \A q \in Record(iss) : q.at # "idle" /\ q # Idle
  BY DEF Record, Idle, States

LEMMA RequestStep ==
    ASSUME StoreTypeOK, RequestOK, [Next]_vars, [StoreNext]_store
    PROVE  RequestOK'
  <1>1. issued \subseteq issued'
    BY IssuedGrows
  <1>2. ASSUME UNCHANGED <<cookie, request>> PROVE RequestOK'
    BY <1>1, <1>2 DEF RequestOK, At
  <1>3. CASE UNCHANGED vars
    BY <1>2, <1>3 DEF vars
  <1>4. CASE Application
    BY <1>2, <1>4 DEF Application
  <1>5. ASSUME NEW r \in Requests, NEW b \in Browsers, NEW a \in Accounts,
               NEW what \in {"login", "logout"}, Send(r, b, a, what)
        PROVE  RequestOK'
    <2>1. /\ request' = [request EXCEPT ![r] =
                           [at |-> what, browser |-> b, account |-> a,
                            sent |-> cookie[b], mine |-> NoId]]
          /\ UNCHANGED <<issued, cookie>>
      BY <1>5 DEF Send, store
    <2>2. [at |-> what, browser |-> b, account |-> a, sent |-> cookie[b], mine |-> NoId]
            \in Record(issued)
      BY DEF RequestOK, Record, States
    <2> QED
      BY <2>1, <2>2 DEF RequestOK, Record, At
  <1>6. ASSUME NEW r \in Requests, Serve(r)
        PROVE  RequestOK'
    <2>1. ASSUME End(r), cookie' \in [Browsers -> issued \cup {NoId}]
          PROVE  RequestOK'
      BY <1>1, <2>1 DEF End, RequestOK, At, Idle
    <2>2. ASSUME NEW to \in States, Goto(r, to), UNCHANGED cookie, ~At(r, "idle"),
                 to # "respond", to \in {"delete", "end"} => request[r].sent # NoId
          PROVE  RequestOK'
      <3>1. request[r] \in Record(issued)
        BY <2>2 DEF RequestOK, Record, At, Idle
      <3>2. request' = [request EXCEPT ![r] = [request[r] EXCEPT !.at = to]]
        BY <2>2 DEF Goto
      <3>3. [request[r] EXCEPT !.at = to] \in Record(issued)
        BY <3>1 DEF Record
      <3>4. [request[r] EXCEPT !.at = to].at = to
            /\ [request[r] EXCEPT !.at = to].sent = request[r].sent
        BY <3>1 DEF Record
      <3> QED
        BY <1>1, <2>2, <3>2, <3>3, <3>4 DEF RequestOK, Record, At
    <2>3. CASE Respond(r)
      <3>1. request[r] \in Record(issued)
        BY <2>3 DEF RequestOK, Record, At, Respond, Idle
      <3>2. cookie' \in [Browsers -> issued \cup {NoId}]
        BY <2>3, <3>1 DEF Respond, RequestOK, Record
      <3> QED
        BY <2>1, <2>3, <3>2 DEF Respond
    <2>4. CASE Check(r)
      BY <2>1, <2>2, <2>4 DEF Check, At, States, RequestOK
    <2>5. CASE Query(r, "fail") \/ Query(r, "reset")
      BY <2>2, <2>5 DEF Query, At, States
    <2>6. CASE Fail(r) \/ NoSession(r)
      BY <2>1, <2>6 DEF Fail, NoSession, RequestOK
    <2>7. CASE Reset(r)
      BY <2>2, <2>7 DEF Reset, At, States
    <2>8. CASE Find(r, "replace", "delete", "new") \/ Find(r, "logout", "end", "cleared")
      BY <2>2, <2>8 DEF Find, Found, At, States
    <2>9. CASE DeleteSent(r, "delete", "new") \/ DeleteSent(r, "end", "cleared")
      BY <2>2, <2>9 DEF DeleteSent, At, States
    <2>10. CASE NewSession(r)
      <3>1. PICK id \in Ids : Create(id, NoKey)
                /\ request' = [request EXCEPT ![r].at = "respond", ![r].mine = id]
        BY <2>10 DEF NewSession
      <3>2. id \in issued' /\ id # NoId /\ UNCHANGED cookie
        BY <2>10, <3>1, LoginAssumption DEF Create, NewSession
      <3>3. request[r] \in Record(issued)
        BY <2>10 DEF RequestOK, Record, At, NewSession, Idle
      <3>4. request'[r].mine = id /\ request'[r] \in Record(issued')
        BY <1>1, <3>1, <3>2, <3>3 DEF Record, States, RequestOK
      <3>5. request'[r].at = "respond"
        BY <3>1, <3>3 DEF Record, RequestOK
      <3>6. \A q \in Requests \ {r} : request'[q] = request[q]
        BY <3>1 DEF RequestOK
      <3>7. DOMAIN request' = Requests /\ request' = [q \in Requests |-> request'[q]]
        BY <3>1 DEF RequestOK
      <3> QED
        BY <1>1, <3>2, <3>4, <3>5, <3>6, <3>7 DEF RequestOK, Record, At
    <2> QED
      BY <1>6, <2>3, <2>4, <2>5, <2>6, <2>7, <2>8, <2>9, <2>10 DEF Serve
  <1> QED
    BY <1>3, <1>4, <1>5, <1>6 DEF Next

LEMMA KeyTyped ==
    ASSUME RequestOK, NEW r \in Requests, ~At(r, "idle")
    PROVE  KeyOfRequest(r) \in ThrottleKeys
  <1>1. request[r] \in Record(issued)
    BY DEF RequestOK, Record, At, Idle
  <1> QED
    BY <1>1 DEF KeyOfRequest, ThrottleKeys, Record

LEMMA ThrottleStep ==
    ASSUME StoreTypeOK, RequestOK, ThrottleOK, [Next]_vars, [StoreNext]_store
    PROVE  ThrottleOK'
  <1>1. now \in Nat /\ now' \in Nat /\ now' >= now
    BY IssuedGrows DEF StoreTypeOK
  <1>2. ASSUME UNCHANGED throttle PROVE ThrottleOK'
    BY <1>1, <1>2 DEF ThrottleOK, throttle
  <1>3. CASE UNCHANGED vars
    BY <1>2, <1>3 DEF vars
  <1>4. CASE Application
    BY <1>2, <1>4 DEF Application
  <1>5. CASE \E r \in Requests, b \in Browsers, a \in Accounts :
               Send(r, b, a, "login") \/ Send(r, b, a, "logout")
    BY <1>2, <1>5 DEF Send
  <1>6. ASSUME NEW r \in Requests, Serve(r) PROVE ThrottleOK'
    <2>1. CASE UNCHANGED throttle
      BY <1>2, <2>1
    <2>2. CASE Check(r)
      <3>1. now' = now
        BY <2>2 DEF Check, store
      <3>2. lastSweep' \in 0..now'
        BY <1>1, <2>2, <3>1 DEF Check, ThrottleOK
      <3>3. count' \in [ThrottleKeys -> Nat] /\ resetAt' \in [ThrottleKeys -> Nat]
        BY <2>2 DEF Check, ThrottleOK
      <3> QED
        BY <3>2, <3>3 DEF ThrottleOK
    <2>3. CASE Fail(r)
      <3>1. KeyOfRequest(r) \in ThrottleKeys /\ now' = now /\ lastSweep' = lastSweep
        BY <2>3, KeyTyped DEF Fail, At, store
      <3>2. count' \in [ThrottleKeys -> Nat]
        BY <2>3, <3>1 DEF Fail, ThrottleOK
      <3>3. resetAt' \in [ThrottleKeys -> Nat]
        BY <1>1, <2>3, <3>1, LoginAssumption DEF Fail, ThrottleOK
      <3> QED
        BY <3>1, <3>2, <3>3 DEF ThrottleOK
    <2>4. CASE Reset(r)
      <3>1. KeyOfRequest(r) \in ThrottleKeys /\ now' = now /\ lastSweep' = lastSweep
        BY <2>4, KeyTyped DEF Reset, At, store
      <3> QED
        BY <2>4, <3>1 DEF Reset, ThrottleOK
    <2> QED
      BY <1>6, <2>1, <2>2, <2>3, <2>4
      DEF Serve, Query, Find, DeleteSent, NewSession, NoSession, Respond
  <1> QED
    BY <1>3, <1>4, <1>5, <1>6 DEF Next

-----------------------------------------------------------------------------
(* The invariant of Login: its variables have their values and the store   *)
(* keeps its own invariant.                                                *)
LoginInv == TypeOK /\ IndexConsistent /\ LimitsHold

LEMMA LoginInitially ==
    ASSUME Init
    PROVE  LoginInv
  <1>1. StoreInv
    BY StoreInitially DEF Init
  <1>2. RequestOK
    BY DEF Init, RequestOK, At, Idle
  <1>3. ThrottleOK
    BY DEF Init, ThrottleOK, StoreInit
  <1> QED
    BY <1>1, <1>2, <1>3, TypeParts DEF StoreInv, LoginInv

LEMMA LoginStep ==
    ASSUME LoginInv, [Next]_vars
    PROVE  LoginInv'
  <1>1. [StoreNext]_store
    BY LoginUsesStore DEF LoginInv
  <1>2. StoreInv /\ StoreTypeOK /\ RequestOK /\ ThrottleOK
    BY TypeParts DEF LoginInv, StoreInv
  <1>3. StoreInv'
    BY <1>1, <1>2, StoreStep
  <1>4. RequestOK'
    BY <1>1, <1>2, RequestStep
  <1>5. ThrottleOK'
    BY <1>1, <1>2, ThrottleStep
  <1>6. TypeOK' <=> StoreTypeOK' /\ RequestOK' /\ ThrottleOK'
    BY DEF TypeOK, RequestOK, ThrottleOK
  <1> QED
    BY <1>3, <1>4, <1>5, <1>6 DEF LoginInv, StoreInv

LEMMA LoginAlways == Spec => []LoginInv
  <1>1. Init => LoginInv
    BY LoginInitially
  <1>2. LoginInv /\ [Next]_vars => LoginInv'
    BY LoginStep
  <1> QED
    BY <1>1, <1>2, PTL DEF Spec

(* The variables of Login keep their values (login.go, throttle.go).       *)
THEOREM TypeCorrect == Spec => []TypeOK
  <1>1. LoginInv => TypeOK
    BY DEF LoginInv
  <1> QED
    BY <1>1, LoginAlways, PTL

(* While Login, Logout and the application use the store at once, its index*)
(* stays consistent and its limits hold (session.go:95-195).               *)
THEOREM StoreStaysSound == Spec => []SessionsSound
  <1>1. LoginInv => SessionsSound
    BY DEF LoginInv, SessionsSound
  <1> QED
    BY <1>1, LoginAlways, PTL

(* Login and Logout use the store through its operations only.             *)
THEOREM LoginImplementsStore == Spec => StoreSpec
  <1>1. Init => StoreInit
    BY DEF Init
  <1>2. LoginInv /\ [Next]_vars => [StoreNext]_store
    BY LoginUsesStore DEF LoginInv
  <1> QED
    BY <1>1, <1>2, LoginAlways, PTL DEF Spec, StoreSpec

-----------------------------------------------------------------------------
(* A request past its deletion stays past it: what it came with no longer  *)
(* works, and nothing makes a session work again.                          *)

Past(r) == At(r, "new") \/ At(r, "respond") \/ At(r, "cleared")
Ended(r) == request[r].sent = NoId \/ ~Usable(request[r].sent)

(* A goroutine moves its own request only.                                 *)
LEMMA ServesItsOwn ==
    ASSUME RequestOK, NEW r \in Requests, Serve(r)
    PROVE  \A q \in Requests \ {r} : request'[q] = request[q]
  <1>1. ASSUME NEW to, Goto(r, to) PROVE \E v : request' = [request EXCEPT ![r] = v]
    BY <1>1 DEF Goto
  <1>2. End(r) => \E v : request' = [request EXCEPT ![r] = v]
    BY DEF End
  <1>3. NewSession(r) => \E v : request' = [request EXCEPT ![r] = v]
    BY DEF NewSession
  <1>4. \E v : request' = [request EXCEPT ![r] = v]
    <2>1. CASE Check(r)
      BY <1>1, <1>2, <2>1 DEF Check
    <2>2. CASE Query(r, "fail") \/ Query(r, "reset") \/ Reset(r)
      BY <1>1, <2>2 DEF Query, Reset
    <2>3. CASE \E from, found, none : Find(r, from, found, none)
      BY <1>1, <2>3 DEF Find
    <2>4. CASE \E from, to : DeleteSent(r, from, to)
      BY <1>1, <2>4 DEF DeleteSent
    <2>5. CASE Fail(r) \/ NoSession(r) \/ Respond(r)
      BY <1>2, <2>5 DEF Fail, NoSession, Respond
    <2> QED
      BY <1>3, <2>1, <2>2, <2>3, <2>4, <2>5 DEF Serve
  <1> QED
    BY <1>4 DEF RequestOK

LEMMA PastStep ==
    ASSUME LoginInv, SentSessionEnds, [Next]_vars
    PROVE  SentSessionEnds'
  <1>1. [StoreNext]_store /\ StoreTypeOK /\ RequestOK
    BY LoginUsesStore, TypeParts DEF LoginInv
  <1>2. ASSUME NEW q \in Requests, ~At(q, "idle")
        PROVE  request[q] \in Record(issued)
    BY <1>1, <1>2 DEF RequestOK, Record, At, Idle
  <1>3. ASSUME NEW q \in Requests, Past(q), Past(q)', request'[q].sent = request[q].sent
        PROVE  Ended(q)'
    <2>1. request[q].sent \in issued \cup {NoId}
      BY <1>2, <1>3 DEF Past, At, Record
    <2>2. request[q].sent = NoId \/ ~Usable(request[q].sent)
      BY <1>3 DEF SentSessionEnds, Past
    <2>3. ASSUME NEW id \in issued, ~Usable(id) PROVE id \notin sessions' \/ now' > expires'[id]
      BY <1>1, <2>3, NeverUsableAgain DEF Usable, Expired
    <2> QED
      BY <1>3, <2>1, <2>2, <2>3 DEF Ended, Usable, Expired
  <1>4. ASSUME NEW r \in Requests, Serve(r)
        PROVE  \A q \in Requests \ {r} : request'[q] = request[q]
    BY <1>1, <1>4, ServesItsOwn
  <1>5. ASSUME NEW r \in Requests, Serve(r), Past(r)'
        PROVE  Ended(r)'
    <2>1. ~At(r, "idle") /\ request[r] \in Record(issued)
      <3>1. ~At(r, "idle")
        BY <1>5 DEF Serve, Check, Query, Fail, Reset, Find, DeleteSent,
                    NewSession, NoSession, Respond, At
      <3> QED
        BY <1>2, <3>1
    <2>2. ASSUME End(r) PROVE FALSE
      BY <1>1, <1>5, <2>2 DEF End, Past, At, Idle, RequestOK
    <2>3. ASSUME NEW to, Goto(r, to)
          PROVE  request'[r].at = to /\ request'[r].sent = request[r].sent
      BY <1>1, <2>1, <2>3 DEF Goto, RequestOK, Record
    <2>4. CASE Check(r) \/ Query(r, "fail") \/ Query(r, "reset") \/ Reset(r)
      BY <1>5, <2>2, <2>3, <2>4 DEF Check, Query, Reset, Past, At
    <2>5. CASE Fail(r) \/ NoSession(r) \/ Respond(r)
      BY <2>2, <2>5 DEF Fail, NoSession, Respond
    <2>6. CASE Find(r, "replace", "delete", "new") \/ Find(r, "logout", "end", "cleared")
      <3>1. UNCHANGED store
        BY <2>6 DEF Find
      <3>2. PICK to \in {"delete", "end", "new", "cleared"} :
                Goto(r, to) /\ (to \in {"delete", "end"} <=> Found(r))
        BY <2>6 DEF Find
      <3>3. request'[r].at = to /\ request'[r].sent = request[r].sent
        BY <2>3, <3>2
      <3>4. ~Found(r)
        BY <1>5, <3>2, <3>3 DEF Past, At
      <3> QED
        BY <3>1, <3>3, <3>4 DEF Ended, Found, Usable, Expired, store
    <2>7. CASE DeleteSent(r, "delete", "new") \/ DeleteSent(r, "end", "cleared")
      <3>1. Delete(request[r].sent) /\ request'[r].sent = request[r].sent
        BY <2>3, <2>7 DEF DeleteSent
      <3>2. request[r].sent \notin sessions'
        BY <3>1 DEF Delete, Forget
      <3> QED
        BY <3>1, <3>2 DEF Ended, Usable
    <2>8. CASE NewSession(r)
      <3>1. Past(r)
        BY <2>8 DEF NewSession, Past
      <3>2. request'[r].sent = request[r].sent
        BY <1>1, <2>1, <2>8 DEF NewSession, RequestOK, Record
      <3> QED
        BY <1>3, <1>5, <3>1, <3>2
    <2> QED
      BY <1>5, <2>4, <2>5, <2>6, <2>7, <2>8 DEF Serve
  <1>6. ASSUME NEW q \in Requests, Past(q)'
        PROVE  Ended(q)'
    <2>1. CASE request'[q] = request[q]
      BY <1>3, <1>6, <2>1 DEF Past, At
    <2>2. CASE UNCHANGED vars \/ Application
      BY <2>1, <2>2 DEF vars, Application
    <2>3. ASSUME NEW r \in Requests, NEW b \in Browsers, NEW a \in Accounts,
                 NEW what \in {"login", "logout"}, Send(r, b, a, what)
          PROVE  request'[q] = request[q]
      <3>1. r # q
        BY <1>1, <1>6, <2>3 DEF Send, Past, At, RequestOK
      <3> QED
        BY <1>1, <2>3, <3>1 DEF Send, RequestOK
    <2>4. ASSUME NEW r \in Requests, Serve(r), r # q
          PROVE  request'[q] = request[q]
      BY <1>4, <2>4
    <2> QED
      BY <1>5, <1>6, <2>1, <2>2, <2>3, <2>4 DEF Next
  <1> QED
    BY <1>6 DEF SentSessionEnds, Past, Ended

(* Once Login has made the new session, or Logout answers, the session the *)
(* request came with no longer works (login.go:166-169, 182-186), however  *)
(* many requests are served at once.                                       *)
THEOREM SentSessionEndsAlways == Spec => []SentSessionEnds
  <1>1. Init => SentSessionEnds
    BY DEF Init, SentSessionEnds, At, Idle
  <1>2. LoginInv /\ SentSessionEnds /\ [Next]_vars => SentSessionEnds'
    BY PastStep
  <1> QED
    BY <1>1, <1>2, LoginAlways, PTL DEF Spec

-----------------------------------------------------------------------------
(* The throttle.  A request past the test is going to fail, or may: its    *)
(* key counts with those that still can, and the sum has a bound that no   *)
(* step exceeds.  The count alone has none: it grows after the test.       *)

InFlight(k) == {r \in Requests : (At(r, "query") \/ At(r, "fail")) /\ KeyOfRequest(r) = k}

ThrottleInv ==
    \A k \in ThrottleKeys :
        Recorded(k) =>
            count[k] + Cardinality(InFlight(k)) <= MaxAttempts - 1 + Cardinality(Requests)

LEMMA InFlightFinite ==
    ASSUME NEW k
    PROVE  /\ IsFiniteSet(InFlight(k)) /\ Cardinality(InFlight(k)) \in Nat
           /\ Cardinality(Requests) \in Nat
           /\ Cardinality(InFlight(k)) <= Cardinality(Requests)
  <1>1. InFlight(k) \subseteq Requests
    BY DEF InFlight
  <1> QED
    BY <1>1, LoginAssumption, FS_Subset, FS_CardinalityType

LEMMA FewerInFlight ==
    ASSUME NEW k, NEW S, S \subseteq InFlight(k)
    PROVE  Cardinality(S) \in Nat /\ Cardinality(S) <= Cardinality(InFlight(k))
  BY InFlightFinite, FS_Subset, FS_CardinalityType

(* A step that leaves the counts and lets no request into a flight.        *)
LEMMA ThrottleKeeps ==
    ASSUME LoginInv, ThrottleInv, now' \in Nat, now' >= now,
           UNCHANGED <<count, resetAt>>,
           \A k \in ThrottleKeys : Recorded(k) => InFlight(k)' \subseteq InFlight(k)
    PROVE  ThrottleInv'
  <1> SUFFICES ASSUME NEW k \in ThrottleKeys, Recorded(k)'
               PROVE  count'[k] + Cardinality(InFlight(k)')
                        <= MaxAttempts - 1 + Cardinality(Requests)
    BY DEF ThrottleInv, InFlight
  <1>1. count[k] \in Nat /\ resetAt[k] \in Nat /\ now \in Nat
    BY DEF LoginInv, TypeOK, StoreTypeOK
  <1>2. Recorded(k)
    BY <1>1 DEF Recorded
  <1>3. Cardinality(InFlight(k)') <= Cardinality(InFlight(k))
        /\ Cardinality(InFlight(k)') \in Nat
    BY <1>2, FewerInFlight
  <1>4. count[k] + Cardinality(InFlight(k)) <= MaxAttempts - 1 + Cardinality(Requests)
    BY <1>2 DEF ThrottleInv
  <1> QED
    BY <1>1, <1>3, <1>4, InFlightFinite, LoginAssumption

(* A request that ends outside the flight, or was in it for the same key.  *)
LEMMA LeavesFlight ==
    ASSUME RequestOK, NEW r \in Requests,
           \A q \in Requests \ {r} : request'[q] = request[q],
           \/ ~(At(r, "query") \/ At(r, "fail"))'
           \/ At(r, "query") /\ KeyOfRequest(r)' = KeyOfRequest(r)
    PROVE  \A k : InFlight(k)' \subseteq InFlight(k)
  BY DEF InFlight, At, KeyOfRequest

LEMMA GotoKeeps ==
    ASSUME RequestOK, NEW r \in Requests, ~At(r, "idle"), NEW to, Goto(r, to)
    PROVE  At(r, to)' /\ KeyOfRequest(r)' = KeyOfRequest(r)
  <1>1. request[r] \in Record(issued)
    BY DEF RequestOK, Record, At, Idle
  <1>2. request'[r] = [request[r] EXCEPT !.at = to]
    BY DEF Goto, RequestOK
  <1> QED
    BY <1>1, <1>2 DEF Record, At, KeyOfRequest

LEMMA EndLeaves ==
    ASSUME RequestOK, NEW r \in Requests, End(r)
    PROVE  ~(At(r, "query") \/ At(r, "fail"))'
  BY DEF End, RequestOK, At, Idle

LEMMA CheckKeepsBound ==
    ASSUME LoginInv, ThrottleInv, NEW r \in Requests, Check(r)
    PROVE  ThrottleInv'
  <1>1. RequestOK /\ now' = now /\ Serve(r) /\ ~At(r, "idle")
    BY TypeParts DEF LoginInv, Check, store, Serve, At
  <1>2. \A q \in Requests \ {r} : request'[q] = request[q]
    BY <1>1, ServesItsOwn
  <1> SUFFICES ASSUME NEW k \in ThrottleKeys, Recorded(k)'
               PROVE  count'[k] + Cardinality(InFlight(k)')
                        <= MaxAttempts - 1 + Cardinality(Requests)
    BY DEF ThrottleInv, InFlight
  <1>3. count[k] \in Nat /\ resetAt[k] \in Nat /\ now \in Nat
    BY DEF LoginInv, TypeOK, StoreTypeOK
  <1>4. count'[k] = count[k] /\ resetAt'[k] = resetAt[k] /\ Recorded(k)
    BY <1>1, <1>3 DEF Check, Recorded
  <1>5. /\ Cardinality(InFlight(k)') \in Nat
        /\ Cardinality(InFlight(k)') <= Cardinality(Requests)
    <2>1. InFlight(k)' \subseteq Requests
      BY DEF InFlight
    <2> QED
      BY <2>1, LoginAssumption, FS_Subset, FS_CardinalityType
  <1>6. CASE KeyOfRequest(r) = k /\ ~Blocked(k)
    BY <1>3, <1>4, <1>5, <1>6, InFlightFinite, LoginAssumption DEF Blocked
  <1>7. CASE KeyOfRequest(r) # k \/ Blocked(k)
    <2>1. InFlight(k)' \subseteq InFlight(k)
      <3>1. CASE Blocked(KeyOfRequest(r))
        BY <1>1, <1>2, <3>1, EndLeaves, LeavesFlight DEF Check
      <3>2. CASE ~Blocked(KeyOfRequest(r))
        <4>1. KeyOfRequest(r)' = KeyOfRequest(r) /\ KeyOfRequest(r) # k
          BY <1>1, <1>7, <3>2, GotoKeeps DEF Check
        <4> QED
          BY <1>2, <4>1 DEF InFlight, At, KeyOfRequest
      <3> QED
        BY <3>1, <3>2
    <2>2. count[k] + Cardinality(InFlight(k)) <= MaxAttempts - 1 + Cardinality(Requests)
      BY <1>4 DEF ThrottleInv
    <2> QED
      BY <1>3, <1>4, <1>5, <2>1, <2>2, FewerInFlight, InFlightFinite, LoginAssumption
  <1> QED
    BY <1>6, <1>7

LEMMA FailKeepsBound ==
    ASSUME LoginInv, ThrottleInv, NEW r \in Requests, Fail(r)
    PROVE  ThrottleInv'
  <1>1. RequestOK /\ now' = now /\ Serve(r) /\ ~At(r, "idle")
    BY TypeParts DEF LoginInv, Fail, store, Serve, At
  <1>2. \A q \in Requests \ {r} : request'[q] = request[q]
    BY <1>1, ServesItsOwn
  <1>3. \A k : InFlight(k)' \subseteq InFlight(k) /\ r \notin InFlight(k)'
    <2>1. ~(At(r, "query") \/ At(r, "fail"))'
      BY <1>1, EndLeaves DEF Fail
    <2> QED
      BY <1>1, <1>2, <2>1, LeavesFlight DEF InFlight, At
  <1>4. KeyOfRequest(r) \in ThrottleKeys /\ r \in InFlight(KeyOfRequest(r))
    BY <1>1, KeyTyped DEF Fail, InFlight
  <1> SUFFICES ASSUME NEW k \in ThrottleKeys, Recorded(k)'
               PROVE  count'[k] + Cardinality(InFlight(k)')
                        <= MaxAttempts - 1 + Cardinality(Requests)
    BY DEF ThrottleInv, InFlight
  <1>5. count[k] \in Nat /\ resetAt[k] \in Nat /\ now \in Nat
    BY DEF LoginInv, TypeOK, StoreTypeOK
  <1>6. Cardinality(InFlight(k)') \in Nat
        /\ Cardinality(InFlight(k)') <= Cardinality(InFlight(k))
    BY <1>3, FewerInFlight
  <1>7. CASE k # KeyOfRequest(r)
    <2>1. count'[k] = count[k] /\ resetAt'[k] = resetAt[k]
      BY <1>4, <1>7 DEF Fail, LoginInv, TypeOK
    <2>2. Recorded(k)
      BY <1>1, <2>1 DEF Recorded
    <2>3. count[k] + Cardinality(InFlight(k)) <= MaxAttempts - 1 + Cardinality(Requests)
      BY <2>2 DEF ThrottleInv
    <2> QED
      BY <1>5, <1>6, <2>1, <2>3, InFlightFinite, LoginAssumption
  <1>8. CASE k = KeyOfRequest(r)
    <2>1. count'[k] = IF Recorded(k) THEN count[k] + 1 ELSE 1
      BY <1>4, <1>8 DEF Fail, LoginInv, TypeOK
    <2>2. Cardinality(InFlight(k)') <= Cardinality(InFlight(k)) - 1
      <3>1. InFlight(k)' \subseteq InFlight(k) \ {r}
        BY <1>3
      <3>2. /\ IsFiniteSet(InFlight(k) \ {r})
            /\ Cardinality(InFlight(k) \ {r}) = Cardinality(InFlight(k)) - 1
        BY <1>4, <1>8, InFlightFinite, FS_RemoveElement
      <3> QED
        BY <3>1, <3>2, FS_Subset
    <2>3. CASE Recorded(k)
      <3>1. count[k] + Cardinality(InFlight(k)) <= MaxAttempts - 1 + Cardinality(Requests)
        BY <2>3 DEF ThrottleInv
      <3> QED
        BY <1>5, <1>6, <2>1, <2>2, <2>3, <3>1, InFlightFinite, LoginAssumption
    <2>4. CASE ~Recorded(k)
      BY <1>6, <2>1, <2>2, <2>4, InFlightFinite, LoginAssumption
    <2> QED
      BY <2>3, <2>4
  <1> QED
    BY <1>7, <1>8

LEMMA ResetKeepsBound ==
    ASSUME LoginInv, ThrottleInv, NEW r \in Requests, Reset(r)
    PROVE  ThrottleInv'
  <1>1. RequestOK /\ now' = now /\ Serve(r) /\ ~At(r, "idle")
    BY TypeParts DEF LoginInv, Reset, store, Serve, At
  <1>2. KeyOfRequest(r) \in ThrottleKeys
    BY <1>1, KeyTyped
  <1>3. \A k : InFlight(k)' \subseteq InFlight(k)
    <2>1. ~(At(r, "query") \/ At(r, "fail"))'
      BY <1>1, GotoKeeps DEF Reset, At
    <2> QED
      BY <1>1, <2>1, ServesItsOwn, LeavesFlight
  <1> SUFFICES ASSUME NEW k \in ThrottleKeys, Recorded(k)'
               PROVE  count'[k] + Cardinality(InFlight(k)')
                        <= MaxAttempts - 1 + Cardinality(Requests)
    BY DEF ThrottleInv, InFlight
  <1>4. k # KeyOfRequest(r)
    BY <1>2 DEF Recorded, Reset, LoginInv, TypeOK
  <1>5. count'[k] = count[k] /\ resetAt'[k] = resetAt[k]
    BY <1>2, <1>4 DEF Reset, LoginInv, TypeOK
  <1>6. Recorded(k)
    BY <1>1, <1>5 DEF Recorded
  <1>7. count[k] \in Nat /\ count[k] + Cardinality(InFlight(k))
                              <= MaxAttempts - 1 + Cardinality(Requests)
    BY <1>6 DEF ThrottleInv, LoginInv, TypeOK
  <1>8. Cardinality(InFlight(k)') \in Nat
        /\ Cardinality(InFlight(k)') <= Cardinality(InFlight(k))
    BY <1>3, FewerInFlight
  <1> QED
    BY <1>5, <1>7, <1>8, InFlightFinite, LoginAssumption

LEMMA ThrottleInvStep ==
    ASSUME LoginInv, ThrottleInv, [Next]_vars
    PROVE  ThrottleInv'
  <1>1. RequestOK /\ StoreTypeOK
    BY TypeParts DEF LoginInv
  <1>2. now' \in Nat /\ now' >= now
    BY <1>1, LoginUsesStore, IssuedGrows DEF LoginInv
  <1>3. ASSUME UNCHANGED <<count, resetAt, request>> PROVE ThrottleInv'
    <2>1. \A k \in ThrottleKeys : InFlight(k)' \subseteq InFlight(k)
      BY <1>3 DEF InFlight, At, KeyOfRequest
    <2> QED
      BY <1>2, <1>3, <2>1, ThrottleKeeps
  <1>4. CASE UNCHANGED vars \/ Application
    BY <1>3, <1>4 DEF vars, throttle, Application
  <1>5. ASSUME NEW r \in Requests, NEW b \in Browsers, NEW a \in Accounts,
               NEW what \in {"login", "logout"}, Send(r, b, a, what)
        PROVE  ThrottleInv'
    <2>1. /\ \A q \in Requests \ {r} : request'[q] = request[q]
          /\ request'[r].at = what
      BY <1>1, <1>5 DEF Send, RequestOK
    <2>2. \A k \in ThrottleKeys : InFlight(k)' \subseteq InFlight(k)
      BY <1>1, <2>1, LeavesFlight DEF At
    <2> QED
      BY <1>2, <1>5, <2>2, ThrottleKeeps DEF Send, throttle
  <1>6. ASSUME NEW r \in Requests, Serve(r) PROVE ThrottleInv'
    <2>1. ASSUME UNCHANGED throttle,
                 \/ ~(At(r, "query") \/ At(r, "fail"))'
                 \/ At(r, "query") /\ KeyOfRequest(r)' = KeyOfRequest(r)
          PROVE  ThrottleInv'
      <3>1. \A k \in ThrottleKeys : InFlight(k)' \subseteq InFlight(k)
        BY <1>1, <1>6, <2>1, ServesItsOwn, LeavesFlight
      <3> QED
        BY <1>2, <2>1, <3>1, ThrottleKeeps DEF throttle
    <2>2. CASE Query(r, "fail") \/ Query(r, "reset")
      BY <1>1, <2>1, <2>2, GotoKeeps DEF Query, At
    <2>3. CASE \/ Find(r, "replace", "delete", "new") \/ DeleteSent(r, "delete", "new")
               \/ Find(r, "logout", "end", "cleared") \/ DeleteSent(r, "end", "cleared")
      <3>1. PICK to \in {"delete", "new", "end", "cleared"} : Goto(r, to)
        BY <2>3 DEF Find, DeleteSent
      <3>2. ~At(r, "idle") /\ UNCHANGED throttle
        BY <2>3 DEF Find, DeleteSent, At
      <3>3. ~(At(r, "query") \/ At(r, "fail"))'
        BY <1>1, <3>1, <3>2, GotoKeeps DEF At
      <3> QED
        BY <2>1, <3>2, <3>3
    <2>4. CASE NoSession(r) \/ Respond(r)
      BY <1>1, <2>1, <2>4, EndLeaves DEF NoSession, Respond
    <2>5. CASE NewSession(r)
      <3>1. request[r] \in Record(issued) /\ r \in DOMAIN request
        BY <1>1, <2>5 DEF RequestOK, Record, At, NewSession, Idle
      <3>2. PICK id : request' = [request EXCEPT ![r].at = "respond", ![r].mine = id]
        BY <2>5 DEF NewSession
      <3>3. request'[r].at = "respond"
        BY <3>1, <3>2 DEF Record
      <3> QED
        BY <2>1, <2>5, <3>3 DEF NewSession, At
    <2> QED
      BY <1>6, <2>2, <2>3, <2>4, <2>5, CheckKeepsBound, FailKeepsBound, ResetKeepsBound
      DEF Serve
  <1> QED
    BY <1>4, <1>5, <1>6 DEF Next

(* A window counts at most the limit and one failure less than the         *)
(* requests served at once on top (login.go:140-158, throttle.go:36-84),   *)
(* for every limit, window and number of requests, browsers and accounts.  *)
THEOREM ThrottleHolds == Spec => []ThrottleBound
  <1>1. Init => ThrottleInv
    <2> SUFFICES ASSUME Init PROVE ThrottleInv
      OBVIOUS
    <2>1. \A k \in ThrottleKeys : count[k] = 0
      BY DEF Init
    <2> QED
      BY <2>1 DEF ThrottleInv, Recorded
  <1>2. LoginInv /\ ThrottleInv /\ [Next]_vars => ThrottleInv'
    BY ThrottleInvStep
  <1>3. LoginInv /\ ThrottleInv => ThrottleBound
    <2> SUFFICES ASSUME LoginInv, ThrottleInv, NEW k \in ThrottleKeys, Recorded(k)
                 PROVE  count[k] <= MaxAttempts - 1 + Cardinality(Requests)
      BY DEF ThrottleBound
    <2>1. count[k] \in Nat
      BY DEF LoginInv, TypeOK
    <2>2. count[k] + Cardinality(InFlight(k)) <= MaxAttempts - 1 + Cardinality(Requests)
      BY DEF ThrottleInv
    <2> QED
      BY <2>1, <2>2, InFlightFinite, LoginAssumption
  <1> QED
    BY <1>1, <1>2, <1>3, LoginAlways, PTL DEF Spec

(* A step forgets no failure of a window that is still open, nor extends   *)
(* it: the sweep drops closed windows only, a failure adds one, and what   *)
(* clears a count is the login that succeeded for its key.                 *)
Remembers ==
    \A k \in ThrottleKeys :
        Recorded(k) /\ now' = now =>
            \/ count'[k] >= count[k] /\ resetAt'[k] = resetAt[k]
            \/ \E r \in Requests : At(r, "reset") /\ KeyOfRequest(r) = k

THEOREM NoFailureForgotten == Spec => FailuresRemembered
  <1>1. ASSUME LoginInv, [Next]_vars PROVE Remembers
    <2> SUFFICES ASSUME NEW k \in ThrottleKeys, Recorded(k), now' = now
                 PROVE  \/ count'[k] >= count[k] /\ resetAt'[k] = resetAt[k]
                        \/ \E r \in Requests : At(r, "reset") /\ KeyOfRequest(r) = k
      BY DEF Remembers
    <2>1. RequestOK /\ count[k] \in Nat
      BY <1>1, TypeParts DEF LoginInv, TypeOK
    <2>2. ASSUME UNCHANGED throttle
          PROVE  count'[k] >= count[k] /\ resetAt'[k] = resetAt[k]
      BY <2>1, <2>2 DEF throttle
    <2>3. ASSUME NEW r \in Requests, Check(r)
          PROVE  count'[k] >= count[k] /\ resetAt'[k] = resetAt[k]
      BY <2>1, <2>3 DEF Check, Swept
    <2>4. ASSUME NEW r \in Requests, Fail(r)
          PROVE  count'[k] >= count[k] /\ resetAt'[k] = resetAt[k]
      <3>1. KeyOfRequest(r) \in ThrottleKeys
        BY <2>1, <2>4, KeyTyped DEF Fail, At
      <3> QED
        BY <1>1, <2>1, <2>4, <3>1 DEF Fail, LoginInv, TypeOK
    <2>5. ASSUME NEW r \in Requests, Reset(r), KeyOfRequest(r) # k
          PROVE  count'[k] >= count[k] /\ resetAt'[k] = resetAt[k]
      BY <1>1, <2>1, <2>5 DEF Reset, LoginInv, TypeOK
    <2>6. ASSUME NEW r \in Requests, Serve(r)
          PROVE  \/ count'[k] >= count[k] /\ resetAt'[k] = resetAt[k]
                 \/ At(r, "reset") /\ KeyOfRequest(r) = k
      <3>1. CASE Check(r) \/ Fail(r)
        BY <2>3, <2>4, <3>1
      <3>2. CASE Reset(r)
        BY <2>5, <3>2 DEF Reset
      <3> QED
        BY <2>2, <2>6, <3>1, <3>2
        DEF Serve, Query, Find, DeleteSent, NewSession, NoSession, Respond
    <2>7. CASE UNCHANGED vars \/ Application
      BY <2>2, <2>7 DEF vars, Application
    <2>8. CASE \E r \in Requests, b \in Browsers, a \in Accounts :
                 Send(r, b, a, "login") \/ Send(r, b, a, "logout")
      BY <2>2, <2>8 DEF Send
    <2> QED
      BY <1>1, <2>6, <2>7, <2>8 DEF Next
  <1>2. LoginInv /\ [Next]_vars => [Remembers]_vars
    BY <1>1
  <1> QED
    BY <1>2, LoginAlways, PTL DEF Spec, FailuresRemembered, Remembers

-----------------------------------------------------------------------------
(* The cache.  Room is counted in keys, and the map has finitely many.     *)
CacheInv == IsFiniteSet(DOMAIN entries) /\ maxEntries \in Int

LEMMA Kept == ASSUME NEW keys PROVE DOMAIN Without(keys) = DOMAIN entries \ keys
  BY DEF Without, Restrict

(* What evictLocked may leave: something expired went, or one key did, or  *)
(* there was nothing.                                                      *)
LEMMA EvictedIs ==
    ASSUME NEW kept \in Evicted
    PROVE  \/ Stale # {} /\ DOMAIN kept = DOMAIN entries \ Stale
           \/ Stale = {} /\ DOMAIN kept = {} /\ DOMAIN entries = {}
           \/ Stale = {} /\ \E x \in DOMAIN entries : DOMAIN kept = DOMAIN entries \ {x}
  <1>1. CASE Stale # {}
    BY <1>1, Kept DEF Evicted
  <1>2. CASE Stale = {} /\ entries = <<>>
    <2>1. DOMAIN entries = {}
      BY <1>2
    <2> QED
      BY <1>2, <2>1 DEF Evicted
  <1>3. CASE Stale = {} /\ entries # <<>>
    <2>1. PICK x \in DOMAIN entries : kept = Without({x})
      BY <1>3 DEF Evicted
    <2> QED
      BY <1>3, <2>1, Kept
  <1> QED
    BY <1>1, <1>2, <1>3

LEMMA CacheInvNext == CacheInv /\ [CacheNext]_cacheVars => CacheInv'
  <1> SUFFICES ASSUME CacheInv, [CacheNext]_cacheVars PROVE CacheInv'
    OBVIOUS
  <1>1. \A S : S \subseteq DOMAIN entries => IsFiniteSet(S)
    BY FS_Subset DEF CacheInv
  <1>2. ASSUME NEW kept, NEW k, NEW e, DOMAIN kept \subseteq DOMAIN entries,
               entries' = With(kept, k, e)
        PROVE  IsFiniteSet(DOMAIN entries')
    <2>1. DOMAIN entries' = DOMAIN kept \cup {k}
      BY <1>2 DEF With
    <2> QED
      BY <1>1, <1>2, <2>1, FS_AddElement
  <1>3. ASSUME NEW keys, entries' = Without(keys) PROVE IsFiniteSet(DOMAIN entries')
    BY <1>1, <1>3, Kept
  <1>4. CASE UNCHANGED cacheVars
    BY <1>4 DEF cacheVars, CacheInv
  <1>5. CASE Collect \/ \E k \in CacheKeys : DeleteKey(k)
    BY <1>3, <1>5 DEF Collect, DeleteKey, CacheInv
  <1>6. CASE Close \/ CacheTick
    BY <1>6 DEF Close, CacheTick, CacheInv
  <1>7. CASE \E n \in Ceilings : SetMaxEntries(n)
    BY <1>7, CacheAssumption DEF SetMaxEntries, CacheInv
  <1>8. ASSUME NEW k \in CacheKeys, NEW ttl \in TTLs, SetInMemory(k, ttl) PROVE CacheInv'
    <2>1. PICK kept \in IF NeedsRoom(k) THEN Evicted ELSE {entries} :
             entries' = With(kept, k, cacheClock + ttl)
      BY <1>8 DEF SetInMemory
    <2>2. DOMAIN kept \subseteq DOMAIN entries
      BY <2>1, EvictedIs
    <2> QED
      BY <1>2, <1>8, <2>1, <2>2 DEF SetInMemory, CacheInv
  <1>9. ASSUME NEW k \in CacheKeys, NEW ttl \in TTLs, SetInRedis(k, ttl) PROVE CacheInv'
    BY <1>2, <1>9 DEF SetInRedis, CacheInv
  <1> QED
    BY <1>4, <1>5, <1>6, <1>7, <1>8, <1>9 DEF CacheNext

(* Of the steps, only Set adds a key, and it says what went for it.        *)
LEMMA SetMakesRoom ==
    ASSUME CacheInv, NEW k, NEW ttl, SetInMemory(k, ttl), k \notin DOMAIN entries
    PROVE  /\ Cardinality(DOMAIN entries') <= Max({1, maxEntries, Size})
           /\ LET lost == (DOMAIN entries \ Stale) \ DOMAIN entries' IN
              lost # {} => Stale = {} /\ Size >= maxEntries /\ Cardinality(lost) = 1
  <1> DEFINE lost == (DOMAIN entries \ Stale) \ DOMAIN entries'
             most == Max({1, maxEntries, Size})
  <1>1. PICK kept \in IF NeedsRoom(k) THEN Evicted ELSE {entries} :
           entries' = With(kept, k, cacheClock + ttl)
    BY DEF SetInMemory
  <1>2. DOMAIN entries' = DOMAIN kept \cup {k}
    BY <1>1 DEF With
  <1>3. Size \in Nat /\ maxEntries \in Int
    BY FS_CardinalityType DEF Size, CacheInv
  <1>4. most \in Int /\ 1 <= most /\ maxEntries <= most /\ Size <= most
    <2> DEFINE S == {1, maxEntries, Size}
    <2>1. \E x \in S : \A y \in S : x >= y
      <3>1. CASE 1 >= maxEntries /\ 1 >= Size
        BY <1>3, <3>1
      <3>2. CASE maxEntries >= 1 /\ maxEntries >= Size
        BY <1>3, <3>2
      <3>3. CASE Size >= 1 /\ Size >= maxEntries
        BY <1>3, <3>3
      <3> QED
        BY <1>3, <3>1, <3>2, <3>3
    <2>2. Max(S) \in S /\ \A y \in S : Max(S) >= y
      BY <2>1 DEF Max
    <2> QED
      BY <1>3, <2>2
  <1> HIDE DEF most
  <1>5. /\ Cardinality(DOMAIN kept) \in Nat /\ Cardinality(DOMAIN kept) <= Size
        /\ Cardinality(DOMAIN entries') \in Nat
        /\ Cardinality(DOMAIN entries') <= Cardinality(DOMAIN kept) + 1
        /\ DOMAIN kept # DOMAIN entries => Cardinality(DOMAIN kept) < Size
    <2>1. DOMAIN kept \subseteq DOMAIN entries
      BY <1>1, EvictedIs
    <2>2. /\ IsFiniteSet(DOMAIN kept) /\ Cardinality(DOMAIN kept) \in Nat
          /\ Cardinality(DOMAIN kept) <= Size
          /\ DOMAIN kept # DOMAIN entries => Cardinality(DOMAIN kept) < Size
      BY <2>1, FS_Subset, FS_CardinalityType DEF CacheInv, Size
    <2>3. IsFiniteSet(DOMAIN entries')
      BY <1>2, <2>2, FS_AddElement
    <2>4. Cardinality(DOMAIN entries') = Cardinality(DOMAIN kept)
          \/ Cardinality(DOMAIN entries') = Cardinality(DOMAIN kept) + 1
      BY <1>2, <2>2, FS_AddElement
    <2> QED
      BY <2>2, <2>3, <2>4, FS_CardinalityType
  <1>6. CASE ~NeedsRoom(k)
    <2>1. kept = entries /\ Size < maxEntries
      BY <1>1, <1>3, <1>6 DEF NeedsRoom
    <2>2. Cardinality(DOMAIN entries') <= most
      BY <1>3, <1>4, <1>5, <2>1
    <2>3. lost = {}
      BY <1>2, <2>1
    <2> QED
      BY <2>2, <2>3 DEF most
  <1>7. CASE NeedsRoom(k)
    <2>1. kept \in Evicted /\ Size >= maxEntries
      BY <1>1, <1>7 DEF NeedsRoom
    <2>2. CASE Stale # {} /\ DOMAIN kept = DOMAIN entries \ Stale
      <3>1. Cardinality(DOMAIN entries') <= most
        BY <1>3, <1>4, <1>5, <2>2 DEF Stale
      <3>2. lost = {}
        BY <1>2, <2>2
      <3> QED
        BY <3>1, <3>2 DEF most
    <2>3. CASE Stale = {} /\ DOMAIN kept = {} /\ DOMAIN entries = {}
      <3>1. Cardinality(DOMAIN entries') <= most
        <4>1. Cardinality({}) = 0
          BY FS_EmptySet
        <4> QED
          BY <1>3, <1>4, <1>5, <2>3, <4>1
      <3> QED
        BY <2>3, <3>1 DEF most
    <2>4. CASE Stale = {} /\ \E x \in DOMAIN entries : DOMAIN kept = DOMAIN entries \ {x}
      <3>1. PICK x \in DOMAIN entries : DOMAIN kept = DOMAIN entries \ {x}
        BY <2>4
      <3>2. Cardinality(DOMAIN entries') <= most
        BY <1>3, <1>4, <1>5, <3>1
      <3>3. lost = {x}
        BY <1>2, <2>4, <3>1
      <3>4. Cardinality(lost) = 1
        BY <3>3, FS_Singleton
      <3> QED
        BY <2>1, <2>4, <3>2, <3>4 DEF most
    <2> QED
      BY <2>1, <2>2, <2>3, <2>4, EvictedIs
  <1> QED
    BY <1>6, <1>7

(* A new key takes the map of the cache neither beyond its ceiling nor     *)
(* beyond what it held when the ceiling was lowered, and costs a readable  *)
(* key its place only where nothing has expired: for any keys, times to    *)
(* live and ceilings, negative ones too.                                   *)
THEOREM CacheMakesRoom == CacheSpec => RoomIsMade
  <1> DEFINE Made ==
        \A k \in (DOMAIN entries' \ DOMAIN entries) : backend = "memory" =>
           /\ Cardinality(DOMAIN entries') <= Max({1, maxEntries, Size})
           /\ LET lost == (DOMAIN entries \ Stale) \ DOMAIN entries' IN
              lost # {} => Stale = {} /\ Size >= maxEntries /\ Cardinality(lost) = 1
  <1>1. CacheInit => CacheInv
    BY CacheAssumption, FS_EmptySet DEF CacheInit, CacheInv
  <1>2. CacheInv /\ [CacheNext]_cacheVars => CacheInv'
    BY CacheInvNext
  <1>3. CacheInv /\ [CacheNext]_cacheVars => [Made]_cacheVars
    <2> SUFFICES ASSUME CacheInv, CacheNext, NEW new \in DOMAIN entries',
                        new \notin DOMAIN entries, backend = "memory"
                 PROVE  /\ Cardinality(DOMAIN entries') <= Max({1, maxEntries, Size})
                        /\ LET lost == (DOMAIN entries \ Stale) \ DOMAIN entries' IN
                           lost # {} => Stale = {} /\ Size >= maxEntries /\ Cardinality(lost) = 1
      OBVIOUS
    <2>1. ~Collect /\ ~Close /\ ~CacheTick /\ ~(\E n \in Ceilings : SetMaxEntries(n))
          /\ ~(\E k \in CacheKeys : DeleteKey(k))
      BY Kept DEF Collect, Close, CacheTick, SetMaxEntries, DeleteKey
    <2>2. PICK k \in CacheKeys, ttl \in TTLs : SetInMemory(k, ttl)
      BY <2>1 DEF CacheNext, SetInRedis
    <2>3. PICK kept \in IF NeedsRoom(k) THEN Evicted ELSE {entries} :
             entries' = With(kept, k, cacheClock + ttl)
      BY <2>2 DEF SetInMemory
    <2>4. DOMAIN kept \subseteq DOMAIN entries
      BY <2>3, EvictedIs
    <2>5. k = new
      BY <2>3, <2>4 DEF With
    <2> QED
      BY <2>2, <2>5, SetMakesRoom
  <1> QED
    BY <1>1, <1>2, <1>3, PTL DEF CacheSpec, RoomIsMade
=============================================================================
