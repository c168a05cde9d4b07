---------------------------- MODULE SessionStore ----------------------------
(***************************************************************************)
(* The session store of core/security/session/session.go: the sessions by  *)
(* identifier, an index of them by user key, a time to live, a limit for   *)
(* all of them and one for each key.  Every operation holds the store's    *)
(* lock from its first test to its last write, so each is one step.        *)
(*                                                                         *)
(* An expired session is of no use from that instant on, but it leaves the *)
(* maps later: when its key's list is pruned (the index only), or when the *)
(* ticker runs gc.  An identifier is 32 random bytes; issued keeps the     *)
(* ones already drawn, which are taken never to be drawn again.            *)
(***************************************************************************)
EXTENDS Integers, FiniteSets

CONSTANTS
    Ids,        \* session identifiers
    Keys,       \* user keys
    NoKey,      \* the empty key of New
    TTL,
    Limits,     \* the pairs [total, perKey] in use: NewStore's, SetLimits'
    TotalCap,   \* bounds every limit for the store
    KeyCap,     \* bounds every limit for a key
    MaxNow      \* bound on the clock

ASSUME KeyAssumption == NoKey \notin Keys
ASSUME IdAssumption == IsFiniteSet(Ids)
ASSUME TimeAssumption == TTL \in Nat /\ MaxNow \in Nat
ASSUME LimitAssumption ==
    /\ TotalCap \in Nat /\ KeyCap \in Nat
    /\ Limits \subseteq [total : 0..TotalCap, perKey : 0..KeyCap]

VARIABLES
    sessions,   \* the identifiers in the map
    keyOf,      \* session.UserKey; NoKey where there is no session
    expires,    \* session.Expires; 0 where there is no session
    byKey,      \* the index: the identifiers listed under each key
    limits,
    issued,
    now

store == <<sessions, keyOf, expires, byKey, limits, issued, now>>

StoreInit ==
    /\ sessions = {}
    /\ keyOf = [id \in Ids |-> NoKey]
    /\ expires = [id \in Ids |-> 0]
    /\ byKey = [k \in Keys |-> {}]
    /\ limits \in Limits
    /\ issued = {}
    /\ now = 0

-----------------------------------------------------------------------------
Expired(id) == now > expires[id]

(* Get finds the session.                                                  *)
Usable(id) == id \in sessions /\ ~Expired(id)

(* pruneKeyExpired: what is left of a key's list.                          *)
Alive(k) == {id \in byKey[k] : Usable(id)}

StoreFull == Cardinality(sessions) >= limits.total

KeyFull(k) == Cardinality(Alive(k)) >= limits.perKey

(* Variant of the next action: the session is not entered in the index.    *)
CreateUnlisted(id, k) ==
    /\ id \in Ids \ issued
    /\ ~StoreFull
    /\ k # NoKey => ~KeyFull(k)
    /\ issued' = issued \cup {id}
    /\ sessions' = sessions \cup {id}
    /\ keyOf' = [keyOf EXCEPT ![id] = k]
    /\ expires' = [expires EXCEPT ![id] = now + TTL]
    /\ UNCHANGED <<byKey, limits, now>>

(* newSession succeeds.                                                    *)
Create(id, k) ==
    /\ id \in Ids \ issued
    /\ ~StoreFull
    /\ k # NoKey => ~KeyFull(k)
    /\ issued' = issued \cup {id}
    /\ sessions' = sessions \cup {id}
    /\ keyOf' = [keyOf EXCEPT ![id] = k]
    /\ expires' = [expires EXCEPT ![id] = now + TTL]
    /\ byKey' = IF k = NoKey THEN byKey
                ELSE [byKey EXCEPT ![k] = Alive(k) \cup {id}]
    /\ UNCHANGED <<limits, now>>

(* newSession answers ErrKeyLimitFull, having pruned the key's list.  (With*)
(* ErrStoreFull it changes nothing.)                                       *)
RefuseKey(k) ==
    /\ ~StoreFull
    /\ KeyFull(k)
    /\ byKey' = [byKey EXCEPT ![k] = Alive(k)]
    /\ UNCHANGED <<sessions, keyOf, expires, limits, issued, now>>

(* The identifiers of gone leave the map.                                  *)
Forget(gone) ==
    /\ sessions' = sessions \ gone
    /\ keyOf' = [id \in Ids |-> IF id \in gone THEN NoKey ELSE keyOf[id]]
    /\ expires' = [id \in Ids |-> IF id \in gone THEN 0 ELSE expires[id]]

(* Delete, and removeFromKey for its key.                                  *)
Delete(id) ==
    /\ Forget({id})
    /\ byKey' = [k \in Keys |-> IF k = keyOf[id] THEN byKey[k] \ {id} ELSE byKey[k]]
    /\ UNCHANGED <<limits, issued, now>>

(* Variant of the next action: the index is left alone.                    *)
GcMapOnly ==
    /\ Forget({id \in sessions : Expired(id)})
    /\ UNCHANGED <<byKey, limits, issued, now>>

(* One tick of gc's ticker.                                                *)
Gc ==
    /\ Forget({id \in sessions : Expired(id)})
    /\ byKey' = [k \in Keys |->
                   byKey[k] \ {id \in sessions : Expired(id) /\ keyOf[id] = k}]
    /\ UNCHANGED <<limits, issued, now>>

SetLimits(l) ==
    /\ limits' = l
    /\ UNCHANGED <<sessions, keyOf, expires, byKey, issued, now>>

Tick ==
    /\ now < MaxNow
    /\ now' = now + 1
    /\ UNCHANGED <<sessions, keyOf, expires, byKey, limits, issued>>

StoreNext ==
    \/ \E id \in Ids : Delete(id) \/ \E k \in Keys \cup {NoKey} : Create(id, k)
    \/ \E k \in Keys : RefuseKey(k)
    \/ \E l \in Limits : SetLimits(l)
    \/ Gc \/ Tick

StoreSpec == StoreInit /\ [][StoreNext]_store

-----------------------------------------------------------------------------
(* The values of the variables; a session in the map has been issued.      *)
StoreTypeOK ==
    /\ sessions \subseteq issued
    /\ \A id \in Ids \ sessions : keyOf[id] = NoKey /\ expires[id] = 0
    /\ issued \subseteq Ids
    /\ keyOf \in [Ids -> Keys \cup {NoKey}]
    /\ expires \in [Ids -> Nat]
    /\ byKey \in [Keys -> SUBSET Ids]
    /\ limits \in Limits
    /\ now \in Nat

(* The index agrees with the map, whatever is deleted, pruned, collected   *)
(* or expires in whichever order: it lists only stored sessions of the     *)
(* key, and every usable session of a key is listed (pruneKeyExpired drops *)
(* entries whose session stays in the map until gc).                       *)
IndexConsistent ==
    /\ \A k \in Keys : \A id \in byKey[k] : id \in sessions /\ keyOf[id] = k
    /\ \A id \in Ids :
          Usable(id) /\ keyOf[id] # NoKey => id \in byKey[keyOf[id]]

(* Neither limit is ever exceeded: the store holds at most the largest     *)
(* total in use, and a key has at most the largest perKey in use of        *)
(* sessions that still work ("aplica o limite por chave configurado",      *)
(* session.go:90).                                                         *)
LimitsHold ==
    /\ Cardinality(sessions) <= TotalCap
    /\ \A k \in Keys :
          Cardinality({id \in Ids : Usable(id) /\ keyOf[id] = k}) <= KeyCap
=============================================================================
