-------------------------------- MODULE Cache --------------------------------
(***************************************************************************)
(* core/cache/cache.go: keys with a time to live, in a map of the process  *)
(* that has a ceiling, or in a Redis server that sees to its own memory.   *)
(*                                                                         *)
(* An entry is its expiry: no step looks at a value.  In memory it stays   *)
(* in the map after that instant, until the ticker's gc or an eviction,    *)
(* and Get and Len, which change nothing, skip it and count it.  Every     *)
(* operation holds the lock from its first test to its last write.         *)
(***************************************************************************)
EXTENDS Integers, FiniteSetsExt, Functions

CONSTANTS
    CacheKeys,
    TTLs,        \* the times to live that callers ask for
    Ceilings,    \* the values of maxEntries, DefaultMaxEntries among them
    CacheTime    \* bound on the clock

(* SetMaxEntries takes any int.                                            *)
ASSUME CacheAssumption == Ceilings \subseteq Int

VARIABLES
    backend,     \* "memory", or "redis" after NewRedis
    entries,     \* the keys that are held, with their expiry
    maxEntries,
    ticking,     \* does gc's goroutine run?
    cacheClock

cacheVars == <<backend, entries, maxEntries, ticking, cacheClock>>

CacheInit ==
    /\ backend \in {"memory", "redis"}
    /\ entries = [k \in {} |-> 0]
    /\ maxEntries \in Ceilings
    /\ ticking = (backend = "memory")
    /\ cacheClock = 0

Stale == {k \in DOMAIN entries : cacheClock > entries[k]}
Size == Cardinality(DOMAIN entries)

Without(keys) == Restrict(entries, DOMAIN entries \ keys)
With(kept, k, expires) == [x \in DOMAIN kept \cup {k} |-> IF x = k THEN expires ELSE kept[x]]

-----------------------------------------------------------------------------
SetMaxEntries(n) ==
    /\ maxEntries' = n
    /\ UNCHANGED <<backend, entries, ticking, cacheClock>>

(* Variant of the next operator: an entry goes, expired or not.            *)
EvictAny == {Without({k}) : k \in DOMAIN entries}

(* evictLocked: what may be left.  Nothing is to be had from an empty map. *)
Evicted ==
    IF Stale # {} THEN {Without(Stale)}
    ELSE IF entries = <<>> THEN {entries}
    ELSE {Without({k}) : k \in DOMAIN entries}

NeedsRoom(k) == k \notin DOMAIN entries /\ Size >= maxEntries

SetInMemory(k, ttl) ==
    /\ backend = "memory"
    /\ \E kept \in IF NeedsRoom(k) THEN Evicted ELSE {entries} :
          entries' = With(kept, k, cacheClock + ttl)
    /\ UNCHANGED <<backend, maxEntries, ticking, cacheClock>>

(* A value without a JSON form or a failed command is only logged.         *)
SetInRedis(k, ttl) ==
    /\ backend = "redis"
    /\ entries' = With(entries, k, cacheClock + ttl)
    /\ UNCHANGED <<backend, maxEntries, ticking, cacheClock>>

DeleteKey(k) ==
    /\ k \in DOMAIN entries
    /\ entries' = Without({k})
    /\ UNCHANGED <<backend, maxEntries, ticking, cacheClock>>

(* gc at its ticker; Redis does it by itself.                              *)
Collect ==
    /\ ticking \/ backend = "redis"
    /\ Stale # {}
    /\ entries' = Without(Stale)
    /\ UNCHANGED <<backend, maxEntries, ticking, cacheClock>>

Close ==
    /\ ticking
    /\ ticking' = FALSE
    /\ UNCHANGED <<backend, entries, maxEntries, cacheClock>>

CacheTick ==
    /\ cacheClock < CacheTime
    /\ cacheClock' = cacheClock + 1
    /\ UNCHANGED <<backend, entries, maxEntries, ticking>>

CacheNext ==
    \/ Collect \/ Close \/ CacheTick
    \/ \E n \in Ceilings : SetMaxEntries(n)
    \/ \E k \in CacheKeys :
          \/ DeleteKey(k)
          \/ \E ttl \in TTLs : SetInMemory(k, ttl) \/ SetInRedis(k, ttl)

CacheSpec == CacheInit /\ [][CacheNext]_cacheVars

-----------------------------------------------------------------------------
(* "Sem teto ... cresce sem limite" (cache.go:15): a new key takes the map *)
(* neither beyond its ceiling nor beyond what it held when the ceiling was *)
(* lowered, and costs a key that can still be read its place only where    *)
(* nothing has expired, one for one.                                       *)
RoomIsMade ==
    [][\A k \in (DOMAIN entries' \ DOMAIN entries) : backend = "memory" =>
         /\ Cardinality(DOMAIN entries') <= Max({1, maxEntries, Size})
         /\ LET lost == (DOMAIN entries \ Stale) \ DOMAIN entries' IN
            lost # {} => Stale = {} /\ Size >= maxEntries /\ Cardinality(lost) = 1]_cacheVars
=============================================================================
