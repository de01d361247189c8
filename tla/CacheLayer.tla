------------------------------ MODULE CacheLayer ------------------------------
(* The query-result cache of src/cache_layer.rs: the state behind the mutex     *)
(* (struct Inner) and one action per critical section of get, set and clear.    *)
(* A caller samples the clock before it takes the lock, so `now' is a parameter *)
(* of the actions and may lie before the time at which the section runs.        *)
EXTENDS Integers, FiniteSets

CONSTANTS Keys,         \* canonical query texts (results of normalize_query)
          MaxEntries,   \* max_entries
          Ttl,          \* ttl, in clock units
          Miss          \* the None that get returns

\* The asserts of Cache::with_clock.
ASSUME MaxEntriesAssumption == MaxEntries \in Nat \ {0}
ASSUME TtlAssumption == Ttl \in Nat \ {0}

VARIABLES store,          \* HashMap<String, Entry>: a function on the cached keys
          tick,           \* operations counted so far; stamps last_used
          hits, misses, evictions_lru, evictions_ttl

cacheVars == <<store, tick, hits, misses, evictions_lru, evictions_ttl>>

Entry(Batches) == [batches : Batches, inserted_at : Nat, last_used : Nat]

CacheInit ==
    /\ store = [k \in {} |-> Miss]
    /\ tick = 0
    /\ hits = 0
    /\ misses = 0
    /\ evictions_lru = 0
    /\ evictions_ttl = 0

\* Instant::duration_since saturates at zero.
Elapsed(since, now) == IF now >= since THEN now - since ELSE 0

Fresh(entry, now) == Elapsed(entry.inserted_at, now) <= Ttl

Insert(map, key, entry) ==
    [k \in DOMAIN map \cup {key} |-> IF k = key THEN entry ELSE map[k]]

Without(map, key) == [k \in DOMAIN map \ {key} |-> map[k]]

-------------------------------------------------------------------------------
(* get *)

CanHit(key, now) == key \in DOMAIN store /\ Fresh(store[key], now)

\* What get hands to its caller.
\* Variant: the caller is handed the whole entry.
LookupEntry(key, now) == IF CanHit(key, now) THEN store[key] ELSE Miss

Lookup(key, now) == IF CanHit(key, now) THEN store[key].batches ELSE Miss

\* Variants: a hit stamped with the old tick; a hit that renews the time to live.
GetHitOldTick(key, now) ==
    /\ CanHit(key, now)
    /\ store' = [store EXCEPT ![key].last_used = tick]
    /\ tick' = tick + 1
    /\ hits' = hits + 1
    /\ UNCHANGED <<misses, evictions_lru, evictions_ttl>>

GetHitRenewing(key, now) ==
    /\ CanHit(key, now)
    /\ store' = [store EXCEPT ![key].last_used = tick + 1, ![key].inserted_at = now]
    /\ tick' = tick + 1
    /\ hits' = hits + 1
    /\ UNCHANGED <<misses, evictions_lru, evictions_ttl>>

GetHit(key, now) ==
    /\ CanHit(key, now)
    /\ store' = [store EXCEPT ![key].last_used = tick + 1]
    /\ tick' = tick + 1
    /\ hits' = hits + 1
    /\ UNCHANGED <<misses, evictions_lru, evictions_ttl>>

\* Variant: the expired entry is counted and left in place.
GetExpiredKept(key, now) ==
    /\ key \in DOMAIN store
    /\ ~Fresh(store[key], now)
    /\ tick' = tick + 1
    /\ misses' = misses + 1
    /\ evictions_ttl' = evictions_ttl + 1
    /\ UNCHANGED <<store, hits, evictions_lru>>

GetExpired(key, now) ==
    /\ key \in DOMAIN store
    /\ ~Fresh(store[key], now)
    /\ store' = Without(store, key)
    /\ tick' = tick + 1
    /\ misses' = misses + 1
    /\ evictions_ttl' = evictions_ttl + 1
    /\ UNCHANGED <<hits, evictions_lru>>

GetAbsent(key) ==
    /\ key \notin DOMAIN store
    /\ tick' = tick + 1
    /\ misses' = misses + 1
    /\ UNCHANGED <<store, hits, evictions_lru, evictions_ttl>>

Get(key, now) == GetHit(key, now) \/ GetExpired(key, now) \/ GetAbsent(key)

-------------------------------------------------------------------------------
(* set *)

\* min_by_key over a HashMap: any key that attains the minimum may come first.
LruKeys ==
    {k \in DOMAIN store :
        \A j \in DOMAIN store : store[k].last_used <= store[j].last_used}

\* Variant: off by one in the capacity test.
MustEvictLate(key) ==
    key \notin DOMAIN store /\ Cardinality(DOMAIN store) > MaxEntries

MustEvict(key) ==
    key \notin DOMAIN store /\ Cardinality(DOMAIN store) >= MaxEntries

NewEntry(batches, now) ==
    [batches |-> batches, inserted_at |-> now, last_used |-> tick + 1]

SetRoomy(key, batches, now) ==
    /\ ~MustEvict(key)
    /\ store' = Insert(store, key, NewEntry(batches, now))
    /\ tick' = tick + 1
    /\ UNCHANGED <<hits, misses, evictions_lru, evictions_ttl>>

SetEvicting(key, batches, now) ==
    /\ MustEvict(key)
    /\ \E victim \in LruKeys :
          store' = Insert(Without(store, victim), key, NewEntry(batches, now))
    /\ tick' = tick + 1
    /\ evictions_lru' = evictions_lru + 1
    /\ UNCHANGED <<hits, misses, evictions_ttl>>

Set(key, batches, now) ==
    SetRoomy(key, batches, now) \/ SetEvicting(key, batches, now)

-------------------------------------------------------------------------------
(* clear, and the reads len and is_empty *)

\* The counters and the tick survive a clear.
Clear ==
    /\ store' = [k \in {} |-> Miss]
    /\ UNCHANGED <<tick, hits, misses, evictions_lru, evictions_ttl>>

IsEmpty == DOMAIN store = {}

-------------------------------------------------------------------------------
(* What the state behind the mutex must satisfy *)

CacheTypeOK(Batches) ==
    /\ DOMAIN store \subseteq Keys
    /\ store \in [DOMAIN store -> Entry(Batches)]
    /\ tick \in Nat
    /\ hits \in Nat
    /\ misses \in Nat
    /\ evictions_lru \in Nat
    /\ evictions_ttl \in Nat

\* The cache never holds more than max_entries results, whatever the order in
\* which get, set and clear take the lock (set, cache_layer.rs).
CapacityBound == Cardinality(DOMAIN store) <= MaxEntries

\* No two entries carry the same recency stamp and none is from the future, so
\* the least-recently-used victim of set is unique and its choice does not depend
\* on the iteration order of the HashMap.
RecencyStamps ==
    \A j, k \in DOMAIN store :
        /\ store[k].last_used <= tick
        /\ store[j].last_used = store[k].last_used => j = k

\* The counters account for the store: every set (tick counts them together with
\* the gets, hits + misses counts the gets alone) brings in at most one entry, and
\* an entry leaves through at most one eviction. An entry evicted twice, or
\* evicted and still stored, breaks this long after the step that caused it.
CounterConservation ==
    /\ Cardinality(DOMAIN store) + evictions_lru + evictions_ttl
           <= tick - (hits + misses)
    /\ evictions_ttl <= misses
===============================================================================
