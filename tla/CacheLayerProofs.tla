---------------------------- MODULE CacheLayerProofs ----------------------------
(* The critical sections of src/cache_layer.rs preserve the invariant of the    *)
(* state behind the mutex, for every set of keys, capacity and time to live.    *)
(* The lemmas speak of one section each, so every specification that calls the  *)
(* cache can cite them.                                                         *)
EXTENDS CacheLayer, FiniteSetTheorems, TLAPS

\* The inductive invariant. RecencyStamps needs the type and the order of the
\* stamps; CounterConservation needs the finiteness of the store.
CacheInv(Batches) ==
    /\ CacheTypeOK(Batches)
    /\ IsFiniteSet(DOMAIN store)
    /\ CapacityBound
    /\ RecencyStamps
    /\ CounterConservation

-------------------------------------------------------------------------------
(* Without *)

\* Without drops its key and leaves every other entry alone.
LEMMA WithoutFacts ==
    ASSUME NEW map, NEW key
    PROVE  /\ DOMAIN Without(map, key) = DOMAIN map \ {key}
           /\ \A k \in DOMAIN map \ {key} : Without(map, key)[k] = map[k]
  BY DEF Without

-------------------------------------------------------------------------------
(* The initial state and clear *)

\* The empty cache satisfies the invariant.
LEMMA CacheInitInv ==
    ASSUME NEW Batches, CacheInit
    PROVE  CacheInv(Batches)
  <1>1. DOMAIN store = {} /\ store \in [DOMAIN store -> Entry(Batches)]
    BY DEF CacheInit
  <1>2. IsFiniteSet({}) /\ Cardinality({}) = 0
    BY FS_EmptySet
  <1>3. CacheTypeOK(Batches)
    BY <1>1 DEF CacheInit, CacheTypeOK
  <1>4. CapacityBound /\ CounterConservation
    BY <1>1, <1>2, MaxEntriesAssumption
    DEF CacheInit, CapacityBound, CounterConservation
  <1>5. RecencyStamps
    BY <1>1 DEF RecencyStamps
  <1> QED
    BY <1>1, <1>2, <1>3, <1>4, <1>5 DEF CacheInv

\* clear empties the store and keeps the counters.
LEMMA ClearInv ==
    ASSUME NEW Batches, CacheInv(Batches), Clear
    PROVE  CacheInv(Batches)'
  <1>1. DOMAIN store' = {} /\ store' \in [DOMAIN store' -> Entry(Batches)]
    BY DEF Clear
  <1>2. IsFiniteSet({}) /\ Cardinality({}) = 0
    BY FS_EmptySet
  <1>3. Cardinality(DOMAIN store) \in Nat
    BY FS_CardinalityType DEF CacheInv
  <1>4. CacheTypeOK(Batches)'
    BY <1>1 DEF Clear, CacheTypeOK, CacheInv
  <1>5. CapacityBound' /\ CounterConservation'
    BY <1>1, <1>2, <1>3, MaxEntriesAssumption
    DEF Clear, CacheInv, CacheTypeOK, CapacityBound, CounterConservation
  <1>6. RecencyStamps'
    BY <1>1 DEF RecencyStamps
  <1> QED
    BY <1>1, <1>2, <1>4, <1>5, <1>6 DEF CacheInv

-------------------------------------------------------------------------------
(* get *)

\* A hit changes one stamp, to a value above all others.
LEMMA GetHitInv ==
    ASSUME NEW Batches, NEW key, NEW now \in Nat,
           CacheInv(Batches), GetHit(key, now)
    PROVE  CacheInv(Batches)'
  <1> USE DEF CacheInv
  <1>1. key \in DOMAIN store
    BY DEF GetHit, CanHit
  <1>2. DOMAIN store' = DOMAIN store
    BY DEF GetHit
  <1>3. /\ store'[key] = [store[key] EXCEPT !.last_used = tick + 1]
        /\ \A k \in DOMAIN store \ {key} : store'[k] = store[k]
    BY <1>1 DEF GetHit
  <1>4. \A k \in DOMAIN store : store[k] \in Entry(Batches)
    BY DEF CacheTypeOK
  <1>5. [store[key] EXCEPT !.last_used = tick + 1] \in Entry(Batches)
    BY <1>1, <1>4 DEF Entry, CacheTypeOK
  <1>6. CacheTypeOK(Batches)'
    <2>1. store' \in [DOMAIN store -> Entry(Batches)]
      BY <1>1, <1>5 DEF CacheTypeOK, GetHit
    <2> QED
      BY <1>2, <2>1 DEF CacheTypeOK, GetHit
  <1>7. Cardinality(DOMAIN store) \in Nat
    BY FS_CardinalityType
  <1>8. CapacityBound' /\ CounterConservation'
    BY <1>2, <1>7 DEF CapacityBound, CounterConservation, GetHit, CacheTypeOK
  <1>9. RecencyStamps'
    <2>1. store'[key].last_used = tick + 1 /\ tick' = tick + 1
      BY <1>1, <1>3, <1>4 DEF GetHit, Entry
    <2>2. \A k \in DOMAIN store \ {key} :
             store'[k].last_used <= tick /\ store'[k].last_used \in Nat
      BY <1>3, <1>4 DEF RecencyStamps, Entry
    <2>3. \A j, k \in DOMAIN store \ {key} :
             store'[j].last_used = store'[k].last_used => j = k
      BY <1>3 DEF RecencyStamps
    <2> QED
      BY <1>2, <2>1, <2>2, <2>3 DEF RecencyStamps, CacheTypeOK
  <1> QED
    BY <1>2, <1>6, <1>8, <1>9

\* An expired entry leaves the store as its eviction is counted.
LEMMA GetExpiredInv ==
    ASSUME NEW Batches, NEW key, NEW now \in Nat,
           CacheInv(Batches), GetExpired(key, now)
    PROVE  CacheInv(Batches)'
  <1> USE DEF CacheInv
  <1>1. /\ key \in DOMAIN store
        /\ DOMAIN store' = DOMAIN store \ {key}
        /\ \A k \in DOMAIN store' : store'[k] = store[k]
    BY WithoutFacts DEF GetExpired
  <1>2. /\ IsFiniteSet(DOMAIN store')
        /\ Cardinality(DOMAIN store') = Cardinality(DOMAIN store) - 1
        /\ Cardinality(DOMAIN store) \in Nat
        /\ Cardinality(DOMAIN store') \in Nat
    BY <1>1, FS_RemoveElement, FS_CardinalityType
  <1>3. store' \in [DOMAIN store' -> Entry(Batches)]
    BY <1>1 DEF CacheTypeOK, GetExpired, Without
  <1>4. CacheTypeOK(Batches)'
    BY <1>1, <1>3 DEF CacheTypeOK, GetExpired
  <1>5. CapacityBound' /\ CounterConservation'
    BY <1>2, MaxEntriesAssumption
    DEF CapacityBound, CounterConservation, GetExpired, CacheTypeOK
  <1>6. RecencyStamps'
    BY <1>1 DEF RecencyStamps, GetExpired, CacheTypeOK, Entry
  <1> QED
    BY <1>2, <1>4, <1>5, <1>6

\* A miss on an absent key changes counters only.
LEMMA GetAbsentInv ==
    ASSUME NEW Batches, NEW key, CacheInv(Batches), GetAbsent(key)
    PROVE  CacheInv(Batches)'
  <1> USE DEF CacheInv
  <1>1. Cardinality(DOMAIN store) \in Nat
    BY FS_CardinalityType
  <1>2. CacheTypeOK(Batches)'
    BY DEF CacheTypeOK, GetAbsent
  <1>3. CapacityBound' /\ CounterConservation'
    BY <1>1 DEF CapacityBound, CounterConservation, GetAbsent, CacheTypeOK
  <1>4. RecencyStamps'
    BY DEF RecencyStamps, GetAbsent, CacheTypeOK, Entry
  <1> QED
    BY <1>2, <1>3, <1>4 DEF GetAbsent

\* get preserves the invariant.
LEMMA GetInv ==
    ASSUME NEW Batches, NEW key, NEW now \in Nat,
           CacheInv(Batches), Get(key, now)
    PROVE  CacheInv(Batches)'
  BY GetHitInv, GetExpiredInv, GetAbsentInv DEF Get

-------------------------------------------------------------------------------
(* set *)

\* A new entry carries a stamp above all others. It is the core of both cases of
\* set: `map' is what the eviction, if any, left of the store.
LEMMA InsertInv ==
    ASSUME NEW Batches, NEW key \in Keys, NEW b \in Batches, NEW now \in Nat,
           NEW map, CacheInv(Batches),
           DOMAIN map \subseteq DOMAIN store,
           \A k \in DOMAIN map : map[k] = store[k],
           store' = Insert(map, key, NewEntry(b, now)),
           tick' = tick + 1
    PROVE  /\ DOMAIN store' = DOMAIN map \cup {key}
           /\ store' \in [DOMAIN store' -> Entry(Batches)]
           /\ RecencyStamps'
  <1> USE DEF CacheInv
  <1>1. /\ DOMAIN store' = DOMAIN map \cup {key}
        /\ store'[key] = NewEntry(b, now)
        /\ \A k \in DOMAIN map \ {key} : store'[k] = store[k]
    <2> DEFINE entry == NewEntry(b, now)
    <2>1. store' = Insert(map, key, entry)
      OBVIOUS
    <2> HIDE DEF entry
    <2>2. /\ DOMAIN store' = DOMAIN map \cup {key}
          /\ store'[key] = entry
          /\ \A k \in DOMAIN map \ {key} : store'[k] = map[k]
      BY <2>1 DEF Insert
    <2> QED
      BY <2>2 DEF entry
  <1>2. NewEntry(b, now) \in Entry(Batches) /\ NewEntry(b, now).last_used = tick + 1
    BY DEF NewEntry, Entry, CacheTypeOK
  <1>3. \A k \in DOMAIN store : store[k] \in Entry(Batches)
    BY DEF CacheTypeOK
  <1>4. \A k \in DOMAIN store' : store'[k] \in Entry(Batches)
    BY <1>1, <1>2, <1>3
  <1>5. store' = [k \in DOMAIN store' |-> store'[k]]
    BY DEF Insert
  <1>6. \A k \in DOMAIN map \ {key} :
           store'[k].last_used <= tick /\ store'[k].last_used \in Nat
    BY <1>1, <1>3 DEF RecencyStamps, Entry
  <1>7. \A j, k \in DOMAIN map \ {key} :
           store'[j].last_used = store'[k].last_used => j = k
    BY <1>1 DEF RecencyStamps
  <1>8. RecencyStamps'
    BY <1>1, <1>2, <1>6, <1>7 DEF RecencyStamps, CacheTypeOK
  <1> QED
    BY <1>1, <1>4, <1>5, <1>8

\* Without an eviction either the key was there or there was room for it.
LEMMA SetRoomyInv ==
    ASSUME NEW Batches, NEW key \in Keys, NEW b \in Batches, NEW now \in Nat,
           CacheInv(Batches), SetRoomy(key, b, now)
    PROVE  CacheInv(Batches)'
  <1> USE DEF CacheInv
  <1>1. /\ DOMAIN store' = DOMAIN store \cup {key}
        /\ store' \in [DOMAIN store' -> Entry(Batches)]
        /\ RecencyStamps'
    BY InsertInv DEF SetRoomy
  <1>2. /\ IsFiniteSet(DOMAIN store')
        /\ Cardinality(DOMAIN store') =
               IF key \in DOMAIN store THEN Cardinality(DOMAIN store)
                                       ELSE Cardinality(DOMAIN store) + 1
        /\ Cardinality(DOMAIN store) \in Nat
    BY <1>1, FS_AddElement, FS_CardinalityType
  <1>3. CacheTypeOK(Batches)'
    BY <1>1 DEF CacheTypeOK, SetRoomy
  <1>4. CapacityBound'
    BY <1>2, MaxEntriesAssumption DEF CapacityBound, SetRoomy, MustEvict
  <1>5. CounterConservation'
    BY <1>2 DEF CounterConservation, SetRoomy, CacheTypeOK
  <1> QED
    BY <1>1, <1>2, <1>3, <1>4, <1>5

\* An eviction removes one entry, and the new one takes its place.
LEMMA SetEvictingInv ==
    ASSUME NEW Batches, NEW key \in Keys, NEW b \in Batches, NEW now \in Nat,
           CacheInv(Batches), SetEvicting(key, b, now)
    PROVE  CacheInv(Batches)'
  <1> USE DEF CacheInv
  <1>1. PICK victim \in LruKeys :
           store' = Insert(Without(store, victim), key, NewEntry(b, now))
    BY DEF SetEvicting
  <1>2. victim \in DOMAIN store /\ key \notin DOMAIN store
    BY <1>1 DEF LruKeys, SetEvicting, MustEvict
  <1> DEFINE rest == Without(store, victim)
  <1>3. /\ DOMAIN rest = DOMAIN store \ {victim}
        /\ \A k \in DOMAIN rest : rest[k] = store[k]
    BY WithoutFacts
  <1>4. /\ DOMAIN store' = DOMAIN rest \cup {key}
        /\ store' \in [DOMAIN store' -> Entry(Batches)]
        /\ RecencyStamps'
    <2>1. DOMAIN rest \subseteq DOMAIN store
      BY <1>3
    <2>2. store' = Insert(rest, key, NewEntry(b, now)) /\ tick' = tick + 1
      BY <1>1 DEF SetEvicting
    <2> HIDE DEF rest
    <2> QED
      BY <1>3, <2>1, <2>2, InsertInv
  <1>5. /\ IsFiniteSet(DOMAIN rest)
        /\ Cardinality(DOMAIN rest) = Cardinality(DOMAIN store) - 1
        /\ Cardinality(DOMAIN store) \in Nat
    BY <1>2, <1>3, FS_RemoveElement, FS_CardinalityType
  <1>6. /\ IsFiniteSet(DOMAIN store')
        /\ Cardinality(DOMAIN store') = Cardinality(DOMAIN store)
    BY <1>2, <1>3, <1>4, <1>5, FS_AddElement
  <1>7. CacheTypeOK(Batches)'
    BY <1>2, <1>3, <1>4 DEF CacheTypeOK, SetEvicting
  <1>8. CapacityBound' /\ CounterConservation'
    BY <1>5, <1>6 DEF CapacityBound, CounterConservation, SetEvicting, CacheTypeOK
  <1> QED
    BY <1>4, <1>6, <1>7, <1>8

\* set preserves the invariant.
LEMMA SetInv ==
    ASSUME NEW Batches, NEW key \in Keys, NEW b \in Batches, NEW now \in Nat,
           CacheInv(Batches), Set(key, b, now)
    PROVE  CacheInv(Batches)'
  BY SetRoomyInv, SetEvictingInv DEF Set

-------------------------------------------------------------------------------
(* Where the stored results come from *)

\* get brings no result into the store: what is left was there under its key.
LEMMA GetContents ==
    ASSUME NEW Batches, NEW key, NEW now, CacheInv(Batches), Get(key, now)
    PROVE  \A k \in DOMAIN store' :
               k \in DOMAIN store /\ store'[k].batches = store[k].batches
  <1>1. \A k \in DOMAIN store : store[k] \in Entry(Batches)
    BY DEF CacheInv, CacheTypeOK
  <1>2. CASE GetHit(key, now)
    <2>1. key \in DOMAIN store /\ DOMAIN store' = DOMAIN store
      BY <1>2 DEF GetHit, CanHit
    <2>2. store'[key] = [store[key] EXCEPT !.last_used = tick + 1]
      BY <1>2, <2>1 DEF GetHit
    <2>3. store'[key].batches = store[key].batches
      BY <1>1, <2>1, <2>2 DEF Entry
    <2>4. \A k \in DOMAIN store \ {key} : store'[k] = store[k]
      BY <1>2 DEF GetHit
    <2> QED
      BY <2>1, <2>3, <2>4
  <1>3. CASE GetExpired(key, now)
    <2>1. store' = Without(store, key)
      BY <1>3 DEF GetExpired
    <2> QED
      BY <2>1 DEF Without
  <1>4. CASE GetAbsent(key)
    BY <1>4 DEF GetAbsent
  <1> QED
    BY <1>2, <1>3, <1>4 DEF Get

\* set brings in the result it was given, under its key, and no other.
LEMMA SetContents ==
    ASSUME NEW key, NEW b, NEW now, Set(key, b, now)
    PROVE  \A k \in DOMAIN store' :
               \/ k = key /\ store'[k].batches = b
               \/ k \in DOMAIN store /\ store'[k] = store[k]
  <1> DEFINE entry == NewEntry(b, now)
  <1>1. entry.batches = b
    BY DEF NewEntry
  <1>2. CASE SetRoomy(key, b, now)
    <2>1. store' = Insert(store, key, entry)
      BY <1>2 DEF SetRoomy
    <2> HIDE DEF entry
    <2> QED
      BY <1>1, <2>1 DEF Insert
  <1>3. CASE SetEvicting(key, b, now)
    <2>1. PICK victim \in LruKeys : store' = Insert(Without(store, victim), key, entry)
      BY <1>3 DEF SetEvicting
    <2> DEFINE rest == Without(store, victim)
    <2>2. \A k \in DOMAIN rest : k \in DOMAIN store /\ rest[k] = store[k]
      BY WithoutFacts
    <2>3. store' = Insert(rest, key, entry)
      BY <2>1
    <2> HIDE DEF entry, rest
    <2> QED
      BY <1>1, <2>2, <2>3 DEF Insert
  <1> QED
    BY <1>2, <1>3 DEF Set

-------------------------------------------------------------------------------
(* The victim *)

\* set has no choice: at most one key has the smallest stamp, so the order in which
\* min_by_key meets the entries of the HashMap does not matter.
THEOREM VictimIsUnique ==
    ASSUME NEW Batches, CacheInv(Batches), NEW v \in LruKeys, NEW w \in LruKeys
    PROVE  v = w
  <1>1. v \in DOMAIN store /\ w \in DOMAIN store
    BY DEF LruKeys
  <1>2. store[v].last_used \in Nat /\ store[w].last_used \in Nat
    BY <1>1 DEF CacheInv, CacheTypeOK, Entry
  <1>3. store[v].last_used = store[w].last_used
    BY <1>1, <1>2 DEF LruKeys
  <1> QED
    BY <1>1, <1>3 DEF CacheInv, RecencyStamps
===============================================================================
