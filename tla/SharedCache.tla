------------------------------ MODULE SharedCache ------------------------------
(* The cache of src/cache_layer.rs as its users see it: an Arc<Cache> called by *)
(* several threads at once. get and set read the clock before they wait for the *)
(* mutex, so a call's own time may be older than that of calls served before    *)
(* it; the body under the lock is one step. clear reads no clock.               *)
EXTENDS CacheLayer

CONSTANTS Threads,
          Batches,      \* query results
          Idle,         \* no call in progress
          MaxClock,     \* bound on the clock
          MaxTick       \* bound on the number of calls

ASSUME BoundsAssumption == MaxClock \in Nat /\ MaxTick \in Nat
ASSUME MissAssumption == Miss \notin Batches

VARIABLES clock,        \* the injected Clock
          call,         \* per thread, the call waiting for the lock
          reply         \* per thread, what its last get returned

vars == <<cacheVars, clock, call, reply>>

GetCall == [op : {"get"}, key : Keys, now : Nat]
SetCall == [op : {"set"}, key : Keys, batches : Batches, now : Nat]
Call == GetCall \cup SetCall

ASSUME IdleAssumption == Idle \notin Call

Init ==
    /\ CacheInit
    /\ clock = 0
    /\ call = [p \in Threads |-> Idle]
    /\ reply = [p \in Threads |-> Miss]

Advance ==
    /\ clock < MaxClock
    /\ clock' = clock + 1
    /\ UNCHANGED <<cacheVars, call, reply>>

\* `let now = (self.clock)()', before `self.inner.lock()'.
InvokeGet(p, key) ==
    /\ call[p] = Idle
    /\ tick < MaxTick
    /\ call' = [call EXCEPT ![p] = [op |-> "get", key |-> key, now |-> clock]]
    /\ UNCHANGED <<cacheVars, clock, reply>>

InvokeSet(p, key, b) ==
    /\ call[p] = Idle
    /\ tick < MaxTick
    /\ call' = [call EXCEPT
           ![p] = [op |-> "set", key |-> key, batches |-> b, now |-> clock]]
    /\ UNCHANGED <<cacheVars, clock, reply>>

LockedGet(p) ==
    /\ call[p] \in GetCall
    /\ Get(call[p].key, call[p].now)
    /\ reply' = [reply EXCEPT ![p] = Lookup(call[p].key, call[p].now)]
    /\ call' = [call EXCEPT ![p] = Idle]
    /\ UNCHANGED clock

LockedSet(p) ==
    /\ call[p] \in SetCall
    /\ Set(call[p].key, call[p].batches, call[p].now)
    /\ call' = [call EXCEPT ![p] = Idle]
    /\ UNCHANGED <<clock, reply>>

LockedClear ==
    /\ Clear
    /\ UNCHANGED <<clock, call, reply>>

Next ==
    \/ Advance
    \/ LockedClear
    \/ \E p \in Threads :
          \/ \E key \in Keys : InvokeGet(p, key)
          \/ \E key \in Keys, b \in Batches : InvokeSet(p, key, b)
          \/ LockedGet(p)
          \/ LockedSet(p)

Spec == Init /\ [][Next]_vars

-------------------------------------------------------------------------------
(* Properties *)

\* The shape of the state: the cache's, a clock reading in every pending call, and
\* a reply that is a query result or a miss (get returns the batches, never the
\* entry that holds them).
TypeOK ==
    /\ CacheTypeOK(Batches)
    /\ clock \in Nat
    /\ call \in [Threads -> Call \cup {Idle}]
    /\ reply \in [Threads -> Batches \cup {Miss}]

\* Entries in order of last use: the key at place i is the one with i - 1 entries
\* used before it.
InOrder(st) ==
    [i \in 1..Cardinality(DOMAIN st) |->
        LET k == CHOOSE k \in DOMAIN st :
                     Cardinality({j \in DOMAIN st :
                         st[j].last_used < st[k].last_used}) = i - 1
        IN [key |-> k, batches |-> st[k].batches, inserted_at |-> st[k].inserted_at]]

ByRecency == InOrder(store)

Abstract == INSTANCE RecencyCache WITH entries <- ByRecency

\* The ticks and stamps of get and set implement the list of results in order of
\* use, whatever the order in which the calls get the lock: a get returns the
\* result of the last set of its key, at most Ttl old by the two callers' clock
\* readings (a hit does not renew it), and a set of a new key in a full cache
\* drops the entry used least recently and no other.
ImplementsRecencyCache == Abstract!Spec
===============================================================================
