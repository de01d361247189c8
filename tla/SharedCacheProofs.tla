---------------------------- MODULE SharedCacheProofs ----------------------------
(* Safety of the cache shared by any number of threads, and the proof that it   *)
(* implements RecencyCache: whatever the order in which calls sample the clock  *)
(* and get the lock, for every capacity, time to live and set of keys, threads  *)
(* and results.                                                                 *)
EXTENDS SharedCache, CacheLayerProofs, SequenceTheorems

\* The inductive invariant: that of the state behind the mutex, and calls that
\* carry a key and a clock reading.
IInv ==
    /\ CacheInv(Batches)
    /\ clock \in Nat
    /\ call \in [Threads -> Call \cup {Idle}]
    /\ reply \in [Threads -> Batches \cup {Miss}]

\* The initial state satisfies the invariant.
LEMMA InitIInv == Init => IInv
  BY CacheInitInv DEF Init, IInv

\* get hands out a query result or a miss, never anything else.
LEMMA LookupType ==
    ASSUME CacheInv(Batches), NEW key, NEW now
    PROVE  Lookup(key, now) \in Batches \cup {Miss}
  BY DEF Lookup, CanHit, CacheInv, CacheTypeOK, Entry

\* A step that leaves the cache alone leaves its invariant alone.
LEMMA CacheUnchanged ==
    ASSUME NEW B, CacheInv(B), UNCHANGED cacheVars
    PROVE  CacheInv(B)'
  BY DEF CacheInv, CacheTypeOK, CapacityBound, RecencyStamps, CounterConservation,
         cacheVars

\* Every step preserves the invariant.
LEMMA NextIInv ==
    ASSUME IInv, [Next]_vars
    PROVE  IInv'
  <1> USE DEF IInv
  <1>1. CASE Advance
    <2>1. CacheInv(Batches)'
      BY <1>1, CacheUnchanged DEF Advance
    <2> QED
      BY <1>1, <2>1 DEF Advance, cacheVars
  <1>2. CASE LockedClear
    <2>1. CacheInv(Batches)'
      BY <1>2, ClearInv DEF LockedClear
    <2> QED
      BY <1>2, <2>1 DEF LockedClear
  <1>3. ASSUME NEW p \in Threads, NEW key \in Keys, InvokeGet(p, key)
        PROVE  IInv'
    <2>1. CacheInv(Batches)'
      BY <1>3, CacheUnchanged DEF InvokeGet
    <2>2. [op |-> "get", key |-> key, now |-> clock] \in Call
      BY DEF Call, GetCall
    <2> QED
      BY <1>3, <2>1, <2>2 DEF InvokeGet
  <1>4. ASSUME NEW p \in Threads, NEW key \in Keys, NEW b \in Batches,
               InvokeSet(p, key, b)
        PROVE  IInv'
    <2>1. CacheInv(Batches)'
      BY <1>4, CacheUnchanged DEF InvokeSet
    <2>2. [op |-> "set", key |-> key, batches |-> b, now |-> clock] \in Call
      BY DEF Call, SetCall
    <2> QED
      BY <1>4, <2>1, <2>2 DEF InvokeSet
  <1>5. ASSUME NEW p \in Threads, LockedGet(p)
        PROVE  IInv'
    <2>1. call[p].key \in Keys /\ call[p].now \in Nat
      BY <1>5 DEF LockedGet, GetCall
    <2>2. CacheInv(Batches)'
      BY <1>5, <2>1, GetInv DEF LockedGet
    <2>3. Lookup(call[p].key, call[p].now) \in Batches \cup {Miss}
      BY LookupType
    <2> QED
      BY <1>5, <2>2, <2>3 DEF LockedGet
  <1>6. ASSUME NEW p \in Threads, LockedSet(p)
        PROVE  IInv'
    <2>1. call[p].key \in Keys /\ call[p].now \in Nat /\ call[p].batches \in Batches
      BY <1>6 DEF LockedSet, SetCall
    <2>2. CacheInv(Batches)'
      BY <1>6, <2>1, SetInv DEF LockedSet
    <2> QED
      BY <1>6, <2>2 DEF LockedSet
  <1>7. CASE UNCHANGED vars
    <2>1. CacheInv(Batches)'
      BY <1>7, CacheUnchanged DEF vars
    <2> QED
      BY <1>7, <2>1 DEF vars
  <1> QED
    BY <1>1, <1>2, <1>3, <1>4, <1>5, <1>6, <1>7 DEF Next

\* The invariant holds in every reachable state.
LEMMA SpecIInv == Spec => []IInv
  BY InitIInv, NextIInv, PTL DEF Spec

-------------------------------------------------------------------------------
(* Results *)

\* Type correctness, in particular of what get returns.
THEOREM TypeCorrect == Spec => []TypeOK
  <1>1. IInv => TypeOK
    BY DEF IInv, CacheInv, TypeOK
  <1> QED
    BY <1>1, SpecIInv, PTL

\* The cache never holds more than max_entries results.
THEOREM CapacityRespected == Spec => []CapacityBound
  <1>1. IInv => CapacityBound
    BY DEF IInv, CacheInv
  <1> QED
    BY <1>1, SpecIInv, PTL

\* Recency stamps stay distinct and never lie ahead of the tick.
THEOREM StampsDistinct == Spec => []RecencyStamps
  <1>1. IInv => RecencyStamps
    BY DEF IInv, CacheInv
  <1> QED
    BY <1>1, SpecIInv, PTL

\* Evictions and entries together never outnumber the sets, and every eviction by
\* age is a miss.
THEOREM CountersConserved == Spec => []CounterConservation
  <1>1. IInv => CounterConservation
    BY DEF IInv, CacheInv
  <1> QED
    BY <1>1, SpecIInv, PTL

\* In every reachable state a set that must evict has exactly one victim.
THEOREM VictimDetermined ==
    Spec => [](\A v, w \in LruKeys : v = w)
  <1>1. IInv => \A v, w \in LruKeys : v = w
    BY VictimIsUnique DEF IInv
  <1> QED
    BY <1>1, SpecIInv, PTL

-------------------------------------------------------------------------------
(* The list in order of use *)

\* s lists the keys of st, the one used longest ago first.
InOrderOfUse(s, st) ==
    /\ s \in Seq(DOMAIN st)
    /\ \A k \in DOMAIN st : \E i \in 1..Len(s) : s[i] = k
    /\ \A i, j \in 1..Len(s) : i < j => st[s[i]].last_used < st[s[j]].last_used

Listed(k, st) ==
    [key |-> k, batches |-> st[k].batches, inserted_at |-> st[k].inserted_at]

Listing(s, st) == [i \in 1..Len(s) |-> Listed(s[i], st)]

Stamped(st) == \A k \in DOMAIN st : st[k].last_used \in Nat

Omit(s, p) == [i \in 1..(Len(s) - 1) |-> IF i < p THEN s[i] ELSE s[i + 1]]

Then(s, e) == Append(s, e)

\* Every key is listed once, and places are ordered as stamps are.
LEMMA ListedOnce ==
    ASSUME NEW st, NEW s, Stamped(st), InOrderOfUse(s, st),
           NEW i \in 1..Len(s), NEW j \in 1..Len(s)
    PROVE  /\ s[i] \in DOMAIN st
           /\ s[i] = s[j] => i = j
           /\ st[s[i]].last_used < st[s[j]].last_used => i < j
           /\ st[s[i]].last_used \in Nat
  <1>1. Len(s) \in Nat /\ s[i] \in DOMAIN st /\ s[j] \in DOMAIN st
    BY DEF InOrderOfUse
  <1>2. st[s[i]].last_used \in Nat /\ st[s[j]].last_used \in Nat
    BY <1>1 DEF Stamped
  <1>3. /\ i < j => st[s[i]].last_used < st[s[j]].last_used
        /\ j < i => st[s[j]].last_used < st[s[i]].last_used
    BY DEF InOrderOfUse
  <1> QED
    BY <1>1, <1>2, <1>3

\* A list in the order of use has as many places as there are entries.
LEMMA ListedAll ==
    ASSUME NEW st, NEW s, Stamped(st), InOrderOfUse(s, st)
    PROVE  Cardinality(DOMAIN st) = Len(s) /\ Len(s) \in Nat
  <1>1. Len(s) \in Nat /\ s \in [1..Len(s) -> DOMAIN st]
    BY DEF InOrderOfUse
  <1>2. \A i, j \in 1..Len(s) : s[i] = s[j] => i = j
    BY ListedOnce
  <1>3. s \in Bijection(1..Len(s), DOMAIN st)
    BY <1>1, <1>2 DEF Bijection, Injection, Surjection, IsInjective, InOrderOfUse
  <1> QED
    BY <1>1, <1>3, FS_CountingElements DEF ExistsBijection

\* At place i is the key with i - 1 keys used before it.
LEMMA UsedBefore ==
    ASSUME NEW st, NEW s, Stamped(st), InOrderOfUse(s, st), NEW i \in 1..Len(s)
    PROVE  Cardinality({k \in DOMAIN st : st[k].last_used < st[s[i]].last_used}) = i - 1
  <1> DEFINE K == {k \in DOMAIN st : st[k].last_used < st[s[i]].last_used}
             f == [x \in 1..(i - 1) |-> s[x]]
  <1>1. Len(s) \in Nat /\ i - 1 \in Nat /\ 1..(i - 1) \subseteq 1..Len(s)
    BY DEF InOrderOfUse
  <1>2. f \in [1..(i - 1) -> K]
    <2>1. ASSUME NEW x \in 1..(i - 1)
          PROVE  s[x] \in K
      BY <1>1 DEF InOrderOfUse
    <2> QED
      BY <2>1
  <1>3. \A x, y \in 1..(i - 1) : s[x] = s[y] => x = y
    BY <1>1, ListedOnce
  <1>4. ASSUME NEW k \in K
        PROVE  \E x \in 1..(i - 1) : s[x] = k
    <2>1. PICK x \in 1..Len(s) : s[x] = k
      BY DEF InOrderOfUse
    <2>2. x < i
      BY <2>1, ListedOnce
    <2> QED
      BY <1>1, <2>1, <2>2
  <1>5. f \in Bijection(1..(i - 1), K)
    <2> HIDE DEF K
    <2> QED
      BY <1>2, <1>3, <1>4 DEF Bijection, Injection, Surjection, IsInjective
  <1> HIDE DEF K, f
  <1>6. Cardinality(K) = i - 1
    BY <1>1, <1>5, FS_CountingElements DEF ExistsBijection
  <1> QED
    BY <1>6 DEF K

\* The counting of ByRecency yields the list.
LEMMA OrderIsListing ==
    ASSUME NEW st, NEW s, Stamped(st), InOrderOfUse(s, st)
    PROVE  InOrder(st) = Listing(s, st)
  <1> DEFINE before(k) == Cardinality({j \in DOMAIN st :
                                          st[j].last_used < st[k].last_used})
             at(i) == CHOOSE k \in DOMAIN st : before(k) = i - 1
  <1>1. ASSUME NEW i \in 1..Len(s)
        PROVE  at(i) = s[i]
    <2>1. s[i] \in DOMAIN st /\ before(s[i]) = i - 1
      BY UsedBefore, ListedOnce
    <2>2. ASSUME NEW k \in DOMAIN st, before(k) = i - 1
          PROVE  k = s[i]
      <3>1. PICK j \in 1..Len(s) : s[j] = k
        BY DEF InOrderOfUse
      <3>2. before(s[j]) = j - 1
        BY UsedBefore
      <3>3. Len(s) \in Nat
        BY DEF InOrderOfUse
      <3> HIDE DEF before
      <3>4. j = i
        BY <2>2, <3>1, <3>2, <3>3
      <3> QED
        BY <3>1, <3>4
    <2> HIDE DEF before
    <2> QED
      BY <2>1, <2>2
  <1>2. InOrder(st) = [i \in 1..Cardinality(DOMAIN st) |-> Listed(at(i), st)]
    BY DEF InOrder, Listed
  <1> HIDE DEF at
  <1> QED
    BY <1>1, <1>2, ListedAll DEF Listing

-------------------------------------------------------------------------------
(* Entries that leave and enter the list *)

\* What is left of a list when one place is taken out.
LEMMA OmitFacts ==
    ASSUME NEW S, NEW s \in Seq(S), NEW p \in 1..Len(s)
    PROVE  /\ Len(Omit(s, p)) = Len(s) - 1
           /\ Omit(s, p) \in Seq(S)
           /\ \A i \in 1..(Len(s) - 1) :
                 Omit(s, p)[i] = IF i < p THEN s[i] ELSE s[i + 1]
  <1>1. Len(s) - 1 \in Nat
    OBVIOUS
  <1>2. Omit(s, p) \in [1..(Len(s) - 1) -> S]
    BY <1>1 DEF Omit
  <1> QED
    BY <1>1, <1>2 DEF Omit

\* What remains without the entry at one place is still in order.
LEMMA Leaving ==
    ASSUME NEW st, NEW s, Stamped(st), InOrderOfUse(s, st), NEW p \in 1..Len(s),
           NEW to, DOMAIN to = DOMAIN st \ {s[p]},
           \A k \in DOMAIN to : to[k] = st[k]
    PROVE  /\ Stamped(to)
           /\ InOrderOfUse(Omit(s, p), to)
           /\ Listing(Omit(s, p), to) = Omit(Listing(s, st), p)
  <1> DEFINE t == Omit(s, p)
  <1>1. s \in Seq(DOMAIN st) /\ Len(s) \in Nat
    BY DEF InOrderOfUse
  <1>2. /\ Len(t) = Len(s) - 1 /\ t \in Seq(DOMAIN st)
        /\ \A i \in 1..(Len(s) - 1) : t[i] = IF i < p THEN s[i] ELSE s[i + 1]
    BY <1>1, OmitFacts
  <1> HIDE DEF t
  <1>3. \A i \in 1..Len(t) : t[i] \in DOMAIN to
    <2> SUFFICES ASSUME NEW i \in 1..Len(t) PROVE t[i] \in DOMAIN to
      OBVIOUS
    <2>1. PICK x \in 1..Len(s) : t[i] = s[x] /\ x # p
      BY <1>1, <1>2
    <2>2. s[x] \in DOMAIN st /\ s[x] # s[p]
      BY <2>1, ListedOnce
    <2> QED
      BY <2>1, <2>2
  <1>4. t \in Seq(DOMAIN to)
    BY <1>1, <1>2, <1>3
  <1>5. ASSUME NEW k \in DOMAIN to
        PROVE  \E i \in 1..Len(t) : t[i] = k
    <2>1. PICK x \in 1..Len(s) : s[x] = k
      BY DEF InOrderOfUse
    <2>2. x # p
      BY <2>1
    <2>3. CASE x < p
      BY <1>1, <1>2, <2>1, <2>3
    <2>4. CASE x > p
      <3>1. x - 1 \in 1..Len(t) /\ t[x - 1] = s[x]
        BY <1>1, <1>2, <2>4
      <3> QED
        BY <2>1, <3>1
    <2> QED
      BY <1>1, <2>2, <2>3, <2>4
  <1>6. ASSUME NEW i \in 1..Len(t), NEW j \in 1..Len(t), i < j
        PROVE  to[t[i]].last_used < to[t[j]].last_used
    <2> DEFINE place(a) == IF a < p THEN a ELSE a + 1
    <2>1. /\ place(i) \in 1..Len(s) /\ t[i] = s[place(i)]
          /\ place(j) \in 1..Len(s) /\ t[j] = s[place(j)]
          /\ place(i) < place(j)
      BY <1>1, <1>2, <1>6
    <2> HIDE DEF place
    <2>2. st[s[place(i)]].last_used < st[s[place(j)]].last_used
      BY <2>1 DEF InOrderOfUse
    <2> QED
      BY <1>3, <2>1, <2>2
  <1>7. InOrderOfUse(t, to)
    BY <1>4, <1>5, <1>6 DEF InOrderOfUse
  <1>8. Listing(t, to) = Omit(Listing(s, st), p)
    <2>1. Len(Listing(s, st)) = Len(s)
      BY <1>1 DEF Listing
    <2>2. \A i \in 1..Len(t) : Listed(t[i], to) = Listed(t[i], st)
      BY <1>3 DEF Listed
    <2>3. ASSUME NEW i \in 1..Len(t)
          PROVE  Listed(t[i], to) =
                     IF i < p THEN Listing(s, st)[i] ELSE Listing(s, st)[i + 1]
      BY <1>1, <1>2, <2>2 DEF Listing
    <2> QED
      BY <1>2, <2>1, <2>3 DEF Listing, Omit
  <1> QED
    BY <1>7, <1>8 DEF Stamped, t

\* What is used last is listed last.
LEMMA Entering ==
    ASSUME NEW st, NEW s, Stamped(st), InOrderOfUse(s, st),
           NEW key, key \notin DOMAIN st,
           NEW to, DOMAIN to = DOMAIN st \cup {key},
           \A k \in DOMAIN st : to[k] = st[k],
           to[key].last_used \in Nat,
           \A k \in DOMAIN st : st[k].last_used < to[key].last_used
    PROVE  /\ InOrderOfUse(Then(s, key), to)
           /\ Listing(Then(s, key), to) = Then(Listing(s, st), Listed(key, to))
  <1> DEFINE t == Append(s, key)
             n == Len(s)
  <1>1. n \in Nat /\ \A i \in 1..n : s[i] \in DOMAIN st
    BY DEF InOrderOfUse
  <1>2. s \in Seq(DOMAIN to)
    BY DEF InOrderOfUse
  <1>3. /\ t \in Seq(DOMAIN to) /\ Len(t) = n + 1 /\ t[n + 1] = key
        /\ \A i \in 1..n : t[i] = s[i]
    BY <1>1, <1>2
  <1> HIDE DEF t
  <1>4. \A k \in DOMAIN to : \E i \in 1..Len(t) : t[i] = k
    <2>1. ASSUME NEW k \in DOMAIN st
          PROVE  \E i \in 1..Len(t) : t[i] = k
      <3>1. PICK i \in 1..n : s[i] = k
        BY DEF InOrderOfUse
      <3> QED
        BY <1>1, <1>3, <3>1
    <2> QED
      BY <1>1, <1>3, <2>1
  <1>5. ASSUME NEW i \in 1..Len(t), NEW j \in 1..Len(t), i < j
        PROVE  to[t[i]].last_used < to[t[j]].last_used
    <2>1. i \in 1..n /\ t[i] = s[i] /\ s[i] \in DOMAIN st
      BY <1>1, <1>3, <1>5
    <2>2. CASE j \in 1..n
      <3>1. t[j] = s[j] /\ s[j] \in DOMAIN st
        BY <1>1, <1>3, <2>2
      <3>2. st[s[i]].last_used < st[s[j]].last_used
        BY <1>5, <2>1, <2>2 DEF InOrderOfUse
      <3> QED
        BY <2>1, <3>1, <3>2
    <2>3. CASE j = n + 1
      BY <1>3, <2>1, <2>3
    <2> QED
      BY <1>1, <1>3, <2>2, <2>3
  <1>6. InOrderOfUse(t, to)
    BY <1>3, <1>4, <1>5 DEF InOrderOfUse
  <1>7. Listing(t, to) = Append(Listing(s, st), Listed(key, to))
    <2> DEFINE l == Listing(s, st)
    <2>1. Len(l) = n /\ \A i \in 1..n : l[i] = Listed(s[i], st)
      BY <1>1 DEF Listing
    <2>2. Append(l, Listed(key, to)) =
              [i \in 1..(n + 1) |-> IF i \in 1..n THEN l[i] ELSE Listed(key, to)]
      BY <1>1, <2>1 DEF Listing
    <2>3. \A i \in 1..n : Listed(t[i], to) = l[i]
      BY <1>1, <1>3, <2>1 DEF Listed
    <2> HIDE DEF l
    <2>4. Listing(t, to) = [i \in 1..(n + 1) |-> IF i \in 1..n THEN l[i] ELSE Listed(key, to)]
      BY <1>1, <1>3, <2>3 DEF Listing
    <2> QED
      BY <2>2, <2>4 DEF l
  <1> QED
    BY <1>6, <1>7 DEF t, Then

-------------------------------------------------------------------------------
(* The steps of the list *)

\* The list of a store with its keys in order.
Ordered(s) == CacheInv(Batches) /\ InOrderOfUse(s, store)

\* Every entry carries the number of its last use.
LEMMA StampsAreNumbers == ASSUME CacheInv(Batches) PROVE Stamped(store)
  BY DEF CacheInv, CacheTypeOK, Entry, Stamped

\* The abstract cache takes an entry out of its list in the same way.
LEMMA RemoveAtOmits ==
    ASSUME NEW S, NEW l \in Seq(S), NEW p \in 1..Len(l)
    PROVE  Abstract!RemoveAt(l, p) = Omit(l, p)
  <1> DEFINE a == SubSeq(l, 1, p - 1)
             b == SubSeq(l, p + 1, Len(l))
  <1>1. /\ Len(l) \in Nat /\ a \in Seq(S) /\ Len(a) = p - 1
        /\ \A i \in 1..(p - 1) : a[i] = l[i]
    <2>1. Len(l) \in Nat /\ \A i \in 1..(p - 1) : l[i] \in S
      OBVIOUS
    <2>2. /\ a \in Seq(S) /\ Len(a) = IF 1 <= p - 1 THEN p - 1 - 1 + 1 ELSE 0
          /\ \A i \in 1..(p - 1 - 1 + 1) : a[i] = l[1 + i - 1]
      BY <2>1, SubSeqProperties
    <2> HIDE DEF a
    <2> QED
      BY <2>1, <2>2
  <1>2. /\ b \in Seq(S) /\ Len(b) = Len(l) - p
        /\ \A i \in 1..(Len(l) - p) : b[i] = l[i + p]
    <2>1. \A i \in (p + 1)..Len(l) : l[i] \in S
      OBVIOUS
    <2>2. /\ b \in Seq(S)
          /\ Len(b) = IF p + 1 <= Len(l) THEN Len(l) - (p + 1) + 1 ELSE 0
          /\ \A i \in 1..(Len(l) - (p + 1) + 1) : b[i] = l[p + 1 + i - 1]
      BY <1>1, <2>1, SubSeqProperties
    <2> HIDE DEF b
    <2> QED
      BY <1>1, <2>2
  <1> HIDE DEF a, b
  <1>3. /\ a \o b \in Seq(S) /\ Len(a \o b) = Len(l) - 1
        /\ \A i \in 1..(Len(l) - 1) :
               (a \o b)[i] = IF i < p THEN l[i] ELSE l[i + 1]
    <2> DEFINE c == a \o b
    <2>1. /\ c \in Seq(S) /\ Len(c) = Len(a) + Len(b)
          /\ \A i \in 1..(Len(a) + Len(b)) :
                 c[i] = IF i <= Len(a) THEN a[i] ELSE b[i - Len(a)]
      BY <1>1, <1>2, ConcatProperties
    <2> HIDE DEF c
    <2>2. p \in Nat /\ p >= 1 /\ Len(a) + Len(b) = Len(l) - 1
      BY <1>1, <1>2
    <2>3. ASSUME NEW i \in 1..(Len(l) - 1)
          PROVE  c[i] = IF i < p THEN l[i] ELSE l[i + 1]
      <3>1. CASE i < p
        BY <1>1, <2>1, <2>2, <3>1
      <3>2. CASE ~(i < p)
        <4> DEFINE x == i - (p - 1)
        <4>1. Len(l) \in Nat /\ Len(a) = p - 1 /\ i \in Nat
          BY <1>1
        <4>2. x \in 1..(Len(l) - p) /\ x + p = i + 1
          BY <2>2, <3>2, <4>1
        <4>3. c[i] = b[x]
          BY <2>1, <2>2, <3>2, <4>1
        <4> HIDE DEF x
        <4>4. b[x] = l[x + p]
          BY <1>2, <4>2
        <4> QED
          BY <3>2, <4>2, <4>3, <4>4
      <3> QED
        BY <3>1, <3>2
    <2> QED
      BY <2>1, <2>2, <2>3 DEF c
  <1>4. a \o b = Omit(l, p)
    <2> DEFINE c == a \o b
    <2>1. c = [i \in 1..(Len(l) - 1) |-> c[i]]
      <3>1. c \in Seq(S) /\ Len(c) = Len(l) - 1
        BY <1>3
      <3> HIDE DEF c
      <3> QED
        BY <3>1
    <2>2. \A i \in 1..(Len(l) - 1) : c[i] = IF i < p THEN l[i] ELSE l[i + 1]
      BY <1>3
    <2> HIDE DEF c
    <2>3. c = Omit(l, p)
      BY <2>1, <2>2 DEF Omit
    <2> QED
      BY <2>3 DEF c
  <1> QED
    BY <1>4 DEF Abstract!RemoveAt, a, b

\* The place of a key in the list, and what is left without it.
LEMMA PlaceOfKey ==
    ASSUME NEW s, Ordered(s), NEW p \in 1..Len(s)
    PROVE  /\ Abstract!Places(s[p]) = {p}
           /\ Abstract!Others(s[p]) = Omit(Listing(s, store), p)
           /\ ByRecency[p] = Listed(s[p], store)
  <1>1. ByRecency = Listing(s, store)
    BY OrderIsListing, StampsAreNumbers DEF Ordered, ByRecency
  <1>2. Len(s) \in Nat
    BY DEF Ordered, InOrderOfUse
  <1>3. /\ Len(Listing(s, store)) = Len(s)
        /\ \A i \in 1..Len(s) : Listing(s, store)[i] = Listed(s[i], store)
    BY <1>2 DEF Listing
  <1>4. Abstract!Places(s[p]) = {p}
    <2>1. \A i \in 1..Len(s) : s[i] = s[p] <=> i = p
      BY ListedOnce, StampsAreNumbers DEF Ordered
    <2>2. \A i \in 1..Len(s) : ByRecency[i].key = s[i]
      <3>1. \A i \in 1..Len(s) : ByRecency[i] = Listed(s[i], store)
        BY <1>1, <1>3
      <3>2. \A k : Listed(k, store).key = k
        BY DEF Listed
      <3> QED
        BY <3>1, <3>2
    <2>3. Len(ByRecency) = Len(s)
      BY <1>1, <1>3
    <2>4. Abstract!Places(s[p]) = {i \in 1..Len(s) : s[i] = s[p]}
      BY <2>2, <2>3 DEF Abstract!Places
    <2> QED
      BY <2>1, <2>4
  <1>5. Listing(s, store) \in Seq({Listed(k, store) : k \in DOMAIN store})
    <2>1. \A i \in 1..Len(s) : s[i] \in DOMAIN store
      BY <1>2 DEF Ordered, InOrderOfUse
    <2> QED
      BY <1>2, <2>1 DEF Listing
  <1>6. Abstract!Others(s[p]) = Abstract!RemoveAt(Listing(s, store), p)
    BY <1>1, <1>4 DEF Abstract!Others
  <1> QED
    BY <1>1, <1>3, <1>4, <1>5, <1>6, RemoveAtOmits

\* A key that is not stored has no place in the abstract cache's list.
LEMMA NoPlace ==
    ASSUME NEW s, Ordered(s), NEW key, key \notin DOMAIN store
    PROVE  Abstract!Places(key) = {} /\ Abstract!Others(key) = Listing(s, store)
  <1>1. ByRecency = Listing(s, store)
    BY OrderIsListing, StampsAreNumbers DEF Ordered, ByRecency
  <1>2. Len(s) \in Nat /\ \A i \in 1..Len(s) : s[i] \in DOMAIN store
    BY DEF Ordered, InOrderOfUse
  <1>3. Abstract!Places(key) = {}
    BY <1>1, <1>2 DEF Abstract!Places, Listing, Listed
  <1> QED
    BY <1>1, <1>3 DEF Abstract!Others

\* In a store that has been brought into order anew, ByRecency is the new list.
LEMMA NewList ==
    ASSUME CacheInv(Batches)', NEW t, InOrderOfUse(t, store')
    PROVE  ByRecency' = Listing(t, store')
  <1>1. Stamped(store')
    BY DEF CacheInv, CacheTypeOK, Entry, Stamped
  <1> QED
    BY <1>1, OrderIsListing DEF ByRecency

-------------------------------------------------------------------------------
(* The critical sections *)

\* An entry stamped with the next tick becomes the last of the list.
LEMMA EntersLast ==
    ASSUME NEW rest, NEW t, Stamped(rest), InOrderOfUse(t, rest), tick \in Nat,
           \A k \in DOMAIN rest : rest[k].last_used < tick + 1,
           NEW key, key \notin DOMAIN rest, NEW entry, entry.last_used = tick + 1,
           CacheInv(Batches)', store' = Insert(rest, key, entry)
    PROVE  /\ \E u : InOrderOfUse(u, store')
           /\ ByRecency' = Then(Listing(t, rest),
                                [key |-> key, batches |-> entry.batches,
                                 inserted_at |-> entry.inserted_at])
  <1>1. /\ DOMAIN store' = DOMAIN rest \cup {key}
        /\ \A k \in DOMAIN rest : store'[k] = rest[k]
        /\ store'[key] = entry
    BY DEF Insert
  <1>2. /\ store'[key].last_used = tick + 1 /\ store'[key].last_used \in Nat
        /\ Listed(key, store') = [key |-> key, batches |-> entry.batches,
                                  inserted_at |-> entry.inserted_at]
    BY <1>1 DEF Listed
  <1>3. \A k \in DOMAIN rest : rest[k].last_used < store'[key].last_used
    BY <1>2
  <1> DEFINE u == Then(t, key)
  <1>4. /\ InOrderOfUse(u, store')
        /\ Listing(u, store') = Then(Listing(t, rest), Listed(key, store'))
    BY <1>1, <1>2, <1>3, Entering
  <1> HIDE DEF u
  <1>5. ByRecency' = Listing(u, store')
    BY <1>4, NewList
  <1> QED
    BY <1>2, <1>4, <1>5

\* An entry is hit: it leaves the list and enters it again as the last one.
LEMMA HitMoves ==
    ASSUME NEW s, Ordered(s), NEW p \in 1..Len(s), NEW now, GetHit(s[p], now),
           CacheInv(Batches)'
    PROVE  /\ \E t : InOrderOfUse(t, store')
           /\ ByRecency' = Then(Abstract!Others(s[p]), ByRecency[p])
  <1> DEFINE key == s[p]
             rest == Without(store, key)
             left == Omit(s, p)
  <1>1. /\ key \in DOMAIN store
        /\ store' = [store EXCEPT ![key].last_used = tick + 1]
    BY DEF GetHit, CanHit
  <1>2. Stamped(store) /\ InOrderOfUse(s, store)
    BY StampsAreNumbers DEF Ordered
  <1>3. /\ tick \in Nat /\ store[key] \in Entry(Batches)
        /\ \A k \in DOMAIN store : store[k].last_used < tick + 1
    <2>1. tick \in Nat /\ \A k \in DOMAIN store : store[k].last_used <= tick
      BY DEF Ordered, CacheInv, CacheTypeOK, RecencyStamps
    <2>2. store[key] \in Entry(Batches)
      BY <1>1 DEF Ordered, CacheInv, CacheTypeOK
    <2> QED
      BY <1>2, <2>1, <2>2 DEF Stamped
  <1>4. /\ DOMAIN rest = DOMAIN store \ {key}
        /\ \A k \in DOMAIN rest : rest[k] = store[k]
    BY WithoutFacts
  <1> HIDE DEF rest
  <1>5. /\ Stamped(rest) /\ InOrderOfUse(left, rest)
        /\ Listing(left, rest) = Omit(Listing(s, store), p)
    BY <1>2, <1>4, Leaving
  <1> DEFINE entry == [store[key] EXCEPT !.last_used = tick + 1]
  <1>6. store' = Insert(rest, key, entry) /\ key \notin DOMAIN rest
    BY <1>1, <1>4 DEF Insert
  <1>7. /\ entry.last_used = tick + 1
        /\ entry.batches = store[key].batches
        /\ entry.inserted_at = store[key].inserted_at
    BY <1>3 DEF Entry
  <1>8. \A k \in DOMAIN rest : rest[k].last_used < tick + 1
    BY <1>3, <1>4
  <1> HIDE DEF key, left, entry
  <1>9. /\ \E t : InOrderOfUse(t, store')
        /\ ByRecency' = Then(Listing(left, rest),
                             [key |-> key, batches |-> entry.batches,
                              inserted_at |-> entry.inserted_at])
    BY <1>3, <1>5, <1>6, <1>7, <1>8, EntersLast
  <1>10. /\ Abstract!Others(s[p]) = Omit(Listing(s, store), p)
         /\ ByRecency[p] = Listed(s[p], store)
    BY PlaceOfKey
  <1> QED
    BY <1>5, <1>7, <1>9, <1>10 DEF key, Listed

\* An expired entry leaves the list.
LEMMA ExpiredLeaves ==
    ASSUME NEW s, Ordered(s), NEW p \in 1..Len(s), NEW now, GetExpired(s[p], now),
           CacheInv(Batches)'
    PROVE  /\ \E t : InOrderOfUse(t, store')
           /\ ByRecency' = Abstract!Others(s[p])
  <1>1. Stamped(store) /\ InOrderOfUse(s, store)
    BY StampsAreNumbers DEF Ordered
  <1>2. /\ DOMAIN store' = DOMAIN store \ {s[p]}
        /\ \A k \in DOMAIN store' : store'[k] = store[k]
    BY WithoutFacts DEF GetExpired
  <1>3. /\ InOrderOfUse(Omit(s, p), store')
        /\ Listing(Omit(s, p), store') = Omit(Listing(s, store), p)
    BY <1>1, <1>2, Leaving
  <1>4. ByRecency' = Listing(Omit(s, p), store')
    BY <1>3, NewList
  <1> QED
    BY <1>3, <1>4, PlaceOfKey

\* Without its head a list is its tail.
LEMMA OmitFirst ==
    ASSUME NEW S, NEW l \in Seq(S), Len(l) >= 1
    PROVE  Omit(l, 1) = Tail(l)
  <1> DEFINE t == Tail(l)
  <1>1. /\ t \in Seq(S) /\ Len(t) = Len(l) - 1
        /\ \A i \in 1..(Len(l) - 1) : t[i] = l[i + 1]
    <2>1. l # << >>
      OBVIOUS
    <2> HIDE DEF t
    <2> QED
      BY <2>1, HeadTailProperties DEF t
  <1> HIDE DEF t
  <1>2. t = [i \in 1..(Len(l) - 1) |-> t[i]]
    BY <1>1
  <1>3. Omit(l, 1) = [i \in 1..(Len(l) - 1) |-> l[i + 1]]
    BY DEF Omit
  <1> QED
    BY <1>1, <1>2, <1>3 DEF t

\* The list is as long as the store is large, and what is listed has a place.
LEMMA ListFacts ==
    ASSUME NEW s, Ordered(s)
    PROVE  /\ Stamped(store) /\ InOrderOfUse(s, store)
           /\ ByRecency = Listing(s, store)
           /\ Len(s) = Cardinality(DOMAIN store) /\ Len(s) \in Nat
           /\ Len(Listing(s, store)) = Len(s)
           /\ Listing(s, store) \in Seq({Listed(k, store) : k \in DOMAIN store})
           /\ tick \in Nat
           /\ \A k \in DOMAIN store : store[k].last_used < tick + 1
  <1>1. Stamped(store) /\ InOrderOfUse(s, store)
    BY StampsAreNumbers DEF Ordered
  <1>2. ByRecency = Listing(s, store) /\ Len(s) = Cardinality(DOMAIN store)
    BY <1>1, OrderIsListing, ListedAll DEF ByRecency
  <1>3. Len(s) \in Nat /\ \A i \in 1..Len(s) : s[i] \in DOMAIN store
    BY <1>1 DEF InOrderOfUse
  <1>4. /\ Len(Listing(s, store)) = Len(s)
        /\ Listing(s, store) \in Seq({Listed(k, store) : k \in DOMAIN store})
    BY <1>3 DEF Listing
  <1>5. tick \in Nat /\ \A k \in DOMAIN store : store[k].last_used <= tick
    BY DEF Ordered, CacheInv, CacheTypeOK, RecencyStamps
  <1>6. \A k \in DOMAIN store : store[k].last_used < tick + 1
    BY <1>1, <1>5 DEF Stamped
  <1> QED
    BY <1>1, <1>2, <1>3, <1>4, <1>5, <1>6

\* The entries that a set of the abstract cache keeps.
Kept(key) ==
    IF Len(Abstract!Others(key)) = MaxEntries THEN Tail(Abstract!Others(key))
    ELSE Abstract!Others(key)

Result(key, b, now) == [key |-> key, batches |-> b, inserted_at |-> now]

\* A set appends its result to what the list of the abstract cache keeps.
LEMMA SetMoves ==
    ASSUME NEW s, Ordered(s), NEW key, NEW b, NEW now, Set(key, b, now),
           CacheInv(Batches)'
    PROVE  /\ \E t : InOrderOfUse(t, store')
           /\ ByRecency' = Then(Kept(key), Result(key, b, now))
  <1> DEFINE entry == NewEntry(b, now)
  <1>1. /\ entry.last_used = tick + 1
        /\ entry.batches = b
        /\ entry.inserted_at = now
    BY DEF NewEntry
  <1>2. Cardinality(DOMAIN store) <= MaxEntries /\ MaxEntries \in Nat \ {0}
    BY MaxEntriesAssumption DEF Ordered, CacheInv, CapacityBound
  <1>o. Stamped(store) /\ InOrderOfUse(s, store)
    BY ListFacts
  <1>l. /\ Len(s) = Cardinality(DOMAIN store) /\ Len(s) \in Nat
        /\ Len(Listing(s, store)) = Len(s)
    BY ListFacts
  <1>q. Listing(s, store) \in Seq({Listed(k, store) : k \in DOMAIN store})
    BY ListFacts
  <1>t. tick \in Nat /\ \A k \in DOMAIN store : store[k].last_used < tick + 1
    BY ListFacts
  <1>3. CASE key \in DOMAIN store
    <2> DEFINE rest == Without(store, key)
    <2>1. /\ DOMAIN rest = DOMAIN store \ {key}
          /\ \A k \in DOMAIN rest : rest[k] = store[k]
      BY WithoutFacts
    <2>2. store' = Insert(store, key, entry)
      BY <1>3 DEF Set, SetRoomy, SetEvicting, MustEvict
    <2> HIDE DEF rest, entry
    <2>3. store' = Insert(rest, key, entry)
      BY <1>3, <2>1, <2>2 DEF Insert
    <2>4. PICK p \in 1..Len(s) : s[p] = key
      BY <1>3, <1>o DEF InOrderOfUse
    <2>5. /\ Stamped(rest) /\ InOrderOfUse(Omit(s, p), rest)
          /\ Listing(Omit(s, p), rest) = Omit(Listing(s, store), p)
      BY <2>1, <2>4, <1>o, Leaving
    <2>6. \A k \in DOMAIN rest : rest[k].last_used < tick + 1
      BY <2>1, <1>t
    <2>7. tick \in Nat /\ key \notin DOMAIN rest
      BY <2>1, <1>t
    <2> DEFINE left == Omit(s, p)
    <2> HIDE DEF left
    <2>8. /\ \E t : InOrderOfUse(t, store')
          /\ ByRecency' = Then(Listing(left, rest),
                               [key |-> key, batches |-> entry.batches,
                                inserted_at |-> entry.inserted_at])
      BY <1>1, <2>3, <2>5, <2>6, <2>7, EntersLast DEF left
    <2>9. Abstract!Others(key) = Omit(Listing(s, store), p)
      BY <2>4, PlaceOfKey
    <2>10. Len(Omit(Listing(s, store), p)) = Len(s) - 1
      BY <1>l, <1>q, OmitFacts
    <2>11. Kept(key) = Omit(Listing(s, store), p)
      BY <1>2, <2>9, <2>10, <1>l DEF Kept
    <2> QED
      BY <1>1, <2>5, <2>8, <2>11 DEF left, Result
  <1>4. CASE key \notin DOMAIN store /\ Cardinality(DOMAIN store) < MaxEntries
    <2>1. store' = Insert(store, key, entry)
      <3>1. ~MustEvict(key)
        BY <1>2, <1>4, <1>l DEF MustEvict
      <3> QED
        BY <3>1 DEF Set, SetRoomy, SetEvicting
    <2> HIDE DEF entry
    <2>2. /\ \E t : InOrderOfUse(t, store')
          /\ ByRecency' = Then(Listing(s, store),
                               [key |-> key, batches |-> entry.batches,
                                inserted_at |-> entry.inserted_at])
      BY <1>1, <1>4, <2>1, <1>o, <1>t, EntersLast
    <2>3. Kept(key) = Listing(s, store)
      BY <1>2, <1>4, <1>l, NoPlace DEF Kept
    <2> QED
      BY <1>1, <2>2, <2>3 DEF Result
  <1>5. CASE key \notin DOMAIN store /\ Cardinality(DOMAIN store) >= MaxEntries
    <2>1. PICK victim \in LruKeys :
             store' = Insert(Without(store, victim), key, entry)
      BY <1>2, <1>5 DEF Set, SetRoomy, SetEvicting, MustEvict
    <2>2. Len(s) = MaxEntries
      BY <1>2, <1>5, <1>l
    <2>3. 1 \in 1..Len(s) /\ s[1] = victim
      <3>1. PICK q \in 1..Len(s) : s[q] = victim
        BY <1>o DEF InOrderOfUse, LruKeys
      <3>2. 1 \in 1..Len(s) /\ s[1] \in DOMAIN store
        BY <1>2, <1>o, <2>2 DEF InOrderOfUse
      <3>3. store[s[q]].last_used <= store[s[1]].last_used
        BY <3>1, <3>2 DEF LruKeys
      <3>4. store[s[q]].last_used \in Nat /\ store[s[1]].last_used \in Nat
        BY <1>o, <3>1, <3>2 DEF Stamped, LruKeys
      <3>5. 1 < q => store[s[1]].last_used < store[s[q]].last_used
        BY <1>o, <3>2 DEF InOrderOfUse
      <3> QED
        BY <3>1, <3>2, <3>3, <3>4, <3>5
    <2> DEFINE rest == Without(store, victim)
    <2>4. /\ DOMAIN rest = DOMAIN store \ {victim}
          /\ \A k \in DOMAIN rest : rest[k] = store[k]
      BY WithoutFacts
    <2>5. store' = Insert(rest, key, entry)
      BY <2>1
    <2> HIDE DEF rest, entry
    <2>6. /\ Stamped(rest) /\ InOrderOfUse(Omit(s, 1), rest)
          /\ Listing(Omit(s, 1), rest) = Omit(Listing(s, store), 1)
      <3>1. PICK p \in 1..Len(s) : p = 1
        BY <2>3
      <3>2. DOMAIN rest = DOMAIN store \ {s[p]}
        BY <2>3, <2>4, <3>1
      <3>3. /\ Stamped(rest) /\ InOrderOfUse(Omit(s, p), rest)
            /\ Listing(Omit(s, p), rest) = Omit(Listing(s, store), p)
        BY <1>o, <2>4, <3>2, Leaving
      <3> QED
        BY <3>1, <3>3
    <2>7. \A k \in DOMAIN rest : rest[k].last_used < tick + 1
      BY <1>t, <2>4
    <2>8. tick \in Nat /\ key \notin DOMAIN rest
      BY <1>5, <1>t, <2>4
    <2> DEFINE left == Omit(s, 1)
    <2> HIDE DEF left
    <2>9. /\ \E t : InOrderOfUse(t, store')
          /\ ByRecency' = Then(Listing(left, rest),
                               [key |-> key, batches |-> entry.batches,
                                inserted_at |-> entry.inserted_at])
      BY <1>1, <2>5, <2>6, <2>7, <2>8, EntersLast DEF left
    <2>10. Kept(key) = Tail(Listing(s, store))
      BY <1>5, <1>l, <2>2, NoPlace DEF Kept
    <2>11. Omit(Listing(s, store), 1) = Tail(Listing(s, store))
      BY <1>l, <1>q, <2>3, OmitFirst
    <2> QED
      BY <1>1, <2>6, <2>9, <2>10, <2>11 DEF left, Result
  <1>6. Cardinality(DOMAIN store) \in Nat
    BY <1>l
  <1> QED
    BY <1>2, <1>3, <1>4, <1>5, <1>6

\* A get moves the result to the end of the list and returns it, or drops an
\* expired one and misses.
LEMMA GetMoves ==
    ASSUME NEW s, Ordered(s), NEW key, NEW now \in Nat, Get(key, now),
           CacheInv(Batches)'
    PROVE  /\ \E t : InOrderOfUse(t, store')
           /\ \/ \E i \in Abstract!Places(key) :
                    /\ ~Abstract!Expired(ByRecency[i], now)
                    /\ ByRecency' = Then(Abstract!Others(key), ByRecency[i])
                    /\ Lookup(key, now) = ByRecency[i].batches
              \/ /\ \A i \in Abstract!Places(key) :
                       Abstract!Expired(ByRecency[i], now)
                 /\ ByRecency' = Abstract!Others(key)
                 /\ Lookup(key, now) = Miss
  <1>1. CASE GetAbsent(key)
    <2>1. key \notin DOMAIN store /\ store' = store
      BY <1>1 DEF GetAbsent
    <2>2. ByRecency' = ByRecency /\ InOrderOfUse(s, store')
      BY <2>1 DEF ByRecency, Ordered
    <2>3. Lookup(key, now) = Miss
      BY <2>1 DEF Lookup, CanHit
    <2> QED
      BY <2>1, <2>2, <2>3, NoPlace, ListFacts
  <1>2. ASSUME key \in DOMAIN store
        PROVE  \E p \in 1..Len(s) :
                  /\ s[p] = key
                  /\ Abstract!Places(key) = {p}
                  /\ ByRecency[p].batches = store[key].batches
                  /\ Abstract!Expired(ByRecency[p], now) <=> ~Fresh(store[key], now)
    <2>1. PICK p \in 1..Len(s) : s[p] = key
      BY <1>2 DEF Ordered, InOrderOfUse
    <2>2. Abstract!Places(key) = {p} /\ ByRecency[p] = Listed(key, store)
      BY <2>1, PlaceOfKey
    <2>3. /\ ByRecency[p].batches = store[key].batches
          /\ ByRecency[p].inserted_at = store[key].inserted_at
      BY <2>2 DEF Listed
    <2>4. store[key].inserted_at \in Nat
      BY <1>2 DEF Ordered, CacheInv, CacheTypeOK, Entry
    <2>5. Abstract!Expired(ByRecency[p], now) <=> ~Fresh(store[key], now)
      BY <2>3, <2>4, TtlAssumption DEF Abstract!Expired, Fresh, Elapsed
    <2> QED
      BY <2>1, <2>2, <2>3, <2>5
  <1>3. CASE GetHit(key, now)
    <2>1. key \in DOMAIN store /\ Fresh(store[key], now)
      BY <1>3 DEF GetHit, CanHit
    <2>2. PICK p \in 1..Len(s) :
             /\ s[p] = key
             /\ Abstract!Places(key) = {p}
             /\ ByRecency[p].batches = store[key].batches
             /\ Abstract!Expired(ByRecency[p], now) <=> ~Fresh(store[key], now)
      BY <1>2, <2>1
    <2>3. /\ \E t : InOrderOfUse(t, store')
          /\ ByRecency' = Then(Abstract!Others(key), ByRecency[p])
      BY <1>3, <2>2, HitMoves
    <2>4. Lookup(key, now) = ByRecency[p].batches
      BY <2>1, <2>2 DEF Lookup, CanHit
    <2> QED
      BY <2>1, <2>2, <2>3, <2>4
  <1>4. CASE GetExpired(key, now)
    <2>1. key \in DOMAIN store /\ ~Fresh(store[key], now)
      BY <1>4 DEF GetExpired
    <2>2. PICK p \in 1..Len(s) :
             /\ s[p] = key
             /\ Abstract!Places(key) = {p}
             /\ ByRecency[p].batches = store[key].batches
             /\ Abstract!Expired(ByRecency[p], now) <=> ~Fresh(store[key], now)
      BY <1>2, <2>1
    <2>3. /\ \E t : InOrderOfUse(t, store')
          /\ ByRecency' = Abstract!Others(key)
      BY <1>4, <2>2, ExpiredLeaves
    <2>4. Lookup(key, now) = Miss
      BY <2>1 DEF Lookup, CanHit
    <2> QED
      BY <2>1, <2>2, <2>3, <2>4
  <1> QED
    BY <1>1, <1>3, <1>4 DEF Get

-------------------------------------------------------------------------------
(* The cache implements the list in order of use *)

\* The invariant of the refinement: the store has a list in order of use.
RInv == IInv /\ \E s : InOrderOfUse(s, store)

\* Initially the list is empty.
LEMMA InitOrdered == Init => RInv /\ Abstract!Init
  <1> SUFFICES ASSUME Init PROVE RInv /\ Abstract!Init
    OBVIOUS
  <1>1. IInv
    BY InitIInv
  <1>2. DOMAIN store = {}
    BY DEF Init, CacheInit
  <1>3. InOrderOfUse(<< >>, store)
    BY <1>2 DEF InOrderOfUse
  <1>4. ByRecency = Listing(<< >>, store)
    BY <1>1, <1>3, OrderIsListing, StampsAreNumbers DEF IInv, ByRecency
  <1>5. Listing(<< >>, store) = << >>
    BY DEF Listing
  <1> QED
    BY <1>1, <1>3, <1>4, <1>5 DEF RInv, Init, Abstract!Init

\* Every step is a step of the abstract cache or a stutter.
LEMMA StepImplemented ==
    ASSUME RInv, [Next]_vars
    PROVE  RInv' /\ [Abstract!Next]_(Abstract!abstractVars)
  <1>1. IInv /\ IInv'
    BY NextIInv DEF RInv
  <1>2. CacheInv(Batches) /\ CacheInv(Batches)'
    BY <1>1 DEF IInv
  <1>3. PICK s : Ordered(s)
    BY <1>2 DEF RInv, Ordered
  <1>4. ASSUME UNCHANGED cacheVars
        PROVE  (\E t : InOrderOfUse(t, store')) /\ ByRecency' = ByRecency
    BY <1>3, <1>4 DEF cacheVars, Ordered, ByRecency
  <1>5. ASSUME NEW p \in Threads, call[p] \in Call
        PROVE  call[p] # Idle
    BY <1>5, IdleAssumption
  <1>6. CASE Advance
    BY <1>1, <1>4, <1>6
    DEF Advance, RInv, Abstract!Next, Abstract!Advance
  <1>7. CASE LockedClear
    <2>1. DOMAIN store' = {} /\ clock' = clock /\ call' = call /\ reply' = reply
      BY <1>7 DEF LockedClear, Clear
    <2>2. InOrderOfUse(<< >>, store')
      BY <2>1 DEF InOrderOfUse
    <2>3. ByRecency' = Listing(<< >>, store')
      BY <1>2, <2>2, NewList
    <2>4. Listing(<< >>, store') = << >>
      BY DEF Listing
    <2> QED
      BY <1>1, <2>1, <2>2, <2>3, <2>4 DEF RInv, Abstract!Next, Abstract!Clear
  <1>8. ASSUME NEW p \in Threads, NEW key \in Keys, InvokeGet(p, key)
        PROVE  RInv' /\ Abstract!Next
    <2>1. (\E t : InOrderOfUse(t, store')) /\ ByRecency' = ByRecency
      BY <1>4, <1>8 DEF InvokeGet
    <2>2. Abstract!Invoke(p)
      BY <1>8, <2>1 DEF InvokeGet, Abstract!Invoke
    <2> QED
      BY <1>1, <2>1, <2>2 DEF RInv, Abstract!Next
  <1>9. ASSUME NEW p \in Threads, NEW key \in Keys, NEW b \in Batches,
               InvokeSet(p, key, b)
        PROVE  RInv' /\ Abstract!Next
    <2>1. (\E t : InOrderOfUse(t, store')) /\ ByRecency' = ByRecency
      BY <1>4, <1>9 DEF InvokeSet
    <2>2. Abstract!Invoke(p)
      BY <1>9, <2>1 DEF InvokeSet, Abstract!Invoke
    <2> QED
      BY <1>1, <2>1, <2>2 DEF RInv, Abstract!Next
  <1>10. ASSUME NEW p \in Threads, LockedGet(p)
         PROVE  RInv' /\ Abstract!Next
    <2> DEFINE key == call[p].key
               now == call[p].now
    <2>1. /\ call[p] # Idle /\ call[p].op = "get" /\ now \in Nat
          /\ Get(key, now)
          /\ reply' = [reply EXCEPT ![p] = Lookup(key, now)]
          /\ call' = [call EXCEPT ![p] = Idle]
          /\ clock' = clock
      BY <1>5, <1>10 DEF LockedGet, Call, GetCall
    <2>2. /\ \E t : InOrderOfUse(t, store')
          /\ \/ \E i \in Abstract!Places(key) :
                   /\ ~Abstract!Expired(ByRecency[i], now)
                   /\ ByRecency' = Then(Abstract!Others(key), ByRecency[i])
                   /\ Lookup(key, now) = ByRecency[i].batches
             \/ /\ \A i \in Abstract!Places(key) :
                      Abstract!Expired(ByRecency[i], now)
                /\ ByRecency' = Abstract!Others(key)
                /\ Lookup(key, now) = Miss
      <3> HIDE DEF key, now
      <3> QED
        BY <1>2, <1>3, <2>1, GetMoves
    <2>3. Abstract!Get(p)
      BY <2>1, <2>2 DEF Abstract!Get, Abstract!Answer, Then
    <2> QED
      BY <1>1, <2>2, <2>3 DEF RInv, Abstract!Next
  <1>11. ASSUME NEW p \in Threads, LockedSet(p)
         PROVE  RInv' /\ Abstract!Next
    <2> DEFINE key == call[p].key
               b   == call[p].batches
               now == call[p].now
    <2>1. /\ call[p] # Idle /\ call[p].op = "set"
          /\ Set(key, b, now)
          /\ call' = [call EXCEPT ![p] = Idle]
          /\ clock' = clock /\ reply' = reply
      BY <1>5, <1>11 DEF LockedSet, Call, SetCall
    <2>2. /\ \E t : InOrderOfUse(t, store')
          /\ ByRecency' = Then(Kept(key), Result(key, b, now))
      <3> HIDE DEF key, b, now
      <3> QED
        BY <1>2, <1>3, <2>1, SetMoves
    <2>3. Abstract!Set(p)
      BY <2>1, <2>2 DEF Abstract!Set, Kept, Result, Then
    <2> QED
      BY <1>1, <2>2, <2>3 DEF RInv, Abstract!Next
  <1>12. CASE UNCHANGED vars
    <2>1. (\E t : InOrderOfUse(t, store')) /\ ByRecency' = ByRecency
      BY <1>4, <1>12 DEF vars
    <2> QED
      BY <1>1, <1>12, <2>1 DEF RInv, vars, Abstract!abstractVars
  <1> QED
    BY <1>6, <1>7, <1>8, <1>9, <1>10, <1>11, <1>12 DEF Next

\* The ticks and stamps behind the mutex implement the list of results in order of
\* use, for every capacity, time to live, set of keys and number of threads: get
\* returns the last result set for its key while it is fresh, and the entry a full
\* cache drops is the one used least recently.
THEOREM RecencyImplemented == Spec => ImplementsRecencyCache
  <1>1. Init => RInv /\ Abstract!Init
    BY InitOrdered
  <1>2. RInv /\ [Next]_vars => RInv' /\ [Abstract!Next]_(Abstract!abstractVars)
    BY StepImplemented
  <1> QED
    BY <1>1, <1>2, PTL DEF Spec, ImplementsRecencyCache, Abstract!Spec
===============================================================================
