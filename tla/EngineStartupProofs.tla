-------------------------- MODULE EngineStartupProofs --------------------------
(* The startup of the engine, for every configuration, every content of the     *)
(* databases and whatever DataFusion reads names as, within the assumptions of  *)
(* EngineStartup: every table that is asked for answers to its canonical name   *)
(* and no other does; a bare name goes to the first table that has it; a table  *)
(* without a short name has found all of them taken; and the legacy name goes   *)
(* to the first my_pg_table. They need the whole path of a table:               *)
(* order_by_schema_priority lists the tables of a source by the order of the    *)
(* condition it sorts by (ranks, the number of tables before one, are distinct  *)
(* and leave no gap), the lists of the sources are joined in the order of       *)
(* configuration, resolve_aliases gives a table the first name that none before *)
(* it has got, and the registration goes down the list of aliases. What is      *)
(* computed one step of a recursion at a time is proved by the least number for *)
(* which it would fail (AllNumbers).                                            *)
EXTENDS EngineStartup, FiniteSetTheorems, SequenceTheorems, WellFoundedInduction,
        TLAPS

-------------------------------------------------------------------------------
(* Numbers *)

\* A set of numbers has a least one.
LEMMA LeastNumber ==
    ASSUME NEW T \in SUBSET Nat, T # {}
    PROVE  \E x \in T : \A y \in T : x <= y
  <1> DEFINE R == {ss \in Nat \X Nat : ss[1] < ss[2]}
  <1>1. IsWellFoundedOn(R, Nat)
    BY NatLessThanWellFounded DEF OpToRel
  <1>2. PICK x \in T : \A y \in T : ~ (<<y, x>> \in R)
    <2> HIDE DEF R
    <2> QED
      BY <1>1, WFMin
  <1>3. ASSUME NEW y \in T PROVE x <= y
    <2>1. x \in Nat /\ y \in Nat /\ ~ (y < x)
      BY <1>2
    <2> QED
      BY <2>1
  <1> QED
    BY <1>3

\* Induction, stated of the set of numbers for which something holds.
LEMMA AllNumbers ==
    ASSUME NEW T \in SUBSET Nat, 0 \in T, \A n \in T : n + 1 \in T
    PROVE  T = Nat
  <1> SUFFICES ASSUME T # Nat PROVE FALSE
    OBVIOUS
  <1> DEFINE U == Nat \ T
  <1>1. U \in SUBSET Nat /\ U # {}
    OBVIOUS
  <1>2. PICK x \in U : \A y \in U : x <= y
    <2> HIDE DEF U
    <2> QED
      BY <1>1, LeastNumber
  <1>3. x \in Nat /\ x # 0 /\ x - 1 \in Nat /\ x - 1 \notin U
    BY <1>2
  <1>4. x - 1 \in T
    BY <1>3
  <1>5. (x - 1) + 1 = x
    BY <1>3
  <1> QED
    BY <1>2, <1>4, <1>5

-------------------------------------------------------------------------------
(* Order *)

\* The elements before one, in an order given as a set of pairs.
Below(S, B, t) == {u \in S : <<u, t>> \in B}

StrictOrder(S, B) ==
    /\ \A t \in S : <<t, t>> \notin B
    /\ \A t, u \in S : t # u => <<t, u>> \in B \/ <<u, t>> \in B
    /\ \A t, u, v \in S : <<t, u>> \in B /\ <<u, v>> \in B => <<t, v>> \in B

\* An element has as many before it as its place in the order says.
LEMMA RanksFollowOrder ==
    ASSUME NEW S, IsFiniteSet(S), NEW B, StrictOrder(S, B), NEW t \in S
    PROVE  /\ Cardinality(Below(S, B, t)) \in 0..(Cardinality(S) - 1)
           /\ \A u \in S : <<u, t>> \in B =>
                  Cardinality(Below(S, B, u)) < Cardinality(Below(S, B, t))
  <1>1. \A u \in S : /\ Below(S, B, u) \in SUBSET S /\ u \notin Below(S, B, u)
                     /\ IsFiniteSet(Below(S, B, u))
                     /\ Cardinality(Below(S, B, u)) \in Nat
    <2> TAKE u \in S
    <2>1. Below(S, B, u) \in SUBSET S /\ u \notin Below(S, B, u)
      BY DEF Below, StrictOrder
    <2> QED
      BY <2>1, FS_Subset, FS_CardinalityType
  <1>2. Cardinality(S) \in Nat
    BY FS_CardinalityType
  <1>3. Cardinality(Below(S, B, t)) < Cardinality(S)
    <2>1. Below(S, B, t) # S
      BY <1>1
    <2>2. /\ Cardinality(Below(S, B, t)) <= Cardinality(S)
          /\ Cardinality(S) = Cardinality(Below(S, B, t)) => S = Below(S, B, t)
      BY <1>1, FS_Subset
    <2> QED
      BY <1>1, <1>2, <2>1, <2>2
  <1>4. ASSUME NEW u \in S, <<u, t>> \in B
        PROVE  Cardinality(Below(S, B, u)) < Cardinality(Below(S, B, t))
    <2>1. Below(S, B, u) \subseteq Below(S, B, t) /\ u \in Below(S, B, t)
      BY <1>4 DEF Below, StrictOrder
    <2>2. Below(S, B, u) # Below(S, B, t)
      BY <1>1, <2>1
    <2>3. /\ Cardinality(Below(S, B, u)) <= Cardinality(Below(S, B, t))
          /\ Cardinality(Below(S, B, t)) = Cardinality(Below(S, B, u)) =>
                 Below(S, B, t) = Below(S, B, u)
      BY <1>1, <2>1, FS_Subset
    <2> QED
      BY <1>1, <2>2, <2>3
  <1> QED
    BY <1>1, <1>2, <1>3, <1>4

\* So every place is taken, by one element each.
LEMMA RanksFill ==
    ASSUME NEW S, IsFiniteSet(S), NEW B, StrictOrder(S, B)
    PROVE  /\ \A t, u \in S :
                  <<t, u>> \in B <=>
                      Cardinality(Below(S, B, t)) < Cardinality(Below(S, B, u))
           /\ \A i \in 1..Cardinality(S) :
                  \E t \in S : Cardinality(Below(S, B, t)) = i - 1
  <1> DEFINE n == Cardinality(S)
             r == [t \in S |-> Cardinality(Below(S, B, t))]
             I == 0..(n - 1)
  <1>1. n \in Nat
    BY FS_CardinalityType
  <1>2. \A t \in S : r[t] \in I /\ \A u \in S : <<u, t>> \in B => r[u] < r[t]
    BY RanksFollowOrder
  <1>3. \A t, u \in S : t # u => r[t] # r[u]
    <2> SUFFICES ASSUME NEW t \in S, NEW u \in S, t # u PROVE r[t] # r[u]
      OBVIOUS
    <2>1. <<t, u>> \in B \/ <<u, t>> \in B
      BY DEF StrictOrder
    <2>2. r[t] < r[u] \/ r[u] < r[t]
      BY <1>2, <2>1
    <2>3. r[t] \in Int /\ r[u] \in Int
      BY <1>1, <1>2
    <2> HIDE DEF r
    <2> QED
      BY <2>2, <2>3
  <1>4. ASSUME NEW t \in S, NEW u \in S, r[t] < r[u] PROVE <<t, u>> \in B
    <2>1. r[t] \in Int /\ r[u] \in Int
      BY <1>1, <1>2
    <2>2. t # u /\ <<u, t>> \notin B
      <3>1. ~ (r[u] < r[t]) /\ r[u] # r[t]
        <4> HIDE DEF r
        <4> QED BY <1>4, <2>1
      <3> QED
        BY <1>2, <3>1
    <2> QED
      BY <2>2 DEF StrictOrder
  <1>5. r \in Injection(S, I)
    <2>1. r \in [S -> I]
      BY <1>2
    <2> HIDE DEF r, I
    <2> QED
      BY <1>3, <2>1 DEF Injection, IsInjective
  <1>6. IsFiniteSet(I) /\ Cardinality(I) = n
    <2>1. 0 \in Int /\ n - 1 \in Int
      BY <1>1
    <2>2. IsFiniteSet(I) /\ Cardinality(I) = IF 0 > n - 1 THEN 0 ELSE (n - 1) - 0 + 1
      BY <2>1, FS_Interval
    <2> QED
      BY <1>1, <2>2
  <1>7. r \in Surjection(S, I)
    <2> HIDE DEF r, I
    <2> QED
      BY <1>5, <1>6, FS_Injection
  <1>8. \A i \in 1..n : \E t \in S : r[t] = i - 1
    <2>1. \A k \in I : \E t \in S : r[t] = k
      <3> HIDE DEF r, I
      <3> QED
        BY <1>7 DEF Surjection
    <2>2. \A i \in 1..n : i - 1 \in I
      BY <1>1
    <2> HIDE DEF r
    <2> QED
      BY <2>1, <2>2
  <1> QED
    BY <1>2, <1>4, <1>8

-------------------------------------------------------------------------------
(* The tables of a source *)

\* The condition that order_by_schema_priority sorts by.
Precedes(i, t, u) ==
    \/ Rank(i, t) < Rank(i, u)
    \/ /\ Rank(i, t) = Rank(i, u)
       /\ Position(Alphabet, t.name) < Position(Alphabet, u.name)

Contents == databases \in [SourceIds -> SUBSET Universe]

\* What is in a sequence has a position there.
LEMMA PositionFacts ==
    ASSUME NEW D, NEW s \in Seq(D), NEW x \in Range(s)
    PROVE  Position(s, x) \in 1..Len(s) /\ s[Position(s, x)] = x
  <1>1. \E i \in 1..Len(s) : s[i] = x
    BY DEF Range
  <1> QED
    BY <1>1 DEF Position

\* Tables of a source differ in their schema or in their name, so that their order is
\* total.
LEMMA PrecedesIsStrict ==
    ASSUME Contents, NEW i \in SourceIds
    PROVE  StrictOrder(Introspected(i),
               {p \in Introspected(i) \X Introspected(i) : Precedes(i, p[1], p[2])})
  <1> DEFINE S == Introspected(i)
             B == {p \in S \X S : Precedes(i, p[1], p[2])}
             place(t) == Position(Alphabet, t.name)
  <1>1. \A t \in S : /\ t \in Universe /\ t.base = TRUE /\ t.readable = TRUE
                     /\ t.schema \in Range(Config[i].schemas)
    <2> TAKE t \in S
    <2>1. t \in databases[i] /\ databases[i] \subseteq Universe
      BY DEF Introspected, Contents
    <2>2. t \in [schema : Range(Alphabet), name : Range(Alphabet),
                 base : BOOLEAN, readable : BOOLEAN]
      BY <2>1, UniverseAssumption
    <2>3. t.base = TRUE /\ t.readable = TRUE
      BY <2>2 DEF Introspected
    <2> QED
      BY <2>1, <2>3 DEF Introspected
  <1>2. \A t \in S : /\ Rank(i, t) \in Nat /\ place(t) \in Nat
                     /\ Config[i].schemas[Rank(i, t)] = t.schema
                     /\ Alphabet[place(t)] = t.name
    <2> TAKE t \in S
    <2>1. t.name \in Range(Alphabet) /\ Alphabet \in Seq(Range(Alphabet))
      BY <1>1, UniverseAssumption, AlphabetAssumption
    <2>2. Position(Alphabet, t.name) \in 1..Len(Alphabet)
          /\ Alphabet[Position(Alphabet, t.name)] = t.name
      BY <2>1, PositionFacts
    <2>3. Config[i].schemas \in Seq(Range(Alphabet))
      BY ConfigAssumption DEF SourceIds
    <2>4. Rank(i, t) \in 1..Len(Config[i].schemas)
          /\ Config[i].schemas[Rank(i, t)] = t.schema
      BY <1>1, <2>3, PositionFacts DEF Rank
    <2> QED
      BY <2>2, <2>4
  <1>3. \A t, u \in S : Rank(i, t) = Rank(i, u) /\ place(t) = place(u) => t = u
    <2> SUFFICES ASSUME NEW t \in S, NEW u \in S,
                        Rank(i, t) = Rank(i, u), place(t) = place(u)
                 PROVE  t = u
      OBVIOUS
    <2>1. t.schema = u.schema /\ t.name = u.name
      BY <1>2
    <2>2. t.base = u.base /\ t.readable = u.readable
      BY <1>1
    <2>3. t = [schema |-> t.schema, name |-> t.name, base |-> t.base,
               readable |-> t.readable]
          /\ u = [schema |-> u.schema, name |-> u.name, base |-> u.base,
                  readable |-> u.readable]
      BY <1>1, UniverseAssumption
    <2> QED
      BY <2>1, <2>2, <2>3
  <1>4. \A t, u \in S : <<t, u>> \in B <=>
            \/ Rank(i, t) < Rank(i, u)
            \/ Rank(i, t) = Rank(i, u) /\ place(t) < place(u)
    BY DEF Precedes
  <1> HIDE DEF S, B, place
  <1>5. \A t \in S : <<t, t>> \notin B
    BY <1>2, <1>4
  <1>6. \A t, u \in S : t # u => <<t, u>> \in B \/ <<u, t>> \in B
    BY <1>2, <1>3, <1>4
  <1>7. \A t, u, v \in S : <<t, u>> \in B /\ <<u, v>> \in B => <<t, v>> \in B
    BY <1>2, <1>4
  <1> QED
    BY <1>5, <1>6, <1>7 DEF StrictOrder, S, B

\* The tables of a source are all that was asked for, each once and in order.
LEMMA TablesFacts ==
    ASSUME Contents, NEW i \in SourceIds
    PROVE  LET s == TablesOf(i)
           IN /\ Len(s) \in Nat /\ DOMAIN s = 1..Len(s)
              /\ \A k \in 1..Len(s) : s[k] \in Introspected(i)
              /\ \A t \in Introspected(i) : \E k \in 1..Len(s) : s[k] = t
              /\ \A k, l \in 1..Len(s) : k < l => ~Precedes(i, s[l], s[k])
  <1> DEFINE S == Introspected(i)
             B == {p \in S \X S : Precedes(i, p[1], p[2])}
             n == Cardinality(S)
             rank(t) == Cardinality(Below(S, B, t))
             s == TablesOf(i)
  <1>1. IsFiniteSet(S)
    <2>1. S \subseteq Universe
      BY DEF Introspected, Contents
    <2> QED
      BY <2>1, UniverseAssumption, FS_Subset
  <1>2. n \in Nat
    BY <1>1, FS_CardinalityType
  <1>3. StrictOrder(S, B)
    BY PrecedesIsStrict
  <1>4. /\ \A t, u \in S : <<t, u>> \in B <=> rank(t) < rank(u)
        /\ \A k \in 1..n : \E t \in S : rank(t) = k - 1
        /\ \A t \in S : rank(t) \in 0..(n - 1)
    <2> HIDE DEF S, B
    <2> QED
      BY <1>1, <1>3, RanksFill, RanksFollowOrder
  <1>5. \A t \in S : {u \in S : Precedes(i, u, t)} = Below(S, B, t)
    BY DEF Below
  <1>6. s = [k \in 1..n |-> CHOOSE t \in S : rank(t) = k - 1]
    <2>1. s = [k \in 1..n |->
                CHOOSE t \in S : Cardinality({u \in S : Precedes(i, u, t)}) = k - 1]
      BY DEF TablesOf, InOrder, Precedes
    <2>2. \A k : (CHOOSE t \in S : Cardinality({u \in S : Precedes(i, u, t)}) = k - 1)
                   = (CHOOSE t \in S : rank(t) = k - 1)
      BY <1>5
    <2> HIDE DEF S, rank, s
    <2> QED
      BY <2>1, <2>2
  <1> HIDE DEF s, rank, n
  <1>7. Len(s) = n /\ DOMAIN s = 1..n
    BY <1>2, <1>6
  <1>8. \A k \in 1..n : s[k] \in S /\ rank(s[k]) = k - 1
    <2> HIDE DEF S
    <2> QED
      BY <1>4, <1>6
  <1>9. \A t, u \in S : rank(t) = rank(u) => t = u
    <2> HIDE DEF S, B
    <2>1. \A t \in S : rank(t) \in Int
      BY <1>2, <1>4
    <2> SUFFICES ASSUME NEW t \in S, NEW u \in S, rank(t) = rank(u), t # u PROVE FALSE
      OBVIOUS
    <2>2. <<t, u>> \in B \/ <<u, t>> \in B
      BY <1>3 DEF StrictOrder
    <2> QED
      BY <1>4, <2>1, <2>2
  <1>10. \A t \in S : \E k \in 1..n : s[k] = t
    <2> HIDE DEF S
    <2> TAKE t \in S
    <2>1. rank(t) \in 0..(n - 1)
      BY <1>4
    <2>2. rank(t) + 1 \in 1..n /\ (rank(t) + 1) - 1 = rank(t)
      BY <1>2, <2>1
    <2>3. s[rank(t) + 1] \in S /\ rank(s[rank(t) + 1]) = rank(t)
      BY <1>8, <2>2
    <2>4. s[rank(t) + 1] = t
      BY <1>9, <2>3
    <2> QED
      BY <2>2, <2>4
  <1>11. \A k, l \in 1..n : k < l => ~Precedes(i, s[l], s[k])
    <2> SUFFICES ASSUME NEW k \in 1..n, NEW l \in 1..n, k < l, Precedes(i, s[l], s[k])
                 PROVE  FALSE
      OBVIOUS
    <2>1. s[k] \in S /\ s[l] \in S /\ rank(s[k]) = k - 1 /\ rank(s[l]) = l - 1
      BY <1>8
    <2>2. <<s[l], s[k]>> \in B
      BY <2>1
    <2> HIDE DEF S, B
    <2>3. rank(s[l]) < rank(s[k])
      BY <1>4, <2>1, <2>2
    <2> QED
      BY <1>2, <2>1, <2>3
  <1> QED
    BY <1>2, <1>7, <1>8, <1>10, <1>11 DEF s

-------------------------------------------------------------------------------
(* The tables of all sources *)

\* What Connect appends for a source, and what it has appended after n sources.
Found(i) == [k \in 1..Len(TablesOf(i)) |-> Located(i, TablesOf(i)[k])]

Discovered(n) == [i \in 1..n |-> Found(i)]

\* A sequence of tables of sources up to n, in the order of configuration.
Listed(s, n) ==
    /\ s \in Seq(AllFound)
    /\ \A k \in 1..Len(s) :
          \E i \in 1..n : \E t \in Introspected(i) : s[k] = Located(i, t)
    /\ \A k, l \in 1..Len(s) : k < l => ~Earlier(s[l], s[k])

\* It holds all of them.
Complete(s, n) ==
    \A i \in 1..n : \A t \in Introspected(i) : \E k \in 1..Len(s) : s[k] = Located(i, t)

\* One source's tables.
LEMMA FoundFacts ==
    ASSUME Contents, NEW i \in SourceIds
    PROVE  /\ Found(i) \in Seq(AllFound)
           /\ \A k \in 1..Len(Found(i)) :
                 \E t \in Introspected(i) : Found(i)[k] = Located(i, t)
           /\ \A t \in Introspected(i) :
                 \E k \in 1..Len(Found(i)) : Found(i)[k] = Located(i, t)
           /\ \A k, l \in 1..Len(Found(i)) :
                 k < l => ~Earlier(Found(i)[l], Found(i)[k])
  <1> DEFINE s == TablesOf(i)
             f == Found(i)
  <1>1. /\ Len(s) \in Nat
        /\ \A k \in 1..Len(s) : s[k] \in Introspected(i)
        /\ \A t \in Introspected(i) : \E k \in 1..Len(s) : s[k] = t
        /\ \A k, l \in 1..Len(s) : k < l => ~Precedes(i, s[l], s[k])
    BY TablesFacts
  <1>2. f = [k \in 1..Len(s) |-> Located(i, s[k])]
    BY DEF Found
  <1> HIDE DEF s, f
  <1>3. Len(f) = Len(s)
    BY <1>1, <1>2
  <1>4. \A k \in 1..Len(s) : f[k] = Located(i, s[k])
    BY <1>2
  <1>7. f \in Seq(AllFound)
    <2>1. \A k \in 1..Len(s) : Located(i, s[k]) \in AllFound
      <3>1. Introspected(i) \subseteq Universe
        BY DEF Introspected, Contents
      <3> QED
        BY <1>1, <3>1 DEF AllFound
    <2>2. f \in [1..Len(s) -> AllFound]
      BY <1>2, <2>1
    <2> QED
      BY <1>1, <2>2, SeqDef
  <1>5. \A t, u : Earlier(Located(i, u), Located(i, t)) => Precedes(i, u, t)
    <2> SUFFICES ASSUME NEW t, NEW u, Earlier(Located(i, u), Located(i, t))
                 PROVE  Precedes(i, u, t)
      OBVIOUS
    <2>1. ~ (i < i)
      BY DEF SourceIds
    <2> QED
      BY <2>1 DEF Earlier, Located, Precedes, Rank
  <1>6. \A k, l \in 1..Len(s) : k < l => ~Earlier(f[l], f[k])
    BY <1>1, <1>4, <1>5
  <1> QED
    BY <1>1, <1>3, <1>4, <1>6, <1>7 DEF f

Joined(s, t) == s \o t

\* The sequences that FlattenSeq joins up exist.
LEMMA FlattenExists ==
    ASSUME NEW seqs, NEW N \in Nat
    PROVE  \E g : g = [i \in 1..N |->
                          IF i = 1 THEN seqs[i] ELSE Joined(g[i - 1], seqs[i])]
  <1> DEFINE T == {n \in Nat : \E g : g = [i \in 1..n |->
                      IF i = 1 THEN seqs[i] ELSE Joined(g[i - 1], seqs[i])]}
  <1>1. 0 \in T
    <2> DEFINE g == [i \in 1..0 |-> 0]
    <2>1. g = [i \in 1..0 |-> IF i = 1 THEN seqs[i] ELSE Joined(g[i - 1], seqs[i])]
      OBVIOUS
    <2> QED
      BY <2>1
  <1>2. ASSUME NEW n \in T PROVE n + 1 \in T
    <2>1. PICK g : g = [i \in 1..n |->
                           IF i = 1 THEN seqs[i] ELSE Joined(g[i - 1], seqs[i])]
      BY <1>2
    <2>2. n \in Nat
      OBVIOUS
    <2> DEFINE h == [i \in 1..(n + 1) |->
                        IF i = 1 THEN seqs[i] ELSE Joined(g[i - 1], seqs[i])]
    <2>3. \A i \in 1..n : h[i] = g[i]
      <3>1. \A i \in 1..n : i \in 1..(n + 1)
        BY <2>2
      <3>2. \A i \in 1..n : g[i] = IF i = 1 THEN seqs[i] ELSE Joined(g[i - 1], seqs[i])
        BY <2>1
      <3> QED
        BY <3>1, <3>2
    <2>4. ASSUME NEW i \in 1..(n + 1), i # 1 PROVE g[i - 1] = h[i - 1]
      <3>1. i - 1 \in 1..n
        BY <2>2, <2>4
      <3> QED
        BY <2>3, <3>1
    <2>5. h = [i \in 1..(n + 1) |->
                  IF i = 1 THEN seqs[i] ELSE Joined(h[i - 1], seqs[i])]
      <3> DEFINE hh == h
      <3>1. \A i \in 1..(n + 1) :
               (IF i = 1 THEN seqs[i] ELSE Joined(g[i - 1], seqs[i]))
                 = (IF i = 1 THEN seqs[i] ELSE Joined(hh[i - 1], seqs[i]))
        BY <2>4
      <3>2. hh = [i \in 1..(n + 1) |->
                     IF i = 1 THEN seqs[i] ELSE Joined(g[i - 1], seqs[i])]
        OBVIOUS
      <3> HIDE DEF h, hh
      <3>3. hh = [i \in 1..(n + 1) |->
                     IF i = 1 THEN seqs[i] ELSE Joined(hh[i - 1], seqs[i])]
        BY <3>1, <3>2
      <3> QED
        BY <3>3 DEF hh
    <2>6. n + 1 \in Nat
      BY <2>2
    <2> HIDE DEF h
    <2> QED
      BY <2>5, <2>6
  <1>3. T = Nat
    <2>1. T \in SUBSET Nat
      OBVIOUS
    <2> HIDE DEF T
    <2> QED
      BY <1>1, <1>2, <2>1, AllNumbers
  <1> QED
    BY <1>3

\* Joining keeps what was listed, and what is complete.
LEMMA JoinListed ==
    ASSUME Contents, NEW n \in Nat, n + 1 \in SourceIds,
           NEW s, Listed(s, n), Complete(s, n)
    PROVE  /\ Listed(Joined(s, Found(n + 1)), n + 1)
           /\ Complete(Joined(s, Found(n + 1)), n + 1)
  <1> DEFINE f == Found(n + 1)
             j == Joined(s, f)
             a == Len(s)
             b == Len(f)
  <1>1. /\ f \in Seq(AllFound)
        /\ \A k \in 1..b : \E t \in Introspected(n + 1) : f[k] = Located(n + 1, t)
        /\ \A t \in Introspected(n + 1) : \E k \in 1..b : f[k] = Located(n + 1, t)
        /\ \A k, l \in 1..b : k < l => ~Earlier(f[l], f[k])
    BY FoundFacts
  <1>2. /\ s \in Seq(AllFound)
        /\ \A k \in 1..a :
              \E i \in 1..n : \E t \in Introspected(i) : s[k] = Located(i, t)
        /\ \A k, l \in 1..a : k < l => ~Earlier(s[l], s[k])
    BY DEF Listed
  <1> HIDE DEF f
  <1>0. a \in Nat /\ b \in Nat
    BY <1>1, <1>2, LenProperties
  <1>3. /\ j \in Seq(AllFound) /\ Len(j) = a + b
        /\ \A k \in 1..(a + b) : j[k] = IF k <= a THEN s[k] ELSE f[k - a]
    BY <1>1, <1>2, ConcatProperties DEF Joined
  <1> HIDE DEF j, a, b
  <1>4. Len(j) = a + b /\ j \in Seq(AllFound)
    BY <1>3
  <1>5. /\ \A k \in 1..a : k \in 1..(a + b) /\ j[k] = s[k]
        /\ \A k \in 1..b : k + a \in 1..(a + b) /\ j[k + a] = f[k]
    <2>1. \A k \in 1..a : k \in 1..(a + b) /\ j[k] = s[k]
      BY <1>0, <1>3
    <2>2. ASSUME NEW k \in 1..b PROVE k + a \in 1..(a + b) /\ j[k + a] = f[k]
      <3>1. k + a \in 1..(a + b) /\ ~ (k + a <= a) /\ (k + a) - a = k
        BY <1>0
      <3> QED
        BY <1>3, <3>1
    <2> QED
      BY <2>1, <2>2
  <1>6. \A k \in 1..(a + b) : k \in 1..a \/ (k - a \in 1..b /\ (k - a) + a = k)
    BY <1>0
  <1>7. ASSUME NEW k \in 1..a PROVE s[k].source \in 1..n
    <2>1. PICK i \in 1..n : \E t \in Introspected(i) : s[k] = Located(i, t)
      BY <1>2
    <2>2. s[k].source = i
      BY <2>1 DEF Located
    <2> QED
      BY <2>2
  <1>8. ASSUME NEW k \in 1..b PROVE f[k].source = n + 1
    <2>1. PICK t \in Introspected(n + 1) : f[k] = Located(n + 1, t)
      BY <1>1
    <2> QED
      BY <2>1 DEF Located
  <1>9. ASSUME NEW k \in 1..(a + b), NEW l \in 1..(a + b), k < l
        PROVE  ~Earlier(j[l], j[k])
    <2>1. CASE l \in 1..a
      <3>1. k \in 1..a
        BY <1>0, <1>9, <2>1
      <3> QED
        BY <1>2, <1>5, <1>9, <2>1, <3>1
    <2>2. CASE l \notin 1..a /\ k \in 1..a
      <3>1. j[k] = s[k] /\ j[l] = f[l - a] /\ l - a \in 1..b
        BY <1>5, <1>6, <2>2
      <3>2. j[k].source \in 1..n /\ j[l].source = n + 1
        BY <1>7, <1>8, <2>2, <3>1
      <3>3. ~ (j[l].source < j[k].source) /\ j[l].source # j[k].source
        BY <3>2
      <3> QED
        BY <3>3 DEF Earlier
    <2>3. CASE l \notin 1..a /\ k \notin 1..a
      <3>1. /\ j[k] = f[k - a] /\ k - a \in 1..b
            /\ j[l] = f[l - a] /\ l - a \in 1..b
        BY <1>5, <1>6, <2>3
      <3>2. k - a < l - a
        BY <1>0, <1>9
      <3> QED
        BY <1>1, <3>1, <3>2
    <2> QED
      BY <2>1, <2>2, <2>3
  <1>10. \A k \in 1..(a + b) :
            \E i \in 1..(n + 1) : \E t \in Introspected(i) : j[k] = Located(i, t)
    <2> TAKE k \in 1..(a + b)
    <2>1. CASE k \in 1..a
      <3>1. \E i \in 1..n : \E t \in Introspected(i) : s[k] = Located(i, t)
        BY <1>2, <2>1
      <3>2. \A i \in 1..n : i \in 1..(n + 1)
        OBVIOUS
      <3> QED
        BY <1>5, <2>1, <3>1, <3>2
    <2>2. CASE k \notin 1..a
      <3>1. j[k] = f[k - a] /\ k - a \in 1..b
        BY <1>5, <1>6, <2>2
      <3>2. \E t \in Introspected(n + 1) : j[k] = Located(n + 1, t)
        BY <1>1, <3>1
      <3>3. n + 1 \in 1..(n + 1)
        OBVIOUS
      <3> QED
        BY <3>2, <3>3
    <2> QED
      BY <2>1, <2>2
  <1>11. \A i \in 1..(n + 1) : \A t \in Introspected(i) :
            \E k \in 1..(a + b) : j[k] = Located(i, t)
    <2> TAKE i \in 1..(n + 1)
    <2> TAKE t \in Introspected(i)
    <2>1. CASE i \in 1..n
      <3>1. \E k \in 1..a : s[k] = Located(i, t)
        BY <2>1 DEF Complete, a
      <3> QED
        BY <1>5, <3>1
    <2>2. CASE i = n + 1
      <3>1. PICK k \in 1..b : f[k] = Located(i, t)
        BY <1>1, <2>2
      <3> QED
        BY <1>5, <3>1
    <2>3. i \in 1..n \/ i = n + 1
      OBVIOUS
    <2> QED
      BY <2>1, <2>2, <2>3
  <1>12. Listed(j, n + 1)
    BY <1>4, <1>9, <1>10 DEF Listed
  <1>13. Complete(j, n + 1)
    BY <1>4, <1>11 DEF Complete
  <1> QED
    BY <1>12, <1>13 DEF j, f

\* The list of all tables, in the order in which aliases are given out.
LEMMA FlatFacts ==
    ASSUME Contents
    PROVE  LET flat == FlattenSeq(Discovered(Len(Config)))
           IN Listed(flat, Len(Config)) /\ Complete(flat, Len(Config))
  <1> DEFINE N == Len(Config)
             d == Discovered(N)
  <1>1. N \in Nat /\ SourceIds = 1..N
    BY ConfigAssumption DEF SourceIds
  <1>2. Len(d) = N /\ \A i \in 1..N : d[i] = Found(i)
    BY <1>1 DEF Discovered
  <1>3. CASE N = 0
    <2>1. FlattenSeq(d) = d
      <3> HIDE DEF d
      <3> QED
        BY <1>2, <1>3 DEF FlattenSeq
    <2>2. Len(d) = 0 /\ d \in Seq(AllFound)
      <3>1. d \in [1..0 -> AllFound]
        BY <1>3 DEF Discovered
      <3> HIDE DEF d, N
      <3> QED
        BY <1>2, <1>3, <3>1, SeqDef
    <2>3. 1..N = {}
      BY <1>3
    <2> HIDE DEF d, N
    <2> QED
      BY <1>3, <2>1, <2>2, <2>3 DEF Listed, Complete, d, N
  <1>4. CASE N # 0
    <2> DEFINE Flatten(g) == g = [i \in 1..N |->
                   IF i = 1 THEN d[i] ELSE Joined(g[i - 1], d[i])]
               g0 == CHOOSE g : Flatten(g)
    <2>1. Flatten(g0)
      <3>1. \E g : Flatten(g)
        <4> HIDE DEF d
        <4> QED
          BY <1>1, FlattenExists
      <3> HIDE DEF Flatten
      <3> QED
        BY <3>1
    <2>2. FlattenSeq(d) = g0[N]
      <3> HIDE DEF d
      <3> QED
        BY <1>2, <1>4 DEF FlattenSeq, Joined
    <2> HIDE DEF g0
    <2>3. g0[1] = Found(1)
      BY <1>1, <1>2, <1>4, <2>1
    <2>4. \A n \in 1..N : n + 1 \in 1..N => g0[n + 1] = Joined(g0[n], Found(n + 1))
      <3> SUFFICES ASSUME NEW n \in 1..N, n + 1 \in 1..N
                   PROVE  g0[n + 1] = Joined(g0[n], Found(n + 1))
        OBVIOUS
      <3>1. n + 1 # 1 /\ (n + 1) - 1 = n
        BY <1>1
      <3>2. g0[n + 1] = Joined(g0[(n + 1) - 1], d[n + 1])
        <4> HIDE DEF d
        <4> QED
          BY <2>1, <3>1
      <3>3. d[n + 1] = Found(n + 1)
        BY <1>2
      <3> HIDE DEF d
      <3> QED
        BY <3>1, <3>2, <3>3
    <2> DEFINE T == {n \in Nat : n \in 1..N => Listed(g0[n], n) /\ Complete(g0[n], n)}
    <2>5. 0 \in T
      OBVIOUS
    <2>6. ASSUME NEW n \in T PROVE n + 1 \in T
      <3>1. n \in Nat /\ n + 1 \in Nat
        OBVIOUS
      <3>2. CASE n = 0 /\ 1 \in 1..N
        <4>1. 1 \in SourceIds
          BY <1>1, <3>2
        <4>2. PICK one : one = 1
          OBVIOUS
        <4>3. /\ Found(one) \in Seq(AllFound)
              /\ \A k \in 1..Len(Found(one)) :
                    \E t \in Introspected(one) : Found(one)[k] = Located(one, t)
              /\ \A t \in Introspected(one) :
                    \E k \in 1..Len(Found(one)) : Found(one)[k] = Located(one, t)
              /\ \A k, l \in 1..Len(Found(one)) :
                    k < l => ~Earlier(Found(one)[l], Found(one)[k])
          BY <4>1, <4>2, FoundFacts
        <4>4. 1..one = {one}
          BY <4>2
        <4>5. Listed(Found(one), one) /\ Complete(Found(one), one)
          BY <4>3, <4>4 DEF Listed, Complete
        <4>6. Listed(g0[1], 1) /\ Complete(g0[1], 1)
          BY <2>3, <4>2, <4>5
        <4> QED
          BY <3>2, <4>6
      <3>3. CASE n # 0 /\ n + 1 \in 1..N
        <4>1. n \in 1..N /\ n + 1 \in SourceIds
          BY <1>1, <3>1, <3>3
        <4>2. Listed(g0[n], n) /\ Complete(g0[n], n)
          BY <4>1
        <4>3. g0[n + 1] = Joined(g0[n], Found(n + 1))
          BY <2>4, <3>3, <4>1
        <4>4. Listed(g0[n + 1], n + 1) /\ Complete(g0[n + 1], n + 1)
          BY <3>1, <4>1, <4>2, <4>3, JoinListed
        <4> QED
          BY <3>1, <4>4
      <3>4. CASE n + 1 \notin 1..N
        BY <3>1, <3>4
      <3> QED
        BY <3>1, <3>2, <3>3, <3>4
    <2>7. T = Nat
      <3>1. T \in SUBSET Nat
        OBVIOUS
      <3> HIDE DEF T
      <3> QED
        BY <2>5, <2>6, <3>1, AllNumbers
    <2>8. Listed(g0[N], N) /\ Complete(g0[N], N)
      BY <1>1, <1>4, <2>7
    <2> QED
      BY <2>2, <2>8
  <1> QED
    BY <1>3, <1>4

-------------------------------------------------------------------------------
(* Aliases *)

AliasNames == {Candidates(t)[k] : t \in AllFound, k \in 1..3}
Pairings == [alias : AliasNames, table : AllFound]

\* The m-th table got the alias; its bare name only if no table before it has it.
Gets(tables, m, e) ==
    /\ e.table = tables[m]
    /\ \E k \in 1..3 : e.alias = Candidates(tables[m])[k]
    /\ e.alias = tables[m].name =>
           \A l \in 1..(m - 1) : tables[l].name # tables[m].name

\* The names that are taken once the aliases are given.
Taken(aliases) == Reserved \cup {aliases[j].alias : j \in 1..Len(aliases)}

\* The m-th table has got an alias, or none of its candidates is left.
Settled(aliases, tables, m) ==
    \/ \E j \in 1..Len(aliases) : aliases[j].table = tables[m]
    \/ \A k \in 1..3 : Candidates(tables[m])[k] \in Taken(aliases)

\* The m-th table is the first my_pg_table; no alias before the j-th is another's.
FirstLegacy(tables, m) ==
    /\ tables[m].name = MyPgTable
    /\ \A l \in 1..(m - 1) : tables[l].name # MyPgTable

LegacyAlias(aliases, t, j) ==
    /\ aliases[j].table = t
    /\ \A i \in 1..(j - 1) : aliases[i].table.name # MyPgTable

\* Aliases given to the tables up to n: each of them distinct, none reserved.
Given(acc, tables, n) ==
    /\ acc.aliases \in Seq(Pairings)
    /\ acc.used = Taken(acc.aliases)
    /\ \A m \in 1..n : tables[m].name \in acc.used
    /\ \A j \in 1..Len(acc.aliases) :
          /\ acc.aliases[j].alias \notin Reserved
          /\ \E m \in 1..n : Gets(tables, m, acc.aliases[j])
    /\ \A j, k \in 1..Len(acc.aliases) :
          j # k => acc.aliases[j].alias # acc.aliases[k].alias

\* What becomes of each table up to n.
Fates(acc, tables, n) ==
    /\ \A m \in 1..n : Settled(acc.aliases, tables, m)
    /\ \A m \in 1..n : FirstLegacy(tables, m) =>
          \E j \in 1..Len(acc.aliases) : LegacyAlias(acc.aliases, tables[m], j)

Then(s, e) == Append(s, e)

\* Either no candidate is free, or the first free one is taken; the name itself is
\* used afterwards.
LEMMA ResolveCases ==
    ASSUME NEW acc, NEW t
    PROVE  \/ /\ Resolve(acc, t) = acc /\ t.name \in acc.used
              /\ \A k \in 1..3 : Candidates(t)[k] \in acc.used
           \/ \E k \in 1..3 :
                 /\ Candidates(t)[k] \notin acc.used
                 /\ t.name \in acc.used \cup {Candidates(t)[k]}
                 /\ Resolve(acc, t) =
                       [used    |-> acc.used \cup {Candidates(t)[k]},
                        aliases |-> Then(acc.aliases,
                                         [alias |-> Candidates(t)[k], table |-> t])]
  <1> DEFINE free == {k \in 1..3 : Candidates(t)[k] \notin acc.used}
  <1>1. Candidates(t)[1] = t.name
    BY DEF Candidates
  <1>2. CASE free = {}
    <2>1. Resolve(acc, t) = acc
      BY <1>2 DEF Resolve
    <2>2. t.name \in acc.used
      BY <1>1, <1>2
    <2> QED
      BY <1>2, <2>1, <2>2
  <1>3. CASE free # {}
    <2> DEFINE k == Min(free)
    <2>1. k \in free /\ \A y \in free : k <= y
      <3>1. free \in SUBSET Nat
        OBVIOUS
      <3>2. \E x \in free : \A y \in free : x <= y
        <4> HIDE DEF free
        <4> QED
          BY <1>3, <3>1, LeastNumber
      <3> HIDE DEF free
      <3> QED
        BY <3>2 DEF Min
    <2>2. Resolve(acc, t) =
              [used    |-> acc.used \cup {Candidates(t)[k]},
               aliases |-> Then(acc.aliases, [alias |-> Candidates(t)[k], table |-> t])]
      BY <1>3 DEF Resolve, Then
    <2> HIDE DEF k
    <2>3. k \in 1..3 /\ Candidates(t)[k] \notin acc.used
      BY <2>1
    <2>4. t.name \notin acc.used => k = 1
      BY <1>1, <2>1, <2>3
    <2> QED
      BY <1>1, <2>2, <2>3, <2>4
  <1> QED
    BY <1>2, <1>3

\* One table more.
LEMMA ResolveGiven ==
    ASSUME NEW tables \in Seq(AllFound), NEW n \in Nat, n + 1 \in 1..Len(tables),
           NEW acc, Given(acc, tables, n)
    PROVE  Given(Resolve(acc, tables[n + 1]), tables, n + 1)
  <1> DEFINE t == tables[n + 1]
             a == acc.aliases
             res == Resolve(acc, t)
  <1>1. t \in AllFound
    OBVIOUS
  <1>2. /\ a \in Seq(Pairings) /\ Len(a) \in Nat
        /\ acc.used = Taken(a)
        /\ \A m \in 1..n : tables[m].name \in acc.used
        /\ \A j \in 1..Len(a) : /\ a[j].alias \notin Reserved
                                /\ a[j].alias \in acc.used
                                /\ \E m \in 1..n : Gets(tables, m, a[j])
        /\ \A j, k \in 1..Len(a) : j # k => a[j].alias # a[k].alias
    <2>1. a \in Seq(Pairings)
      BY DEF Given
    <2> QED
      BY <2>1, LenProperties DEF Given, Taken
  <1>3. \A m \in 1..(n + 1) : m \in 1..n \/ m = n + 1
    OBVIOUS
  <1>4. n + 1 \in 1..(n + 1) /\ \A m \in 1..n : m \in 1..(n + 1)
    OBVIOUS
  <1>5. CASE res = acc /\ t.name \in acc.used
    <2>1. \A m \in 1..(n + 1) : tables[m].name \in acc.used
      BY <1>2, <1>3, <1>5
    <2>2. \A j \in 1..Len(a) : \E m \in 1..(n + 1) : Gets(tables, m, a[j])
      BY <1>2, <1>4
    <2> HIDE DEF res
    <2> QED
      BY <1>2, <1>5, <2>1, <2>2 DEF Given, res
  <1>6. ASSUME NEW k \in 1..3, Candidates(t)[k] \notin acc.used,
               t.name \in acc.used \cup {Candidates(t)[k]},
               res = [used    |-> acc.used \cup {Candidates(t)[k]},
                      aliases |-> Then(a, [alias |-> Candidates(t)[k], table |-> t])]
        PROVE  Given(res, tables, n + 1)
    <2> DEFINE alias == Candidates(t)[k]
               e == [alias |-> alias, table |-> t]
               b == Then(a, e)
    <2>1. e \in Pairings
      BY <1>1 DEF Pairings, AliasNames
    <2>2. /\ b \in Seq(Pairings) /\ Len(b) = Len(a) + 1
          /\ \A j \in 1..Len(a) : b[j] = a[j]
          /\ b[Len(a) + 1] = e
      <3> HIDE DEF e, a
      <3> QED
        BY <1>2, <2>1, AppendProperties DEF Then
    <2>3. res.used = acc.used \cup {alias} /\ res.aliases = b
      BY <1>6
    <2>4. Gets(tables, n + 1, e)
      <3>1. alias = t.name => \A l \in 1..((n + 1) - 1) : tables[l].name # t.name
        <4>1. (n + 1) - 1 = n
          OBVIOUS
        <4> QED
          BY <1>2, <1>6, <4>1
      <3> QED
        BY <3>1 DEF Gets
    <2>5. e.alias = alias /\ alias \notin acc.used
      BY <1>6
    <2> HIDE DEF alias, e, b, res, a
    <2>6. \A j \in 1..Len(b) : j \in 1..Len(a) \/ j = Len(a) + 1
      BY <1>2, <2>2
    <2>7. res.used = Taken(b)
      <3>1. 1..Len(b) = (1..Len(a)) \cup {Len(a) + 1}
        BY <1>2, <2>2
      <3>2. {b[j].alias : j \in 1..Len(b)} = {a[j].alias : j \in 1..Len(a)} \cup {alias}
        BY <2>2, <2>5, <3>1
      <3> QED
        BY <1>2, <2>3, <3>2 DEF Taken
    <2>11. Reserved \subseteq acc.used
      BY <1>2 DEF Taken
    <2>8. \A m \in 1..(n + 1) : tables[m].name \in res.used
      BY <1>2, <1>3, <1>6, <2>3 DEF alias
    <2>9. ASSUME NEW j \in 1..Len(b)
          PROVE  b[j].alias \notin Reserved
                 /\ \E m \in 1..(n + 1) : Gets(tables, m, b[j])
      <3>1. CASE j \in 1..Len(a)
        BY <1>2, <1>4, <2>2, <2>3, <3>1
      <3>2. CASE j = Len(a) + 1
        <4>1. b[j] = e
          BY <2>2, <3>2
        <4> QED
          BY <1>2, <1>4, <2>3, <2>4, <2>5, <2>11, <4>1
      <3> QED
        BY <2>6, <3>1, <3>2
    <2>10. ASSUME NEW i \in 1..Len(b), NEW j \in 1..Len(b), i # j
           PROVE  b[i].alias # b[j].alias
      <3>1. CASE i \in 1..Len(a) /\ j \in 1..Len(a)
        BY <1>2, <2>2, <2>10, <3>1
      <3>2. CASE i \in 1..Len(a) /\ j = Len(a) + 1
        <4>1. b[i] = a[i] /\ b[j] = e /\ a[i].alias \in acc.used
          BY <1>2, <2>2, <3>2
        <4> QED
          BY <2>5, <4>1
      <3>3. CASE i = Len(a) + 1 /\ j \in 1..Len(a)
        <4>1. b[j] = a[j] /\ b[i] = e /\ a[j].alias \in acc.used
          BY <1>2, <2>2, <3>3
        <4> QED
          BY <2>5, <4>1
      <3> QED
        BY <2>6, <2>10, <3>1, <3>2, <3>3
    <2> QED
      BY <2>2, <2>3, <2>7, <2>8, <2>9, <2>10 DEF Given
  <1>7. \/ res = acc /\ t.name \in acc.used
        \/ \E k \in 1..3 :
              /\ Candidates(t)[k] \notin acc.used
              /\ t.name \in acc.used \cup {Candidates(t)[k]}
              /\ res = [used    |-> acc.used \cup {Candidates(t)[k]},
                        aliases |-> Then(a, [alias |-> Candidates(t)[k], table |-> t])]
    BY ResolveCases
  <1> HIDE DEF res, a
  <1> QED
    BY <1>5, <1>6, <1>7 DEF res

\* A candidate that is not the bare name is not the legacy table's name.
LEMMA QualifiedIsNotLegacy ==
    ASSUME NEW t \in AllFound, NEW k \in 1..3, Candidates(t)[k] = MyPgTable
    PROVE  t.name = MyPgTable
  <1>1. PICK i \in SourceIds, u \in Universe : t = Located(i, u)
    BY DEF AllFound
  <1>2. Candidates(t)[1] = t.name
    BY DEF Candidates
  <1>3. CASE k = 1
    BY <1>2, <1>3
  <1>4. CASE k \in 2..3
    BY <1>1, <1>4, LegacyAssumption
  <1> QED
    BY <1>3, <1>4

\* One table more: it gets a name, or all it could have are taken. The first
\* my_pg_table finds its own name free, since no other name equals it.
LEMMA ResolveFates ==
    ASSUME NEW tables \in Seq(AllFound), NEW n \in Nat, n + 1 \in 1..Len(tables),
           NEW acc, Given(acc, tables, n), Fates(acc, tables, n)
    PROVE  Fates(Resolve(acc, tables[n + 1]), tables, n + 1)
  <1> DEFINE t == tables[n + 1]
             a == acc.aliases
             res == Resolve(acc, t)
  <1>1. t \in AllFound /\ \A m \in 1..n : tables[m] \in AllFound
    <2>1. \A m \in 1..n : m \in 1..Len(tables)
      BY LenProperties
    <2> QED
      BY <2>1, ElementOfSeq
  <1>2. /\ a \in Seq(Pairings) /\ Len(a) \in Nat
        /\ acc.used = Taken(a)
        /\ \A j \in 1..Len(a) : \E m \in 1..n : Gets(tables, m, a[j])
        /\ \A m \in 1..n : Settled(a, tables, m)
        /\ \A m \in 1..n : FirstLegacy(tables, m) =>
              \E j \in 1..Len(a) : LegacyAlias(a, tables[m], j)
    <2>1. a \in Seq(Pairings)
      BY DEF Given
    <2> QED
      BY <2>1, LenProperties DEF Given, Fates
  <1>3. \A m \in 1..(n + 1) : m \in 1..n \/ m = n + 1
    OBVIOUS
  \* If the new table is the first my_pg_table, no alias is of that name or table.
  <1>4. ASSUME FirstLegacy(tables, n + 1)
        PROVE  t.name \notin acc.used /\ \A j \in 1..Len(a) : a[j].table.name # MyPgTable
    <2>1. t.name = MyPgTable /\ \A m \in 1..n : tables[m].name # MyPgTable
      <3>1. (n + 1) - 1 = n
        OBVIOUS
      <3> QED
        BY <1>4, <3>1 DEF FirstLegacy
    <2>2. ASSUME NEW j \in 1..Len(a)
          PROVE  a[j].alias # MyPgTable /\ a[j].table.name # MyPgTable
      <3>1. PICK m \in 1..n : Gets(tables, m, a[j])
        BY <1>2
      <3>2. PICK k \in 1..3 : a[j].alias = Candidates(tables[m])[k]
        BY <3>1 DEF Gets
      <3>3. a[j].table = tables[m] /\ tables[m].name # MyPgTable
        BY <2>1, <3>1 DEF Gets
      <3> QED
        BY <1>1, <3>2, <3>3, QualifiedIsNotLegacy
    <2>3. MyPgTable \notin Reserved
      BY LegacyAssumption DEF Reserved
    <2> QED
      BY <1>2, <2>1, <2>2, <2>3 DEF Taken
  <1>5. CASE /\ res = acc /\ t.name \in acc.used
             /\ \A k \in 1..3 : Candidates(t)[k] \in acc.used
    <2>1. Settled(a, tables, n + 1)
      BY <1>2, <1>5 DEF Settled
    <2>2. ~FirstLegacy(tables, n + 1)
      BY <1>4, <1>5
    <2> HIDE DEF res
    <2>3. /\ \A m \in 1..(n + 1) : Settled(a, tables, m)
          /\ \A m \in 1..(n + 1) : FirstLegacy(tables, m) =>
                \E j \in 1..Len(a) : LegacyAlias(a, tables[m], j)
      BY <1>2, <1>3, <2>1, <2>2
    <2> QED
      BY <1>5, <2>3 DEF Fates, res
  <1>6. ASSUME NEW k \in 1..3,
               res = [used    |-> acc.used \cup {Candidates(t)[k]},
                      aliases |-> Then(a, [alias |-> Candidates(t)[k], table |-> t])]
        PROVE  Fates(res, tables, n + 1)
    <2> DEFINE e == [alias |-> Candidates(t)[k], table |-> t]
               b == Then(a, e)
    <2>1. e \in Pairings
      BY <1>1 DEF Pairings, AliasNames
    <2>2. /\ Len(b) = Len(a) + 1
          /\ \A j \in 1..Len(a) : b[j] = a[j]
          /\ b[Len(a) + 1] = e
      <3> HIDE DEF e, a
      <3> QED
        BY <1>2, <2>1, AppendProperties DEF Then
    <2>3. e.table = t /\ res.aliases = b
      BY <1>6
    <2> HIDE DEF e, b, res, a
    <2>4. Len(a) + 1 \in 1..Len(b) /\ \A j \in 1..Len(a) : j \in 1..Len(b)
      BY <1>2, <2>2
    <2>5. Taken(a) \subseteq Taken(b)
      BY <2>2, <2>4 DEF Taken
    <2>6. ASSUME NEW m \in 1..(n + 1) PROVE Settled(b, tables, m)
      <3>1. CASE m \in 1..n
        <4>1. Settled(a, tables, m)
          BY <1>2, <3>1
        <4> QED
          BY <2>2, <2>4, <2>5, <4>1 DEF Settled
      <3>2. CASE m = n + 1
        BY <2>2, <2>3, <2>4, <3>2 DEF Settled
      <3> QED
        BY <1>3, <3>1, <3>2
    <2>7. ASSUME NEW m \in 1..(n + 1), FirstLegacy(tables, m)
          PROVE  \E j \in 1..Len(b) : LegacyAlias(b, tables[m], j)
      <3>1. CASE m \in 1..n
        <4>1. PICK j \in 1..Len(a) : LegacyAlias(a, tables[m], j)
          BY <1>2, <2>7, <3>1
        <4>2. \A i \in 1..(j - 1) : i \in 1..Len(a)
          BY <1>2
        <4>3. LegacyAlias(b, tables[m], j)
          BY <2>2, <4>1, <4>2 DEF LegacyAlias
        <4> QED
          BY <2>4, <4>3
      <3>2. CASE m = n + 1
        <4>1. \A j \in 1..Len(a) : a[j].table.name # MyPgTable
          BY <1>4, <2>7, <3>2
        <4>2. (Len(a) + 1) - 1 = Len(a)
          BY <1>2
        <4>3. LegacyAlias(b, tables[m], Len(a) + 1)
          BY <2>2, <2>3, <3>2, <4>1, <4>2 DEF LegacyAlias
        <4> QED
          BY <2>4, <4>3
      <3> QED
        BY <1>3, <3>1, <3>2
    <2> QED
      BY <2>3, <2>6, <2>7 DEF Fates
  <1>7. \/ /\ res = acc /\ t.name \in acc.used
           /\ \A k \in 1..3 : Candidates(t)[k] \in acc.used
        \/ \E k \in 1..3 :
              /\ Candidates(t)[k] \notin acc.used
              /\ t.name \in acc.used \cup {Candidates(t)[k]}
              /\ res = [used    |-> acc.used \cup {Candidates(t)[k]},
                        aliases |-> Then(a, [alias |-> Candidates(t)[k], table |-> t])]
    BY ResolveCases
  <1> HIDE DEF res, a
  <1> QED
    BY <1>5, <1>6, <1>7 DEF res

NoneGiven == [used |-> Reserved, aliases |-> << >>]

\* The accounts that resolve_aliases goes through exist.
LEMMA ResolvedExists ==
    ASSUME NEW tables, NEW N \in Nat
    PROVE  \E g : g = [n \in 0..N |->
                          IF n = 0 THEN NoneGiven ELSE Resolve(g[n - 1], tables[n])]
  <1> DEFINE T == {m \in Nat : \E g : g = [n \in 0..m |->
                      IF n = 0 THEN NoneGiven ELSE Resolve(g[n - 1], tables[n])]}
  <1>1. 0 \in T
    <2> DEFINE g == [n \in 0..0 |-> NoneGiven]
    <2>1. g = [n \in 0..0 |->
                  IF n = 0 THEN NoneGiven ELSE Resolve(g[n - 1], tables[n])]
      <3>1. \A n \in 0..0 : n = 0
        OBVIOUS
      <3> QED
        BY <3>1
    <2> HIDE DEF g
    <2> QED
      BY <2>1
  <1>2. ASSUME NEW m \in T PROVE m + 1 \in T
    <2>1. PICK g : g = [n \in 0..m |->
                           IF n = 0 THEN NoneGiven ELSE Resolve(g[n - 1], tables[n])]
      BY <1>2
    <2>2. m \in Nat
      OBVIOUS
    <2> DEFINE h == [n \in 0..(m + 1) |->
                        IF n = 0 THEN NoneGiven ELSE Resolve(g[n - 1], tables[n])]
    <2>3. \A n \in 0..m : h[n] = g[n]
      <3>1. \A n \in 0..m : n \in 0..(m + 1)
        BY <2>2
      <3>2. \A n \in 0..m :
               g[n] = IF n = 0 THEN NoneGiven ELSE Resolve(g[n - 1], tables[n])
        BY <2>1
      <3> QED
        BY <3>1, <3>2
    <2>4. ASSUME NEW n \in 0..(m + 1), n # 0 PROVE g[n - 1] = h[n - 1]
      <3>1. n - 1 \in 0..m
        BY <2>2, <2>4
      <3> QED
        BY <2>3, <3>1
    <2>5. h = [n \in 0..(m + 1) |->
                  IF n = 0 THEN NoneGiven ELSE Resolve(h[n - 1], tables[n])]
      <3> DEFINE hh == h
      <3>1. \A n \in 0..(m + 1) :
               (IF n = 0 THEN NoneGiven ELSE Resolve(g[n - 1], tables[n]))
                 = (IF n = 0 THEN NoneGiven ELSE Resolve(hh[n - 1], tables[n]))
        BY <2>4
      <3>2. hh = [n \in 0..(m + 1) |->
                     IF n = 0 THEN NoneGiven ELSE Resolve(g[n - 1], tables[n])]
        OBVIOUS
      <3> HIDE DEF h, hh
      <3>3. hh = [n \in 0..(m + 1) |->
                     IF n = 0 THEN NoneGiven ELSE Resolve(hh[n - 1], tables[n])]
        BY <3>1, <3>2
      <3> QED
        BY <3>3 DEF hh
    <2>6. m + 1 \in Nat
      BY <2>2
    <2> HIDE DEF h
    <2> QED
      BY <2>5, <2>6
  <1>3. T = Nat
    <2>1. T \in SUBSET Nat
      OBVIOUS
    <2> HIDE DEF T
    <2> QED
      BY <1>1, <1>2, <2>1, AllNumbers
  <1> QED
    BY <1>3

\* What resolve_aliases returns.
LEMMA AliasFacts ==
    ASSUME NEW tables \in Seq(AllFound)
    PROVE  LET a == ResolveAliases(tables)
           IN /\ a \in Seq(Pairings)
              /\ \A j \in 1..Len(a) :
                    /\ a[j].alias \notin Reserved
                    /\ \E m \in 1..Len(tables) : Gets(tables, m, a[j])
              /\ \A j, k \in 1..Len(a) : j # k => a[j].alias # a[k].alias
              /\ \A m \in 1..Len(tables) : Settled(a, tables, m)
              /\ \A m \in 1..Len(tables) : FirstLegacy(tables, m) =>
                    \E j \in 1..Len(a) : LegacyAlias(a, tables[m], j)
  <1> DEFINE N == Len(tables)
             Accounts(g) == g = [n \in 0..N |->
                 IF n = 0 THEN NoneGiven ELSE Resolve(g[n - 1], tables[n])]
             g0 == CHOOSE g : Accounts(g)
  <1>1. N \in Nat
    BY LenProperties
  <1>2. Accounts(g0)
    <2>1. \E g : Accounts(g)
      <3> HIDE DEF N
      <3> QED
        BY <1>1, ResolvedExists
    <2> HIDE DEF Accounts
    <2> QED
      BY <2>1
  <1>3. ResolveAliases(tables) = g0[N].aliases
    BY DEF ResolveAliases, NoneGiven
  <1> HIDE DEF g0, N
  <1>4. g0[0] = NoneGiven
    BY <1>1, <1>2
  <1>5. \A n \in Nat : n + 1 \in 1..N => g0[n + 1] = Resolve(g0[n], tables[n + 1])
    <2> SUFFICES ASSUME NEW n \in Nat, n + 1 \in 1..N
                 PROVE  g0[n + 1] = Resolve(g0[n], tables[n + 1])
      OBVIOUS
    <2>1. n + 1 \in 0..N /\ n + 1 # 0 /\ (n + 1) - 1 = n
      BY <1>1
    <2>2. g0[n + 1] = Resolve(g0[(n + 1) - 1], tables[n + 1])
      BY <1>2, <2>1
    <2> QED
      BY <2>1, <2>2
  <1> DEFINE T == {n \in Nat : n \in 0..N =>
                      Given(g0[n], tables, n) /\ Fates(g0[n], tables, n)}
  <1>6. 0 \in T
    <2>1. NoneGiven.used = Reserved /\ NoneGiven.aliases = << >>
      BY DEF NoneGiven
    <2>2. << >> \in Seq(Pairings) /\ Len(<< >>) = 0
      BY EmptySeq
    <2>3. 1..0 = {}
      OBVIOUS
    <2>4. Given(NoneGiven, tables, 0)
      BY <2>1, <2>2, <2>3 DEF Given, Taken
    <2>5. Fates(NoneGiven, tables, 0)
      BY <2>3 DEF Fates
    <2> QED
      BY <1>4, <2>4, <2>5
  <1>7. ASSUME NEW n \in T PROVE n + 1 \in T
    <2>1. CASE n + 1 \in 0..N
      <3>1. n \in Nat /\ n \in 0..N /\ n + 1 \in 1..N /\ n + 1 \in Nat
        BY <1>1, <2>1
      <3>2. Given(g0[n], tables, n) /\ Fates(g0[n], tables, n)
        BY <1>7, <3>1
      <3>3. /\ Given(Resolve(g0[n], tables[n + 1]), tables, n + 1)
            /\ Fates(Resolve(g0[n], tables[n + 1]), tables, n + 1)
        BY <3>1, <3>2, ResolveGiven, ResolveFates DEF N
      <3>4. Given(g0[n + 1], tables, n + 1) /\ Fates(g0[n + 1], tables, n + 1)
        BY <1>5, <3>1, <3>3
      <3> QED
        BY <3>1, <3>4
    <2>2. CASE n + 1 \notin 0..N
      BY <2>2
    <2> QED
      BY <2>1, <2>2
  <1>8. T = Nat
    <2>1. T \in SUBSET Nat
      OBVIOUS
    <2> HIDE DEF T
    <2> QED
      BY <1>6, <1>7, <2>1, AllNumbers
  <1>9. Given(g0[N], tables, N) /\ Fates(g0[N], tables, N)
    <2>1. N \in 0..N
      BY <1>1
    <2> QED
      BY <1>1, <1>8, <2>1
  <1> QED
    BY <1>3, <1>9 DEF Given, Fates, N

-------------------------------------------------------------------------------
(* The startup *)

\* The tables that the sources are asked for, the list of them, and its aliases.
Tables == UNION {{Located(i, t) : t \in Introspected(i)} : i \in SourceIds}
Flat == FlattenSeq(Discovered(Len(Config)))
Aliases == ResolveAliases(Flat)

\* What a name stands for once the first aliases, done in number, are registered.
Means(aliases, done, n, t) ==
    \/ n = Iceberg /\ t = Parquet
    \/ \E j \in 1..done : n = Reads(aliases[j].alias) /\ t = aliases[j].table
    \/ n = PgTable /\ t.name = MyPgTable /\ \E j \in 1..done : t = aliases[j].table

\* The account of the registration: what is pending is the rest of the aliases.
Registered(aliases, done) ==
    /\ pending \in Seq(Pairings)
    /\ Len(pending) = Len(aliases) - done
    /\ \A j \in 1..Len(pending) : pending[j] = aliases[done + j]
    /\ DOMAIN registry = {Iceberg} \cup {Reads(aliases[j].alias) : j \in 1..done}
                             \cup (IF legacy THEN {PgTable} ELSE {})
    /\ \A n \in DOMAIN registry : Means(aliases, done, n, registry[n])

\* What the first aliases, done in number, stand for; and the legacy name, once one of
\* them is of a my_pg_table, for the first of those.
Bound(aliases, done) ==
    /\ \A j \in 1..done : registry[Reads(aliases[j].alias)] = aliases[j].table
    /\ \A j \in 1..done : aliases[j].table.name = MyPgTable => legacy
    /\ legacy => \E j \in 1..done :
          /\ aliases[j].table.name = MyPgTable
          /\ LegacyAlias(aliases, registry[PgTable], j)

Connecting ==
    /\ phase \in {"connecting", "failed"}
    /\ catalogs = {} /\ pending = << >> /\ ~legacy
    /\ registry = [n \in {Iceberg} |-> Parquet]

Registering ==
    /\ phase \in {"aliasing", "serving", "failed"}
    /\ catalogs = Tables
    /\ \E done \in 0..Len(Aliases) : Registered(Aliases, done) /\ Bound(Aliases, done)
    /\ phase = "serving" => pending = << >>

\* The inductive invariant of the startup.
StartInv ==
    /\ Contents
    /\ legacy \in BOOLEAN
    /\ \E n \in 0..Len(Config) : discovered = Discovered(n)
    /\ Connecting \/ Registering

\* What is found depends on the contents of the databases alone.
LEMMA FoundFrame ==
    ASSUME databases' = databases
    PROVE  /\ Contents' <=> Contents
           /\ \A n : Discovered(n)' = Discovered(n)
           /\ Tables' = Tables /\ Aliases' = Aliases
  <1>1. \A i : Introspected(i)' = Introspected(i)
    BY DEF Introspected
  <1>2. \A i : TablesOf(i)' = TablesOf(i)
    BY DEF TablesOf, InOrder, Introspected
  <1>3. \A i : Found(i)' = Found(i)
    BY <1>2 DEF Found
  <1>4. \A n : Discovered(n)' = Discovered(n)
    BY <1>3 DEF Discovered
  <1>5. Aliases' = Aliases
    BY <1>4 DEF Aliases, Flat
  <1>6. Tables' = Tables
    BY <1>1 DEF Tables
  <1> QED
    BY <1>4, <1>5, <1>6 DEF Contents

\* The aliases go to tables that were found: distinct ones, none of them reserved, and
\* a bare name to none but the first table that has it. A table without an alias has
\* found all of its names taken.
LEMMA AliasesFacts ==
    ASSUME Contents
    PROVE  /\ Aliases \in Seq(Pairings) /\ Flat \in Seq(AllFound)
           /\ \A j \in 1..Len(Aliases) :
                 /\ Aliases[j].alias \notin Reserved
                 /\ \E m \in 1..Len(Flat) : Gets(Flat, m, Aliases[j])
           /\ \A j, k \in 1..Len(Aliases) : j # k => Aliases[j].alias # Aliases[k].alias
           /\ \A m \in 1..Len(Flat) : Settled(Aliases, Flat, m)
           /\ \A m \in 1..Len(Flat) : FirstLegacy(Flat, m) =>
                 \E j \in 1..Len(Aliases) : LegacyAlias(Aliases, Flat[m], j)
  <1>1. Flat \in Seq(AllFound)
    BY FlatFacts DEF Flat, Listed
  <1> QED
    BY <1>1, AliasFacts DEF Aliases

\* What RegisterCatalogs collects.
LEMMA CatalogsCollected ==
    ASSUME Contents
    PROVE  UNION {Range(Discovered(Len(Config))[i]) : i \in SourceIds} = Tables
  <1>1. \A i \in SourceIds : Discovered(Len(Config))[i] = Found(i)
    BY DEF Discovered, SourceIds
  <1>2. ASSUME NEW i \in SourceIds
        PROVE  Range(Found(i)) = {Located(i, t) : t \in Introspected(i)}
    <2> DEFINE found == Found(i)
               asked == {Located(i, t) : t \in Introspected(i)}
    <2>1. /\ found \in Seq(AllFound)
          /\ \A k \in 1..Len(found) : found[k] \in asked
          /\ \A x \in asked : \E k \in 1..Len(found) : found[k] = x
      BY FoundFacts
    <2> HIDE DEF found, asked
    <2>2. DOMAIN found = 1..Len(found)
      BY <2>1, LenProperties
    <2>3. Range(found) = asked
      BY <2>1, <2>2 DEF Range
    <2> QED
      BY <2>3 DEF found, asked
  <1>3. {Range(Discovered(Len(Config))[i]) : i \in SourceIds}
            = {{Located(i, t) : t \in Introspected(i)} : i \in SourceIds}
    BY <1>1, <1>2
  <1> QED
    BY <1>3 DEF Tables

\* Initially nothing is registered but iceberg.
LEMMA InitStart == Init => StartInv
  <1> SUFFICES ASSUME Init PROVE StartInv
    OBVIOUS
  <1>1. discovered = Discovered(0)
    BY DEF Init, Discovered
  <1>2. 0 \in 0..Len(Config)
    BY ConfigAssumption
  <1>3. databases \in [SourceIds -> SUBSET Universe]
    BY HoldingsAssumption DEF Init, SourceIds
  <1> QED
    BY <1>1, <1>2, <1>3 DEF Init, StartInv, Contents, Connecting

\* One source more is connected.
LEMMA ConnectStart == ASSUME StartInv, Connect PROVE StartInv'
  <1>1. PICK n \in 0..Len(Config) : discovered = Discovered(n)
    BY DEF StartInv
  <1>2. Len(Config) \in Nat /\ n \in Nat
    BY ConfigAssumption
  <1>3. Len(discovered) = n /\ n < Len(Config)
    BY <1>1, <1>2 DEF Discovered, Connect
  <1>4. databases' = databases
    BY DEF Connect
  <1>5. discovered' = Append(discovered, Found(n + 1))
    BY <1>3 DEF Connect, Found
  <1>6. discovered' = Discovered(n + 1)
    <2> DEFINE d == Discovered(n)
    <2>1. /\ d = [i \in 1..n |-> Found(i)] /\ Len(d) = n
          /\ Discovered(n + 1) = [i \in 1..(n + 1) |-> Found(i)]
      BY <1>2 DEF Discovered
    <2>2. Append(d, Found(n + 1)) =
              [i \in 1..(n + 1) |-> IF i = n + 1 THEN Found(n + 1) ELSE d[i]]
      <3> HIDE DEF d
      <3> QED
        BY <1>2, <2>1
    <2>3. \A i \in 1..(n + 1) : (IF i = n + 1 THEN Found(n + 1) ELSE d[i]) = Found(i)
      <3> TAKE i \in 1..(n + 1)
      <3>1. i = n + 1 \/ i \in 1..n
        BY <1>2
      <3> HIDE DEF d
      <3> QED
        BY <2>1, <3>1
    <2> HIDE DEF d
    <2>4. Append(d, Found(n + 1)) = Discovered(n + 1)
      BY <2>1, <2>2, <2>3
    <2> QED
      BY <1>1, <1>5, <2>4 DEF d
  <1>7. discovered' = Discovered(n + 1)' /\ n + 1 \in 0..Len(Config)
    BY <1>2, <1>3, <1>4, <1>6, FoundFrame
  <1>8. Contents'
    BY <1>4, FoundFrame DEF StartInv
  <1>9. Connecting'
    BY DEF StartInv, Connecting, Registering, Connect
  <1>10. legacy' \in BOOLEAN
    BY DEF StartInv, Connect
  <1> QED
    BY <1>7, <1>8, <1>9, <1>10 DEF StartInv

\* All tables get their canonical names, and aliases are chosen.
LEMMA RegisterCatalogsStart == ASSUME StartInv, RegisterCatalogs PROVE StartInv'
  <1>1. PICK n \in 0..Len(Config) : discovered = Discovered(n)
    BY DEF StartInv
  <1>2. Len(Config) \in Nat /\ n \in Nat
    BY ConfigAssumption
  <1>3. n = Len(Config)
    BY <1>1, <1>2 DEF Discovered, RegisterCatalogs
  <1>4. UNCHANGED <<databases, discovered, registry, legacy>>
    BY DEF RegisterCatalogs
  <1>5. Contents
    BY DEF StartInv
  <1>6. pending' = Aliases /\ catalogs' = Tables
    <2>1. catalogs' = UNION {Range(discovered[i]) : i \in SourceIds}
      BY DEF RegisterCatalogs
    <2> QED
      BY <1>1, <1>3, <1>5, <2>1, CatalogsCollected DEF RegisterCatalogs, Aliases, Flat
  <1>7. PICK al : al = Aliases
    OBVIOUS
  <1>8. Aliases' = al /\ Tables' = Tables
    BY <1>4, <1>7, FoundFrame
  <1>9. al \in Seq(Pairings) /\ Len(al) \in Nat
    BY <1>5, <1>7, AliasesFacts, LenProperties
  <1>10. registry = [m \in {Iceberg} |-> Parquet] /\ ~legacy
    BY DEF StartInv, Connecting, Registering, RegisterCatalogs
  <1>11. Registered(al, 0)'
    <2>1. /\ pending' \in Seq(Pairings) /\ Len(pending') = Len(al) - 0
          /\ \A j \in 1..Len(pending') : pending'[j] = al[0 + j]
      BY <1>6, <1>7, <1>9
    <2>2. 1..0 = {}
      OBVIOUS
    <2>3. DOMAIN registry' = {Iceberg}
            /\ registry'[Iceberg] = Parquet /\ ~legacy'
      BY <1>4, <1>10
    <2> HIDE DEF Pairings
    <2> QED
      BY <2>1, <2>2, <2>3 DEF Registered, Means
  <1>15. Bound(al, 0)'
    <2>1. 1..0 = {}
      OBVIOUS
    <2> QED
      BY <1>4, <1>10, <2>1 DEF Bound
  <1>12. Registering'
    <2>1. 0 \in 0..Len(al)
      BY <1>9
    <2>2. phase' = "aliasing"
      BY DEF RegisterCatalogs
    <2> QED
      BY <1>6, <1>8, <1>11, <1>15, <2>1, <2>2 DEF Registering
  <1>13. discovered' = Discovered(n)'
    BY <1>1, <1>4, FoundFrame
  <1>14. Contents' /\ legacy' \in BOOLEAN
    BY <1>4, <1>5, FoundFrame DEF StartInv
  <1> QED
    BY <1>12, <1>13, <1>14 DEF StartInv

\* One alias more; the registry follows the list of aliases.
LEMMA RegisterAliasStart == ASSUME StartInv, RegisterAlias PROVE StartInv'
  <1>1. UNCHANGED <<databases, phase, discovered, catalogs>> /\ phase = "aliasing"
    BY DEF RegisterAlias
  <1>2. Contents /\ Registering
    BY <1>1 DEF StartInv, Connecting
  <1>3. PICK al : al = Aliases
    OBVIOUS
  <1>4. Aliases' = al /\ Tables' = Tables /\ (\A n : Discovered(n)' = Discovered(n))
        /\ Contents'
    BY <1>1, <1>2, <1>3, FoundFrame
  <1>5. PICK done \in 0..Len(al) : Registered(al, done) /\ Bound(al, done)
    BY <1>2, <1>3 DEF Registering
  <1>6. al \in Seq(Pairings) /\ Len(al) \in Nat /\ done \in Nat
    BY <1>2, <1>3, AliasesFacts, LenProperties
  <1>7. /\ pending \in Seq(Pairings) /\ pending # << >>
        /\ Len(pending) = Len(al) - done
        /\ \A j \in 1..Len(pending) : pending[j] = al[done + j]
    BY <1>5 DEF Registered, RegisterAlias
  <1>8. /\ Tail(pending) \in Seq(Pairings) /\ Len(Tail(pending)) = Len(pending) - 1
        /\ \A j \in 1..Len(Tail(pending)) : Tail(pending)[j] = pending[j + 1]
        /\ Head(pending) = pending[1]
        /\ Len(pending) \in Nat /\ Len(pending) >= 1
    <2>1. Len(pending) \in Nat \ {0}
      BY <1>7, EmptySeq
    <2> QED
      BY <1>7, <2>1, HeadTailProperties
  <1> DEFINE a == al[done + 1]
             name == Reads(a.alias)
             reg == Bind(registry, name, a.table)
             old == ~legacy /\ a.table.name = MyPgTable
  <1>9. Head(pending) = a
    <2>1. 1 \in 1..Len(pending)
      BY <1>8
    <2> QED
      BY <1>7, <1>8, <2>1
  <1>10. /\ registry' = IF old THEN Bind(reg, PgTable, a.table) ELSE reg
         /\ legacy' = (legacy \/ old)
         /\ pending' = Tail(pending)
         /\ name \notin DOMAIN registry
         /\ old => PgTable \notin DOMAIN reg
    BY <1>9 DEF RegisterAlias
  <1>11. done + 1 \in 1..Len(al) /\ done + 1 \in 0..Len(al)
    BY <1>6, <1>7, <1>8
  <1>12. /\ pending' \in Seq(Pairings)
         /\ Len(pending') = Len(al) - (done + 1)
         /\ \A j \in 1..Len(pending') : pending'[j] = al[(done + 1) + j]
    <2>1. pending' \in Seq(Pairings) /\ Len(pending') = Len(pending) - 1
      BY <1>8, <1>10
    <2>2. Len(pending) - 1 = Len(al) - (done + 1)
      BY <1>6, <1>7
    <2>3. ASSUME NEW j \in 1..Len(pending') PROVE pending'[j] = al[(done + 1) + j]
      <3>1. j \in 1..(Len(pending) - 1)
        BY <2>1, <2>3
      <3>2. j + 1 \in 1..Len(pending)
        BY <1>8, <3>1
      <3>3. pending'[j] = pending[j + 1]
        BY <1>8, <1>10, <2>3
      <3>4. pending[j + 1] = al[done + (j + 1)]
        BY <1>7, <3>2
      <3>5. done + (j + 1) = (done + 1) + j
        BY <1>6, <3>1
      <3> QED
        BY <3>3, <3>4, <3>5
    <2> QED
      BY <2>1, <2>2, <2>3
  <1>13. DOMAIN registry = {Iceberg} \cup {Reads(al[j].alias) : j \in 1..done}
                               \cup (IF legacy THEN {PgTable} ELSE {})
         /\ \A n \in DOMAIN registry : Means(al, done, n, registry[n])
    BY <1>5 DEF Registered
  <1> HIDE DEF a
  <1>14. DOMAIN reg = DOMAIN registry \cup {name}
         /\ \A n \in DOMAIN reg : reg[n] = IF n = name THEN a.table ELSE registry[n]
    BY DEF Bind
  <1> HIDE DEF reg, name
  <1>15. /\ DOMAIN registry' = DOMAIN reg \cup (IF old THEN {PgTable} ELSE {})
         /\ \A n \in DOMAIN registry' :
               registry'[n] = IF old /\ n = PgTable THEN a.table ELSE reg[n]
    <2>1. CASE old
      BY <1>10, <2>1 DEF Bind
    <2>2. CASE ~old
      BY <1>10, <2>2
    <2> QED
      BY <2>1, <2>2
  <1>16. 1..(done + 1) = (1..done) \cup {done + 1}
    BY <1>6
  <1>17. DOMAIN registry' =
             {Iceberg} \cup {Reads(al[j].alias) : j \in 1..(done + 1)}
                 \cup (IF legacy' THEN {PgTable} ELSE {})
    <2>1. {Reads(al[j].alias) : j \in 1..(done + 1)}
            = {Reads(al[j].alias) : j \in 1..done} \cup {name}
      BY <1>16 DEF name, a
    <2>2. (IF legacy' THEN {PgTable} ELSE {})
            = (IF legacy THEN {PgTable} ELSE {}) \cup (IF old THEN {PgTable} ELSE {})
      <3> HIDE DEF old
      <3> QED
        BY <1>10
    <2> QED
      BY <1>13, <1>14, <1>15, <2>1, <2>2
  <1>18. \A n \in DOMAIN registry' : Means(al, done + 1, n, registry'[n])
    <2> TAKE n \in DOMAIN registry'
    <2>0. done + 1 \in 1..(done + 1) /\ \A j \in 1..done : j \in 1..(done + 1)
      BY <1>6
    <2>1. CASE old /\ n = PgTable
      <3>1. registry'[n] = a.table /\ a.table.name = MyPgTable
        BY <1>15, <2>1
      <3> QED
        BY <2>0, <2>1, <3>1 DEF Means, a
    <2>2. CASE ~(old /\ n = PgTable) /\ n = name
      <3>1. registry'[n] = a.table
        <4>1. n \in DOMAIN reg
          BY <1>14, <2>2
        <4> QED
          BY <1>14, <1>15, <2>2, <4>1
      <3> QED
        BY <2>0, <2>2, <3>1 DEF Means, a, name
    <2>3. CASE ~(old /\ n = PgTable) /\ n # name
      <3>1. n \in DOMAIN registry /\ registry'[n] = registry[n]
        <4>1. n \in DOMAIN reg
          BY <1>15, <2>3
        <4> QED
          BY <1>14, <1>15, <2>3, <4>1
      <3>2. Means(al, done, n, registry[n])
        BY <1>13, <3>1
      <3> QED
        BY <2>0, <3>1, <3>2 DEF Means
    <2> QED
      BY <2>1, <2>2, <2>3
  <1>19. Registered(al, done + 1)'
    BY <1>12, <1>17, <1>18 DEF Registered
  <1>23. Bound(al, done + 1)'
    <2>1. \A n \in DOMAIN registry : registry'[n] = registry[n]
      <3> TAKE n \in DOMAIN registry
      <3>1. n # name /\ n \in DOMAIN reg /\ reg[n] = registry[n]
        BY <1>10, <1>14
      <3> QED
        BY <1>10, <1>15, <3>1
    <2>2. registry'[name] = a.table
      BY <1>10, <1>14, <1>15
    <2>3. \A j \in 1..done : Reads(al[j].alias) \in DOMAIN registry
      BY <1>13
    <2>4. \A j \in 1..done : registry[Reads(al[j].alias)] = al[j].table
      BY <1>5 DEF Bound
    <2>5. ASSUME NEW j \in 1..(done + 1)
          PROVE  registry'[Reads(al[j].alias)] = al[j].table
      <3>1. CASE j \in 1..done
        BY <2>1, <2>3, <2>4, <3>1
      <3>2. CASE j = done + 1
        BY <2>2, <3>2 DEF name, a
      <3> QED
        BY <1>16, <3>1, <3>2
    <2>6. ASSUME NEW j \in 1..(done + 1), al[j].table.name = MyPgTable
          PROVE  legacy'
      <3>1. CASE j \in 1..done
        <4>1. legacy
          BY <1>5, <2>6, <3>1 DEF Bound
        <4> QED
          BY <1>10, <4>1
      <3>2. CASE j = done + 1
        BY <1>10, <2>6, <3>2 DEF a
      <3> QED
        BY <1>16, <3>1, <3>2
    <2>7. CASE legacy
      <3>1. PICK j \in 1..done : /\ al[j].table.name = MyPgTable
                                 /\ LegacyAlias(al, registry[PgTable], j)
        BY <1>5, <2>7 DEF Bound
      <3>2. PgTable \in DOMAIN registry /\ registry'[PgTable] = registry[PgTable]
        BY <1>13, <2>1, <2>7
      <3>3. LegacyAlias(al, registry'[PgTable], j) /\ j \in 1..(done + 1)
        BY <1>16, <3>1, <3>2
      <3> QED
        BY <2>5, <2>6, <3>1, <3>3 DEF Bound
    <2>8. CASE ~legacy /\ legacy'
      <3>1. old
        <4> HIDE DEF old
        <4> QED
          BY <1>10, <2>8
      <3>2. a.table.name = MyPgTable /\ registry'[PgTable] = a.table
        BY <1>15, <3>1
      <3>3. \A i \in 1..done : al[i].table.name # MyPgTable
        BY <1>5, <2>8 DEF Bound
      <3>4. (done + 1) - 1 = done /\ done + 1 \in 1..(done + 1)
        BY <1>6
      <3>5. LegacyAlias(al, registry'[PgTable], done + 1)
        BY <3>2, <3>3, <3>4 DEF LegacyAlias, a
      <3> QED
        BY <2>5, <2>6, <3>2, <3>4, <3>5 DEF Bound, a
    <2>9. CASE ~legacy'
      BY <2>5, <2>6, <2>9 DEF Bound
    <2> QED
      BY <2>7, <2>8, <2>9
  <1>20. Registering'
    BY <1>1, <1>2, <1>4, <1>11, <1>19, <1>23 DEF Registering
  <1>21. legacy' \in BOOLEAN
    <2> HIDE DEF old
    <2> QED
      BY <1>10
  <1>22. \E n \in 0..Len(Config) : discovered' = Discovered(n)'
    BY <1>1, <1>4 DEF StartInv
  <1> QED
    BY <1>4, <1>20, <1>21, <1>22 DEF StartInv

\* Steps that change the phase alone.
LEMMA PhaseStart ==
    ASSUME StartInv,
           UNCHANGED <<databases, discovered, catalogs, pending, registry, legacy>>,
           \/ phase' = phase \/ phase' = "failed"
           \/ phase = "aliasing" /\ phase' = "serving" /\ pending = << >>
    PROVE  StartInv'
  <1>1. /\ Contents' /\ Aliases' = Aliases /\ Tables' = Tables
        /\ \A n : Discovered(n)' = Discovered(n)
    BY FoundFrame DEF StartInv
  <1>2. \E n \in 0..Len(Config) : discovered' = Discovered(n)'
    BY <1>1 DEF StartInv
  <1>3. CASE Connecting
    <2>1. Connecting'
      BY <1>3 DEF Connecting
    <2> QED
      BY <1>1, <1>2, <2>1 DEF StartInv
  <1>4. CASE Registering
    <2>1. PICK al : al = Aliases
      OBVIOUS
    <2>2. PICK done \in 0..Len(al) : Registered(al, done) /\ Bound(al, done)
      BY <1>4, <2>1 DEF Registering
    <2>3. Registered(al, done)' /\ Bound(al, done)'
      BY <2>2 DEF Registered, Bound
    <2>6. phase' = "serving" => pending' = << >>
      BY <1>4 DEF Registering
    <2>4. Aliases' = al
      BY <1>1, <2>1
    <2>5. Registering'
      BY <1>1, <1>4, <2>3, <2>4, <2>6 DEF Registering
    <2> QED
      BY <1>1, <1>2, <2>5 DEF StartInv
  <1> QED
    BY <1>3, <1>4 DEF StartInv

\* Every step preserves the invariant.
LEMMA NextStart == StartInv /\ [Next]_vars => StartInv'
  <1> SUFFICES ASSUME StartInv, [Next]_vars PROVE StartInv'
    OBVIOUS
  <1>1. CASE ConnectFails \/ NameRefused \/ Serve
    BY <1>1, PhaseStart DEF ConnectFails, NameRefused, Serve, Failed
  <1>2. CASE UNCHANGED vars
    BY <1>2, PhaseStart DEF vars
  <1> QED
    BY <1>1, <1>2, ConnectStart, RegisterCatalogsStart, RegisterAliasStart DEF Next

-------------------------------------------------------------------------------
(* Results *)

\* The account of the startup.
THEOREM StartInvariant == Spec => []StartInv
  BY InitStart, NextStart, PTL DEF Spec

\* A table found is one of its source, and of the shape that a table has.
LEMMA TablesFound ==
    ASSUME Contents
    PROVE  /\ Tables \subseteq AllFound
           /\ \A x \in Tables : \E i \in SourceIds : \E t \in Introspected(i) :
                 x = Located(i, t) /\ t \in Universe
  <1>1. \A i \in SourceIds : Introspected(i) \subseteq Universe
    BY DEF Introspected, Contents
  <1>2. \A x \in Tables : \E i \in SourceIds : \E t \in Introspected(i) :
            x = Located(i, t)
    BY DEF Tables
  <1> QED
    BY <1>1, <1>2 DEF AllFound

\* The list of all tables holds exactly what is found.
LEMMA FlatIsTables ==
    ASSUME Contents
    PROVE  /\ \A m \in 1..Len(Flat) : Flat[m] \in Tables
           /\ \A x \in Tables : \E m \in 1..Len(Flat) : Flat[m] = x
           /\ \A k, l \in 1..Len(Flat) : k < l => ~Earlier(Flat[l], Flat[k])
           /\ Len(Flat) \in Nat
  <1>1. Listed(Flat, Len(Config)) /\ Complete(Flat, Len(Config))
    BY FlatFacts DEF Flat
  <1>2. Len(Flat) \in Nat
    BY <1>1, LenProperties DEF Listed
  <1>3. \A m \in 1..Len(Flat) : Flat[m] \in Tables
    BY <1>1 DEF Listed, Tables, SourceIds
  <1>4. ASSUME NEW x \in Tables
        PROVE  \E m \in 1..Len(Flat) : Flat[m] = x
    <2>1. PICK i \in SourceIds : \E t \in Introspected(i) : x = Located(i, t)
      BY DEF Tables
    <2> QED
      BY <1>1, <2>1 DEF Complete, SourceIds
  <1>5. \A k, l \in 1..Len(Flat) : k < l => ~Earlier(Flat[l], Flat[k])
    BY <1>1 DEF Listed
  <1> QED
    BY <1>2, <1>3, <1>4, <1>5

\* The types of the registration.
THEOREM StartTypes == Spec => []TypeOK
  <1>1. ASSUME StartInv PROVE TypeOK
    <2>1. Contents /\ legacy \in BOOLEAN
      BY <1>1 DEF StartInv
    <2>2. \A i \in 1..Len(discovered) : Range(discovered[i]) \subseteq AllFound
      <3>1. PICK n \in 0..Len(Config) : discovered = Discovered(n)
        BY <1>1 DEF StartInv
      <3>2. /\ Len(discovered) = n
            /\ \A i \in 1..n : i \in SourceIds /\ discovered[i] = Found(i)
        BY <3>1, ConfigAssumption DEF Discovered, SourceIds
      <3>3. \A i \in SourceIds : Found(i) \in Seq(AllFound)
        BY <2>1, FoundFacts
      <3>4. \A s \in Seq(AllFound) : Range(s) \subseteq AllFound
        BY DEF Range
      <3> QED
        BY <3>2, <3>3, <3>4
    <2>3. CASE Connecting
      <3>1. Len(pending) = 0 /\ Range(registry) = {Parquet}
        BY <2>3, EmptySeq DEF Connecting, Range
      <3> QED
        BY <2>1, <2>2, <2>3, <3>1 DEF TypeOK, Connecting, Contents
    <2>4. CASE Registering
      <3>1. catalogs \subseteq AllFound
        BY <2>1, <2>4, TablesFound DEF Registering
      <3>2. PICK al : al = Aliases
        OBVIOUS
      <3>3. PICK done \in 0..Len(al) : Registered(al, done)
        BY <2>4, <3>2 DEF Registering
      <3>4. al \in Seq(Pairings) /\ Len(al) \in Nat
        BY <2>1, <3>2, AliasesFacts, LenProperties
      <3>5. \A e \in Pairings : e.table \in AllFound
        BY DEF Pairings
      <3>6. \A i \in 1..Len(pending) : pending[i].table \in AllFound
        <4>1. pending \in Seq(Pairings)
          BY <3>3 DEF Registered
        <4> HIDE DEF Pairings
        <4> QED
          BY <3>5, <4>1, ElementOfSeq
      <3>7. \A j \in 1..done : al[j].table \in AllFound
        <4>1. \A j \in 1..done : j \in 1..Len(al)
          BY <3>4
        <4> QED
          BY <3>4, <3>5, <4>1, ElementOfSeq
      <3>8. \A n \in DOMAIN registry : registry[n] \in AllFound \cup {Parquet}
        <4> TAKE n \in DOMAIN registry
        <4>1. Means(al, done, n, registry[n])
          BY <3>3 DEF Registered
        <4> QED
          BY <3>7, <4>1 DEF Means
      <3>9. Range(registry) \subseteq AllFound \cup {Parquet}
        BY <3>8 DEF Range
      <3> QED
        BY <2>1, <2>2, <2>4, <3>1, <3>6, <3>9 DEF TypeOK, Registering, Contents
    <2> QED
      BY <1>1, <2>3, <2>4 DEF StartInv
  <1> QED
    BY <1>1, StartInvariant, PTL

\* Once the engine serves, a table answers to its canonical name if and only if it was
\* asked for: no name is lost to a neighbour of the same name, and none is invented.
LEMMA ServingIsComplete == StartInv => CanonicalNamesComplete
  <1> SUFFICES ASSUME StartInv, phase = "serving", NEW i \in SourceIds, NEW t \in Universe
               PROVE  Located(i, t) \in catalogs <=>
                          \E u \in databases[i] :
                              /\ Located(i, u) = Located(i, t)
                              /\ u.base /\ u.readable /\ Asked(i, u)
    BY DEF CanonicalNamesComplete
  <1>1. catalogs = Tables
    BY DEF StartInv, Connecting, Registering
  <1>2. \A u : u \in Introspected(i) <=>
                   u \in databases[i] /\ u.base /\ u.readable /\ Asked(i, u)
    <2>1. Config[i].schemas \in Seq(Range(Alphabet))
      BY ConfigAssumption DEF SourceIds
    <2>2. DOMAIN Config[i].schemas = 1..Len(Config[i].schemas)
      BY <2>1, LenProperties
    <2>3. \A s : s \in Range(Config[i].schemas) <=>
                     \E k \in 1..Len(Config[i].schemas) : Config[i].schemas[k] = s
      BY <2>2 DEF Range
    <2> QED
      BY <2>3 DEF Introspected, Asked
  <1>3. Located(i, t) \in Tables <=>
            \E u \in Introspected(i) : Located(i, u) = Located(i, t)
    <2>1. \A j, u : Located(i, t) = Located(j, u) => j = i
      BY DEF Located
    <2> QED
      BY <2>1 DEF Tables
  <1> QED
    BY <1>1, <1>2, <1>3

\* The canonical names of a serving engine are exactly those asked for.
THEOREM CanonicalNames == Spec => []CanonicalNamesComplete
  BY ServingIsComplete, StartInvariant, PTL

\* No table comes before the first of its name on the list.
LEMMA FirstOfNameIsFirst ==
    ASSUME Contents, NEW m \in 1..Len(Flat),
           \A l \in 1..(m - 1) : Flat[l].name # Flat[m].name,
           NEW t \in Tables, t.name = Flat[m].name
    PROVE  ~Earlier(t, Flat[m])
  <1> SUFFICES ASSUME Earlier(t, Flat[m]) PROVE FALSE
    OBVIOUS
  <1>1. Flat[m] \in Tables
    BY FlatIsTables
  <1>2. PICK i \in SourceIds : \E v \in Introspected(i) : Flat[m] = Located(i, v)
    BY <1>1, TablesFound
  <1>3. PICK v \in Introspected(i) : Flat[m] = Located(i, v)
    BY <1>2
  <1>4. PICK l \in 1..Len(Flat) : Flat[l] = t
    BY FlatIsTables
  <1>5. Len(Flat) \in Nat /\ (m < l => ~Earlier(Flat[l], Flat[m]))
    BY FlatIsTables
  <1>6. l # m
    <2>1. i \in Nat /\ ~ (i < i)
      BY ConfigAssumption DEF SourceIds
    <2>2. Position(Config[i].schemas, v.schema) \in Nat
      <3>1. v.schema \in Range(Config[i].schemas)
        BY DEF Introspected
      <3>2. Config[i].schemas \in Seq(Range(Alphabet))
        BY ConfigAssumption DEF SourceIds
      <3> QED
        BY <3>1, <3>2, PositionFacts
    <2>3. ~Earlier(Flat[m], Flat[m])
      BY <1>3, <2>1, <2>2 DEF Earlier, Located
    <2> QED
      BY <1>4, <2>3
  <1>7. l \in 1..(m - 1)
    BY <1>4, <1>5, <1>6
  <1> QED
    BY <1>4, <1>7

\* A bare name is never given to a table that another one of that name comes before.
LEMMA BareNameIsFirst == StartInv => BareNameGoesToFirst
  <1> SUFFICES ASSUME StartInv, NEW n \in DOMAIN registry, registry[n].name = n,
                      NEW t \in catalogs, t.name = n, Earlier(t, registry[n])
               PROVE  FALSE
    BY DEF BareNameGoesToFirst
  <1>1. Contents
    BY DEF StartInv
  <1>2. Registering
    BY DEF StartInv, Connecting
  <1>3. t \in Tables
    BY <1>2 DEF Registering
  <1>4. PICK al : al = Aliases
    OBVIOUS
  <1>5. PICK done \in 0..Len(al) : Registered(al, done)
    BY <1>2, <1>4 DEF Registering
  <1>6. al \in Seq(Pairings) /\ Len(al) \in Nat
    BY <1>1, <1>4, AliasesFacts, LenProperties
  <1>7. \A j \in 1..done : j \in 1..Len(al)
    BY <1>6
  <1>8. \A j \in 1..done : \E m \in 1..Len(Flat) : Gets(Flat, m, al[j])
    BY <1>1, <1>4, <1>7, AliasesFacts
  <1>9. CASE registry[n] = Parquet
    <2>1. t.source \in Nat \ {0}
      BY <1>1, <1>3, TablesFound, ConfigAssumption DEF SourceIds, Located
    <2> QED
      BY <1>9, <2>1 DEF Earlier, Parquet
  <1>10. CASE n = PgTable /\ registry[n].name = MyPgTable
    BY <1>10, LegacyAssumption
  <1>11. ASSUME NEW j \in 1..done, n = Reads(al[j].alias), registry[n] = al[j].table
         PROVE  FALSE
    <2>1. PICK m \in 1..Len(Flat) : Gets(Flat, m, al[j])
      BY <1>8
    <2>2. Flat[m] \in Tables /\ registry[n] = Flat[m]
      BY <1>1, <1>11, <2>1, FlatIsTables DEF Gets
    <2>3. PICK i \in SourceIds, u \in Universe : Flat[m] = Located(i, u)
      BY <1>1, <2>2, TablesFound
    <2>4. u.name = n
      BY <2>2, <2>3 DEF Located
    <2>5. PICK k \in 1..3 : al[j].alias = Candidates(Located(i, u))[k]
      BY <2>1, <2>3 DEF Gets
    <2>6. k = 1
      <3>1. Reads(Candidates(Located(i, u))[k]) = u.name
        BY <1>11, <2>4, <2>5
      <3>2. k \in 2..3 => Reads(Candidates(Located(i, u))[k]) # u.name
        BY ReadsAssumption
      <3> QED
        BY <3>1, <3>2
    <2>7. al[j].alias = Flat[m].name
      BY <2>3, <2>5, <2>6 DEF Candidates
    <2>8. \A l \in 1..(m - 1) : Flat[l].name # Flat[m].name
      BY <2>1, <2>7 DEF Gets
    <2> QED
      BY <1>1, <1>3, <2>2, <2>8, FirstOfNameIsFirst
  <1>12. Means(al, done, n, registry[n])
    BY <1>5 DEF Registered
  <1> QED
    BY <1>9, <1>10, <1>11, <1>12 DEF Means

\* The first table in the order of configuration keeps its bare name.
THEOREM BareNames == Spec => []BareNameGoesToFirst
  BY BareNameIsFirst, StartInvariant, PTL

\* When the engine serves, all aliases are registered.
LEMMA ServingIsDone ==
    ASSUME StartInv, phase = "serving"
    PROVE  /\ Contents /\ catalogs = Tables
           /\ Registered(Aliases, Len(Aliases)) /\ Bound(Aliases, Len(Aliases))
  <1>1. Contents /\ Registering
    BY DEF StartInv, Connecting
  <1>2. PICK al : al = Aliases
    OBVIOUS
  <1>3. PICK done \in 0..Len(al) : Registered(al, done) /\ Bound(al, done)
    BY <1>1, <1>2 DEF Registering
  <1>4. Len(al) \in Nat
    BY <1>1, <1>2, AliasesFacts, LenProperties
  <1>5. Len(pending) = 0 /\ Len(pending) = Len(al) - done
    BY <1>1, <1>3 DEF Registering, Registered
  <1>6. done = Len(al)
    BY <1>4, <1>5
  <1> QED
    BY <1>1, <1>2, <1>3, <1>6 DEF Registering

\* A table without an alias finds each of its names registered or reserved.
LEMMA ServingNames == StartInv => NamedUnlessTaken
  <1> SUFFICES ASSUME StartInv, phase = "serving", NEW t \in catalogs
               PROVE  \/ t \in Range(registry)
                      \/ \A k \in 1..3 :
                            \/ Candidates(t)[k] \in Reserved
                            \/ Reads(Candidates(t)[k]) \in DOMAIN registry
    BY DEF NamedUnlessTaken
  <1>1. PICK al : al = Aliases
    OBVIOUS
  <1>2. Contents /\ t \in Tables /\ Registered(al, Len(al)) /\ Bound(al, Len(al))
    BY <1>1, ServingIsDone
  <1>3. PICK m \in 1..Len(Flat) : Flat[m] = t
    BY <1>2, FlatIsTables
  <1>4. Settled(al, Flat, m)
    BY <1>1, <1>2, AliasesFacts
  <1>5. \A j \in 1..Len(al) : /\ Reads(al[j].alias) \in DOMAIN registry
                              /\ registry[Reads(al[j].alias)] = al[j].table
    BY <1>2 DEF Registered, Bound
  <1>6. CASE \E j \in 1..Len(al) : al[j].table = Flat[m]
    BY <1>3, <1>5, <1>6 DEF Range
  <1>7. CASE \A k \in 1..3 : Candidates(Flat[m])[k] \in Taken(al)
    <2>1. \A k \in 1..3 : \/ Candidates(t)[k] \in Reserved
                          \/ \E j \in 1..Len(al) : Candidates(t)[k] = al[j].alias
      BY <1>3, <1>7 DEF Taken
    <2> QED
      BY <1>5, <2>1
  <1> QED
    BY <1>4, <1>6, <1>7 DEF Settled

\* No table lacks a short name that it could have had.
THEOREM ShortNames == Spec => []NamedUnlessTaken
  BY ServingNames, StartInvariant, PTL

\* The first my_pg_table on the list has the first alias of such a table.
LEMMA ServingLegacy == StartInv => LegacyIsFirst
  <1> SUFFICES ASSUME StartInv, phase = "serving", NEW t \in catalogs,
                      t.name = MyPgTable
               PROVE  /\ PgTable \in DOMAIN registry
                      /\ registry[PgTable].name = MyPgTable
                      /\ ~Earlier(t, registry[PgTable])
    BY DEF LegacyIsFirst
  <1>1. PICK al : al = Aliases
    OBVIOUS
  <1>2. Contents /\ t \in Tables /\ Registered(al, Len(al)) /\ Bound(al, Len(al))
    BY <1>1, ServingIsDone
  <1>3. PICK m \in 1..Len(Flat) : FirstLegacy(Flat, m)
    <2> DEFINE T == {l \in 1..Len(Flat) : Flat[l].name = MyPgTable}
    <2>1. T \in SUBSET Nat /\ T # {}
      BY <1>2, FlatIsTables
    <2>2. PICK m \in T : \A l \in T : m <= l
      <3> HIDE DEF T
      <3> QED
        BY <2>1, LeastNumber
    <2>3. m \in 1..Len(Flat) /\ Flat[m].name = MyPgTable /\ Len(Flat) \in Nat
      BY <1>2, FlatIsTables
    <2>4. ASSUME NEW l \in 1..(m - 1) PROVE l \notin T /\ l \in 1..Len(Flat)
      <3>1. l \in 1..Len(Flat) /\ ~ (m <= l)
        BY <2>3
      <3> QED
        BY <2>2, <3>1
    <2>5. \A l \in 1..(m - 1) : Flat[l].name # MyPgTable
      BY <2>4
    <2> QED
      BY <2>3, <2>5 DEF FirstLegacy
  <1>4. PICK j \in 1..Len(al) : LegacyAlias(al, Flat[m], j)
    BY <1>1, <1>2, <1>3, AliasesFacts
  <1>5. al[j].table = Flat[m] /\ Flat[m].name = MyPgTable
    BY <1>3, <1>4 DEF LegacyAlias, FirstLegacy
  <1>6. legacy
    BY <1>2, <1>5 DEF Bound
  <1>7. PICK i \in 1..Len(al) : /\ al[i].table.name = MyPgTable
                                /\ LegacyAlias(al, registry[PgTable], i)
    BY <1>2, <1>6 DEF Bound
  <1>8. i = j
    <2>1. Len(al) \in Nat
      BY <1>1, <1>2, AliasesFacts, LenProperties
    <2>2. i \notin 1..(j - 1) /\ j \notin 1..(i - 1)
      BY <1>4, <1>5, <1>7 DEF LegacyAlias
    <2> QED
      BY <2>1, <2>2
  <1>9. registry[PgTable] = Flat[m]
    BY <1>5, <1>7, <1>8 DEF LegacyAlias
  <1>10. PgTable \in DOMAIN registry
    BY <1>2, <1>6 DEF Registered
  <1>11. ~Earlier(t, Flat[m])
    BY <1>2, <1>3, FirstOfNameIsFirst DEF FirstLegacy
  <1> QED
    BY <1>5, <1>9, <1>10, <1>11

\* The legacy name belongs to the first my_pg_table.
THEOREM LegacyNames == Spec => []LegacyIsFirst
  BY ServingLegacy, StartInvariant, PTL

-------------------------------------------------------------------------------
(* Collisions *)

\* DataFusion reads every alias as a name of the default schema, and different names
\* as different ones. Tables whose names differ in the case of letters alone violate
\* the second, names with a dot in them the first.
NamesKeptApart ==
    /\ \A a \in AliasNames : Reads(a) # Elsewhere
    /\ \A a, b \in AliasNames \cup Reserved : Reads(a) = Reads(b) => a = b

\* Then no alias is refused.
LEMMA AliasesAreFree == ASSUME NamesKeptApart, StartInv PROVE ~NameRefused
  <1> SUFFICES ASSUME NameRefused PROVE FALSE
    OBVIOUS
  <1>1. Contents /\ Registering /\ pending # << >>
    BY DEF StartInv, Connecting, NameRefused
  <1>2. PICK al : al = Aliases
    OBVIOUS
  <1>3. PICK done \in 0..Len(al) : Registered(al, done)
    BY <1>1, <1>2 DEF Registering
  <1>4. /\ al \in Seq(Pairings) /\ Len(al) \in Nat
        /\ \A j \in 1..Len(al) : al[j].alias \notin Reserved
        /\ \A j, k \in 1..Len(al) : j # k => al[j].alias # al[k].alias
    BY <1>1, <1>2, AliasesFacts, LenProperties
  <1>5. /\ pending \in Seq(Pairings) /\ Len(pending) = Len(al) - done
        /\ \A j \in 1..Len(pending) : pending[j] = al[done + j]
        /\ DOMAIN registry = {Iceberg} \cup {Reads(al[j].alias) : j \in 1..done}
                                 \cup (IF legacy THEN {PgTable} ELSE {})
    BY <1>3 DEF Registered
  <1>6. Len(pending) \in Nat \ {0}
    BY <1>1, <1>5, EmptySeq
  <1>7. Head(pending) = pending[1]
    BY <1>1, <1>5, HeadTailProperties
  <1>8. Head(pending) = al[done + 1] /\ done + 1 \in 1..Len(al)
    <2>1. 1 \in 1..Len(pending)
      BY <1>6
    <2>2. done + 1 \in 1..Len(al)
      BY <1>4, <1>5, <1>6
    <2> QED
      BY <1>5, <1>7, <2>1, <2>2
  <1>9. \A j \in 1..Len(al) : al[j].alias \in AliasNames
    <2>1. \A e \in Pairings : e.alias \in AliasNames
      BY DEF Pairings
    <2> QED
      BY <1>4, <2>1, ElementOfSeq
  <1> DEFINE alias == al[done + 1].alias
  <1>10. alias \in AliasNames /\ alias \notin Reserved
    BY <1>4, <1>8, <1>9
  <1>11. /\ Reads(alias) # Iceberg /\ Reads(alias) # PgTable
         /\ Reads(alias) # Elsewhere
    <2>1. /\ Iceberg \in Reserved /\ PgTable \in Reserved
          /\ Reads(Iceberg) = Iceberg /\ Reads(PgTable) = PgTable
      BY LegacyAssumption DEF Reserved
    <2> HIDE DEF alias
    <2> QED
      BY <1>10, <2>1 DEF NamesKeptApart
  <1>12. ASSUME NEW j \in 1..done
         PROVE  Reads(al[j].alias) # Reads(alias) /\ Reads(al[j].alias) # PgTable
    <2>1. j \in 1..Len(al) /\ j # done + 1
      BY <1>4, <1>8
    <2>2. al[j].alias # alias /\ al[j].alias \in AliasNames /\ al[j].alias \notin Reserved
      BY <1>4, <1>8, <1>9, <2>1
    <2>3. PgTable \in Reserved /\ Reads(PgTable) = PgTable
      BY LegacyAssumption DEF Reserved
    <2> HIDE DEF alias
    <2> QED
      BY <1>10, <2>2, <2>3 DEF NamesKeptApart
  <1>13. Reads(alias) \notin DOMAIN registry \cup {Elsewhere}
    BY <1>5, <1>11, <1>12
  <1>14. ~legacy => PgTable \notin DOMAIN registry \cup {Reads(alias)}
    <2>1. Iceberg # PgTable
      BY LegacyAssumption
    <2> QED
      BY <1>5, <1>11, <1>12, <2>1
  <1> QED
    BY <1>8, <1>13, <1>14 DEF NameRefused

\* So what ends a startup behind the connections is the reading of names alone:
\* resolve_aliases compares them as PostgreSQL spells them, register_table as
\* DataFusion parses them.
THEOREM OnlyReadingEndsStartup ==
    ASSUME NamesKeptApart
    PROVE  Spec => CollisionsAreBroken
  <1>1. StartInv /\ [Next]_vars => [phase = "aliasing" => phase' # "failed"]_vars
    <2> SUFFICES ASSUME StartInv, [Next]_vars, phase = "aliasing", phase' = "failed"
                 PROVE  FALSE
      OBVIOUS
    <2>1. ~NameRefused
      BY AliasesAreFree
    <2> QED
      BY <2>1 DEF Next, vars, ConnectFails, Connect, RegisterCatalogs, RegisterAlias,
         Serve
  <1> QED
    BY <1>1, StartInvariant, PTL DEF Spec, CollisionsAreBroken
===============================================================================
