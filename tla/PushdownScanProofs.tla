-------------------------- MODULE PushdownScanProofs --------------------------
(* Pushdown changes no answer, for every table, every set of filters, limit and *)
(* size of input, provided that PostgreSQL and Arrow agree where the filters    *)
(* compare (FaithfulTo). The hypothesis is about ranks of values alone; that    *)
(* translation, flipping, the exclusions of literals and the pushed limit keep  *)
(* the answers is what is proved.                                               *)
EXTENDS PushdownScan, FiniteSetTheorems, TLAPS

-------------------------------------------------------------------------------
(* Translation is exact *)

\* An operand accepted as a column is one, and an accepted literal is neither NULL
\* nor without a SQL spelling.
LEMMA OperandFacts ==
    ASSUME NEW o \in Operands
    PROVE  /\ AsColumn(o) # None =>
                  o.tag = "column" /\ o.name \in Columns /\ AsColumn(o) = o.name
           /\ AsLiteral(o) # None =>
                  /\ o.tag = "literal" /\ AsLiteral(o) = o.value
                  /\ o.value \in Values /\ o.value \notin Unprintable \cup {Null}
  BY DEF AsColumn, AsLiteral, Operands

\* What is known of a comparison that was translated.
LEMMA SqlComparisonFacts ==
    ASSUME NEW o \in Operands, NEW l \in Operands, NEW op \in Operators,
           SqlComparison(o, op, l) # None
    PROVE  /\ o.tag = "column" /\ o.name \in Columns
           /\ l.tag = "literal" /\ l.value \in Values
           /\ l.value \notin Unprintable \cup {Null}
           /\ op \in Ordering => l.value \notin Strings
           /\ SqlComparison(o, op, l) =
                  [sql |-> "comparison", column |-> o.name, op |-> op,
                   value |-> l.value]
  <1>1. AsColumn(o) # None /\ AsLiteral(l) # None
        /\ ~(op \in Ordering /\ IsStringLiteral(AsLiteral(l)))
    BY DEF SqlComparison
  <1> QED
    BY <1>1, OperandFacts DEF SqlComparison, IsStringLiteral

\* Two orders that agree satisfy the same comparisons, the ordering ones unless the
\* literal is a string.
LEMMA AgreeingOrders ==
    ASSUME NEW v \in Values, NEW w \in Values, Agree(v, w), NEW op \in Operators,
           op \in Ordering => w \notin Strings
    PROVE  /\ Holds(op, PgRank[v], PgRank[w]) <=> Holds(op, ArrowRank[v], ArrowRank[w])
           /\ Holds(Flip(op), ArrowRank[v], ArrowRank[w])
                  <=> Holds(op, ArrowRank[w], ArrowRank[v])
           /\ Flip(op) \in Operators /\ (Flip(op) \in Ordering <=> op \in Ordering)
  <1>1. /\ PgRank[v] \in Int /\ PgRank[w] \in Int
        /\ ArrowRank[v] \in Int /\ ArrowRank[w] \in Int
    BY RankAssumption
  <1> QED
    BY <1>1 DEF Agree, Holds, Flip, Operators, Ordering

\* A comparison means the same to both sides, with the literal on the right or, its
\* operator flipped, on the left.
LEMMA ComparisonExact ==
    ASSUME NEW e \in Exprs, e.kind = "comparison", NEW row \in Rows,
           TranslatePredicate(e) # None, AgreeOn(e, row)
    PROVE  PgHolds(TranslatePredicate(e), row) <=> ArrowHolds(e, row)
  <1>1. e.left \in Operands /\ e.right \in Operands /\ e.op \in Operators
    BY DEF Exprs
  <1>2. /\ TranslatePredicate(e) = TranslateComparison(e)
        /\ OperandsOf(e) = {e.left, e.right}
    BY DEF TranslatePredicate, OperandsOf
  <1>3. Flip(e.op) \in Operators
    BY <1>1 DEF Flip, Operators
  <1>4. CASE e.left.tag = "column"
    <2>1. SqlComparison(e.left, e.op, e.right) # None
          /\ TranslatePredicate(e) = SqlComparison(e.left, e.op, e.right)
      BY <1>2, <1>4 DEF TranslateComparison
    <2> DEFINE v == row[e.left.name]
               w == e.right.value
    <2>2. /\ e.right.tag = "literal" /\ w \in Values /\ w \notin Unprintable \cup {Null}
          /\ e.op \in Ordering => w \notin Strings
          /\ TranslatePredicate(e) =
                 [sql |-> "comparison", column |-> e.left.name, op |-> e.op, value |-> w]
      BY <1>1, <2>1, SqlComparisonFacts
    <2>3. v \in Values \cup {Null}
      BY <1>1, <2>1, SqlComparisonFacts DEF Rows
    <2>4. ArrowHolds(e, row) <=> v # Null /\ Holds(e.op, ArrowRank[v], ArrowRank[w])
      BY <1>4, <2>2 DEF ArrowHolds, Operand
    <2>5. PgHolds(TranslatePredicate(e), row)
              <=> v # Null /\ Holds(e.op, PgRank[v], PgRank[w])
      BY <2>2 DEF PgHolds
    <2>6. v # Null => Agree(v, w)
      BY <1>2, <1>4, <2>2 DEF AgreeOn
    <2> QED
      BY <1>1, <2>2, <2>3, <2>4, <2>5, <2>6, AgreeingOrders
  <1>5. CASE e.left.tag # "column"
    <2>1. SqlComparison(e.right, Flip(e.op), e.left) # None
          /\ TranslatePredicate(e) = SqlComparison(e.right, Flip(e.op), e.left)
      BY <1>2, <1>5 DEF TranslateComparison
    <2> DEFINE v == row[e.right.name]
               w == e.left.value
    <2>2. /\ e.right.tag = "column" /\ e.left.tag = "literal"
          /\ w \in Values /\ w \notin Unprintable \cup {Null}
          /\ Flip(e.op) \in Ordering => w \notin Strings
          /\ TranslatePredicate(e) =
                 [sql |-> "comparison", column |-> e.right.name, op |-> Flip(e.op),
                  value |-> w]
      BY <1>1, <1>3, <2>1, SqlComparisonFacts
    <2>3. v \in Values \cup {Null}
      BY <1>1, <1>3, <2>1, SqlComparisonFacts DEF Rows
    <2>4. ArrowHolds(e, row) <=> v # Null /\ Holds(e.op, ArrowRank[w], ArrowRank[v])
      BY <2>2 DEF ArrowHolds, Operand
    <2>5. PgHolds(TranslatePredicate(e), row)
              <=> v # Null /\ Holds(Flip(e.op), PgRank[v], PgRank[w])
      BY <2>2 DEF PgHolds
    <2>6. v # Null => Agree(v, w)
      BY <1>2, <2>2 DEF AgreeOn
    <2>7. e.op \in Ordering => w \notin Strings
      BY <1>1, <2>2 DEF Flip, Ordering, Operators
    <2>8. v # Null =>
              (Holds(Flip(e.op), PgRank[v], PgRank[w])
                   <=> Holds(Flip(e.op), ArrowRank[v], ArrowRank[w]))
      BY <1>3, <2>2, <2>3, <2>6, AgreeingOrders
    <2>9. v # Null =>
              (Holds(Flip(e.op), ArrowRank[v], ArrowRank[w])
                   <=> Holds(e.op, ArrowRank[w], ArrowRank[v]))
      BY <1>1, <2>2, <2>3, <2>6, <2>7, AgreeingOrders
    <2> QED
      BY <2>4, <2>5, <2>8, <2>9
  <1> QED
    BY <1>4, <1>5

\* IS NULL and IS NOT NULL of a column.
LEMMA NullTestExact ==
    ASSUME NEW e \in Exprs, e.kind \in {"null", "not null"}, NEW row \in Rows,
           TranslatePredicate(e) # None
    PROVE  PgHolds(TranslatePredicate(e), row) <=> ArrowHolds(e, row)
  <1>1. e.arg \in Operands
    BY DEF Exprs
  <1>2. TranslatePredicate(e) = SqlNullTest(e) /\ AsColumn(e.arg) # None
    BY DEF TranslatePredicate, SqlNullTest
  <1>3. /\ e.arg.tag = "column"
        /\ TranslatePredicate(e) = [sql |-> e.kind, column |-> e.arg.name]
    BY <1>1, <1>2, OperandFacts DEF SqlNullTest
  <1> DEFINE p == TranslatePredicate(e)
             v == row[e.arg.name]
  <1>4. p.sql = e.kind /\ p.column = e.arg.name /\ Operand(e.arg, row) = v
    <2>1. /\ [sql |-> e.kind, column |-> e.arg.name].sql = e.kind
          /\ [sql |-> e.kind, column |-> e.arg.name].column = e.arg.name
      OBVIOUS
    <2>2. p = [sql |-> e.kind, column |-> e.arg.name]
      BY <1>3
    <2>3. Operand(e.arg, row) = v
      BY <1>3 DEF Operand
    <2> HIDE DEF p
    <2> QED
      BY <2>1, <2>2, <2>3
  <1> HIDE DEF p, v
  <1>5. CASE e.kind = "null"
    <2>1. PgHolds(p, row) <=> v = Null
      BY <1>4, <1>5 DEF PgHolds, v
    <2>2. ArrowHolds(e, row) <=> v = Null
      BY <1>4, <1>5 DEF ArrowHolds
    <2> QED
      BY <2>1, <2>2 DEF p
  <1>6. CASE e.kind = "not null"
    <2>1. PgHolds(p, row) <=> v # Null
      BY <1>4, <1>6 DEF PgHolds, v
    <2>2. ArrowHolds(e, row) <=> v # Null
      BY <1>4, <1>6 DEF ArrowHolds
    <2> QED
      BY <2>1, <2>2 DEF p
  <1> QED
    BY <1>5, <1>6

\* IN and NOT IN of a column and literals, none of them NULL.
LEMMA InListExact ==
    ASSUME NEW e \in Exprs, e.kind = "in", NEW row \in Rows,
           TranslatePredicate(e) # None, AgreeOn(e, row)
    PROVE  PgHolds(TranslatePredicate(e), row) <=> ArrowHolds(e, row)
  <1>1. e.arg \in Operands /\ e.list \in SUBSET Operands /\ e.negated \in BOOLEAN
    BY DEF Exprs
  <1>2. /\ TranslatePredicate(e) = TranslateInList(e)
        /\ OperandsOf(e) = {e.arg} \cup e.list
    BY DEF TranslatePredicate, OperandsOf
  <1>3. AsColumn(e.arg) # None /\ \A o \in e.list : AsLiteral(o) # None
    BY <1>2 DEF TranslateInList
  <1>4. /\ e.arg.tag = "column" /\ e.arg.name \in Columns
        /\ AsColumn(e.arg) = e.arg.name
    BY <1>1, <1>3, OperandFacts
  <1>5. \A o \in e.list : /\ o.tag = "literal" /\ AsLiteral(o) = o.value
                          /\ o.value \in Values
                          /\ o.value \notin Unprintable \cup {Null}
    BY <1>1, <1>3, OperandFacts
  <1> DEFINE v == row[e.arg.name]
             sqlValues == {AsLiteral(o) : o \in e.list}
             arrowValues == {Operand(o, row) : o \in e.list}
  <1>6. TranslatePredicate(e) =
            [sql |-> "in", column |-> e.arg.name, negated |-> e.negated,
             values |-> sqlValues]
    BY <1>2, <1>3, <1>4 DEF TranslateInList
  <1>7. arrowValues = sqlValues
    BY <1>5 DEF Operand
  <1>8. \A w \in sqlValues : w # Null /\ (v # Null => Agree(v, w))
    BY <1>2, <1>4, <1>5 DEF AgreeOn
  <1>9. Operand(e.arg, row) = v
    BY <1>4 DEF Operand
  <1>10. ArrowHolds(e, row) <=>
             /\ v # Null
             /\ IF e.negated
                THEN \A w \in arrowValues : w # Null /\ ArrowRank[v] # ArrowRank[w]
                ELSE \E w \in arrowValues : w # Null /\ ArrowRank[v] = ArrowRank[w]
    BY <1>9 DEF ArrowHolds
  <1> HIDE DEF sqlValues, arrowValues
  <1>11. PgHolds(TranslatePredicate(e), row) <=>
             /\ v # Null
             /\ IF e.negated THEN \A w \in sqlValues : PgRank[v] # PgRank[w]
                             ELSE \E w \in sqlValues : PgRank[v] = PgRank[w]
    BY <1>6 DEF PgHolds
  <1> QED
    BY <1>7, <1>8, <1>10, <1>11 DEF Agree

\* Whatever was translated means the same to PostgreSQL and to DataFusion.
THEOREM TranslationExact ==
    ASSUME NEW e \in Exprs, NEW row \in Rows,
           TranslatePredicate(e) # None, AgreeOn(e, row)
    PROVE  PgHolds(TranslatePredicate(e), row) <=> ArrowHolds(e, row)
  <1>1. e.kind \in {"comparison", "null", "not null", "in", "other"}
    BY DEF Exprs
  <1>2. e.kind # "other"
    BY DEF TranslatePredicate
  <1> QED
    BY <1>1, <1>2, ComparisonExact, NullTestExact, InListExact

-------------------------------------------------------------------------------
(* Limits *)

\* LIMIT returns rows of its input; none of them is missing without a limit.
LEMMA LimitedFacts ==
    ASSUME NEW S, NEW limit, NEW T \in Limited(S, limit)
    PROVE  T \subseteq S /\ (limit = None => T = S)
  BY DEF Limited

\* Limiting twice is limiting once.
LEMMA LimitedTwice ==
    ASSUME NEW S, NEW limit, NEW T \in Limited(S, limit), NEW U \in Limited(T, limit)
    PROVE  U \in Limited(S, limit)
  BY DEF Limited

-------------------------------------------------------------------------------
(* The scan *)

\* The scan's WHERE: the filters of the query that can be translated.
Pushed == IF pushdown THEN {f \in query.filters : Translatable(f)} ELSE {}

Planned ==
    /\ query \in [filters : Filters, limit : Limits, columns : SUBSET Columns]
    /\ offered \in Offers(query)

\* The inductive invariant.
ScanInv ==
    /\ table \in Tables
    /\ pushdown \in BOOLEAN
    /\ phase \in {"planning", "planned", "scanned", "done", "failed"}
    /\ phase # "planning" => Planned
    /\ phase \in {"planning", "planned"} =>
           fetched = {} /\ rows_fetched = 0 /\ answer = {}
    /\ phase \in {"scanned", "done"} => fetched \in ScanResults
    /\ rows_fetched # 0 =>
           /\ phase # "planning" /\ ~Counts
           /\ fetched \in ScanResults
           /\ rows_fetched = Cardinality(fetched)
    /\ phase = "done" =>
           answer \in Limited(fetched \cap Matching(query.filters), query.limit)
    /\ fetched \subseteq RowIds
    /\ answer \subseteq fetched

\* Whether the planner or the scan selects them, the same filters are pushed.
LEMMA ConjunctsPushed ==
    ASSUME Planned
    PROVE  /\ Conjuncts = Pushed
           /\ offered.limit = None \/ offered = [filters |-> query.filters, limit |-> query.limit]
  <1>1. CASE offered = [filters |-> {f \in query.filters : Supported(f)}, limit |-> None]
    BY <1>1 DEF Conjuncts, Pushed, Supported
  <1>2. CASE offered = [filters |-> query.filters, limit |-> query.limit]
    BY <1>2 DEF Conjuncts, Pushed
  <1> QED
    BY <1>1, <1>2 DEF Planned, Offers

\* The rows the WHERE keeps are those that the pushed filters keep in DataFusion's
\* terms.
LEMMA WhereExact ==
    ASSUME FaithfulTo(Filters), Planned, table \in Tables, NEW r \in RowIds
    PROVE  (\A p \in Where : PgHolds(p, table[r]))
               <=> \A f \in Pushed : FilterKeeps(f, table[r])
  <1>1. table[r] \in Rows
    BY TableAssumption
  <1>2. query.filters \in Filters
    BY DEF Planned
  <1>3. \A f \in Pushed : f \in query.filters /\ Translatable(f) /\ f \subseteq Exprs
    BY <1>2, QueryAssumption DEF Pushed
  <1>4. \A f \in Pushed : \A e \in f :
            /\ e \in Exprs /\ TranslatePredicate(e) # None
            /\ AgreeOn(e, table[r])
    BY <1>2, <1>3 DEF Translatable, FaithfulTo
  <1>5. \A f \in Pushed : \A e \in f :
            PgHolds(TranslatePredicate(e), table[r]) <=> ArrowHolds(e, table[r])
    BY <1>1, <1>4, TranslationExact
  <1>6. Where = UNION {{TranslatePredicate(e) : e \in f} : f \in Pushed}
    BY ConjunctsPushed DEF Where
  <1>7. (\A p \in Where : PgHolds(p, table[r]))
            <=> \A f \in Pushed : \A e \in f : PgHolds(TranslatePredicate(e), table[r])
    BY <1>6
  <1> QED
    BY <1>5, <1>7 DEF FilterKeeps

\* The filters of a query are finitely many, so the counts of where_conjuncts and of
\* scan are equal only if every filter was translated.
LEMMA AllTranslated ==
    ASSUME Planned, offered.filters \subseteq query.filters,
           Cardinality(Conjuncts) = Cardinality(offered.filters)
    PROVE  Conjuncts = offered.filters
  <1>1. IsFiniteSet(query.filters)
    BY QueryAssumption DEF Planned
  <1>2. IsFiniteSet(offered.filters)
    BY <1>1, FS_Subset
  <1>3. Conjuncts \subseteq offered.filters
    BY DEF Conjuncts
  <1> QED
    BY <1>2, <1>3, FS_Subset

\* A scan returns only rows that the pushed filters keep, and all the rows that
\* match the query, unless all filters were pushed together with the limit: then it
\* returns matching rows only, up to the limit.
LEMMA ScanFacts ==
    ASSUME FaithfulTo(Filters), Planned, table \in Tables, NEW rows \in ScanResults
    PROVE  /\ rows \subseteq {r \in RowIds : \A f \in Pushed : FilterKeeps(f, table[r])}
           /\ \/ Matching(query.filters) \subseteq rows
              \/ /\ offered.limit # None
                 /\ rows \in Limited(Matching(query.filters), query.limit)
  <1> DEFINE S == {r \in RowIds : \A p \in Where : PgHolds(p, table[r])}
             limit == PushedLimit(offered.limit, Cardinality(Conjuncts),
                                  Cardinality(offered.filters))
  <1>1. S = {r \in RowIds : \A f \in Pushed : FilterKeeps(f, table[r])}
    BY WhereExact
  <1>2. rows \in Limited(S, limit)
    BY DEF ScanResults
  <1>3. Matching(query.filters) \subseteq S
    BY <1>1 DEF Matching, Pushed
  <1> HIDE DEF S, limit
  <1>4. rows \subseteq S /\ (limit = None => rows = S)
    BY <1>2, LimitedFacts
  <1>5. CASE limit = None
    BY <1>1, <1>3, <1>4, <1>5
  <1>6. CASE limit # None
    <2>1. /\ limit = offered.limit
          /\ Cardinality(Conjuncts) = Cardinality(offered.filters)
      BY <1>6 DEF limit, PushedLimit
    <2>2. offered = [filters |-> query.filters, limit |-> query.limit]
      BY <1>6, <2>1, ConjunctsPushed
    <2>3. offered.filters = query.filters /\ offered.limit = query.limit
      BY <2>2
    <2>4. Pushed = query.filters
      BY <2>1, <2>3, AllTranslated, ConjunctsPushed
    <2>5. S = Matching(query.filters)
      BY <1>1, <2>4 DEF Matching
    <2> QED
      BY <1>1, <1>2, <1>4, <1>6, <2>1, <2>3, <2>5
  <1> QED
    BY <1>5, <1>6

\* The scan's possible results depend on the table, the switch and the offer alone.
LEMMA ScanFrame ==
    ASSUME UNCHANGED <<table, pushdown, query, offered>>
    PROVE  /\ ScanResults' = ScanResults
           /\ Planned' <=> Planned
           /\ Matching(query.filters)' = Matching(query.filters)
           /\ Counts' <=> Counts
  <1>1. ScanResults' = ScanResults
    BY DEF ScanResults, Where, Conjuncts
  <1>2. Planned' <=> Planned
    BY DEF Planned, Offers, Supported
  <1>3. Matching(query.filters)' = Matching(query.filters)
    BY DEF Matching
  <1>4. Counts' <=> Counts
    BY DEF Counts
  <1> QED
    BY <1>1, <1>2, <1>3, <1>4

\* Nothing is fetched before the scan.
LEMMA ScanInit == Init => ScanInv
  BY DEF Init, ScanInv

\* Every step preserves the invariant.
LEMMA ScanNext == ScanInv /\ [Next]_vars => ScanInv'
  <1> SUFFICES ASSUME ScanInv, [Next]_vars PROVE ScanInv'
    OBVIOUS
  <1> USE DEF ScanInv
  <1>1. CASE Plan
    <2>1. Planned'
      <3>1. PICK filters \in Filters, limit \in Limits, columns \in SUBSET Columns :
                /\ query' = [filters |-> filters, limit |-> limit, columns |-> columns]
                /\ offered' \in Offers(query')
        BY <1>1 DEF Plan
      <3>2. pushdown' = pushdown
        BY <1>1 DEF Plan
      <3> QED
        BY <3>1, <3>2 DEF Planned, Offers, Supported
    <2> QED
      BY <1>1, <2>1 DEF Plan
  <1>2. CASE ScanRaises
    <2>1. Planned' <=> Planned
      BY <1>2, ScanFrame DEF ScanRaises
    <2> QED
      BY <1>2, <2>1 DEF ScanRaises
  <1>3. ASSUME ScanCount \/ ScanColumns
        PROVE  ScanInv'
    <2>1. /\ UNCHANGED <<table, pushdown, query, offered, answer>>
          /\ phase = "planned" /\ phase' \in {"scanned", "failed"}
          /\ fetched' \in ScanResults
      BY <1>3 DEF ScanCount, ScanColumns
    <2>2. ScanResults' = ScanResults /\ (Planned' <=> Planned) /\ (Counts' <=> Counts)
      BY <2>1, ScanFrame
    <2>3. fetched' \subseteq RowIds
      BY <2>1, LimitedFacts DEF ScanResults
    <2>4. /\ rows_fetched' # 0 => ~Counts /\ rows_fetched' = Cardinality(fetched')
          /\ answer' = {}
      <3>1. rows_fetched = 0 /\ answer = {}
        BY <2>1
      <3>2. IsFiniteSet(fetched') /\ Cardinality(fetched') \in Nat
        BY <2>3, TableAssumption, FS_Subset, FS_CardinalityType
      <3> QED
        BY <1>3, <2>1, <3>1, <3>2 DEF ScanCount, ScanColumns
    <2> QED
      BY <2>1, <2>2, <2>3, <2>4
  <1>4. CASE Finish
    <2>1. /\ ScanResults' = ScanResults /\ (Planned' <=> Planned)
          /\ Matching(query.filters)' = Matching(query.filters)
          /\ Counts' <=> Counts
      BY <1>4, ScanFrame DEF Finish
    <2>2. answer' \in Limited(fetched \cap Matching(query.filters), query.limit)
      BY <1>4 DEF Finish
    <2>3. answer' \in Limited(fetched' \cap Matching(query.filters)', query'.limit)
      BY <1>4, <2>1, <2>2 DEF Finish
    <2>4. answer' \subseteq fetched'
      BY <2>3, LimitedFacts
    <2> QED
      BY <1>4, <2>1, <2>3, <2>4 DEF Finish
  <1>5. CASE UNCHANGED vars
    <2>1. /\ ScanResults' = ScanResults /\ (Planned' <=> Planned)
          /\ Matching(query.filters)' = Matching(query.filters)
          /\ Counts' <=> Counts
      BY <1>5, ScanFrame DEF vars
    <2> QED
      BY <1>5, <2>1 DEF vars
  <1> QED
    BY <1>1, <1>2, <1>3, <1>4, <1>5 DEF Next

\* The invariant holds in every reachable state.
LEMMA SpecScanInv == Spec => []ScanInv
  BY ScanInit, ScanNext, PTL DEF Spec

-------------------------------------------------------------------------------
(* Results *)

\* The scan returns a superset of the matching rows.
THEOREM ScanReturnsSuperset ==
    ASSUME FaithfulTo(Filters)
    PROVE  Spec => []SupersetFetched
  <1>1. ScanInv => SupersetFetched
    BY ScanFacts DEF ScanInv, SupersetFetched
  <1> QED
    BY <1>1, SpecScanInv, PTL

\* Pushdown, with or without a pushed limit, changes no answer.
THEOREM PushdownIsTransparent ==
    ASSUME FaithfulTo(Filters)
    PROVE  Spec => []SameAnswer
  <1>1. ASSUME ScanInv, phase = "done"
        PROVE  answer \in Limited(Matching(query.filters), query.limit)
    <2> DEFINE M == Matching(query.filters)
    <2>1. /\ Planned /\ table \in Tables /\ fetched \in ScanResults
          /\ answer \in Limited(fetched \cap M, query.limit)
      BY <1>1 DEF ScanInv
    <2>2. CASE M \subseteq fetched
      <3>1. fetched \cap M = M
        BY <2>2
      <3> QED
        BY <2>1, <3>1
    <2>3. CASE fetched \in Limited(M, query.limit)
      <3>1. fetched \cap M = fetched
        BY <2>3, LimitedFacts
      <3> QED
        BY <2>1, <2>3, <3>1, LimitedTwice
    <2> QED
      BY <2>1, <2>2, <2>3, ScanFacts
  <1>2. ScanInv => SameAnswer
    BY <1>1 DEF SameAnswer
  <1> QED
    BY <1>2, SpecScanInv, PTL

\* No row is transferred that a pushed filter excludes.
THEOREM OnlyPushedRowsTransferred ==
    ASSUME FaithfulTo(Filters)
    PROVE  Spec => []OnlyNeededRows
  <1>1. ASSUME ScanInv, rows_fetched > 0, pushdown
        PROVE  /\ ~Counts
               /\ rows_fetched <= Cardinality({r \in RowIds : \A f \in query.filters :
                      Translatable(f) => FilterKeeps(f, table[r])})
    <2> DEFINE S == {r \in RowIds : \A f \in Pushed : FilterKeeps(f, table[r])}
    <2>1. /\ Planned /\ table \in Tables /\ fetched \in ScanResults /\ ~Counts
          /\ rows_fetched = Cardinality(fetched)
      BY <1>1 DEF ScanInv
    <2>2. fetched \subseteq S
      BY <2>1, ScanFacts
    <2>3. IsFiniteSet(S)
      BY TableAssumption, FS_Subset
    <2>4. Cardinality(fetched) <= Cardinality(S)
      BY <2>2, <2>3, FS_Subset
    <2>5. S = {r \in RowIds : \A f \in query.filters :
                   Translatable(f) => FilterKeeps(f, table[r])}
      BY <1>1 DEF Pushed
    <2> QED
      BY <2>1, <2>4, <2>5
  <1>2. ScanInv => OnlyNeededRows
    BY <1>1 DEF OnlyNeededRows
  <1> QED
    BY <1>2, SpecScanInv, PTL

\* The types, and what is counted never exceeds the table.
THEOREM ScanTypes == Spec => []TypeOK
  <1>1. ScanInv => TypeOK
    <2> SUFFICES ASSUME ScanInv PROVE TypeOK
      OBVIOUS
    <2>1. rows_fetched \in 0..Cardinality(RowIds)
      <3>1. /\ Cardinality(RowIds) \in Nat /\ Cardinality(fetched) \in Nat
            /\ Cardinality(fetched) <= Cardinality(RowIds)
        BY TableAssumption, FS_Subset, FS_CardinalityType DEF ScanInv
      <3>2. rows_fetched = 0 \/ rows_fetched = Cardinality(fetched)
        BY DEF ScanInv
      <3> QED
        BY <3>1, <3>2
    <2>2. phase # "planning" =>
              query \in [filters : Filters, limit : Limits, columns : SUBSET Columns]
      BY DEF ScanInv, Planned
    <2> QED
      BY <2>1, <2>2 DEF ScanInv, TypeOK
  <1> QED
    BY <1>1, SpecScanInv, PTL
===============================================================================
