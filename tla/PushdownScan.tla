------------------------------ MODULE PushdownScan ------------------------------
(* One query over one PostgreSQL table: the filters are classified and          *)
(* translated by src/pushdown.rs, src/postgres_table.rs scans with them, and    *)
(* DataFusion (external) re-applies every filter and the LIMIT to what the scan *)
(* returned. A query has a set of filters, a filter is a set of predicates      *)
(* joined by AND. A value is known by its place in two orders: PostgreSQL's for *)
(* the column's type and collation, in which distinct values may be equal, and  *)
(* Arrow's.                                                                     *)
EXTENDS Integers, FiniteSets

CONSTANTS RowIds, Columns,
          Values,       \* values of columns and literals
          Null, None,
          Strings,      \* string values
          Unprintable,  \* literals without a SQL spelling: NaN, strings with NUL
          Uncastable,   \* per column, literals PostgreSQL cannot read as its type
          Undecodable,  \* values the Arrow builder refuses: far timestamps
          PgRank, ArrowRank,    \* [Values -> Int]
          Tables,       \* contents of the table: [RowIds -> [Columns -> ...]]
          Filters,      \* the sets of filters a query may have
          Limits        \* limits of a query, None among them

VARIABLES table, pushdown,      \* pushdown: filter_pushdown
          phase,        \* "planning", "planned", "scanned", "done", "failed"
          query,        \* [filters, limit, columns]: what the client asked, and
                        \* the columns that answering it takes
          offered,      \* [filters, limit]: the arguments of scan
          fetched,      \* rows the scan returned, or counted
          rows_fetched,
          answer        \* rows of the result

vars == <<table, pushdown, phase, query, offered, fetched, rows_fetched, answer>>

Column(c) == [tag |-> "column", name |-> c]
Literal(v) == [tag |-> "literal", value |-> v]
Computed(v) == [tag |-> "computed", value |-> v]    \* a cast, a call ...

Comparison(l, op, r) == [kind |-> "comparison", left |-> l, op |-> op, right |-> r]
IsNull(a) == [kind |-> "null", arg |-> a]
IsNotNull(a) == [kind |-> "not null", arg |-> a]
InList(a, list, negated) ==     \* list: a set of operands
    [kind |-> "in", arg |-> a, list |-> list, negated |-> negated]
OtherExpr(rows) == [kind |-> "other", rows |-> rows]     \* OR, LIKE, ...

\* The inputs: rows of the table, and the predicates of a filter.
Rows == [Columns -> Values \cup {Null}]

Operands ==
    [tag : {"column"}, name : Columns]
        \cup [tag : {"literal", "computed"}, value : Values \cup {Null}]

Operators == {"=", "<>", "<", "<=", ">", ">="}

Exprs ==
    [kind : {"comparison"}, left : Operands, op : Operators, right : Operands]
        \cup [kind : {"null", "not null"}, arg : Operands]
        \cup [kind : {"in"}, arg : Operands, list : SUBSET Operands, negated : BOOLEAN]
        \cup [kind : {"other"}, rows : SUBSET Rows]

ASSUME RankAssumption == PgRank \in [Values -> Int] /\ ArrowRank \in [Values -> Int]
ASSUME DistinctAssumption ==
    /\ Null \notin Values
    /\ None \notin Values /\ None \notin Columns /\ None \notin Nat /\ None # Null
ASSUME TableAssumption == IsFiniteSet(RowIds) /\ Tables \subseteq [RowIds -> Rows]
ASSUME QueryAssumption ==
    /\ \A filters \in Filters : filters \subseteq SUBSET Exprs /\ IsFiniteSet(filters)
    /\ Limits \subseteq Nat \cup {None}

\* The order of two ranks satisfies a comparison operator.
Holds(op, x, y) ==
    \/ op \in {"=", "<=", ">="} /\ x = y
    \/ op \in {"<>", "<", "<="} /\ x < y
    \/ op \in {"<>", ">", ">="} /\ x > y

-------------------------------------------------------------------------------
(* src/pushdown.rs *)

AsColumn(o) == IF o.tag = "column" /\ o.name \in Columns THEN o.name ELSE None

AsLiteral(o) ==
    IF o.tag = "literal" /\ o.value # Null /\ o.value \notin Unprintable
    THEN o.value ELSE None

Ordering == {"<", "<=", ">", ">="}

Flip(op) ==
    CASE op = "<" -> ">" [] op = "<=" -> ">=" [] op = ">" -> "<" [] op = ">=" -> "<="
      [] OTHER -> op

\* Variant: strings are ordered by the database.
NoStrings(v) == FALSE

IsStringLiteral(v) == v \in Strings

SqlComparison(o, op, l) ==
    IF AsColumn(o) = None \/ AsLiteral(l) = None
       \/ (op \in Ordering /\ IsStringLiteral(AsLiteral(l)))
    THEN None
    ELSE [sql |-> "comparison", column |-> AsColumn(o), op |-> op,
          value |-> AsLiteral(l)]

TranslateComparison(e) ==
    IF e.left.tag = "column" THEN SqlComparison(e.left, e.op, e.right)
    ELSE SqlComparison(e.right, Flip(e.op), e.left)

SqlNullTest(e) ==
    IF AsColumn(e.arg) = None THEN None ELSE [sql |-> e.kind, column |-> AsColumn(e.arg)]

TranslateInList(e) ==
    IF \/ AsColumn(e.arg) = None
       \/ e.list = {}
       \/ \E o \in e.list : AsLiteral(o) = None
    THEN None
    ELSE [sql |-> "in", column |-> AsColumn(e.arg), negated |-> e.negated,
          values |-> {AsLiteral(o) : o \in e.list}]

TranslatePredicate(e) ==
    CASE e.kind = "comparison" -> TranslateComparison(e)
      [] e.kind \in {"null", "not null"} -> SqlNullTest(e)
      [] e.kind = "in" -> TranslateInList(e)
      [] OTHER -> None

\* AND: every side must translate.
Translatable(f) == \A e \in f : TranslatePredicate(e) # None

-------------------------------------------------------------------------------
(* The two evaluations (external) *)

\* What PostgreSQL makes of a translated predicate. NULL satisfies no comparison.
PgHolds(p, row) ==
    LET v == row[p.column]
        Equal(w) == PgRank[v] = PgRank[w]
    IN \/ p.sql = "comparison" /\ v # Null /\ Holds(p.op, PgRank[v], PgRank[p.value])
       \/ p.sql = "null" /\ v = Null
       \/ p.sql = "not null" /\ v # Null
       \/ /\ p.sql = "in" /\ v # Null
          /\ IF p.negated THEN \A w \in p.values : ~Equal(w)
                          ELSE \E w \in p.values : Equal(w)

Operand(o, row) == IF o.tag = "column" THEN row[o.name] ELSE o.value

\* What DataFusion makes of the same predicate over Arrow data.
ArrowHolds(e, row) ==
    \/ /\ e.kind = "comparison"
       /\ LET v == Operand(e.left, row)
              w == Operand(e.right, row)
          IN Null \notin {v, w} /\ Holds(e.op, ArrowRank[v], ArrowRank[w])
    \/ e.kind = "null" /\ Operand(e.arg, row) = Null
    \/ e.kind = "not null" /\ Operand(e.arg, row) # Null
    \/ /\ e.kind = "in"
       /\ LET v == Operand(e.arg, row)
              list == {Operand(o, row) : o \in e.list}
          IN /\ v # Null
             /\ IF e.negated
                THEN \A w \in list : w # Null /\ ArrowRank[v] # ArrowRank[w]
                ELSE \E w \in list : w # Null /\ ArrowRank[v] = ArrowRank[w]
    \/ e.kind = "other" /\ row \in e.rows

OperandsOf(e) ==
    CASE e.kind = "comparison" -> {e.left, e.right}
      [] e.kind = "in" -> {e.arg} \cup e.list
      [] e.kind \in {"null", "not null"} -> {e.arg}
      [] OTHER -> {}

\* The columns that a predicate reads.
ColumnsOf(e) ==
    IF e.kind = "other" THEN Columns
    ELSE {o.name : o \in {x \in OperandsOf(e) : x.tag = "column"}}

\* The two orders agree where a filter compares a stored value with a literal: on
\* equality, and on order unless the literal is a string.
Agree(v, w) ==
    /\ PgRank[v] = PgRank[w] <=> ArrowRank[v] = ArrowRank[w]
    /\ w \in Strings \/ (PgRank[v] < PgRank[w] <=> ArrowRank[v] < ArrowRank[w])

AgreeOn(e, row) ==
    \A x, y \in OperandsOf(e) :
        /\ x.tag = "column" /\ row[x.name] # Null
        /\ y.tag = "literal" /\ y.value \notin Unprintable \cup {Null}
        => Agree(row[x.name], y.value)

FaithfulTo(queries) ==
    \A t \in Tables, r \in RowIds, filters \in queries :
        \A f \in filters : \A e \in f : AgreeOn(e, t[r])

FilterKeeps(f, row) == \A e \in f : ArrowHolds(e, row)

\* The rows that answer the query, in DataFusion's terms.
Matching(filters) ==
    {r \in RowIds : \A f \in filters : FilterKeeps(f, table[r])}

\* LIMIT without an order keeps any rows, as many as it allows.
Limited(S, limit) ==
    IF limit = None \/ Cardinality(S) <= limit THEN {S}
    ELSE {T \in SUBSET S : Cardinality(T) = limit}

-------------------------------------------------------------------------------
(* src/postgres_table.rs *)

Init ==
    /\ table \in Tables
    /\ pushdown \in BOOLEAN
    /\ phase = "planning"
    /\ query = None
    /\ offered = None
    /\ fetched = {}
    /\ rows_fetched = 0
    /\ answer = {}

\* supports_filters_pushdown: Inexact, or Unsupported.
Supported(f) == pushdown /\ Translatable(f)

\* The planner (external) hands to scan the filters reported as supported and
\* keeps the limit above them. The contract of scan also allows it to be given
\* every filter together with the limit.
Offers(q) ==
    {[filters |-> {f \in q.filters : Supported(f)}, limit |-> None],
     [filters |-> q.filters, limit |-> q.limit]}

\* The projection has the columns of all filters, which are applied again; a scan
\* without columns is that of a query without filters.
Plan ==
    /\ phase = "planning"
    /\ \E filters \in Filters, limit \in Limits, columns \in SUBSET Columns :
        /\ \A f \in filters : \A e \in f : ColumnsOf(e) \subseteq columns
        /\ columns = {} => filters = {}
        /\ query' = [filters |-> filters, limit |-> limit, columns |-> columns]
        /\ offered' \in Offers(query')
    /\ phase' = "planned"
    /\ UNCHANGED <<table, pushdown, fetched, rows_fetched, answer>>

\* where_conjuncts
Conjuncts == IF pushdown THEN {f \in offered.filters : Translatable(f)} ELSE {}

Where == UNION {{TranslatePredicate(e) : e \in f} : f \in Conjuncts}

\* Variant: the limit is pushed whatever the filters.
AlwaysPushed(limit, translated, total) == limit

PushedLimit(limit, translated, total) == IF translated = total THEN limit ELSE None

\* The rows that the generated SELECT may return.
ScanResults ==
    Limited({r \in RowIds : \A p \in Where : PgHolds(p, table[r])},
            PushedLimit(offered.limit, Cardinality(Conjuncts), Cardinality(offered.filters)))

\* PostgreSQL cannot read a literal as the type of its column.
Raises ==
    \E p \in Where :
        \/ p.sql = "comparison" /\ p.value \in Uncastable[p.column]
        \/ p.sql = "in" /\ p.values \cap Uncastable[p.column] # {}

ScanRaises ==
    /\ phase = "planned" /\ Raises
    /\ phase' = "failed"
    /\ UNCHANGED <<table, pushdown, query, offered, fetched, rows_fetched, answer>>

Counts == query.columns = {}

\* Variants: the counted rows are recorded as fetched; rows are recorded once for
\* every column converted.
ScanCountRecorded ==
    /\ phase = "planned" /\ ~Raises /\ Counts
    /\ fetched' \in ScanResults
    /\ rows_fetched' = rows_fetched + Cardinality(fetched')
    /\ phase' = "scanned"
    /\ UNCHANGED <<table, pushdown, query, offered, answer>>

ScanColumnsPerColumn ==
    /\ phase = "planned" /\ ~Raises /\ ~Counts
    /\ fetched' \in ScanResults
    /\ rows_fetched' = rows_fetched + Cardinality(fetched') * Cardinality(query.columns)
    /\ phase' = "scanned"
    /\ UNCHANGED <<table, pushdown, query, offered, answer>>

\* Empty projection: one row comes back, which holds the number of rows.
ScanCount ==
    /\ phase = "planned" /\ ~Raises /\ Counts
    /\ fetched' \in ScanResults
    /\ phase' = "scanned"
    /\ UNCHANGED <<table, pushdown, query, offered, rows_fetched, answer>>

\* The rows are recorded before their values, those of the projection, are converted.
ScanColumns ==
    /\ phase = "planned" /\ ~Raises /\ ~Counts
    /\ fetched' \in ScanResults
    /\ rows_fetched' = rows_fetched + Cardinality(fetched')
    /\ phase' = IF \E r \in fetched', c \in query.columns : table[r][c] \in Undecodable
                THEN "failed" ELSE "scanned"
    /\ UNCHANGED <<table, pushdown, query, offered, answer>>

\* DataFusion (external) filters again, whatever was pushed, and then limits.
Finish ==
    /\ phase = "scanned"
    /\ answer' \in Limited(fetched \cap Matching(query.filters), query.limit)
    /\ phase' = "done"
    /\ UNCHANGED <<table, pushdown, query, offered, fetched, rows_fetched>>

Next == Plan \/ ScanRaises \/ ScanCount \/ ScanColumns \/ Finish

Spec == Init /\ [][Next]_vars

-------------------------------------------------------------------------------
(* Properties *)

\* Type invariant.
TypeOK ==
    /\ table \in Tables
    /\ pushdown \in BOOLEAN
    /\ phase \in {"planning", "planned", "scanned", "done", "failed"}
    /\ phase # "planning" =>
        query \in [filters : Filters, limit : Limits, columns : SUBSET Columns]
    /\ fetched \subseteq RowIds
    /\ rows_fetched \in 0..Cardinality(RowIds)
    /\ answer \subseteq fetched

\* "The source is only required to return a superset of the matching rows": unless
\* a limit was pushed, a scan returns every row that the query's filters keep,
\* although it is PostgreSQL and not Arrow that compares (src/pushdown.rs:12-19).
SupersetFetched ==
    phase \in {"scanned", "done"} /\ offered.limit = None
        => Matching(query.filters) \subseteq fetched

\* With and without pushdown a query has the same answers: all the matching rows,
\* or any of them up to the limit, never fewer (the rule of pushed_limit).
SameAnswer ==
    phase = "done" => answer \in Limited(Matching(query.filters), query.limit)

\* Pushdown transfers no row that a filter which could be pushed would have kept
\* back, and a count transfers none (rows_fetched).
OnlyNeededRows ==
    rows_fetched > 0 /\ pushdown =>
        /\ ~Counts
        /\ rows_fetched <=
             Cardinality({r \in RowIds : \A f \in query.filters :
                 Translatable(f) => FilterKeeps(f, table[r])})
===============================================================================
