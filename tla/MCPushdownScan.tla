----------------------------- MODULE MCPushdownScan -----------------------------
(* A table of two rows with a number, a string and a uuid each. The strings A   *)
(* and b are ordered one way by the collation and the other way by bytes. A     *)
(* uuid has two spellings, lo and up; bad is a string that is no uuid.          *)
EXTENDS PushdownScan

CONSTANTS A, b, lo, up, bad, nan, far

ValueSet == {0, 1, A, b, lo, up, bad, nan, far}

\* The order of numbers and of bytes.
ArrowOrder == [v \in ValueSet |->
    CASE v = 0 -> 0 [] v = 1 -> 1 [] v = A -> 4 [] v = b -> 5 [] v = up -> 6
      [] v = lo -> 7 [] v = bad -> 8 [] v = nan -> 10 [] v = far -> 9]

\* The collation is a dictionary's, and the spellings of a uuid are equal.
PgOrder == [ArrowOrder EXCEPT ![A] = 5, ![b] = 4, ![up] = 7]

UncastableUuids == [c \in {"n", "s", "u"} |-> IF c = "u" THEN {bad} ELSE {}]

AllTables == [RowIds -> [n : {0, 1, Null, far}, s : {A, b, Null}, u : {lo}]]

u == Column("u")
n == Column("n")
s == Column("s")

Predicates ==
    {Comparison(n, op, Literal(1)) : op \in {"=", "<>", "<", "<=", ">", ">="}}
    \cup {Comparison(Literal(0), op, n) : op \in {"=", "<", ">="}}
    \cup {Comparison(s, op, Literal(A)) : op \in {"=", "<>", "<", ">="}}
    \cup {Comparison(Literal(b), "<", s), Comparison(u, "=", Literal(bad)),
          Comparison(u, "<>", Literal(lo)), InList(u, {Literal(bad)}, FALSE),
          Comparison(n, "=", Literal(Null)), Comparison(n, "<>", Literal(nan)),
          Comparison(n, "=", Computed(1)), Comparison(n, "=", n),
          IsNull(n), IsNotNull(s), IsNull(Computed(1)),
          InList(n, {Literal(0), Literal(1)}, FALSE),
          InList(s, {Literal(A)}, TRUE),
          InList(n, {Literal(0), Literal(Null)}, TRUE),
          InList(n, {n}, FALSE), InList(n, {}, TRUE),
          OtherExpr([n : {0}, s : {A, b, Null}, u : {lo}])}

\* No filter, one filter of one or two predicates, or two filters.
Chosen == {Comparison(n, "<", Literal(1)), Comparison(s, "<", Literal(A)),
           InList(s, {Literal(A)}, TRUE), Comparison(n, "=", Computed(1))}

AllFilters ==
    {{}} \cup {{{p}} : p \in Predicates}
    \cup {{{p, q}} : p \in Chosen, q \in Chosen}
    \cup {{{p}, {q}} : p \in Chosen, q \in Chosen}

\* Filters that spell a uuid otherwise than PostgreSQL prints it.
UuidFilters == {{{Comparison(u, op, Literal(up))}} : op \in {"=", "<>"}}

LimitSet == {None, 0, 1}

\* The two orders agree on what the queries compare, except for that spelling.
ASSUME FaithfulInstance == FaithfulTo(AllFilters) /\ ~FaithfulTo(UuidFilters)
===============================================================================
