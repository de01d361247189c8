---------------------------- MODULE MCEngineStartup ----------------------------
(* Two sources. The primary lists its schemas against the alphabet and has no   *)
(* allowlist; the second looks at one schema and some tables only. The          *)
(* relations include a table called like the last alias of another one, one     *)
(* with a dot in its name, a reserved name, the legacy table, a view and an     *)
(* unreadable table. A name is the sequence of its parts between `__', so that  *)
(* a qualified alias and a table of that very name are the same name.           *)
EXTENDS EngineStartup

public == <<"public">>
sales == <<"sales">>
orders == <<"orders">>
capitalOrders == <<"Orders">>
ordersOld == <<"orders.old">>
erpPublicOrders == <<"erp", "public", "orders">>
IcebergName == <<"iceberg">>
PgTableName == <<"pg_table">>
MyPgTableName == <<"my_pg_table">>

Relation(schema, name) ==
    [schema |-> schema, name |-> name, base |-> TRUE, readable |-> TRUE]

Join(a, b) == a \o b

\* `Orders' and `orders' are two tables of PostgreSQL and one unquoted name; of
\* `orders.old' the first part is read as a schema that is not there.
ReadUnquoted(n) ==
    IF "orders.old" \in Range(n) THEN Elsewhere
    ELSE [i \in DOMAIN n |-> IF n[i] = "Orders" THEN "orders" ELSE n[i]]

Names ==
    <<capitalOrders, erpPublicOrders, IcebergName, MyPgTableName, orders, ordersOld,
      PgTableName, public, sales>>

TwoSources ==
    <<[name |-> <<"crm">>, schemas |-> <<sales, public>>, tables |-> AllTables],
      [name |-> <<"erp">>, schemas |-> <<public>>,
       tables |-> {orders, MyPgTableName, IcebergName}]>>

View == [Relation(sales, IcebergName) EXCEPT !.base = FALSE]
Unreadable == [Relation(sales, PgTableName) EXCEPT !.readable = FALSE]

Relations ==
    {Relation(public, orders), Relation(sales, orders), Relation(public, capitalOrders),
     Relation(public, erpPublicOrders), Relation(public, ordersOld),
     Relation(public, MyPgTableName), Relation(sales, MyPgTableName),
     Relation(public, IcebergName), View, Unreadable}

\* What the second source asks for, one relation of another schema and one of another
\* name.
Second ==
    {Relation(public, orders), Relation(public, MyPgTableName),
     Relation(public, IcebergName), Relation(public, capitalOrders),
     Relation(sales, orders)}

AnyContents == (SUBSET Relations) \X (SUBSET Second)

\* Names that are spelled as DataFusion spells them but for their case.
Undotted == (SUBSET (Relations \ {Relation(public, ordersOld)})) \X (SUBSET Second)
===============================================================================
