----------------------------- MODULE EngineStartup -----------------------------
(* Startup of the engine: src/catalog.rs introspects every configured source    *)
(* and src/datafusion_engine.rs registers what it finds, under a canonical      *)
(* three-part name and under an unqualified alias of the default catalog. One   *)
(* action per source connected, per catalog and per alias registered; any error *)
(* ends the startup.                                                            *)
EXTENDS Integers, Sequences, FiniteSets, SequencesExt

CONSTANTS Config,       \* configured sources: <<[name, schemas, tables], ...>>
          AllTables,    \* `tables' when there is no allowlist
          Universe,     \* relations a database may hold:
                        \* [schema, name, base : BOOLEAN, readable : BOOLEAN]
          Holdings,     \* bound: contents of the databases that it starts on
          Alphabet,     \* every name, in alphabetical order
          Qualified(_, _),      \* the name "{}__{}"
          Reads(_),     \* the table of the default schema that DataFusion
                        \* reads a name as, or Elsewhere (external)
          Elsewhere,
          Iceberg, PgTable, MyPgTable   \* ICEBERG_TABLE, LEGACY_ALIAS and
                                        \* LEGACY_SOURCE_TABLE

ASSUME AlphabetAssumption == Alphabet \in Seq(Range(Alphabet))
ASSUME UniverseAssumption ==
    /\ IsFiniteSet(Universe)
    /\ Universe \subseteq
           [schema : Range(Alphabet), name : Range(Alphabet),
            base : BOOLEAN, readable : BOOLEAN]
ASSUME ConfigAssumption ==
    /\ Len(Config) \in Nat
    /\ \A i \in 1..Len(Config) : Config[i].schemas \in Seq(Range(Alphabet))
ASSUME HoldingsAssumption == Holdings \subseteq [1..Len(Config) -> SUBSET Universe]

VARIABLES databases,    \* per source, the relations in its database
          phase,        \* "connecting", "aliasing", "serving", "failed"
          discovered,   \* per source reached so far, its tables in order
          catalogs,     \* canonical names registered
          pending,      \* aliases still to be registered
          registry,     \* the default catalog: name as read -> table
          legacy        \* legacy_registered

vars == <<databases, phase, discovered, catalogs, pending, registry, legacy>>

SourceIds == 1..Len(Config)

\* A relation together with the source it belongs to.
Located(i, t) == [source |-> i, schema |-> t.schema, name |-> t.name]

Parquet == [source |-> 0, schema |-> << >>, name |-> Iceberg]

Position(s, x) == CHOOSE i \in 1..Len(s) : s[i] = x

\* The elements of a finite set in the order of Before.
InOrder(S, Before(_, _)) ==
    [i \in 1..Cardinality(S) |->
        CHOOSE t \in S : Cardinality({u \in S : Before(u, t)}) = i - 1]

-------------------------------------------------------------------------------
(* src/catalog.rs *)

\* INTROSPECT_SQL, and the omission of tables none of whose columns has an Arrow
\* type.
Introspected(i) ==
    {t \in databases[i] :
        /\ t.base
        /\ t.schema \in Range(Config[i].schemas)
        /\ Config[i].tables = AllTables \/ t.name \in Config[i].tables
        /\ t.readable}

Rank(i, t) == Position(Config[i].schemas, t.schema)

\* Variants: the order of the query, schemas by alphabet, is kept; only the schema
\* listed first is looked at.
ByQueryOrder(i) ==
    InOrder(Introspected(i),
        LAMBDA t, u :
            \/ Position(Alphabet, t.schema) < Position(Alphabet, u.schema)
            \/ /\ t.schema = u.schema
               /\ Position(Alphabet, t.name) < Position(Alphabet, u.name))

FirstListedSchema(i) ==
    InOrder({t \in Introspected(i) : Rank(i, t) = 1},
        LAMBDA t, u : Position(Alphabet, t.name) < Position(Alphabet, u.name))

\* order_by_schema_priority: earlier-listed schemas first, then by table name.
TablesOf(i) ==
    InOrder(Introspected(i),
        LAMBDA t, u :
            \/ Rank(i, t) < Rank(i, u)
            \/ /\ Rank(i, t) = Rank(i, u)
               /\ Position(Alphabet, t.name) < Position(Alphabet, u.name))

Candidates(t) ==
    <<t.name,
      Qualified(t.schema, t.name),
      Qualified(Config[t.source].name, Qualified(t.schema, t.name))>>

\* The constants of the code are lower-case words, distinct and without `__'.
ASSUME LegacyAssumption ==
    /\ Reads(Iceberg) = Iceberg /\ Reads(PgTable) = PgTable
    /\ Iceberg # PgTable /\ MyPgTable \notin {Iceberg, PgTable}
    /\ \A i \in SourceIds, t \in Universe : \A k \in 2..3 :
          Candidates(Located(i, t))[k] # MyPgTable

\* What qualifies a name is read as part of it.
ASSUME ReadsAssumption ==
    \A i \in SourceIds, t \in Universe : \A k \in 2..3 :
        Reads(Candidates(Located(i, t))[k]) # t.name

\* Variant: a qualified name is tried once.
ResolveQualifiedOnce(acc, t) ==
    LET free  == {k \in 1..2 : Candidates(t)[k] \notin acc.used}
        alias == Candidates(t)[Min(free)]
    IN IF free = {} THEN acc
       ELSE [used    |-> acc.used \cup {alias},
             aliases |-> Append(acc.aliases, [alias |-> alias, table |-> t])]

\* One table of resolve_aliases: the first free candidate, or none.
Resolve(acc, t) ==
    LET free  == {k \in 1..3 : Candidates(t)[k] \notin acc.used}
        alias == Candidates(t)[Min(free)]
    IN IF free = {} THEN acc
       ELSE [used    |-> acc.used \cup {alias},
             aliases |-> Append(acc.aliases, [alias |-> alias, table |-> t])]

Reserved == {Iceberg, PgTable}

ResolveAliases(tables) ==
    LET resolved[n \in 0..Len(tables)] ==
            IF n = 0 THEN [used |-> Reserved, aliases |-> << >>]
            ELSE Resolve(resolved[n - 1], tables[n])
    IN resolved[Len(tables)].aliases

-------------------------------------------------------------------------------
(* src/datafusion_engine.rs *)

\* register_iceberg_table comes first.
Init ==
    /\ databases \in Holdings
    /\ phase = "connecting"
    /\ discovered = << >>
    /\ catalogs = {}
    /\ pending = << >>
    /\ registry = [n \in {Iceberg} |-> Parquet]
    /\ legacy = FALSE

Failed ==
    /\ phase' = "failed"
    /\ UNCHANGED <<databases, discovered, catalogs, pending, registry, legacy>>

\* A connection or its introspection fails.
ConnectFails ==
    /\ phase = "connecting"
    /\ Len(discovered) < Len(Config)
    /\ Failed

\* Sources are connected to and introspected in configured order. A source without
\* tables is no error.
Connect ==
    /\ phase = "connecting"
    /\ Len(discovered) < Len(Config)
    /\ LET i == Len(discovered) + 1 IN
       discovered' = Append(discovered,
           [k \in 1..Len(TablesOf(i)) |-> Located(i, TablesOf(i)[k])])
    /\ UNCHANGED <<databases, phase, catalogs, pending, registry, legacy>>

\* <source>.<schema>.<table> for every table found, one catalog per source.
RegisterCatalogs ==
    /\ phase = "connecting"
    /\ Len(discovered) = Len(Config)
    /\ catalogs' = UNION {Range(discovered[i]) : i \in SourceIds}
    /\ pending' = ResolveAliases(FlattenSeq(discovered))
    /\ phase' = "aliasing"
    /\ UNCHANGED <<databases, discovered, registry, legacy>>

Bind(reg, name, table) ==
    [n \in DOMAIN reg \cup {name} |-> IF n = name THEN table ELSE reg[n]]

\* Variants: the provider scans the alias instead of the table's own name; only a
\* my_pg_table of the primary source gets the legacy name.
RegisterAliasRenamed ==
    /\ phase = "aliasing"
    /\ pending # << >>
    /\ LET a    == Head(pending)
           name == Reads(a.alias)
           old  == ~legacy /\ a.table.name = MyPgTable
       IN /\ name \notin DOMAIN registry \cup {Elsewhere}
          /\ registry' = Bind(registry, name, [a.table EXCEPT !.name = a.alias])
          /\ legacy' = (legacy \/ old)
    /\ pending' = Tail(pending)
    /\ UNCHANGED <<databases, phase, discovered, catalogs>>

RegisterAliasPrimaryLegacy ==
    /\ phase = "aliasing"
    /\ pending # << >>
    /\ LET a    == Head(pending)
           name == Reads(a.alias)
           reg  == Bind(registry, name, a.table)
           old  == ~legacy /\ a.table.name = MyPgTable /\ a.table.source = 1
       IN /\ name \notin DOMAIN registry \cup {Elsewhere}
          /\ old => PgTable \notin DOMAIN reg
          /\ registry' = IF old THEN Bind(reg, PgTable, a.table) ELSE reg
          /\ legacy' = (legacy \/ old)
    /\ pending' = Tail(pending)
    /\ UNCHANGED <<databases, phase, discovered, catalogs>>

\* ctx.register_table parses the alias as a reference to a table. It folds what is
\* not quoted, takes what precedes a dot for a schema, and refuses a name of another
\* schema or one that is taken. The first my_pg_table registered is bound to pg_table
\* too.
RegisterAlias ==
    /\ phase = "aliasing"
    /\ pending # << >>
    /\ LET a    == Head(pending)
           name == Reads(a.alias)
           reg  == Bind(registry, name, a.table)
           old  == ~legacy /\ a.table.name = MyPgTable
       IN /\ name \notin DOMAIN registry \cup {Elsewhere}
          /\ old => PgTable \notin DOMAIN reg
          /\ registry' = IF old THEN Bind(reg, PgTable, a.table) ELSE reg
          /\ legacy' = (legacy \/ old)
    /\ pending' = Tail(pending)
    /\ UNCHANGED <<databases, phase, discovered, catalogs>>

NameRefused ==
    /\ phase = "aliasing"
    /\ pending # << >>
    /\ LET a == Head(pending) IN
       \/ Reads(a.alias) \in DOMAIN registry \cup {Elsewhere}
       \/ /\ ~legacy /\ a.table.name = MyPgTable
          /\ PgTable \in DOMAIN registry \cup {Reads(a.alias)}
    /\ Failed

Serve ==
    /\ phase = "aliasing"
    /\ pending = << >>
    /\ phase' = "serving"
    /\ UNCHANGED <<databases, discovered, catalogs, pending, registry, legacy>>

Next ==
    \/ ConnectFails \/ Connect \/ RegisterCatalogs
    \/ RegisterAlias \/ NameRefused \/ Serve

Spec == Init /\ [][Next]_vars

-------------------------------------------------------------------------------
(* Properties *)

AllFound == {Located(i, t) : i \in SourceIds, t \in Universe}

\* The shape of the registration state.
TypeOK ==
    /\ databases \in [SourceIds -> SUBSET Universe]
    /\ phase \in {"connecting", "aliasing", "serving", "failed"}
    /\ \A i \in 1..Len(discovered) : Range(discovered[i]) \subseteq AllFound
    /\ catalogs \subseteq AllFound
    /\ \A i \in 1..Len(pending) : pending[i].table \in AllFound
    /\ Range(registry) \subseteq AllFound \cup {Parquet}
    /\ legacy \in BOOLEAN

Asked(i, t) ==
    /\ \E k \in 1..Len(Config[i].schemas) : Config[i].schemas[k] = t.schema
    /\ Config[i].tables # AllTables => t.name \in Config[i].tables

\* Every base table that the configuration asks for and that has a readable column
\* answers to its canonical name once the engine serves, whatever its neighbours
\* are called and whether or not an alias was left for it; nothing else does.
CanonicalNamesComplete ==
    phase = "serving" =>
        \A i \in SourceIds, t \in Universe :
            Located(i, t) \in catalogs <=>
                \E u \in databases[i] :
                    /\ Located(i, u) = Located(i, t)
                    /\ u.base /\ u.readable /\ Asked(i, u)

Earlier(t, u) ==
    \/ t.source < u.source
    \/ /\ t.source = u.source
       /\ Position(Config[t.source].schemas, t.schema)
            < Position(Config[u.source].schemas, u.schema)

\* An unqualified name that resolves to a table of that name resolves to the first
\* one in the order of configuration: earlier sources first, and within a source
\* the schema that the configuration lists first. So the primary source keeps the
\* bare names.
BareNameGoesToFirst ==
    \A n \in DOMAIN registry :
        registry[n].name = n =>
            \A t \in catalogs : t.name = n => ~Earlier(t, registry[n])

\* No table goes without a short name while one of the three it could have had is
\* free (resolve_aliases): each of them is reserved or stands for another table.
NamedUnlessTaken ==
    phase = "serving" =>
        \A t \in catalogs :
            \/ t \in Range(registry)
            \/ \A k \in 1..3 :
                  \/ Candidates(t)[k] \in Reserved
                  \/ Reads(Candidates(t)[k]) \in DOMAIN registry

\* The legacy name stands for the first my_pg_table of the configuration, whichever
\* source that is in, also when later sources have tables of that name.
LegacyIsFirst ==
    phase = "serving" =>
        \A t \in catalogs : t.name = MyPgTable =>
            /\ PgTable \in DOMAIN registry
            /\ registry[PgTable].name = MyPgTable
            /\ ~Earlier(t, registry[PgTable])

\* Collisions of names are broken by aliasing (register_postgres_sources): once all
\* sources are connected and introspected the startup does not fail.
CollisionsAreBroken ==
    [][phase = "aliasing" => phase' # "failed"]_vars
===============================================================================
