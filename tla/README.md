# Igloo in TLA+

A verification project for Igloo (`src/`): a SQL server that speaks the
PostgreSQL wire protocol, answers from Parquet files and PostgreSQL sources
through DataFusion, and keeps query results in a cache that a CDC listener
invalidates. The modules model the parts that carry the program's own logic;
TLC checks them on small instances, and TLAPS proves the main safety properties
for every value of the constants.

## 1. The system

| Part | Source | State | Operations | Interacts with |
|---|---|---|---|---|
| query cache | `cache_layer.rs` | `Inner` behind a mutex: `store`, `tick`, four counters; an injected clock read *before* the lock | `get`, `set`, `clear`, `len`, `is_empty`, `stats` | called by every handler and by the listener |
| CDC listener | `cdc_sync.rs` | `processed`; the directory it polls | `sync`, `spawn_polling` | reads event files, calls `is_empty` and `clear` |
| pgwire server, handlers | `server.rs` | per connection, the message being handled | `do_query` (simple, extended), describe | cache and engine |
| pgwire server, parameters | `server.rs` | prepared statements and portals of a session | Parse, Describe, Bind, Execute | the engine's inferred types |
| pgwire server, encoding | `server.rs` | none | `batches_to_response`, `encode_cell` | |
| catalog | `catalog.rs` | none | `introspect`, `order_by_schema_priority`, `resolve_aliases` | the databases' `information_schema` |
| engine | `datafusion_engine.rs` | registered catalogs and the default schema; one connection for each source | startup, `query`, `query_with_params`, `describe_query` | DataFusion, all sources |
| table scan | `postgres_table.rs` | the client connection, `rows_fetched` | `supports_filters_pushdown`, `scan` | PostgreSQL |
| filter pushdown | `pushdown.rs` | none | `translate_filter` | the scan |
| configuration | `config.rs` | none | resolution of file and environment, validation | start of the program |
| program | `main.rs` | the process and its exit code | the plain command (one query, ADBC, one sync), `serve`, `crypto-demo` | starts everything else |
| crypto demo | `crypto_metrics.rs` | the sample file | writing the file, the suite of metrics | its runs share a directory |
| ADBC example | `adbc_postgres.rs` | none | one query | the plain command |

What is hard in this code, and what makes each part correct:

* **Cache under concurrency.** The clock is sampled before the mutex is taken,
  so calls are served out of the order of their times. Correct means: capacity
  kept, the least recently used entry evicted and no other, an entry served at
  most `ttl` after the set that made it, counters that add up.
* **Invalidation against queries in flight.** A query awaits the engine between
  `cache.get` and `cache.set`; `sync` lists, reads, tests `is_empty` and clears
  in separate steps. Correct means: nothing that was in the cache before an
  invalidation is there after it, each event file invalidates once, and every
  one that does not stay unreadable invalidates in the end.
* **A shared cache whose key has no parameter values.** Correct means that no
  connection is given the result of another statement or another binding.
* **Startup.** Names from several sources and schemas compete; correct means
  that canonical names are complete, a table goes without a short name only if all
  it could have are taken, bare names go to the first source and schema configured,
  and the legacy name to the first `my_pg_table`.
* **One connection for each source.** The scans of all queries go over it, in the
  order they were sent, and nothing opens it again once it is lost. Correct means
  that no query waits for a reply that cannot come, none returns rows that were read
  before it began, and none fails for a source it does not read.
* **Pushdown.** Two evaluators with different orders see the same filter, and a
  limit may be pushed below a filter. Correct means that the answer does not
  depend on pushdown.
* **Parameters.** Describe, the client and Execute each have an idea of a
  parameter's type. Correct means that a value arrives as the client meant it.
* **Configuration.** Flat keys and `[[sources]]`, environment over file, a cast
  between reading and validating a number. Correct means that whatever loads is
  usable by the rest of the program, that a credential goes to its own source, and
  that no variable is overruled in silence.
* **The program.** Tasks that may die alone, errors in the middle of a command.
  Correct means that a serving process polls and that the exit code of the plain
  command tells whether its query and the ADBC query were done. It tells nothing of
  the sync between them and the end: `CdcListener::sync` logs what fails and returns a
  count.
* **The sample file.** Several runs may find the directory empty and write the file
  at once. Correct means that what they leave behind is whole.

`PROJECT.json` lists every hazard at its line with the properties that cover it,
or with the reason why none does.

## 2. The modules

```
RecencyCache        abstract cache: a list in order of use
   ^ refined by
SharedCache  ----->  CacheLayer  <-----  CdcSync  <-----  IglooServe
   |                     |                                   |   | refines
SharedCacheProofs   CacheLayerProofs  <-------------  IglooServeProofs
                                                                 v
                          AnswerService      abstract server: atomic invalidations

EngineStartup  <-----  EngineScans             Configuration   CryptoDemo
   |                      |                            ^           ^
EngineStartupProofs <- EngineScansProofs               IglooMain
                                                           |
PushdownScan <- PushdownScanProofs                    IglooMainProofs
ParamBinding <- ParamBindingProofs
```

An arrow `A -> B` or `B <- A` means that A extends B.

* **CacheLayer**: the state behind the mutex, one action per critical section
  (`GetHit`, `GetExpired`, `GetAbsent`, `SetRoomy`, `SetEvicting`, `Clear`). The
  caller's clock reading is a parameter. A `HashMap` is a function on the cached
  keys; the victim is any key with the smallest stamp.
* **SharedCache**: threads that read the clock (`InvokeGet`, `InvokeSet`) and
  later get the lock (`LockedGet`, `LockedSet`); `clear` reads no clock.
* **RecencyCache**: what a caller may rely on, without ticks or stamps: a list of
  results, oldest use first. `SharedCache` refines it with `entries <- ByRecency`.
* **CdcSync**: the polling task in the steps between which others run: listing,
  one step per file, the emptiness test, the clear; and the writers of the
  directory (external), which publish event files, possibly unreadable at first,
  possibly while the directory is being listed, may overwrite them with the event of
  a later change, and may remove them and put them back at any moment
  (`WithdrawEvent`, `RepairEvent`). To `sync` a path that was listed and is gone is
  one that cannot be read, and one that is gone before the listing is not looked at:
  neither is marked. So a removed file is kept in `files` as an unreadable one.
* **IglooServe**: `igloo serve`: connections, the polling task, and the sources,
  composed over one `CacheLayer`. A handler is `Receive`, `Hit`/`NoHit`,
  `Execute`/`Fail`, `FinishSimple`/`FinishExtended`. The two protocols differ as
  in the code: the simple handler encodes before `cache.set`, the extended one
  after it. A result is represented by its statement, its binding and the version
  of the data it was read from. `announced`, `syncs`, `readAt` and `setAt` exist
  for the properties only.
* **AnswerService**: what the clients of the server may rely on: an answer is read by
  the engine for the request, or is a shared answer to the same statement;
  invalidations happen at once and leave nothing to share; what is shared was read
  for a statement without parameters. `IglooServe` refines it: the shared answers
  are the contents of the cache, an answer in hand is the result of a handler that
  has not finished, and the last step of a sync is the invalidation.
* **EngineStartup**: connection and introspection of the sources in configured
  order, registration of catalogs, aliases one by one, the legacy name. Names are
  values; `Qualified` is `"{}__{}"`, so that the qualified alias of one table can be
  the plain name of another. `register_table` parses an alias as a reference to a
  table, which is DataFusion's part: `Reads(n)` is the table of the default schema
  that it reads `n` as, folded unless quoted, or `Elsewhere` if a dot makes a schema
  of its first part. A name that is read elsewhere, or is taken, ends the startup
  (`NameRefused`). Of `Reads` and `Qualified` two things are assumed: the reserved
  names, lower-case words, are read as they are and no qualified name is
  `my_pg_table` (`LegacyAssumption`), and a qualified alias is not read as the bare
  name within it (`ReadsAssumption`). An alias whose dotted parts spell a schema that
  was registered just before, as `crm.public.t` would, is taken for `Elsewhere` too,
  though DataFusion would hand it to that schema. `resolve_aliases` is a recursion
  over the list of tables. `Holdings` bounds the contents that a run starts on.
* **EngineScans**: the engine from its startup on, with the connection of each source
  and the queries in flight over them: `Begin`, `Send` and `Answer` of each scan,
  `Fail` and `Finish`, `LoseConnection`. A failed query leaves its requests on the
  connections; their replies are dropped.
* **PushdownScan**: one query over one table. `TranslatePredicate` is
  `translate_filter`; `Conjuncts`, `PushedLimit` and `ScanResults` are `scan` and
  `build_scan_sql`. A value is known by its rank in PostgreSQL's order for its
  column and its rank in Arrow's. A query reads some of the columns, those of its
  filters among them, or only counts; a value that Arrow cannot hold fails the scan
  if its column is projected. The planner is external and may hand over the
  supported filters without the limit, as DataFusion does for `Inexact` filters,
  or all filters with the limit, as the contract of `scan` allows.
* **ParamBinding**: Parse, Describe, Bind and Execute of one statement. A value is
  known by the type and format it was encoded in; decoding yields the value
  meant, another one, or an error.
* **Configuration**: `load`, `load_file`, `from_sources`, `resolve_postgres_sources`,
  `resolve_named_source` and the validation, as operators from an environment and
  files to a configuration or a refusal. Texts are known by what the code asks of
  them: whether they are blank, what they are trimmed, split, parsed and
  uppercased to. Whatever is wrong ends the load alike, so that the stages of the
  code are conjuncts of `Loads`.
* **CryptoDemo**: runs of `crypto-demo` over one directory: the test for a `.parquet`
  file, the file created and written piece by piece at each writer's own offset,
  the suite of metrics; and the end of a run at any of these points.
* **IglooMain**: `main`: processes that load a configuration, start engine, cache,
  polling task and listener, accept connections, or run the plain command; and the
  code each exits with. It composes `Configuration` and `CryptoDemo`.

`MCSharedCache`, `MCIglooServe`, `MCEngineStartup`, `MCEngineScans`, `MCPushdownScan`
and `MCIglooMain` give the instances; `ParamBinding` is run as it is. Operators marked "Variant" are the
plausible mistakes listed under `mutants`: with one of them in place of the
definition below it, TLC finds the property violated, which shows that the
property depends on that code. They are used by nothing else.

## 3. The runs

| Run | Shows | Instance |
|---|---|---|
| `shared_cache` | types, capacity, stamps, counters, and the refinement of `RecencyCache` | 2 threads, 3 keys, capacity 2, ttl 1, clock to 2, calls begin up to tick 4 |
| `serve_safety` | answers belong to their requests, no entry survives a sync, each event invalidates once | 2 interchangeable connections, 6 requests (both protocols, a parameter, an unencodable query, a statement with effects), 2 interchangeable events, removed and rewritten, 2 versions, messages received below tick 2 |
| `serve_liveness` | every message is answered, every event is handled unless its file is gone or unreadable time and again; the refinement of `AnswerService` | 2 connections, 2 events, removed and rewritten, 2 requests of either protocol, capacity 1 |
| `hits_fresh` | *violated*: hits can be older than a handled change | 2 connections, 1 event |
| `existing_events` | *violated*: a query can be cached before the pre-existing events are read | as above, 1 event at startup |
| `engine` | canonical names, short names unless taken, order of bare names, the legacy name; no query hangs on a lost source, fails for another's or returns rows read before it began | 2 sources, all 32768 pairs of contents started on, of 10 relations for the primary and 5 for the other; where each source has one table, 2 interchangeable queries of up to 2 tables, 2 requests on a connection, 2 versions |
| `collisions` | *violated*: names that differ by case end the startup | the same contents without the dotted name |
| `pushdown` | superset, same answer, only needed rows | all tables of 2 rows, 43 sets of filters, every projection that has their columns, limits none, 0, 1 |
| `uuid_pushdown` | *violated*: `<>` on a uuid in upper case | filters on the uuid column |
| `param_binding` | values arrive as meant, Describe is honoured | 2 ordinals, 6 declared and 6 inferred types |
| `declared_types` | *violated*: a declared type does not win | FLOAT8 or INT8 declared, INT8 inferred |
| `program` | what loads is usable and was asked for, the exit code tells whether the queries were done, a server polls; the sample file is whole | four families of environments and files (flat keys, `[[sources]]`, numbers and paths, choice of the file), each as `serve` and as plain command, 1 connection, usize below 2048; 2 runs of the crypto demo, 3 pieces, 2 metrics |

Why the bounds are enough for the interesting cases: with three keys and a
capacity of two a set of the third key evicts; with a clock to 2 and a ttl of 1
an entry can be fresh at exactly its ttl and then expired, and two calls can wait
with readings in either order; two connections are what it takes for one to fill
and the other to hit, and for a fill to meet an invalidation; two events let one
be announced while the other is being handled. `serve_safety` starts on an empty
directory: a file that is there at startup is one published before anything else
happens, and `existing_events` has one. Every `get` and `set` is a tick, and a message
is received only while the tick is below `MaxTick`; what was received before goes on
to its end, so that with `MaxTick = 2` both connections look up and set, or one of
them finds the answer of the other, fresh or expired, with syncs at any moment
between. `serve_liveness` makes do with `MaxTick = 1`: that bounds the messages that
come, not what must become of them. It has no expiration
and no eviction, which do not bear on its questions; that they do not disturb the
refinement is proved (below). `MaxTick` bounds the calls and
`MaxClock`, `MaxVersion` the environment; nothing else is bounded in those
modules, so TLC's state space is the whole one for these sizes. In
`engine` the relations include a table named like another's qualified
alias, one with a dot in its name, `iceberg`, `pg_table`, a `my_pg_table` in either
schema and either source, a view and an unreadable table. In
`pushdown` the strings `A` and `b` are ordered differently by the two evaluators.
Two queries over two connections are what it takes for a reply to meet the wrong
query; one table in each database keeps the states few once the engine serves,
while its startup is explored for all contents. In `program` a usize is small so
that the number 2048, and none below it, is 0 after the cast; lists of two entries
meet each other's names in every spelling. Three pieces are what it takes for a
second writer to empty the file between two writes of the first.

Deadlock checking is on for the cache and the server. It is off where the modelled
run ends: after a refused startup, after a query, after an Execute, after the
process has exited. `Interchangeable` (connections and events of `serve_safety`) and
`AnyQuery` (`engine`) are symmetries of the instances and are used for runs of
invariants only. `shared_cache` permutes threads, keys and results beside its
refinement, which has no liveness part: each step is checked as it is found.

Fairness (`IglooServe`): weak fairness of the polling task, whose interval never
ends and whose steps wait for nothing but short critical sections, and of every
connection's handler, since tokio runs every task that can run. The engine is
taken to answer or fail in the end: a source that never answers is outside the
model. Nothing is assumed of clients, of the sources or of the writers of events,
who may also remove what they wrote: `EveryEventHandled` says that an event whose
path is not marked yet is covered by a finished invalidation in the end, or its file
is gone or unreadable from some moment on, or again and again.

### Findings

1. `hits_fresh`: `server.rs` sets the cache unconditionally after the await; a
   result read before a change and set after the sync that handled it stays for
   up to the ttl, though `main.rs` calls the cache "kept fresh".
   `NoEntrySurvivesSync` is what does hold: such a query was in flight when the
   sync finished.
2. `existing_events`: the first tick is immediate but runs in a spawned task; the
   comment in `spawn_polling` promises that it comes before the first query
   populates the cache.
3. `collisions`: `resolve_aliases` distinguishes names by case and
   `register_table` folds them: the startup fails. A table with a dot in its name
   ends it too, without any collision (`NameRefused`).
4. `uuid_pushdown`: the exclusion of strings looks at ordering comparisons only; a
   uuid is a string to Arrow, but not to PostgreSQL.
5. `declared_types`: Describe reports the declared type and Execute decodes by the
   inferred one; of the same width, the value is silently another. Two comments of
   `server.rs` contradict each other: a declared type wins (line 157, about what is
   reported) and the inferred one comes first (line 427, about decoding).

Two more disagreements were met and have no run. The legacy name `pg_table` goes to
the first `my_pg_table` of *any* source (`datafusion_engine.rs:185`), where the
comment at line 100 speaks of the primary one; `RegisterAlias` models the code. And
`env_u64` promises to fail loudly rather than to ignore a value (`config.rs:493`),
but a variable whose value is not Unicode never reaches it: `load` reads variables
with `std::env::var(..).ok()` (line 160), which takes it for unset. `Var` models the
code, and `EnvironmentWins` is about values that are text.

## 4. The proofs

All proofs are checked by TLAPS, with the assumptions named in the modules
(`MaxEntriesAssumption` and `TtlAssumption` are the asserts of
`Cache::with_clock`; the others type the inputs and keep the special values apart).

* **CacheLayerProofs** states once, for one critical section at a time, that
  `CacheInv` is preserved. `CacheInv` strengthens the checked invariants with the
  finiteness of the store, which the arithmetic of `Cardinality` needs; the
  distinctness of stamps needs that no stamp is ahead of the tick. `GetContents`
  and `SetContents` say what a section can bring into the store: every
  specification that calls the cache cites these lemmas. `VictimIsUnique`: the
  victim of an eviction does not depend on the iteration order of the `HashMap`.
* **SharedCacheProofs**: `TypeCorrect`, `CapacityRespected`, `StampsDistinct`,
  `CountersConserved`, `VictimDetermined`, from `IInv`, which adds that a waiting
  call carries a key and a clock reading; and `RecencyImplemented`, the refinement
  of `RecencyCache`. Its invariant `RInv` adds that some sequence lists the stored
  keys by increasing stamp. `UsedBefore` and `OrderIsListing` show that the counting
  of `ByRecency` yields that sequence; `Leaving` and `EntersLast` show what becomes
  of it when an entry goes or is stamped anew; `HitMoves`, `ExpiredLeaves` and
  `SetMoves` combine them into the steps of the abstract list, the head of which is
  the victim of an eviction.
* **IglooServeProofs**: `ServeTypeCorrect`, `OwnAnswers`, `NothingSurvivesSync`,
  `EachEventOnce`, and `ServeImplements`, the refinement of
  `AnswerService`, for any number of connections, requests and
  events. The inductive invariant has three parts. *Connections*: a handler that
  looks up has a cacheable request, and one that finishes holds the engine's
  answer to its own request. *Cache*: an entry is under its own text, has no
  binding, was set since the last sync, and if it was read since then it has all
  that was announced (`Current`); the same holds of results in flight, which is
  why a set after an invalidation keeps it. *Listener*: listed paths are unmarked
  and a sync that found something has marked one path more than there were syncs,
  which is what makes counting by `Cardinality(processed)` work.
  For the refinement, one lemma for each action names the step of the service that
  it is; clock, writers and the first steps of a sync are stutters.
  `FreshUnlessInFlight` says what `hits_fresh` violates and why: in every behaviour
  in which no sync finishes while a cacheable query has read its data and has its
  result still to set (`NoneInFlight`), every hit has all that was announced.
* **EngineStartupProofs**: `ShortNames`, `LegacyNames`, `CanonicalNames`, `BareNames`
  and `StartTypes`, for every configuration and every `Reads` and `Qualified` that
  the assumptions admit.
  The inductive invariant `StartInv` determines the whole state from the contents of
  the databases and from how far the startup has come: `discovered` is `Discovered(n)`
  for some n, the catalogs are `Tables`, and with the first `done` aliases registered
  (`Registered`) the rest of them is pending and every name in the registry stands
  for what an alias among those gave it. What the properties say then lies in four
  functions, which are dealt with in the order of the data. *Sorting*: `InOrder`
  numbers a finite set by how many elements come before each; `RanksFollowOrder` and
  `RanksFill` show for every strict order that these ranks are distinct and leave no
  gap, so that no table is lost or doubled (`TablesFacts`). *Joining*: `FlatFacts`,
  the lists of the sources, one after another, are complete and in the order of
  configuration. *Aliases*: `AliasFacts`, no two tables get one alias, none gets a
  reserved one, and a table gets its bare name only if no table before it has that
  name: the first one to want it has taken it, or found it taken. `ResolveFates`
  follows one table through the recursion: it has an alias, or each of its three
  names was used before it. *Qualified names*: a name which answers to a table of
  that very name is its bare name (`ReadsAssumption`), and no qualified name is
  `my_pg_table` (`QualifiedIsNotLegacy`), so that the first table of that name has it
  for an alias and is the one bound to the legacy name. Sorting and aliases are recursions over data;
  instead of the library's induction, `AllNumbers` takes the least number at which
  the claim would fail (the naturals are well founded).
  `OnlyReadingEndsStartup` explains `collisions`: if DataFusion reads no alias as a
  name of another schema and different names as different ones (`NamesKeptApart`), no
  startup fails once all sources are connected. Capital letters break the second
  condition, dots the first; nothing else can.
* **EngineScansProofs**: `LiveConnections`, `RowsReadDuringQuery`, `LossContained`,
  for any number of sources, queries and requests. The invariant pairs the two sides
  of a request: an entry of a connection's queue that nobody dropped is a scan that waits, once, on the connection of its own source,
  and a scan that waits has its entry there. Removing the head of a queue keeps the
  pairing, which is where a reply could have gone to the wrong query. Without its
  queries the engine is `EngineStartup` (`Implements`), which carries over what is
  proved of names: `ServingShortNames`, `ServingLegacyName`,
  `ServingIsCanonical`, `ServingPrefersFirst`; and with it `EngineTypes`.
* **IglooMainProofs**: `UsableConfiguration`, `CredentialsStayHome`,
  `CacheBoundsHold`, `PollingBesideClients`, `ExitCodeTells`, for every file,
  environment and width of usize: what a process runs with was resolved from what it
  was started with, and accepted. `ExitCodeTells` follows a process through its
  stages: only behind the query and the ADBC query is the exit code 0, whatever
  becomes of the sync. `SampleIsWhole` and `FailuresExplained` are about
  the run that created the file last: it writes every piece itself, from the first.
  `ProgramTypes` and `EnvironmentDecides`: the configuration in hand is one that the
  launch resolves to, and each variable that is set decides its own setting in every
  one of the resolutions, whichever file was chosen.
* **ParamBindingProofs**: `UndeclaredArrive` and `DescribedAccepted`, for any number
  of parameters and any types. The argument is that what the client encodes by and
  what Execute reads as are alike. That the highest of a set of ordinals exists is
  derived from the well-foundedness of `<` on the naturals. `BindingTypes` needs of the
  types only that a client may declare none (`TypesAssumption`). What
  `declared_types` violates holds where `Agreed` does, which is `UndeclaredArrive`.
* **PushdownScanProofs**: `TranslationExact`, `ScanReturnsSuperset`,
  `PushdownIsTransparent`, `OnlyPushedRowsTransferred`, for every table, every set
  of filters and every limit. The hypothesis `FaithfulTo(Filters)` concerns ranks
  only: where a filter compares a stored value with a literal, the two orders
  agree on equality, and on order unless the literal is a string. `MCPushdownScan`
  has TLC evaluate that it holds of the queries of `pushdown` and fails for those of
  `uuid_pushdown`. What is proved is the code's part: flipped operators, excluded
  literals and operands, lists, conjunctions, and a limit pushed only when all
  filters are. `ScanTypes`: no more is fetched than the table has.

Every invariant, every action property and both refinements that a passing run checks
are thereby proved for all values of the constants that the assumptions admit (the
answers of `PushdownScan` for filters that are `FaithfulTo` their values). Model-checked only: liveness (`EveryRequestAnswered`,
`EveryEventHandled`), since neither fairness nor `ENABLED` can be reasoned about with
the installed provers, and the five violations, which are single behaviours.

## 5. What is not modelled

* `normalize_query`: keys are canonical texts. Whether two texts get one key is a
  matter of characters and is enumerated by the unit tests. A statement is
  cacheable by its key; the code also lets a `SELECT` behind a comment bypass the
  cache, which differs from the model only in bypassing it.
* The encoding of cells and of identifiers and literals: pure conversions. That an
  encoding may fail, and where, is modelled.
* The startup of a connection; `max_rows`, which the code ignores.
* How secrets are kept out of output (`Secret`): formatting.
* In `adbc_postgres.rs`, the driver and the printing of cells: it matters to the
  program only whether the query fails. In `crypto_metrics.rs`, the series and the
  SQL of the metrics: data.
* `errors.rs` and `lib.rs`: types and re-exports without behaviour.
* A source that never answers, although its connection lives: no part of the code
  has a timeout, and a query over such a source waits as long.

## 6. Plan

Built, in this order: the cache and its refinement; the listener and the server;
startup, pushdown and parameters; event files that are rewritten and removed; the connections of
the sources; configuration, program and crypto demo; the abstract server, and the
proofs that the server and the shared cache implement their abstract specifications;
the proofs about names and of all types.

What is left, in order of importance:

1. `EngineScans` under `IglooServe`: the engine's answer as the scans of its tables
   at different moments, so that a cached result may combine versions of several
   sources, and what an invalidation then promises for each of them.
2. `PushdownScan` over several tables of a query, with the steps of `EngineScans`.
