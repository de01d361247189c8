----------------------------- MODULE Configuration -----------------------------
(* Resolution of the configuration file and the environment (src/config.rs).    *)
(* Texts are known by what the code asks of them. An environment is a function   *)
(* on the names of the variables that are set, a name being the sequence of its  *)
(* parts; a file is a record with Unset for the keys it does not have. Whatever  *)
(* is wrong ends the load with an error and nothing else, so that the stages of  *)
(* the code are conjuncts of Loads.                                              *)
EXTENDS Integers, Sequences, FiniteSets

CONSTANTS Unset, NotUnicode,    \* no value; a variable's value that is no text
          Absent, Broken,       \* in place of a file: none there, unusable
          Blank,                \* texts that are empty when trimmed
          Trim(_),              \* str::trim
          Upper(_),             \* str::to_ascii_uppercase
          Csv(_),               \* split_csv
          Number(_), Malformed, \* str::parse::<u64>
          Identifiers,          \* lowercase letters, digits, underscores
          ConnectionStrings,    \* texts that look like a URI or key-value pairs
          SocketAddresses,      \* texts that parse as one
          Usize                 \* usize is the numbers below it

ASSUME UnsetAssumption == Unset # << >> /\ Unset \notin Nat \cup {Malformed}
ASSUME UsizeAssumption == Usize \in Nat \ {0}
\* to_ascii_uppercase keeps names apart that have no uppercase letter.
ASSUME UpperAssumption ==
    \A a, b \in Identifiers : Upper(a) = Upper(b) => a = b

-------------------------------------------------------------------------------
(* Where a value comes from *)

\* std::env::var(key).ok(): what is not Unicode counts as not set.
Var(env, key) ==
    IF key \in DOMAIN env /\ env[key] # NotUnicode THEN env[key] ELSE Unset

Or(a, b) == IF a = Unset THEN b ELSE a

\* Variant: the file takes precedence.
FileFirst(env, key, value) == Or(value, Var(env, key))

EnvFirst(env, key, value) == Or(Var(env, key), value)

EnvCsv(env, key) == IF Var(env, key) = Unset THEN Unset ELSE Csv(Var(env, key))

\* env_u64
EnvNumber(env, key) == IF Var(env, key) = Unset THEN Unset ELSE Number(Var(env, key))

Numeric == {<<"IGLOO_CACHE_MAX_ENTRIES">>, <<"IGLOO_CACHE_TTL_SECONDS">>,
            <<"IGLOO_CDC_POLL_SECONDS">>}

\* A file that IGLOO_CONFIG names must exist, igloo.toml need not.
ConfigPath(env) == EnvFirst(env, <<"IGLOO_CONFIG">>, "igloo.toml")

EmptyFile ==
    [parquet_path |-> Unset, cdc_path |-> Unset, postgres_uri |-> Unset,
     postgres_schemas |-> Unset, sources |-> Unset, listen_addr |-> Unset,
     cache_max_entries |-> Unset, cache_ttl_seconds |-> Unset,
     cdc_poll_seconds |-> Unset]

LoadFile(env, files) ==
    LET content == files[ConfigPath(env)]
    IN IF content = Absent /\ Var(env, <<"IGLOO_CONFIG">>) = Unset
       THEN EmptyFile ELSE content

-------------------------------------------------------------------------------
(* Sources *)

SourceKey(name, suffix) == <<"IGLOO_SOURCE", Upper(name), suffix>>

FlatUri(env) == EnvFirst(env, <<"DATABASE_URL">>, Var(env, <<"IGLOO_POSTGRES_URI">>))

FlatSource(file, env) ==
    [name    |-> "postgres",
     uri     |-> Or(FlatUri(env), file.postgres_uri),
     schemas |-> Or(EnvCsv(env, <<"IGLOO_POSTGRES_SCHEMAS">>),
                    Or(file.postgres_schemas, <<"public">>)),
     tables  |-> Unset]

\* Variant: the flat variables stand in for an entry without a uri.
NamedSourceOrFlat(entry, env) ==
    [name    |-> Trim(entry.name),
     uri     |-> Or(EnvFirst(env, SourceKey(Trim(entry.name), "URI"), entry.uri),
                    FlatUri(env)),
     schemas |-> Or(EnvCsv(env, SourceKey(Trim(entry.name), "SCHEMAS")),
                    Or(entry.schemas, <<"public">>)),
     tables  |-> entry.tables]

NamedSource(entry, env) ==
    [name    |-> Trim(entry.name),
     uri     |-> EnvFirst(env, SourceKey(Trim(entry.name), "URI"), entry.uri),
     schemas |-> Or(EnvCsv(env, SourceKey(Trim(entry.name), "SCHEMAS")),
                    Or(entry.schemas, <<"public">>)),
     tables  |-> entry.tables]

\* The flat variables are ignored beside [[sources]].
Sources(file, env) ==
    IF file.sources = Unset
    THEN <<FlatSource(file, env)>>
    ELSE [i \in 1..Len(file.sources) |-> NamedSource(file.sources[i], env)]

OneForm(file) ==
    file.sources # Unset => file.postgres_uri = Unset /\ file.postgres_schemas = Unset

Reserved == {"datafusion", "information_schema"}

\* Variant: any text will do for a name.
ValidNameAnyCase(name) == name \notin Blank \cup Reserved

\* validate_source_name
ValidName(name) == name \in Identifiers \ Reserved

NoBlanks(list) == list # << >> /\ \A i \in 1..Len(list) : list[i] \notin Blank

\* Variant: each source is looked at alone.
ValidSourceAlone(sources, i) ==
    /\ ValidName(sources[i].name)
    /\ sources[i].uri \in ConnectionStrings
    /\ NoBlanks(sources[i].schemas)
    /\ sources[i].tables # Unset => NoBlanks(sources[i].tables)

\* One source of validate_sources, which also meets a uri that was not given.
ValidSource(sources, i) ==
    /\ ValidName(sources[i].name)
    /\ \A j \in 1..(i - 1) : sources[j].name # sources[i].name
    /\ sources[i].uri \in ConnectionStrings
    /\ NoBlanks(sources[i].schemas)
    /\ sources[i].tables # Unset => NoBlanks(sources[i].tables)

-------------------------------------------------------------------------------
(* The configuration *)

DefaultMaxEntries == 1024
DefaultTtlSeconds == 300
DefaultPollSeconds == 10

Asked(env, key, value, default) == Or(EnvNumber(env, key), Or(value, default))

\* Variant: as if usize were as wide as u64.
AsU64(n) == n

\* `as usize' keeps the low bits.
AsUsize(n) == n % Usize

\* from_sources, once nothing is missing or malformed.
Resolved(file, env) ==
    [parquet_path      |-> EnvFirst(env, <<"IGLOO_PARQUET_PATH">>, file.parquet_path),
     cdc_path          |-> EnvFirst(env, <<"IGLOO_CDC_PATH">>, file.cdc_path),
     postgres_sources  |-> Sources(file, env),
     listen_addr       |-> EnvFirst(env, <<"IGLOO_LISTEN_ADDR">>, file.listen_addr),
     cache_max_entries |-> AsUsize(Asked(env, <<"IGLOO_CACHE_MAX_ENTRIES">>,
                                         file.cache_max_entries, DefaultMaxEntries)),
     cache_ttl         |-> Asked(env, <<"IGLOO_CACHE_TTL_SECONDS">>,
                                 file.cache_ttl_seconds, DefaultTtlSeconds),
     cdc_poll_interval |-> Asked(env, <<"IGLOO_CDC_POLL_SECONDS">>,
                                 file.cdc_poll_seconds, DefaultPollSeconds)]

\* Variant: the bounds are checked as they were written, before the cast.
PositiveAsAsked(file, env) ==
    /\ Asked(env, <<"IGLOO_CACHE_MAX_ENTRIES">>, file.cache_max_entries,
             DefaultMaxEntries) > 0
    /\ Resolved(file, env).cache_ttl > 0
    /\ Resolved(file, env).cdc_poll_interval > 0

\* Variant: the polling interval is not checked.
PositiveCacheBounds(file, env) ==
    /\ Resolved(file, env).cache_max_entries > 0
    /\ Resolved(file, env).cache_ttl > 0

PositiveBounds(file, env) ==
    /\ Resolved(file, env).cache_max_entries > 0
    /\ Resolved(file, env).cache_ttl > 0
    /\ Resolved(file, env).cdc_poll_interval > 0

\* A text or a list that the configuration has not got counts as blank.
Given(text) == text # Unset /\ text \notin Blank

\* Config::load succeeds.
Loads(env, files) ==
    LET file    == LoadFile(env, files)
        config  == Resolved(file, env)
        sources == config.postgres_sources
    IN /\ file \notin {Absent, Broken}
       /\ OneForm(file)
       /\ \A key \in Numeric : EnvNumber(env, key) # Malformed
       /\ Given(config.parquet_path) /\ Given(config.cdc_path)
       /\ sources # << >>
       /\ \A i \in 1..Len(sources) : ValidSource(sources, i)
       /\ config.listen_addr # Unset => config.listen_addr \in SocketAddresses
       /\ PositiveBounds(file, env)

Load(env, files) == Resolved(LoadFile(env, files), env)
===============================================================================
