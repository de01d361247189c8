------------------------------ MODULE IglooMain --------------------------------
(* The program (src/main.rs): processes started with a command, in an            *)
(* environment and beside configuration files. `crypto-demo' is CryptoDemo; the   *)
(* others load the configuration and exit with 2 if they cannot. `serve' starts   *)
(* the engine, the cache, the polling task and the listener of src/server.rs and  *)
(* then accepts connections; the plain command answers one query, runs the query  *)
(* of src/adbc_postgres.rs and tries to sync once. The engine is EngineStartup,   *)
(* the serving server IglooServe: here it matters only whether they succeed.      *)
EXTENDS Configuration, CryptoDemo

CONSTANTS Launches,     \* [command, env, files], command a function on Runs
          Connections,  \* connections to a server
          NoConfig

\* Numbers are u64; parsing and splitting a text always have a result, be it an
\* error.
ASSUME LaunchesAssumption ==
    \A l \in Launches :
        LET file == LoadFile(l.env, l.files)
        IN /\ \A k \in DOMAIN l.env :
                 Csv(l.env[k]) # Unset /\ Number(l.env[k]) \in Nat \cup {Malformed}
           /\ file \notin {Absent, Broken} =>
                 file.cache_max_entries \in Nat \cup {Unset}
           /\ Loads(l.env, l.files) => Load(l.env, l.files) # NoConfig

VARIABLES launch,       \* what the processes were started with
          stage,        \* per process, what it does next
          config,       \* per process, the loaded configuration
          did,          \* per process, the parts of its work that succeeded
          polling,      \* per process, its polling task: "none", "running", "dead"
          conns         \* per process, open connections

mainVars == <<launch, stage, config, did, polling, conns>>
programVars == <<mainVars, cryptoVars>>

\* The stages in which a process has ended.
Panicked == {"cache panicked"}
Refused == {"configuration refused", "no listen address"}
Errors == {"engine failed", "bind failed", "accept failed", "query failed",
           "adbc failed"}
Ended == Panicked \cup Refused \cup Errors \cup {"finished"}

ExitCode(s) ==
    IF s = "finished" THEN 0
    ELSE IF s \in Refused THEN 2
    ELSE IF s \in Panicked THEN 101 ELSE 1

ProgramInit ==
    /\ launch \in Launches
    /\ stage = [p \in Runs |-> "main"]
    /\ config = [p \in Runs |-> NoConfig]
    /\ did = [p \in Runs |-> {}]
    /\ polling = [p \in Runs |-> "none"]
    /\ conns = [p \in Runs |-> {}]
    /\ CryptoInit

Serves(p) == launch.command[p] = "serve"
Demo(p) == launch.command[p] = "demo"

Goto(p, s) == stage' = [stage EXCEPT ![p] = s]
Did(p, what) == did' = [did EXCEPT ![p] = @ \cup {what}]

-------------------------------------------------------------------------------
(* What the commands share *)

\* load_config_or_exit; `serve' then requires the listen address, and the demo makes
\* the cache before the engine.
LoadConfig(p) ==
    /\ stage[p] = "main" /\ (Serves(p) \/ Demo(p))
    /\ IF Loads(launch.env, launch.files)
       THEN /\ config' = [config EXCEPT ![p] = Load(launch.env, launch.files)]
            /\ Goto(p, IF Serves(p) THEN "address" ELSE "cache")
       ELSE /\ Goto(p, "configuration refused")
            /\ UNCHANGED config
    /\ UNCHANGED <<launch, did, polling, conns, cryptoVars>>

RequireListenAddr(p) ==
    /\ stage[p] = "address"
    /\ Goto(p, IF config[p].listen_addr = Unset THEN "no listen address" ELSE "engine")
    /\ UNCHANGED <<launch, config, did, polling, conns, cryptoVars>>

\* DataFusionEngine::new on the Parquet path and all sources.
StartEngine(p) ==
    /\ stage[p] = "engine"
    /\ \/ Goto(p, IF Serves(p) THEN "cache" ELSE "query")
       \/ Goto(p, "engine failed")
    /\ UNCHANGED <<launch, config, did, polling, conns, cryptoVars>>

\* Cache::with_clock asserts its bounds.
NewCache(p) ==
    /\ stage[p] = "cache"
    /\ Goto(p, IF config[p].cache_max_entries = 0 \/ config[p].cache_ttl = 0
               THEN "cache panicked"
               ELSE IF Serves(p) THEN "poll" ELSE "engine")
    /\ UNCHANGED <<launch, config, did, polling, conns, cryptoVars>>

-------------------------------------------------------------------------------
(* igloo serve *)

\* The spawned task makes an interval, which panics on zero; only the task ends.
SpawnPolling(p) ==
    /\ stage[p] = "poll"
    /\ polling' = [polling EXCEPT ![p] =
           IF config[p].cdc_poll_interval = 0 THEN "dead" ELSE "running"]
    /\ Goto(p, "bind")
    /\ UNCHANGED <<launch, config, did, conns, cryptoVars>>

\* The runtime drops every task when main returns.
Stop(p, s) ==
    /\ Goto(p, s)
    /\ polling' = [polling EXCEPT ![p] = "none"]
    /\ conns' = [conns EXCEPT ![p] = {}]

Listen(p) ==
    /\ stage[p] = "bind"
    /\ \/ Goto(p, "accept") /\ UNCHANGED <<polling, conns>>
       \/ Stop(p, "bind failed")
    /\ UNCHANGED <<launch, config, did, cryptoVars>>

Accept(p, c) ==
    /\ stage[p] = "accept"
    /\ \A o \in Runs : c \notin conns[o]
    /\ conns' = [conns EXCEPT ![p] = @ \cup {c}]
    /\ UNCHANGED <<launch, stage, config, did, polling, cryptoVars>>

\* `?' on accept leaves the loop.
AcceptFails(p) ==
    /\ stage[p] = "accept"
    /\ Stop(p, "accept failed")
    /\ UNCHANGED <<launch, config, did, cryptoVars>>

\* process_socket returns, with an error that is logged or without one.
EndConnection(p, c) ==
    /\ c \in conns[p]
    /\ conns' = [conns EXCEPT ![p] = @ \ {c}]
    /\ UNCHANGED <<launch, stage, config, did, polling, cryptoVars>>

-------------------------------------------------------------------------------
(* The demo *)

\* The cache is new, so the query misses it and is executed.
AnswerQuery(p) ==
    /\ stage[p] = "query"
    /\ \/ Goto(p, "adbc") /\ Did(p, "query answered")
       \/ Goto(p, "query failed") /\ UNCHANGED did
    /\ UNCHANGED <<launch, config, polling, conns, cryptoVars>>

\* Variant: a failing ADBC query is logged and passed over.
AdbcQueryLogged(p) ==
    /\ stage[p] = "adbc"
    /\ \/ Did(p, "ADBC") /\ Goto(p, "sync")
       \/ Goto(p, "sync") /\ UNCHANGED did
    /\ UNCHANGED <<launch, config, polling, conns, cryptoVars>>

\* adbc_postgres_query_example on the primary source: a failing step ends main.
AdbcQuery(p) ==
    /\ stage[p] = "adbc"
    /\ \/ Did(p, "ADBC") /\ Goto(p, "sync")
       \/ Goto(p, "adbc failed") /\ UNCHANGED did
    /\ UNCHANGED <<launch, config, polling, conns, cryptoVars>>

\* CdcListener::sync has no error: a path that is not a directory, a directory or an
\* event file that cannot be read are logged, and main ends as after any sync.
SyncOnce(p) ==
    /\ stage[p] = "sync"
    /\ Did(p, "CDC sync") \/ UNCHANGED did
    /\ Goto(p, "finished")
    /\ UNCHANGED <<launch, config, polling, conns, cryptoVars>>

-------------------------------------------------------------------------------

\* `crypto-demo' is dispatched before the configuration is looked at.
RunCryptoDemo(p) ==
    /\ launch.command[p] = "crypto-demo"
    /\ CryptoStep(p)
    /\ UNCHANGED mainVars

ProgramNext ==
    \E p \in Runs :
        \/ LoadConfig(p) \/ RequireListenAddr(p) \/ StartEngine(p) \/ NewCache(p)
        \/ SpawnPolling(p) \/ Listen(p) \/ AcceptFails(p)
        \/ \E c \in Connections : Accept(p, c) \/ EndConnection(p, c)
        \/ AnswerQuery(p) \/ AdbcQuery(p) \/ SyncOnce(p)
        \/ RunCryptoDemo(p)

ProgramSpec == ProgramInit /\ [][ProgramNext]_programVars

-------------------------------------------------------------------------------
(* Properties *)

Stages ==
    {"main", "address", "engine", "cache", "poll", "bind", "accept", "query", "adbc",
     "sync"} \cup Ended

\* The shape of the processes' state; a process that is past main has a configuration
\* that fits the types of the program.
ProgramTypeOK ==
    /\ CryptoTypeOK
    /\ stage \in [Runs -> Stages]
    /\ polling \in [Runs -> {"none", "running", "dead"}]
    /\ conns \in [Runs -> SUBSET Connections]
    /\ \A p \in Runs :
          stage[p] \notin {"main", "configuration refused"} =>
              config[p] # NoConfig /\ config[p].cache_max_entries \in 0..(Usize - 1)

Configured == {p \in Runs : config[p] # NoConfig}

\* What the rest of the program takes for granted of its configuration (DistinctNames
\* of EngineScans, MaxEntriesAssumption and TtlAssumption of CacheLayer, the schemas of
\* EngineStartup) holds whatever the file and the environment say: names that are
\* usable and distinct after trimming, something to introspect in every source, and
\* bounds that are positive after the cast to usize (validate).
ConfigurationUsable ==
    \A p \in Configured :
        LET c == config[p]
            sources == c.postgres_sources
        IN /\ sources # << >>
           /\ \A i, j \in 1..Len(sources) :
                 sources[i].name = sources[j].name => i = j
           /\ \A i \in 1..Len(sources) :
                 /\ sources[i].name \in Identifiers \ Reserved
                 /\ sources[i].schemas # << >>
                 /\ sources[i].tables # << >>
           /\ c.cache_max_entries > 0 /\ c.cache_ttl > 0 /\ c.cdc_poll_interval > 0

\* The connection string of a [[sources]] entry is its own: it comes from its own
\* variable or from its own entry, and no variable speaks for two sources. Nothing
\* meant for one database is sent to another (resolve_named_source; the name is
\* validated because it makes the variable's name).
OwnCredentials ==
    \A p \in Configured :
        LET file    == LoadFile(launch.env, launch.files)
            sources == config[p].postgres_sources
            key(i)  == SourceKey(sources[i].name, "URI")
        IN file.sources # Unset =>
               \A i \in 1..Len(sources) :
                   /\ sources[i].uri = IF Var(launch.env, key(i)) # Unset
                                       THEN Var(launch.env, key(i))
                                       ELSE file.sources[i].uri
                   /\ \A j \in 1..Len(sources) : key(i) = key(j) => i = j

\* A variable that is set (to text) is never silently overruled by the file: it is
\* what the program runs with, or the program has refused to run. The flat variables
\* are the exception the code announces: they do not reach [[sources]].
EnvironmentWins ==
    \A p \in Configured :
        LET env     == launch.env
            c       == config[p]
            sources == c.postgres_sources
            flat    == LoadFile(env, launch.files).sources = Unset
            Decides(key, value) == Var(env, key) # Unset => value = Var(env, key)
            Bounds(key, value)  == Var(env, key) # Unset => value = Number(Var(env, key))
            Lists(key, value)   == Var(env, key) # Unset => value = Csv(Var(env, key))
        IN /\ Decides(<<"IGLOO_PARQUET_PATH">>, c.parquet_path)
           /\ Decides(<<"IGLOO_CDC_PATH">>, c.cdc_path)
           /\ Decides(<<"IGLOO_LISTEN_ADDR">>, c.listen_addr)
           /\ Var(env, <<"IGLOO_CACHE_MAX_ENTRIES">>) # Unset =>
                 c.cache_max_entries =
                     Number(Var(env, <<"IGLOO_CACHE_MAX_ENTRIES">>)) % Usize
           /\ Bounds(<<"IGLOO_CACHE_TTL_SECONDS">>, c.cache_ttl)
           /\ Bounds(<<"IGLOO_CDC_POLL_SECONDS">>, c.cdc_poll_interval)
           /\ flat =>
                 /\ Decides(<<"DATABASE_URL">>, sources[1].uri)
                 /\ Var(env, <<"DATABASE_URL">>) = Unset =>
                       Decides(<<"IGLOO_POSTGRES_URI">>, sources[1].uri)
                 /\ Lists(<<"IGLOO_POSTGRES_SCHEMAS">>, sources[1].schemas)
           /\ ~flat =>
                 \A i \in 1..Len(sources) :
                     /\ Decides(SourceKey(sources[i].name, "URI"), sources[i].uri)
                     /\ Lists(SourceKey(sources[i].name, "SCHEMAS"), sources[i].schemas)

\* The asserts of the cache are never met, for no setting and no width of usize
\* (Cache::with_clock, `the config layer validates user input').
NoPanic == \A p \in Runs : stage[p] \notin Panicked

\* A server never answers without its polling task: had the task died on a zero
\* interval, alone and unnoticed, the cache would be served without invalidation.
ServersPoll == \A p \in Runs : conns[p] # {} => polling[p] = "running"

\* The exit code tells whether the work was done: a process that loads a configuration
\* exits with 0 if and only if it has answered its query and run the ADBC query, and a
\* server, which does neither, never does (each `?' of main and of serve). The sync
\* at the end of the demo is the one part whose failure does not show (CdcListener::sync
\* counts no error); `crypto-demo' ends by the steps of CryptoDemo.
ExitTellsWork ==
    \A p \in Runs :
        stage[p] \in Ended =>
            (ExitCode(stage[p]) = 0 <=> {"query answered", "ADBC"} \subseteq did[p])
===============================================================================
