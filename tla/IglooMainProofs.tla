---------------------------- MODULE IglooMainProofs ----------------------------
(* What holds of the program for every configuration file and environment, every  *)
(* number of processes and connections, and every sample of any size. The          *)
(* invariant of the processes says where each of them stands and that what it runs *)
(* with was resolved and validated; the one of the sample file is a separate       *)
(* argument about the run that created the file last.                              *)
EXTENDS IglooMain, TLAPS

\* The process has loaded its configuration, whatever it has come to since.
Past(p) == stage[p] \notin {"main", "configuration refused"}

Accepted == Load(launch.env, launch.files)

\* What a process runs with was resolved from what it was started with, and accepted.
ConfigInv ==
    /\ launch \in Launches
    /\ config \in [Runs -> {NoConfig, Accepted}]
    /\ \A p \in Runs :
          /\ config[p] # NoConfig => Loads(launch.env, launch.files)
          /\ Past(p) =>
                config[p] = Accepted /\ Loads(launch.env, launch.files)

Parts == {"query answered", "ADBC", "CDC sync"}

MainTypes ==
    /\ stage \in [Runs -> Stages]
    /\ did \in [Runs -> SUBSET Parts]
    /\ polling \in [Runs -> {"none", "running", "dead"}]
    /\ conns \in [Runs -> SUBSET Connections]

\* Where a process stands tells what it has done and what runs beside it.
Standing(p) ==
    /\ stage[p] # "cache panicked"
    /\ stage[p] \in {"bind", "accept"} => polling[p] = "running"
    /\ stage[p] # "accept" => conns[p] = {}
    /\ stage[p] \in {"main", "address", "cache", "engine", "poll", "bind", "accept",
                    "query"} => did[p] = {}
    /\ stage[p] = "adbc" => did[p] = {"query answered"}
    /\ stage[p] = "sync" => did[p] = {"query answered", "ADBC"}
    /\ stage[p] = "finished" => {"query answered", "ADBC"} \subseteq did[p]
    /\ stage[p] \in Ended \ {"finished"} => "ADBC" \notin did[p]

MainInv == ConfigInv /\ MainTypes /\ \A p \in Runs : Standing(p)

\* A configuration that loads has positive bounds (Config::validate).
LEMMA BoundsOfLoaded ==
    ASSUME NEW env, NEW files, Loads(env, files)
    PROVE  /\ Load(env, files).cache_max_entries > 0
           /\ Load(env, files).cache_ttl > 0
           /\ Load(env, files).cdc_poll_interval > 0
  BY DEF Loads, Load, PositiveBounds

\* Processes start with nothing done.
LEMMA InitMain == ProgramInit => MainInv
  BY DEF ProgramInit, MainInv, ConfigInv, MainTypes, Standing, Past, Stages

\* A step that loads nothing keeps the configurations.
LEMMA ConfigKept ==
    ASSUME ConfigInv, UNCHANGED <<launch, config>>,
           \A q \in Runs : Past(q)' => Past(q)
    PROVE  ConfigInv'
  BY DEF ConfigInv, Accepted

\* Only what loads and validates is run with.
LEMMA LoadConfigMain ==
    ASSUME MainInv, NEW p \in Runs, LoadConfig(p) PROVE MainInv'
  <1>1. ConfigInv'
    <2>1. CASE Loads(launch.env, launch.files)
      BY <2>1 DEF LoadConfig, MainInv, MainTypes, ConfigInv, Accepted, Goto, Past
    <2>2. CASE ~Loads(launch.env, launch.files)
      BY <2>2, ConfigKept DEF LoadConfig, MainInv, MainTypes, Goto, Past
    <2> QED
      BY <2>1, <2>2
  <1>2. MainTypes'
    BY DEF LoadConfig, MainInv, MainTypes, Goto, Stages, Ended, Refused
  <1>3. ASSUME NEW q \in Runs PROVE Standing(q)'
    BY DEF LoadConfig, MainInv, MainTypes, Standing, Goto
  <1> QED
    BY <1>1, <1>2, <1>3 DEF MainInv

\* A server without an address ends before it does anything.
LEMMA RequireListenAddrMain ==
    ASSUME MainInv, NEW p \in Runs, RequireListenAddr(p) PROVE MainInv'
  <1>1. ConfigInv'
    BY ConfigKept DEF RequireListenAddr, MainInv, MainTypes, Goto, Past
  <1>2. MainTypes'
    BY DEF RequireListenAddr, MainInv, MainTypes, Goto, Stages, Ended, Refused
  <1>3. ASSUME NEW q \in Runs PROVE Standing(q)'
    <2>1. CASE q = p
      BY <2>1 DEF RequireListenAddr, MainInv, MainTypes, Standing, Goto
    <2>2. CASE q # p
      BY <2>2 DEF RequireListenAddr, MainInv, MainTypes, Standing, Goto
    <2> QED
      BY <2>1, <2>2
  <1> QED
    BY <1>1, <1>2, <1>3 DEF MainInv

\* The engine starts, or the process ends.
LEMMA StartEngineMain ==
    ASSUME MainInv, NEW p \in Runs, StartEngine(p) PROVE MainInv'
  <1>1. ConfigInv'
    BY ConfigKept DEF StartEngine, MainInv, MainTypes, Goto, Past
  <1>2. MainTypes'
    BY DEF StartEngine, MainInv, MainTypes, Goto, Stages, Ended, Errors
  <1>3. ASSUME NEW q \in Runs PROVE Standing(q)'
    BY DEF StartEngine, MainInv, MainTypes, Standing, Goto
  <1> QED
    BY <1>1, <1>2, <1>3 DEF MainInv

\* The asserts of Cache::with_clock are met by a validated configuration.
LEMMA NewCacheMain ==
    ASSUME MainInv, NEW p \in Runs, NewCache(p) PROVE MainInv'
  <1>1. config[p] = Accepted /\ Loads(launch.env, launch.files)
    BY DEF NewCache, MainInv, ConfigInv, Past
  <1>2. config[p].cache_max_entries # 0 /\ config[p].cache_ttl # 0
    BY <1>1, BoundsOfLoaded DEF Accepted
  <1>3. Goto(p, IF Serves(p) THEN "poll" ELSE "engine")
    BY <1>2 DEF NewCache
  <1>4. ConfigInv'
    BY <1>3, ConfigKept DEF NewCache, MainInv, MainTypes, Goto, Past
  <1>5. MainTypes'
    BY <1>3 DEF NewCache, MainInv, MainTypes, Goto, Stages
  <1>6. ASSUME NEW q \in Runs PROVE Standing(q)'
    BY <1>3 DEF NewCache, MainInv, MainTypes, Standing, Goto
  <1> QED
    BY <1>4, <1>5, <1>6 DEF MainInv

\* The interval is positive, so the polling task lives.
LEMMA SpawnPollingMain ==
    ASSUME MainInv, NEW p \in Runs, SpawnPolling(p) PROVE MainInv'
  <1>1. config[p] = Accepted /\ Loads(launch.env, launch.files)
    BY DEF SpawnPolling, MainInv, ConfigInv, Past
  <1>2. config[p].cdc_poll_interval # 0
    BY <1>1, BoundsOfLoaded DEF Accepted
  <1>3. polling' = [polling EXCEPT ![p] = "running"]
    BY <1>2 DEF SpawnPolling
  <1>4. ConfigInv'
    BY ConfigKept DEF SpawnPolling, MainInv, MainTypes, Goto, Past
  <1>5. MainTypes'
    BY <1>3 DEF SpawnPolling, MainInv, MainTypes, Goto, Stages
  <1>6. ASSUME NEW q \in Runs PROVE Standing(q)'
    BY <1>3 DEF SpawnPolling, MainInv, MainTypes, Standing, Goto
  <1> QED
    BY <1>4, <1>5, <1>6 DEF MainInv

\* A server that stops takes its task and its clients along.
LEMMA ListenMain ==
    ASSUME MainInv, NEW p \in Runs, Listen(p) \/ AcceptFails(p) PROVE MainInv'
  <1>1. ConfigInv'
    BY ConfigKept DEF Listen, AcceptFails, Stop, MainInv, MainTypes, Goto, Past
  <1>2. MainTypes'
    BY DEF Listen, AcceptFails, Stop, MainInv, MainTypes, Goto, Stages, Ended, Errors
  <1>3. ASSUME NEW q \in Runs PROVE Standing(q)'
    BY DEF Listen, AcceptFails, Stop, MainInv, MainTypes, Standing, Goto
  <1> QED
    BY <1>1, <1>2, <1>3 DEF MainInv

\* Clients come and go beside the polling task.
LEMMA ConnectionMain ==
    ASSUME MainInv, NEW p \in Runs, NEW c \in Connections,
           Accept(p, c) \/ EndConnection(p, c)
    PROVE  MainInv'
  <1>1. ConfigInv'
    BY ConfigKept DEF Accept, EndConnection, MainInv, Past
  <1>2. MainTypes'
    BY DEF Accept, EndConnection, MainInv, MainTypes
  <1>3. ASSUME NEW q \in Runs PROVE Standing(q)'
    BY DEF Accept, EndConnection, MainInv, MainTypes, Standing
  <1> QED
    BY <1>1, <1>2, <1>3 DEF MainInv

\* The demo goes on only from what succeeded.
LEMMA DemoMain ==
    ASSUME MainInv, NEW p \in Runs, AnswerQuery(p) \/ AdbcQuery(p) \/ SyncOnce(p)
    PROVE  MainInv'
  <1>1. ConfigInv'
    BY ConfigKept DEF AnswerQuery, AdbcQuery, SyncOnce, MainInv, MainTypes, Goto,
       Past
  <1>2. MainTypes'
    <2>1. stage' \in [Runs -> Stages]
      BY DEF AnswerQuery, AdbcQuery, SyncOnce, MainInv, MainTypes, Goto, Stages, Ended,
         Errors
    <2>2. did' \in [Runs -> SUBSET Parts]
      <3>1. did' = did \/ \E x \in Parts : Did(p, x)
        BY DEF AnswerQuery, AdbcQuery, SyncOnce, Parts
      <3> QED
        BY <3>1 DEF MainInv, MainTypes, Did
    <2> QED
      BY <2>1, <2>2 DEF AnswerQuery, AdbcQuery, SyncOnce, MainInv, MainTypes
  <1>3. ASSUME NEW q \in Runs PROVE Standing(q)'
    <2>1. CASE AnswerQuery(p)
      <3>1. stage[p] = "query" /\ did[p] = {} /\ conns' = conns
        BY <2>1 DEF AnswerQuery, MainInv, Standing
      <3>2. conns'[p] = {}
        BY <3>1 DEF MainInv, Standing
      <3>3. CASE q = p /\ Did(p, "query answered") /\ Goto(p, "adbc")
        <4>1. stage'[p] = "adbc" /\ did'[p] = {"query answered"}
          BY <3>1, <3>3 DEF MainInv, MainTypes, Goto, Did
        <4> QED
          BY <3>2, <3>3, <4>1 DEF Standing, Ended, Panicked, Refused, Errors
      <3>4. CASE q = p /\ Goto(p, "query failed") /\ did' = did
        <4>1. stage'[p] = "query failed" /\ did'[p] = {}
          BY <3>1, <3>4 DEF MainInv, MainTypes, Goto
        <4> QED
          BY <3>2, <3>4, <4>1 DEF Standing, Ended, Panicked, Refused, Errors
      <3>5. CASE q # p
        BY <2>1, <3>5 DEF AnswerQuery, MainInv, MainTypes, Standing, Goto, Did
      <3> QED
        BY <2>1, <3>3, <3>4, <3>5 DEF AnswerQuery
    <2>2. CASE AdbcQuery(p)
      <3>1. stage[p] = "adbc" /\ did[p] = {"query answered"} /\ conns' = conns
        BY <2>2 DEF AdbcQuery, MainInv, Standing
      <3>2. conns'[p] = {}
        BY <3>1 DEF MainInv, Standing
      <3>3. CASE q = p /\ Did(p, "ADBC") /\ Goto(p, "sync")
        <4>1. stage'[p] = "sync" /\ did'[p] = {"query answered", "ADBC"}
          BY <3>1, <3>3 DEF MainInv, MainTypes, Goto, Did
        <4> QED
          BY <3>2, <3>3, <4>1 DEF Standing, Ended, Panicked, Refused, Errors
      <3>4. CASE q = p /\ Goto(p, "adbc failed") /\ did' = did
        <4>1. stage'[p] = "adbc failed" /\ did'[p] = {"query answered"}
          BY <3>1, <3>4 DEF MainInv, MainTypes, Goto
        <4>2. "ADBC" \notin did'[p]
          BY <4>1
        <4> QED
          BY <3>2, <3>4, <4>1, <4>2 DEF Standing, Ended, Panicked, Refused, Errors
      <3>5. CASE q # p
        BY <2>2, <3>5 DEF AdbcQuery, MainInv, MainTypes, Standing, Goto, Did
      <3> QED
        BY <2>2, <3>3, <3>4, <3>5 DEF AdbcQuery
    <2>3. CASE SyncOnce(p)
      <3>1. stage[p] = "sync" /\ did[p] = {"query answered", "ADBC"} /\ conns'[p] = {}
        BY <2>3 DEF SyncOnce, MainInv, Standing
      <3>2. CASE q = p
        <4>1. stage'[p] = "finished" /\ {"query answered", "ADBC"} \subseteq did'[p]
          BY <2>3, <3>1 DEF SyncOnce, MainInv, MainTypes, Goto, Did
        <4> QED
          BY <3>1, <3>2, <4>1 DEF Standing
      <3>3. CASE q # p
        BY <2>3, <3>3 DEF SyncOnce, MainInv, MainTypes, Standing, Goto, Did
      <3> QED
        BY <3>2, <3>3
    <2> QED
      BY <2>1, <2>2, <2>3
  <1> QED
    BY <1>1, <1>2, <1>3 DEF MainInv

\* Every step preserves the account of the processes.
LEMMA StepMain == MainInv /\ [ProgramNext]_programVars => MainInv'
  <1> SUFFICES ASSUME MainInv, [ProgramNext]_programVars PROVE MainInv'
    OBVIOUS
  <1>1. CASE UNCHANGED mainVars
    BY <1>1 DEF mainVars, MainInv, ConfigInv, MainTypes, Standing, Accepted, Past
  <1>2. ASSUME NEW p \in Runs, RunCryptoDemo(p) PROVE UNCHANGED mainVars
    BY <1>2 DEF RunCryptoDemo
  <1> QED
    BY <1>1, <1>2, LoadConfigMain, RequireListenAddrMain, StartEngineMain,
       NewCacheMain, SpawnPollingMain, ListenMain, ConnectionMain, DemoMain
       DEF ProgramNext, programVars

\* Whatever a process was started with, and however far it comes.
THEOREM ProcessesInvariant == ProgramSpec => []MainInv
  BY InitMain, StepMain, PTL DEF ProgramSpec

-------------------------------------------------------------------------------
(* What the program runs with *)

\* No setting and no width of usize reaches the asserts of the cache.
THEOREM CacheBoundsHold == ProgramSpec => []NoPanic
  <1>1. MainInv => NoPanic
    BY DEF MainInv, Standing, NoPanic, Panicked
  <1> QED
    BY <1>1, ProcessesInvariant, PTL

\* Every server with a client has a live polling task.
THEOREM PollingBesideClients == ProgramSpec => []ServersPoll
  <1>1. MainInv => ServersPoll
    BY DEF MainInv, MainTypes, Standing, ServersPoll
  <1> QED
    BY <1>1, ProcessesInvariant, PTL

\* The exit code is 0 for those processes that have answered their query and run the
\* ADBC query, and for no others.
THEOREM ExitCodeTells == ProgramSpec => []ExitTellsWork
  <1>1. ASSUME NEW s \in Ended PROVE ExitCode(s) = 0 <=> s = "finished"
    BY DEF ExitCode
  <1>2. MainInv => ExitTellsWork
    BY <1>1 DEF MainInv, Standing, ExitTellsWork
  <1> QED
    BY <1>2, ProcessesInvariant, PTL

\* The names of a configuration that loads are usable and distinct.
LEMMA SourcesOfLoaded ==
    ASSUME NEW env, NEW files, Loads(env, files)
    PROVE  LET sources == Load(env, files).postgres_sources
           IN /\ sources # << >>
              /\ \A i \in 1..Len(sources) : ValidSource(sources, i)
              /\ \A i, j \in 1..Len(sources) : sources[i].name = sources[j].name => i = j
  <1> DEFINE sources == Load(env, files).postgres_sources
  <1>1. sources # << >> /\ \A i \in 1..Len(sources) : ValidSource(sources, i)
    BY DEF Loads, Load
  <1>2. Len(sources) \in Nat
    BY DEF Load, Resolved, Sources
  <1>3. ASSUME NEW i \in 1..Len(sources), NEW j \in 1..Len(sources), j < i
        PROVE  sources[j].name # sources[i].name
    BY <1>1, <1>2, <1>3 DEF ValidSource
  <1> QED
    BY <1>1, <1>2, <1>3

\* The validation leaves nothing out that the rest of the program relies on.
THEOREM UsableConfiguration == ProgramSpec => []ConfigurationUsable
  <1>1. ASSUME MainInv, NEW p \in Configured
        PROVE  config[p] = Accepted /\ Loads(launch.env, launch.files)
    BY <1>1 DEF Configured, MainInv, ConfigInv
  <1>2. ASSUME NEW sources, NEW i, ValidSource(sources, i)
        PROVE  /\ sources[i].name \in Identifiers \ Reserved
               /\ sources[i].schemas # << >>
               /\ sources[i].tables # << >>
    BY <1>2, UnsetAssumption DEF ValidSource, ValidName, NoBlanks
  <1>3. MainInv => ConfigurationUsable
    BY <1>1, <1>2, SourcesOfLoaded, BoundsOfLoaded DEF ConfigurationUsable, Accepted
  <1> QED
    BY <1>3, ProcessesInvariant, PTL

\* The name of a source, being validated, makes a variable that speaks for no other.
LEMMA KeysApart ==
    ASSUME NEW a \in Identifiers, NEW b \in Identifiers, NEW suffix,
           SourceKey(a, suffix) = SourceKey(b, suffix)
    PROVE  a = b
  BY UpperAssumption DEF SourceKey

\* No connection string reaches another source than the one it was given for.
THEOREM CredentialsStayHome == ProgramSpec => []OwnCredentials
  <1>1. ASSUME MainInv, NEW p \in Configured,
               LoadFile(launch.env, launch.files).sources # Unset
        PROVE  LET file    == LoadFile(launch.env, launch.files)
                   sources == config[p].postgres_sources
                   key(i)  == SourceKey(sources[i].name, "URI")
               IN \A i \in 1..Len(sources) :
                     /\ sources[i].uri = IF Var(launch.env, key(i)) # Unset
                                         THEN Var(launch.env, key(i))
                                         ELSE file.sources[i].uri
                     /\ \A j \in 1..Len(sources) : key(i) = key(j) => i = j
    <2> DEFINE env     == launch.env
               file    == LoadFile(env, launch.files)
               sources == config[p].postgres_sources
               key(i)  == SourceKey(sources[i].name, "URI")
    <2>1. config[p] = Accepted /\ Loads(env, launch.files)
      BY <1>1 DEF Configured, MainInv, ConfigInv
    <2>2. sources = [i \in 1..Len(file.sources) |-> NamedSource(file.sources[i], env)]
      BY <1>1, <2>1 DEF Accepted, Load, Resolved, Sources
    <2>3. \A i \in 1..Len(sources) : sources[i].name \in Identifiers
      BY <2>1, SourcesOfLoaded DEF Accepted, ValidSource, ValidName
    <2>4. ASSUME NEW i \in 1..Len(sources), NEW j \in 1..Len(sources), key(i) = key(j)
          PROVE  i = j
      <3>1. sources[i].name = sources[j].name
        BY <2>3, <2>4, KeysApart
      <3> QED
        BY <2>1, <3>1, SourcesOfLoaded DEF Accepted
    <2>5. ASSUME NEW i \in 1..Len(sources)
          PROVE  sources[i].uri = IF Var(env, key(i)) # Unset
                                  THEN Var(env, key(i)) ELSE file.sources[i].uri
      <3>1. sources[i] = NamedSource(file.sources[i], env)
        BY <2>1, <2>2, SourcesOfLoaded DEF Accepted
      <3> QED
        BY <3>1 DEF NamedSource, EnvFirst, Or
    <2> QED
      BY <2>4, <2>5
  <1>2. MainInv => OwnCredentials
    BY <1>1 DEF OwnCredentials
  <1> QED
    BY <1>2, ProcessesInvariant, PTL

-------------------------------------------------------------------------------
(* The sample data *)

SampleTypes ==
    /\ DOMAIN sample \subseteq 1..Pieces
    /\ \A k \in DOMAIN sample : sample[k] = <<"sample", k>>
    /\ DOMAIN step = Runs
    /\ place \in [Runs -> Nat]
    /\ \A r \in Runs : step[r] \in {"write", "query"} => exists

\* Run r has written what it has come to, and nobody has emptied the file since.
Covers(r) == step[r] = "write" /\ 1..place[r] \subseteq DOMAIN sample

\* As long as the file has gaps, the run that created it last is going to fill them.
Covered ==
    exists /\ ~interrupted =>
        1..Pieces \subseteq DOMAIN sample \/ \E r \in Runs : Covers(r)

SampleInv == SampleTypes /\ Covered

\* A file with a piece at every place is one series.
LEMMA WholeOnceWritten ==
    ASSUME SampleTypes, 1..Pieces \subseteq DOMAIN sample PROVE Whole
  <1>1. DOMAIN sample = 1..Pieces
    BY DEF SampleTypes
  <1>2. \A k \in 1..Pieces : sample[k][1] = "sample"
    BY <1>1 DEF SampleTypes
  <1> QED
    BY <1>1, <1>2 DEF Whole

\* When nobody writes there is no gap left.
LEMMA SampleInvWhole == SampleInv => SampleWhole
  BY WholeOnceWritten DEF SampleInv, SampleWhole, Covered, Covers, Writing

\* There is no file at first.
LEMMA InitSample == ProgramInit => SampleInv
  BY DEF ProgramInit, CryptoInit, SampleInv, SampleTypes, Covered

\* A step that leaves the file and the writing runs alone.
LEMMA SampleKept ==
    ASSUME SampleInv, SampleTypes', UNCHANGED <<sample, exists>>,
           interrupted' = interrupted,
           \A r \in Runs : step[r] = "write" =>
               step'[r] = "write" /\ place'[r] = place[r]
    PROVE  SampleInv'
  BY DEF SampleInv, Covered, Covers

\* Whoever empties the file is going to fill it.
LEMMA CreateSample == ASSUME SampleInv, NEW r \in Runs, Create(r) PROVE SampleInv'
  <1>1. SampleTypes'
    BY DEF SampleInv, SampleTypes, Create, Enter
  <1>2. step'[r] = "write" /\ place'[r] = 0
    BY DEF SampleInv, SampleTypes, Create, Enter
  <1>3. Covers(r)'
    BY <1>2 DEF Covers
  <1> QED
    BY <1>1, <1>3 DEF SampleInv, Covered

\* A piece written keeps every run covering what it has written.
LEMMA WritePieceSample == ASSUME SampleInv, NEW r \in Runs, WritePiece(r) PROVE SampleInv'
  <1> DEFINE k == place[r] + 1
  <1>1. k \in 1..Pieces
    BY CryptoBounds DEF SampleInv, SampleTypes, WritePiece
  <1>2. DOMAIN sample' = DOMAIN sample \cup {k}
    BY DEF WritePiece, Put
  <1>3. \A j \in DOMAIN sample' : sample'[j] = <<"sample", j>>
    BY <1>2 DEF WritePiece, Put, Piece, SampleInv, SampleTypes
  <1>4. SampleTypes'
    BY <1>1, <1>2, <1>3 DEF SampleInv, SampleTypes, WritePiece
  <1>5. ASSUME NEW w \in Runs, Covers(w) PROVE Covers(w)'
    <2>1. CASE w = r
      <3>1. place'[w] = k /\ step'[w] = "write"
        BY <2>1 DEF WritePiece, SampleInv, SampleTypes
      <3>2. 1..k \subseteq (1..place[r]) \cup {k}
        BY DEF SampleInv, SampleTypes
      <3> QED
        BY <1>2, <1>5, <2>1, <3>1, <3>2 DEF Covers
    <2>2. CASE w # r
      BY <1>2, <1>5, <2>2 DEF Covers, WritePiece, SampleInv, SampleTypes
    <2> QED
      BY <2>1, <2>2
  <1> QED
    BY <1>2, <1>4, <1>5 DEF SampleInv, Covered, WritePiece

\* Whoever closes the file has written to its end.
LEMMA CloseSample == ASSUME SampleInv, NEW r \in Runs, Close(r) PROVE SampleInv'
  <1>1. SampleTypes'
    BY DEF SampleInv, SampleTypes, Close, Enter
  <1>2. ASSUME NEW w \in Runs, Covers(w)
        PROVE  1..Pieces \subseteq DOMAIN sample \/ Covers(w)'
    BY <1>2 DEF Covers, Close, Enter, SampleInv, SampleTypes
  <1> QED
    BY <1>1, <1>2 DEF SampleInv, Covered, Close

\* Looking changes nothing.
LEMMA LookSample == ASSUME SampleInv, NEW r \in Runs, Look(r) PROVE SampleInv'
  <1>1. SampleTypes'
    BY DEF SampleInv, SampleTypes, Look, Enter
  <1> QED
    BY <1>1, SampleKept DEF SampleInv, SampleTypes, Look, Enter

\* A run that gives up or is killed while it writes is what `interrupted' remembers.
LEMMA StopSample ==
    ASSUME SampleInv, NEW r \in Runs, WriteFails(r) \/ Kill(r) PROVE SampleInv'
  <1>1. SampleTypes'
    BY DEF SampleInv, SampleTypes, WriteFails, Kill, Enter
  <1>2. CASE step[r] = "write"
    BY <1>1, <1>2 DEF SampleInv, Covered, WriteFails, Kill
  <1>3. CASE step[r] # "write"
    <2>1. ~interrupted' => ~interrupted
      BY <1>3 DEF WriteFails, Kill
    <2>2. \A o \in Runs : step[o] = "write" =>
              step'[o] = "write" /\ place'[o] = place[o]
      BY <1>3 DEF SampleInv, SampleTypes, WriteFails, Kill, Enter
    <2>3. UNCHANGED <<sample, exists>>
      BY DEF WriteFails, Kill
    <2> QED
      BY <1>1, <2>1, <2>2, <2>3 DEF SampleInv, Covered, Covers
  <1> QED
    BY <1>2, <1>3

\* Neither does querying.
LEMMA QuerySample ==
    ASSUME SampleInv, NEW r \in Runs, Query(r) \/ Complete(r) \/ Again(r)
    PROVE  SampleInv'
  <1>1. SampleTypes'
    BY DEF SampleInv, SampleTypes, Query, Complete, Again, Enter
  <1>2. step[r] # "write" /\ UNCHANGED <<sample, exists, interrupted>>
    BY DEF Query, Complete, Again
  <1>3. \A o \in Runs : o # r => step'[o] = step[o] /\ place'[o] = place[o]
    BY DEF SampleInv, SampleTypes, Query, Complete, Again, Enter
  <1> QED
    BY <1>1, <1>2, <1>3, SampleKept

\* Every step preserves the account of the file.
LEMMA StepSample == SampleInv /\ [ProgramNext]_programVars => SampleInv'
  <1> SUFFICES ASSUME SampleInv, [ProgramNext]_programVars PROVE SampleInv'
    OBVIOUS
  <1>1. CASE UNCHANGED cryptoVars
    BY <1>1 DEF cryptoVars, SampleInv, SampleTypes, Covered, Covers
  <1>2. ASSUME NEW r \in Runs, CryptoStep(r) PROVE SampleInv'
    BY <1>2, LookSample, CreateSample, WritePieceSample, CloseSample, StopSample,
       QuerySample DEF CryptoStep
  <1>3. ProgramNext => UNCHANGED cryptoVars \/ \E r \in Runs : CryptoStep(r)
    BY DEF ProgramNext, LoadConfig, RequireListenAddr, StartEngine, NewCache,
       SpawnPolling, Listen, AcceptFails, Accept, EndConnection, AnswerQuery, AdbcQuery,
       SyncOnce, RunCryptoDemo
  <1> QED
    BY <1>1, <1>2, <1>3 DEF programVars

\* The account of the file holds in every run.
THEOREM SampleInvariant == ProgramSpec => []SampleInv
  BY InitSample, StepSample, PTL DEF ProgramSpec

\* However many runs write the file at the same time, and whatever its size.
THEOREM SampleIsWhole == ProgramSpec => []SampleWhole
  BY SampleInvariant, SampleInvWhole, PTL

\* A run that finds the file and fails on it had company, or a predecessor that was
\* cut off.
THEOREM FailuresExplained == ProgramSpec => FailureExplained
  <1> DEFINE Explained ==
        \A r \in Runs :
            step[r] = "query" /\ step'[r] = "failed" =>
                interrupted \/ \E o \in Runs : Writing(o)
  <1>1. SampleInv /\ [ProgramNext]_programVars => [Explained]_cryptoVars
    <2> SUFFICES ASSUME SampleInv, [ProgramNext]_programVars, NEW r \in Runs,
                        step[r] = "query", step'[r] = "failed", ~interrupted,
                        \A o \in Runs : ~Writing(o)
                 PROVE  FALSE
      OBVIOUS
    <2>1. Whole
      BY SampleInvWhole DEF SampleInv, SampleTypes, SampleWhole
    <2>2. PICK o \in Runs : CryptoStep(o)
      BY DEF ProgramNext, LoadConfig, RequireListenAddr, StartEngine, NewCache,
         SpawnPolling, Listen, AcceptFails, Accept, EndConnection, AnswerQuery,
         AdbcQuery, SyncOnce, RunCryptoDemo, programVars, cryptoVars
    <2>3. ~Query(o)
      BY <2>1 DEF Query, SampleInv, SampleTypes
    <2>4. o = r /\ (WriteFails(r) \/ Query(r))
      BY <2>2 DEF CryptoStep, Look, Create, WritePiece, Close, WriteFails, Kill, Query,
         Complete, Again, Enter, SampleInv, SampleTypes
    <2> QED
      BY <2>3, <2>4 DEF WriteFails
  <1> QED
    BY <1>1, SampleInvariant, PTL DEF ProgramSpec, FailureExplained
\* The file's state, and where each run of the demo stands.
LEMMA CryptoTypes == ProgramSpec => []CryptoTypeOK
  <1>1. ProgramInit => CryptoTypeOK
    <2> SUFFICES ASSUME ProgramInit PROVE CryptoTypeOK
      OBVIOUS
    <2>1. DOMAIN sample \subseteq 1..Pieces /\ place \in [Runs -> Nat]
      BY DEF ProgramInit, CryptoInit
    <2>2. exists \in BOOLEAN /\ interrupted \in BOOLEAN
      BY DEF ProgramInit, CryptoInit
    <2>3. step \in [Runs -> {"idle", "create", "write", "query", "done", "failed",
                            "killed"}]
      BY DEF ProgramInit, CryptoInit
    <2> QED
      BY <2>1, <2>2, <2>3 DEF CryptoTypeOK
  <1>2. ASSUME CryptoTypeOK, NEW r \in Runs, CryptoStep(r) PROVE CryptoTypeOK'
    <2>1. CASE WritePiece(r)
      <3>1. DOMAIN sample' = DOMAIN sample \cup {place[r] + 1}
        BY <2>1 DEF WritePiece, Put
      <3>2. place[r] + 1 \in 1..Pieces
        BY <1>2, <2>1, CryptoBounds DEF WritePiece, CryptoTypeOK
      <3> QED
        BY <1>2, <2>1, <3>1, <3>2 DEF WritePiece, CryptoTypeOK
    <2>2. CASE ~WritePiece(r)
      <3>1. exists' \in BOOLEAN /\ interrupted' \in BOOLEAN
        BY <1>2, <2>2, Zenon DEF CryptoStep, CryptoTypeOK, Look, Create, Close,
           WriteFails, Kill, Query, Complete, Again
      <3>2. DOMAIN sample' \subseteq 1..Pieces
        BY <1>2, <2>2 DEF CryptoStep, CryptoTypeOK, Look, Create, Close, WriteFails,
           Kill, Query, Complete, Again
      <3>3. /\ step' \in [Runs -> {"idle", "create", "write", "query", "done", "failed",
                                  "killed"}]
            /\ place' \in [Runs -> Nat]
        BY <1>2, <2>2 DEF CryptoStep, CryptoTypeOK, Look, Create, Close, WriteFails,
           Kill, Query, Complete, Again, Enter
      <3> QED
        BY <3>1, <3>2, <3>3 DEF CryptoTypeOK
    <2> QED
      BY <2>1, <2>2
  <1>3. ASSUME CryptoTypeOK, UNCHANGED cryptoVars PROVE CryptoTypeOK'
    BY <1>3 DEF CryptoTypeOK, cryptoVars
  <1>4. ASSUME [ProgramNext]_programVars
        PROVE  UNCHANGED cryptoVars \/ \E r \in Runs : CryptoStep(r)
    BY <1>4 DEF ProgramNext, LoadConfig, RequireListenAddr, StartEngine, NewCache,
       SpawnPolling, Listen, AcceptFails, Accept, EndConnection, AnswerQuery, AdbcQuery,
       SyncOnce, RunCryptoDemo, programVars
  <1>5. CryptoTypeOK /\ [ProgramNext]_programVars => CryptoTypeOK'
    BY <1>2, <1>3, <1>4
  <1> QED
    BY <1>1, <1>5, PTL DEF ProgramSpec

\* The capacity that is asked for is a number, so that the cast leaves a usize.
LEMMA CapacityOfLoaded ==
    ASSUME NEW l \in Launches, Loads(l.env, l.files)
    PROVE  Load(l.env, l.files).cache_max_entries \in 0..(Usize - 1)
  <1> DEFINE file == LoadFile(l.env, l.files)
             key  == <<"IGLOO_CACHE_MAX_ENTRIES">>
             asked == Asked(l.env, key, file.cache_max_entries, DefaultMaxEntries)
  <1>1. file.cache_max_entries \in Nat \cup {Unset}
    BY LaunchesAssumption DEF Loads
  <1>2. EnvNumber(l.env, key) \in Nat \cup {Unset}
    <2>1. EnvNumber(l.env, key) # Malformed
      BY DEF Loads, Numeric
    <2>2. \A k \in DOMAIN l.env : Number(l.env[k]) \in Nat \cup {Malformed}
      BY LaunchesAssumption
    <2> QED
      BY <2>1, <2>2 DEF EnvNumber, Var
  <1>3. asked \in Nat
    BY <1>1, <1>2 DEF Asked, Or, DefaultMaxEntries
  <1>4. Load(l.env, l.files).cache_max_entries = asked % Usize
    BY DEF Load, Resolved, AsUsize
  <1> HIDE DEF asked
  <1> QED
    BY <1>3, <1>4, UsizeAssumption

\* The types of the program; a process that got past main runs with a configuration,
\* also after it has ended.
THEOREM ProgramTypes == ProgramSpec => []ProgramTypeOK
  <1>1. ASSUME MainInv, NEW p \in Runs, Past(p)
        PROVE  config[p] # NoConfig /\ config[p].cache_max_entries \in 0..(Usize - 1)
    <2>1. /\ launch \in Launches /\ config[p] = Load(launch.env, launch.files)
          /\ Loads(launch.env, launch.files)
      BY <1>1 DEF MainInv, ConfigInv, Accepted
    <2> QED
      BY <2>1, CapacityOfLoaded, LaunchesAssumption
  <1>2. MainInv /\ CryptoTypeOK => ProgramTypeOK
    BY <1>1 DEF MainInv, MainTypes, ProgramTypeOK, Past
  <1> QED
    BY <1>2, ProcessesInvariant, CryptoTypes, PTL

\* A variable decides, and so does what it is read as, when that is a value.
LEMMA FirstIsFirst ==
    /\ \A env, key, value : Var(env, key) # Unset => EnvFirst(env, key, value) = Var(env, key)
    /\ \A a, b : a # Unset => Or(a, b) = a
  BY DEF EnvFirst, Or

\* What the program runs with is what the environment says, wherever it says
\* something.
THEOREM EnvironmentDecides == ProgramSpec => []EnvironmentWins
  <1>1. ASSUME MainInv, NEW p \in Configured
        PROVE  LET env     == launch.env
                   c       == config[p]
                   sources == c.postgres_sources
                   flat    == LoadFile(env, launch.files).sources = Unset
                   Decides(key, value) == Var(env, key) # Unset => value = Var(env, key)
                   Bounds(key, value)  ==
                       Var(env, key) # Unset => value = Number(Var(env, key))
                   Lists(key, value)   ==
                       Var(env, key) # Unset => value = Csv(Var(env, key))
               IN /\ Decides(<<"IGLOO_PARQUET_PATH">>, c.parquet_path)
                  /\ Decides(<<"IGLOO_CDC_PATH">>, c.cdc_path)
                  /\ Decides(<<"IGLOO_LISTEN_ADDR">>, c.listen_addr)
                  /\ Var(env, <<"IGLOO_CACHE_MAX_ENTRIES">>) # Unset =>
                        c.cache_max_entries =
                            Number(Var(env, <<"IGLOO_CACHE_MAX_ENTRIES">>)) % Usize
                  /\ Bounds(<<"IGLOO_CACHE_TTL_SECONDS">>, c.cache_ttl)
                  /\ Bounds(<<"IGLOO_CDC_POLL_SECONDS">>, c.cdc_poll_interval)
                  /\ flat =>
                        /\ Decides(<<"DATABASE_URL">>, sources[1].uri)
                        /\ Var(env, <<"DATABASE_URL">>) = Unset =>
                              Decides(<<"IGLOO_POSTGRES_URI">>, sources[1].uri)
                        /\ Lists(<<"IGLOO_POSTGRES_SCHEMAS">>, sources[1].schemas)
                  /\ ~flat =>
                        \A i \in 1..Len(sources) :
                            /\ Decides(SourceKey(sources[i].name, "URI"), sources[i].uri)
                            /\ Lists(SourceKey(sources[i].name, "SCHEMAS"),
                                     sources[i].schemas)
    <2> DEFINE env  == launch.env
               file == LoadFile(env, launch.files)
               c    == config[p]
               sources == c.postgres_sources
    <2>1. launch \in Launches /\ c = Resolved(file, env) /\ Loads(env, launch.files)
      BY <1>1 DEF Configured, MainInv, ConfigInv, Accepted, Load
    <2>2. \A key : Var(env, key) # Unset =>
              /\ EnvNumber(env, key) = Number(Var(env, key))
              /\ EnvNumber(env, key) # Unset
              /\ EnvCsv(env, key) = Csv(Var(env, key))
              /\ EnvCsv(env, key) # Unset
      <3>1. \A k \in DOMAIN env : Csv(env[k]) # Unset /\ Number(env[k]) # Unset
        BY <2>1, LaunchesAssumption, UnsetAssumption
      <3> QED
        BY <3>1 DEF EnvNumber, EnvCsv, Var
    <2>3. /\ c.parquet_path = EnvFirst(env, <<"IGLOO_PARQUET_PATH">>, file.parquet_path)
          /\ c.cdc_path = EnvFirst(env, <<"IGLOO_CDC_PATH">>, file.cdc_path)
          /\ c.listen_addr = EnvFirst(env, <<"IGLOO_LISTEN_ADDR">>, file.listen_addr)
          /\ sources = Sources(file, env)
      BY <2>1 DEF Resolved
    <2>4. \A key, value, default : Var(env, key) # Unset =>
              Asked(env, key, value, default) = Number(Var(env, key))
      BY <2>2, FirstIsFirst DEF Asked
    <2>5. /\ c.cache_max_entries =
                 Asked(env, <<"IGLOO_CACHE_MAX_ENTRIES">>, file.cache_max_entries,
                       DefaultMaxEntries) % Usize
          /\ c.cache_ttl = Asked(env, <<"IGLOO_CACHE_TTL_SECONDS">>,
                                 file.cache_ttl_seconds, DefaultTtlSeconds)
          /\ c.cdc_poll_interval = Asked(env, <<"IGLOO_CDC_POLL_SECONDS">>,
                                         file.cdc_poll_seconds, DefaultPollSeconds)
      BY <2>1 DEF Resolved, AsUsize
    <2>6. ASSUME file.sources = Unset
          PROVE  /\ Var(env, <<"DATABASE_URL">>) # Unset =>
                       sources[1].uri = Var(env, <<"DATABASE_URL">>)
                 /\ Var(env, <<"DATABASE_URL">>) = Unset =>
                       (Var(env, <<"IGLOO_POSTGRES_URI">>) # Unset =>
                            sources[1].uri = Var(env, <<"IGLOO_POSTGRES_URI">>))
                 /\ Var(env, <<"IGLOO_POSTGRES_SCHEMAS">>) # Unset =>
                       sources[1].schemas = Csv(Var(env, <<"IGLOO_POSTGRES_SCHEMAS">>))
      <3>1. sources[1] = FlatSource(file, env)
        BY <2>3, <2>6 DEF Sources
      <3>2. /\ sources[1].uri = Or(FlatUri(env), file.postgres_uri)
            /\ sources[1].schemas = Or(EnvCsv(env, <<"IGLOO_POSTGRES_SCHEMAS">>),
                                       Or(file.postgres_schemas, <<"public">>))
        BY <3>1 DEF FlatSource
      <3>3. FlatUri(env) = Or(Var(env, <<"DATABASE_URL">>),
                              Var(env, <<"IGLOO_POSTGRES_URI">>))
        BY DEF FlatUri, EnvFirst
      <3> HIDE DEF sources
      <3> QED
        BY <2>2, <3>2, <3>3 DEF Or
    <2>7. ASSUME file.sources # Unset, NEW i \in 1..Len(sources)
          PROVE  /\ Var(env, SourceKey(sources[i].name, "URI")) # Unset =>
                       sources[i].uri = Var(env, SourceKey(sources[i].name, "URI"))
                 /\ Var(env, SourceKey(sources[i].name, "SCHEMAS")) # Unset =>
                       sources[i].schemas =
                           Csv(Var(env, SourceKey(sources[i].name, "SCHEMAS")))
      <3>1. sources = [k \in 1..Len(file.sources) |-> NamedSource(file.sources[k], env)]
        BY <2>3, <2>7 DEF Sources
      <3>2. sources[i] = NamedSource(file.sources[i], env)
        <4>1. Len(sources) \in Nat /\ Len(sources) = Len(file.sources)
          BY <2>1, <3>1, <2>7, SourcesOfLoaded DEF Load
        <4> QED
          BY <3>1, <4>1
      <3>3. sources[i].name = Trim(file.sources[i].name)
        BY <3>2 DEF NamedSource
      <3>4. /\ sources[i].uri = EnvFirst(env, SourceKey(sources[i].name, "URI"),
                                         file.sources[i].uri)
            /\ sources[i].schemas =
                   Or(EnvCsv(env, SourceKey(sources[i].name, "SCHEMAS")),
                      Or(file.sources[i].schemas, <<"public">>))
        BY <3>2, <3>3 DEF NamedSource
      <3> HIDE DEF sources
      <3> QED
        BY <2>2, <3>4, FirstIsFirst
    <2> HIDE DEF sources, c, file
    <2>8. /\ Var(env, <<"IGLOO_PARQUET_PATH">>) # Unset =>
                c.parquet_path = Var(env, <<"IGLOO_PARQUET_PATH">>)
          /\ Var(env, <<"IGLOO_CDC_PATH">>) # Unset =>
                c.cdc_path = Var(env, <<"IGLOO_CDC_PATH">>)
          /\ Var(env, <<"IGLOO_LISTEN_ADDR">>) # Unset =>
                c.listen_addr = Var(env, <<"IGLOO_LISTEN_ADDR">>)
      BY <2>3, FirstIsFirst
    <2>9. /\ Var(env, <<"IGLOO_CACHE_MAX_ENTRIES">>) # Unset =>
                c.cache_max_entries =
                    Number(Var(env, <<"IGLOO_CACHE_MAX_ENTRIES">>)) % Usize
          /\ Var(env, <<"IGLOO_CACHE_TTL_SECONDS">>) # Unset =>
                c.cache_ttl = Number(Var(env, <<"IGLOO_CACHE_TTL_SECONDS">>))
          /\ Var(env, <<"IGLOO_CDC_POLL_SECONDS">>) # Unset =>
                c.cdc_poll_interval = Number(Var(env, <<"IGLOO_CDC_POLL_SECONDS">>))
      BY <2>4, <2>5
    <2> QED
      BY <2>6, <2>7, <2>8, <2>9 DEF sources, c, file
  <1>2. MainInv => EnvironmentWins
    BY <1>1 DEF EnvironmentWins
  <1> QED
    BY <1>2, ProcessesInvariant, PTL
===============================================================================
