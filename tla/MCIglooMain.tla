------------------------------ MODULE MCIglooMain ------------------------------
(* Configurations in four families, each varying what interacts: the flat keys,  *)
(* lists of up to two [[sources]] entries, numbers and paths, and the choice of  *)
(* the file. Each is started as a server and as a demo. Beside these, two runs   *)
(* of the crypto demo share a directory. A usize holds numbers below 2048, just   *)
(* enough for the default capacity.                                              *)
EXTENDS IglooMain, TLC

CONSTANT FirstRun

\* Numbers in texts; `2048' is 0 as a usize.
Numbers == [n \in {"0", "1", "2048", "2049"} |->
               CASE n = "0" -> 0 [] n = "1" -> 1 [] n = "2048" -> 2048
                 [] n = "2049" -> 2049]
NumberOf(text) == IF text \in DOMAIN Numbers THEN Numbers[text] ELSE Malformed

TrimText(text) == IF text = " erp" THEN "erp" ELSE text
UpperText(text) == CASE text = "erp" -> "ERP" [] text = "crm" -> "CRM" [] OTHER -> text
SplitCsv(text) == IF text = " , " THEN << >> ELSE <<text>>

Full ==
    [EmptyFile EXCEPT !.parquet_path = "data", !.cdc_path = "events",
                      !.listen_addr = "localhost:5442"]

\* An environment without the variables that a family leaves unset.
Env(vars) ==
    LET defined == {k \in DOMAIN vars : vars[k] # Unset}
    IN [k \in defined |-> vars[k]]

Launch(vars, file) ==
    {[command |-> [r \in Runs |-> IF r = FirstRun THEN c ELSE "none"],
      env     |-> Env(vars),
      files   |-> [path \in {"igloo.toml", "custom.toml"} |->
                      IF path = "igloo.toml" THEN file ELSE Absent]] :
        c \in {"serve", "demo"}}

FlatLaunches ==
    UNION {Launch(<<"DATABASE_URL">> :> d @@ <<"IGLOO_POSTGRES_URI">> :> u
                      @@ <<"IGLOO_POSTGRES_SCHEMAS">> :> s,
                  [Full EXCEPT !.postgres_uri = f, !.postgres_schemas = g]) :
              d \in {Unset, "postgres://env", "nonsense", NotUnicode},
              u \in {Unset, "postgres://other"}, s \in {Unset, "sales", " , "},
              f \in {Unset, "postgres://file"}, g \in {Unset, <<"public">>, << >>}}

Entries ==
    [name : {"erp", " erp", "ERP", "crm", "datafusion"}, uri : {Unset, "postgres://file"},
     schemas : {Unset}, tables : {Unset}]

EntryLists ==
    {<<[name |-> "erp", uri |-> Unset, schemas |-> s, tables |-> t]>> :
        s \in {Unset, << >>, <<" ">>}, t \in {Unset, << >>, <<"orders">>}}
    \cup {<<a, b>> : a \in Entries, b \in Entries} \cup {<< >>}

NamedLaunches ==
    UNION {Launch(SourceKey("erp", "URI") :> e @@ SourceKey("erp", "SCHEMAS") :> s
                      @@ <<"DATABASE_URL">> :> d,
                  [Full EXCEPT !.sources = l, !.postgres_uri = f]) :
              e \in {Unset, "postgres://env"}, s \in {Unset, "sales"},
              d \in {Unset, "postgres://flat"}, l \in EntryLists,
              f \in {Unset, "postgres://file"}}

NumberLaunches ==
    UNION {Launch(<<"IGLOO_CACHE_MAX_ENTRIES">> :> m @@ <<"IGLOO_CDC_POLL_SECONDS">> :> i
                      @@ <<"IGLOO_PARQUET_PATH">> :> q @@ <<"IGLOO_LISTEN_ADDR">> :> a,
                  [Full EXCEPT !.postgres_uri = "postgres://file", !.listen_addr = Unset,
                               !.cache_max_entries = n, !.cache_ttl_seconds = t]) :
              m \in {Unset, "0", "2048", "2049", "many", NotUnicode}, i \in {Unset, "0", "1"},
              q \in {Unset, " ", "parquet"}, a \in {Unset, "localhost:1", "nowhere"},
              n \in {Unset, 0, 2048}, t \in {Unset, 0}}

\* IGLOO_CONFIG names a file, that file or igloo.toml is missing or broken.
FileLaunches ==
    {[l EXCEPT !.env = Env(<<"IGLOO_CONFIG">> :> p @@ <<"DATABASE_URL">> :> "postgres://env"
                               @@ <<"IGLOO_CDC_PATH">> :> "changes"),
               !.files = [path \in {"igloo.toml", "custom.toml"} |->
                             IF path = "igloo.toml" THEN a ELSE b]] :
        l \in Launch(<<"IGLOO_CONFIG">> :> Unset, Full),
        p \in {Unset, "custom.toml", NotUnicode},
        a \in {Absent, Broken, Full},
        b \in {Absent, Broken, [Full EXCEPT !.cdc_path = "custom"]}}

CryptoLaunch ==
    [command |-> [r \in Runs |-> "crypto-demo"], env |-> << >>,
     files |-> [path \in {"igloo.toml", "custom.toml"} |-> Absent]]

AllLaunches ==
    FlatLaunches \cup NamedLaunches \cup NumberLaunches \cup FileLaunches
        \cup {CryptoLaunch}
===============================================================================
