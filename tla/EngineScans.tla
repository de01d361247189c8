----------------------------- MODULE EngineScans ------------------------------
(* The engine of src/datafusion_engine.rs from its startup on: each source has  *)
(* the one connection opened at startup, over which the scans of all queries go *)
(* (src/postgres_table.rs). PostgreSQL answers the requests of a connection in  *)
(* the order they were sent. A connection may end at any time; nothing opens it *)
(* again. A query needs a scan of every table it names, from sources that change *)
(* meanwhile.                                                                   *)
EXTENDS EngineStartup

CONSTANTS Queries,      \* queries in flight at a time
          Dropped,      \* in place of a query that no longer waits for the reply
          MaxTables, MaxVersion, MaxRequests,   \* bounds: tables per query, data
                                \* versions, requests on a connection
          Explored      \* bound: contents of the databases for which it serves

ASSUME EngineBounds == {MaxTables, MaxVersion, MaxRequests} \subseteq Nat
ASSUME DroppedAssumption == Dropped \notin Queries
\* What validate_sources guarantees of a configuration.
ASSUME DistinctNames ==
    \A i, j \in SourceIds : Config[i].name = Config[j].name => i = j

VARIABLES lost,         \* sources whose connection has ended
          version,      \* per source, the version of its data
          requests,     \* per source, scans sent and not answered yet, in order
          outcome,      \* per query: "none", "running", "rows" or "error"
          scans,        \* per query, its tables and what became of each scan
          since         \* per query, the versions when it began

\* since exists for the properties alone.
queryVars == <<outcome, scans, since>>
scanVars == <<lost, version, requests, queryVars>>
engineVars == <<vars, scanVars>>

Reply == [state : {"unsent", "waiting", "read", "error", "lost"}, version : Nat]

Unsent == [state |-> "unsent", version |-> 0]

EngineInit ==
    /\ Init
    /\ lost = {}
    /\ version = [i \in SourceIds |-> 0]
    /\ requests = [i \in SourceIds |-> << >>]
    /\ outcome = [q \in Queries |-> "none"]
    /\ scans = [q \in Queries |-> << >>]
    /\ since = [q \in Queries |-> version]

\* Variant: one client serves every source.
OneClient(t) == Len(Config)

\* The providers of a source hold the client found under the source's name; the
\* map keeps the last one inserted under it.
ClientOf(t) ==
    CHOOSE i \in SourceIds :
        /\ Config[i].name = Config[t.source].name
        /\ \A j \in SourceIds : Config[j].name = Config[i].name => j <= i

-------------------------------------------------------------------------------
(* The environment *)

ChangeData(i) ==
    /\ databases \in Explored
    /\ phase = "serving"
    /\ version[i] < MaxVersion
    /\ version' = [version EXCEPT ![i] = @ + 1]
    /\ UNCHANGED <<vars, lost, requests, queryVars>>

Waits(q, t) ==
    outcome[q] = "running" /\ t \in DOMAIN scans[q] /\ scans[q][t].state = "waiting"

\* Variant: the requests on the connection are left waiting for their replies.
LoseConnectionSilently(i) ==
    /\ databases \in Explored
    /\ i <= Len(discovered)
    /\ i \notin lost
    /\ lost' = lost \cup {i}
    /\ UNCHANGED <<vars, version, requests, queryVars>>

\* The connection's background task ends; every request on it fails.
LoseConnection(i) ==
    /\ databases \in Explored
    /\ i <= Len(discovered)
    /\ i \notin lost
    /\ lost' = lost \cup {i}
    /\ requests' = [requests EXCEPT ![i] = << >>]
    /\ scans' = [q \in Queries |-> [t \in DOMAIN scans[q] |->
           IF Waits(q, t) /\ ClientOf(t) = i
           THEN [scans[q][t] EXCEPT !.state = "lost"]
           ELSE scans[q][t]]]
    /\ UNCHANGED <<vars, version, outcome, since>>

-------------------------------------------------------------------------------
(* Queries *)

\* Every registered name stands for a table of catalogs (or the Parquet table,
\* which needs no connection).
Begin(q, tables) ==
    /\ databases \in Explored
    /\ phase = "serving"
    /\ outcome[q] # "running"
    /\ outcome' = [outcome EXCEPT ![q] = "running"]
    /\ scans' = [scans EXCEPT ![q] = [t \in tables |-> Unsent]]
    /\ since' = [since EXCEPT ![q] = version]
    /\ UNCHANGED <<vars, lost, version, requests>>

SetState(q, t, s) == scans' = [scans EXCEPT ![q][t].state = s]

\* scan, called while the physical plan is made, in any order of the tables.
Send(q, t) ==
    /\ outcome[q] = "running"
    /\ scans[q][t].state = "unsent"
    /\ \/ /\ ClientOf(t) \notin lost
          /\ Len(requests[ClientOf(t)]) < MaxRequests
          /\ requests' = [requests EXCEPT ![ClientOf(t)] =
                 Append(@, [query |-> q, table |-> t])]
          /\ SetState(q, t, "waiting")
       \/ /\ ClientOf(t) \in lost
          /\ SetState(q, t, "lost")
          /\ UNCHANGED requests
    /\ UNCHANGED <<vars, lost, version, outcome, since>>

\* The reply to the oldest request: rows of the current version, or an error (of
\* PostgreSQL, or of decoding a value). Nobody waits for that of a dropped one.
Answer(i) ==
    /\ requests[i] # << >>
    /\ requests' = [requests EXCEPT ![i] = Tail(@)]
    /\ LET r == Head(requests[i]) IN
       IF r.query = Dropped
       THEN UNCHANGED scans
       ELSE \/ scans' = [scans EXCEPT ![r.query][r.table] =
                   [state |-> "read", version |-> version[i]]]
            \/ SetState(r.query, r.table, "error")
    /\ UNCHANGED <<vars, lost, version, outcome, since>>

\* The first scan that fails ends the query with its error; the other scans are
\* dropped, their requests stay with PostgreSQL.
Fail(q) ==
    /\ outcome[q] = "running"
    /\ \E t \in DOMAIN scans[q] : scans[q][t].state \in {"error", "lost"}
    /\ outcome' = [outcome EXCEPT ![q] = "error"]
    /\ requests' = [i \in SourceIds |-> [k \in DOMAIN requests[i] |->
           IF requests[i][k].query = q
           THEN [requests[i][k] EXCEPT !.query = Dropped]
           ELSE requests[i][k]]]
    /\ UNCHANGED <<vars, lost, version, scans, since>>

\* Variant: a table whose source is gone counts as empty.
FinishWithout(q) ==
    /\ outcome[q] = "running"
    /\ \A t \in DOMAIN scans[q] : scans[q][t].state \in {"read", "lost"}
    /\ outcome' = [outcome EXCEPT ![q] = "rows"]
    /\ UNCHANGED <<vars, lost, version, requests, scans, since>>

Finish(q) ==
    /\ outcome[q] = "running"
    /\ \A t \in DOMAIN scans[q] : scans[q][t].state = "read"
    /\ outcome' = [outcome EXCEPT ![q] = "rows"]
    /\ UNCHANGED <<vars, lost, version, requests, scans, since>>

Startup == Next /\ UNCHANGED scanVars

EngineNext ==
    \/ Startup
    \/ \E i \in SourceIds : ChangeData(i) \/ LoseConnection(i) \/ Answer(i)
    \/ \E q \in Queries :
          \/ \E tables \in SUBSET catalogs :
                tables # {} /\ Cardinality(tables) <= MaxTables /\ Begin(q, tables)
          \/ \E t \in DOMAIN scans[q] : Send(q, t)
          \/ Fail(q)
          \/ Finish(q)

EngineSpec == EngineInit /\ [][EngineNext]_engineVars

-------------------------------------------------------------------------------
(* Properties *)

\* The shape of the connections' and queries' state.
EngineTypeOK ==
    /\ TypeOK
    /\ lost \subseteq SourceIds
    /\ version \in [SourceIds -> Nat]
    /\ requests \in [SourceIds ->
           Seq([query : Queries \cup {Dropped}, table : AllFound])]
    /\ outcome \in [Queries -> {"none", "running", "rows", "error"}]
    /\ \A q \in Queries :
          /\ DOMAIN scans[q] \subseteq AllFound
          /\ \A t \in DOMAIN scans[q] : scans[q][t] \in Reply
    /\ since \in [Queries -> [SourceIds -> Nat]]

\* No query waits for a reply that cannot come: each scan that waits has its request
\* on the connection of its own source, which has not ended. So a source that is
\* gone for good costs its queries an error and never a hang (connect and the one
\* client per source, datafusion_engine.rs; scan, postgres_table.rs).
WaitsOnLiveConnection ==
    \A q \in Queries : \A t \in DOMAIN scans[q] :
        Waits(q, t) =>
            /\ t.source \notin lost
            /\ \E k \in 1..Len(requests[t.source]) :
                  requests[t.source][k] = [query |-> q, table |-> t]

\* A query that returns rows has read every one of its tables, and each of them after
\* it began: no reply that was meant for an earlier, failed query is taken for one of
\* its own, and no table is left out because its source was slow or lost.
ReadsDuringQuery ==
    \A q \in Queries :
        outcome[q] = "rows" =>
            \A t \in DOMAIN scans[q] :
                /\ scans[q][t].state = "read"
                /\ since[q][t.source] <= scans[q][t].version

\* The loss of one source is no other source's: a query fails only when the
\* connection of a source that it reads has ended or PostgreSQL's reply to a scan of
\* its own was an error (register_postgres_sources hands every table the client of
\* its source).
LossIsContained ==
    \A q \in Queries :
        outcome[q] = "error" =>
            \E t \in DOMAIN scans[q] :
                t.source \in lost \/ scans[q][t].state = "error"
===============================================================================
