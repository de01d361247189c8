--------------------------- MODULE EngineScansProofs ---------------------------
(* What holds of queries over the sources' connections, for every configuration  *)
(* with distinct names, any number of queries, tables and requests, and whenever *)
(* a connection is lost. The invariant pairs the two sides of a request: an       *)
(* entry of a connection's queue that nobody dropped is a scan that waits, once,  *)
(* on the connection of its own source; and a scan that waits has its entry.      *)
EXTENDS EngineScans, EngineStartupProofs

Request == [query : Queries \cup {Dropped}, table : catalogs]

\* Nothing is asked of a source before the engine serves.
NotServing ==
    phase # "serving" =>
        /\ \A i \in SourceIds : requests[i] = << >>
        /\ \A q \in Queries : scans[q] = << >> /\ outcome[q] = "none"

ScanTypes ==
    /\ version \in [SourceIds -> Nat]
    /\ since \in [Queries -> [SourceIds -> Nat]]
    /\ outcome \in [Queries -> {"none", "running", "rows", "error"}]
    /\ requests \in [SourceIds -> Seq(Request)]
    /\ DOMAIN scans = Queries
    /\ \A q \in Queries :
          /\ DOMAIN scans[q] \subseteq catalogs
          /\ \A t \in DOMAIN scans[q] : scans[q][t] \in Reply

\* Every table belongs to a source.
Sources ==
    /\ discovered \in Seq(Range(discovered))
    /\ Len(discovered) <= Len(Config)
    /\ \A i \in 1..Len(discovered) : \A t \in Range(discovered[i]) : t.source = i
    /\ \A t \in catalogs : t.source \in SourceIds

\* An entry that is not dropped is a waiting scan of the connection's source, and
\* stands there once.
Once(i, k) ==
    LET r == requests[i][k] IN \A l \in 1..Len(requests[i]) : requests[i][l] = r => l = k

EntryWaits(i, r) == Waits(r.query, r.table) /\ r.table.source = i

Entries ==
    \A i \in SourceIds : \A k \in 1..Len(requests[i]) :
        requests[i][k].query # Dropped => EntryWaits(i, requests[i][k]) /\ Once(i, k)

Versions ==
    \A q \in Queries :
        /\ \A i \in SourceIds : since[q][i] <= version[i]
        /\ \A t \in DOMAIN scans[q] :
              scans[q][t].state = "read" =>
                  since[q][t.source] <= scans[q][t].version
        /\ outcome[q] = "rows" => \A t \in DOMAIN scans[q] : scans[q][t].state = "read"

Losses ==
    \A q \in Queries :
        \A t \in DOMAIN scans[q] : scans[q][t].state = "lost" => t.source \in lost

ScanInv ==
    /\ Sources /\ NotServing /\ ScanTypes /\ Entries /\ WaitsOnLiveConnection
    /\ Versions /\ Losses /\ LossIsContained

-------------------------------------------------------------------------------
(* The client of a table is that of its own source. *)

\* Names are distinct, so the source that answers to a table's name is its own.
LEMMA OwnClient ==
    ASSUME NEW t, t.source \in SourceIds
    PROVE  ClientOf(t) = t.source
  <1>1. \A i \in SourceIds : Config[i].name = Config[t.source].name => i = t.source
    BY DistinctNames
  <1>2. t.source <= t.source
    BY ConfigAssumption DEF SourceIds
  <1> QED
    BY <1>1, <1>2 DEF ClientOf

\* A table that a query scans belongs to a source, and has that source's client.
LEMMA ScannedTables ==
    ASSUME ScanInv, NEW q \in Queries, NEW t \in DOMAIN scans[q]
    PROVE  t \in catalogs /\ t.source \in SourceIds /\ ClientOf(t) = t.source
  <1>1. t \in catalogs /\ t.source \in SourceIds
    BY DEF ScanInv, ScanTypes, Sources
  <1> QED
    BY <1>1, OwnClient

\* Changing the state of a scan keeps its version.
LEMMA WithState ==
    ASSUME NEW x \in Reply, NEW s \in {"unsent", "waiting", "read", "error", "lost"}
    PROVE  /\ [x EXCEPT !.state = s] \in Reply
           /\ [x EXCEPT !.state = s].version = x.version
           /\ [x EXCEPT !.state = s].state = s
  BY DEF Reply

\* At first there are no sources, no requests and no queries.
LEMMA InitScans == EngineInit => ScanInv
  <1> SUFFICES ASSUME EngineInit PROVE ScanInv
    OBVIOUS
  <1> USE ConfigAssumption DEF EngineInit, Init, SourceIds
  <1>1. Sources
    BY DEF Sources
  <1>2. NotServing
    BY DEF NotServing
  <1>3. ScanTypes
    BY DEF ScanTypes
  <1>4. Entries
    BY DEF Entries
  <1>5. WaitsOnLiveConnection /\ Versions /\ Losses /\ LossIsContained
    BY DEF WaitsOnLiveConnection, Versions, Losses, LossIsContained
  <1> QED
    BY <1>1, <1>2, <1>3, <1>4, <1>5 DEF ScanInv

-------------------------------------------------------------------------------
(* Startup only adds sources, then catalogs, while no query runs. *)

\* A step of the startup finds every queue empty and leaves it so.
LEMMA StartupScans == ASSUME ScanInv, Startup PROVE ScanInv'
  <1> USE DEF Startup, scanVars, queryVars
  <1>1. Sources'
    <2>1. CASE Connect
      <3> DEFINE i   == Len(discovered) + 1
                 new == [k \in 1..Len(TablesOf(i)) |-> Located(i, TablesOf(i)[k])]
      <3>1. discovered \in Seq(Range(discovered)) /\ Len(discovered) < Len(Config)
        BY <2>1 DEF Connect, ScanInv, Sources
      <3>2. discovered' = Append(discovered, new)
        BY <2>1 DEF Connect
      <3>3. \A t \in Range(new) : t.source = i
        BY DEF Range, Located
      <3> HIDE DEF new
      <3>4. discovered' \in Seq(Range(discovered'))
        BY <3>1, <3>2 DEF Range
      <3>5. Len(discovered') = i /\ i <= Len(Config)
        BY <3>1, <3>2, ConfigAssumption
      <3>6. \A j \in 1..i : discovered'[j] = IF j = i THEN new ELSE discovered[j]
        BY <3>1, <3>2
      <3>7. \A j \in 1..i : \A t \in Range(discovered'[j]) : t.source = j
        <4> SUFFICES ASSUME NEW j \in 1..i PROVE \A t \in Range(discovered'[j]) : t.source = j
          OBVIOUS
        <4>1. CASE j = i
          BY <4>1, <3>3, <3>6
        <4>2. CASE j # i
          <5>1. j \in 1..Len(discovered)
            BY <4>2, <3>1
          <5> QED
            BY <4>2, <5>1, <3>6 DEF ScanInv, Sources
        <4> QED
          BY <4>1, <4>2
      <3>8. UNCHANGED catalogs
        BY <2>1 DEF Connect
      <3> QED
        BY <3>4, <3>5, <3>7, <3>8 DEF ScanInv, Sources
    <2>2. CASE RegisterCatalogs
      <3>1. /\ Len(discovered) = Len(Config)
            /\ UNCHANGED discovered
            /\ catalogs' = UNION {Range(discovered[i]) : i \in SourceIds}
        BY <2>2 DEF RegisterCatalogs
      <3>2. \A t \in catalogs' : \E i \in SourceIds : t \in Range(discovered[i])
        BY <3>1
      <3>3. \A i \in 1..Len(discovered) : \A t \in Range(discovered[i]) : t.source = i
        BY DEF ScanInv, Sources
      <3>4. \A t \in catalogs' : t.source \in SourceIds
        BY <3>1, <3>2, <3>3 DEF SourceIds
      <3> QED
        BY <3>1, <3>4 DEF ScanInv, Sources, Range
    <2>3. CASE ConnectFails \/ RegisterAlias \/ NameRefused \/ Serve
      BY <2>3 DEF ConnectFails, RegisterAlias, NameRefused, Serve, Failed, ScanInv, Sources
    <2> QED
      BY <2>1, <2>2, <2>3 DEF Next
  <1>2. phase # "serving"
    BY DEF Next, ConnectFails, Connect, RegisterCatalogs, RegisterAlias, NameRefused, Serve
  <1>3. /\ \A i \in SourceIds : requests[i] = << >>
        /\ \A q \in Queries : scans[q] = << >> /\ outcome[q] = "none"
    BY <1>2 DEF ScanInv, NotServing
  <1>4. NotServing'
    BY <1>3 DEF NotServing
  <1>5. ScanTypes'
    <2>1. requests' \in [SourceIds -> Seq(Request')]
      BY <1>3 DEF ScanInv, ScanTypes
    <2> QED
      BY <2>1, <1>3 DEF ScanInv, ScanTypes
  <1>6. Entries'
    BY <1>3 DEF Entries
  <1>7. WaitsOnLiveConnection' /\ Versions' /\ Losses' /\ LossIsContained'
    BY <1>3 DEF ScanInv, WaitsOnLiveConnection, Waits, Versions, Losses, LossIsContained
  <1> QED
    BY <1>1, <1>4, <1>5, <1>6, <1>7 DEF ScanInv

\* Everything else leaves the engine's names alone.
LEMMA SourcesKept == ASSUME ScanInv, UNCHANGED vars PROVE Sources'
  BY DEF ScanInv, Sources, vars, Range

-------------------------------------------------------------------------------
(* The environment *)

\* A change in a source only raises its version.
LEMMA ChangeDataScans ==
    ASSUME ScanInv, NEW i \in SourceIds, ChangeData(i) PROVE ScanInv'
  <1> USE DEF ChangeData, queryVars, vars
  <1>1. Sources' /\ NotServing'
    BY SourcesKept DEF ScanInv, NotServing
  <1>2. version[i] \in Nat /\ version' \in [SourceIds -> Nat]
    BY DEF ScanInv, ScanTypes
  <1>3. ScanTypes'
    BY <1>2 DEF ScanInv, ScanTypes, Request
  <1>4. Entries' /\ WaitsOnLiveConnection' /\ Losses' /\ LossIsContained'
    BY DEF ScanInv, Entries, EntryWaits, Once, WaitsOnLiveConnection, Waits, Losses,
           LossIsContained
  <1>5. Versions'
    <2>1. \A j \in SourceIds : version'[j] \in Nat /\ version[j] \in Nat /\ version[j] <= version'[j]
      BY <1>2 DEF ScanInv, ScanTypes
    <2> QED
      BY <2>1 DEF ScanInv, ScanTypes, Versions
  <1> QED
    BY <1>1, <1>3, <1>4, <1>5 DEF ScanInv

\* A lost connection takes its whole queue along, and each scan in it is told.
LEMMA LoseConnectionScans ==
    ASSUME ScanInv, NEW i \in SourceIds, LoseConnection(i) PROVE ScanInv'
  <1> USE DEF LoseConnection, vars
  <1>1. Sources'
    BY SourcesKept DEF ScanInv
  <1>2. \A q \in Queries :
           /\ DOMAIN scans'[q] = DOMAIN scans[q]
           /\ \A t \in DOMAIN scans[q] :
                 scans'[q][t] = IF Waits(q, t) /\ t.source = i
                                THEN [scans[q][t] EXCEPT !.state = "lost"]
                                ELSE scans[q][t]
    BY ScannedTables
  <1>3. /\ DOMAIN requests = SourceIds /\ requests'[i] = << >>
        /\ \A j \in SourceIds \ {i} : requests'[j] = requests[j]
    BY DEF ScanInv, ScanTypes
  <1>4. /\ lost' = lost \cup {i}
        /\ UNCHANGED <<phase, catalogs, version, outcome, since>>
    OBVIOUS
  <1>5. \A q \in Queries : \A t \in DOMAIN scans[q] :
           /\ scans'[q][t] \in Reply
           /\ scans'[q][t].version = scans[q][t].version
           /\ scans'[q][t].state = IF Waits(q, t) /\ t.source = i
                                   THEN "lost" ELSE scans[q][t].state
    <2> SUFFICES ASSUME NEW q \in Queries, NEW t \in DOMAIN scans[q]
                 PROVE  /\ scans'[q][t] \in Reply
                        /\ scans'[q][t].version = scans[q][t].version
                        /\ scans'[q][t].state = IF Waits(q, t) /\ t.source = i
                                                THEN "lost" ELSE scans[q][t].state
      OBVIOUS
    <2>1. scans[q][t] \in Reply
      BY DEF ScanInv, ScanTypes
    <2>2. scans'[q][t] = IF Waits(q, t) /\ t.source = i
                         THEN [scans[q][t] EXCEPT !.state = "lost"] ELSE scans[q][t]
      BY <1>2
    <2>3. /\ [scans[q][t] EXCEPT !.state = "lost"] \in Reply
          /\ [scans[q][t] EXCEPT !.state = "lost"].version = scans[q][t].version
          /\ [scans[q][t] EXCEPT !.state = "lost"].state = "lost"
      BY <2>1, WithState
    <2>4. CASE Waits(q, t) /\ t.source = i
      BY <2>2, <2>3, <2>4
    <2>5. CASE ~(Waits(q, t) /\ t.source = i)
      BY <2>1, <2>2, <2>5
    <2> QED
      BY <2>4, <2>5
  <1>6. \A q \in Queries : \A t : Waits(q, t)' <=> Waits(q, t) /\ t.source # i
    <2> SUFFICES ASSUME NEW q \in Queries, NEW t
                 PROVE  Waits(q, t)' <=> Waits(q, t) /\ t.source # i
      OBVIOUS
    <2>1. CASE t \in DOMAIN scans[q]
      <3>1. scans'[q][t].state = IF Waits(q, t) /\ t.source = i
                                 THEN "lost" ELSE scans[q][t].state
        BY <1>5, <2>1
      <3> QED
        BY <2>1, <3>1, <1>2, <1>4 DEF Waits
    <2>2. CASE t \notin DOMAIN scans[q]
      BY <2>2, <1>2 DEF Waits
    <2> QED
      BY <2>1, <2>2
  <1> HIDE DEF LoseConnection
  <1>7. NotServing'
    BY <1>2, <1>3, <1>4 DEF ScanInv, NotServing, LoseConnection
  <1>8. ScanTypes'
    <2>1. requests' \in [SourceIds -> Seq(Request)]
      BY DEF ScanInv, ScanTypes, LoseConnection
    <2>2. DOMAIN scans' = Queries
      BY DEF LoseConnection
    <2> QED
      BY <2>1, <2>2, <1>2, <1>4, <1>5 DEF ScanInv, ScanTypes, Request
  <1>9. Entries'
    <2> SUFFICES ASSUME NEW j \in SourceIds, NEW k \in 1..Len(requests'[j]),
                        requests'[j][k].query # Dropped
                 PROVE  EntryWaits(j, requests[j][k])' /\ Once(j, k)'
      BY DEF Entries
    <2> DEFINE r == requests[j][k]
    <2>1. j # i /\ requests'[j] = requests[j]
      BY <1>3
    <2>2. requests[j] \in Seq(Request) /\ r \in Request
      BY <2>1 DEF ScanInv, ScanTypes
    <2>3. EntryWaits(j, r) /\ Once(j, k)
      BY <2>1 DEF ScanInv, Entries
    <2>4. r.query \in Queries
      BY <2>1, <2>2 DEF Request
    <2> QED
      BY <2>1, <2>3, <2>4, <1>6 DEF EntryWaits, Once
  <1>10. WaitsOnLiveConnection'
    <2> SUFFICES ASSUME NEW q \in Queries, NEW t \in DOMAIN scans'[q], Waits(q, t)'
                 PROVE  /\ t.source \notin lost'
                        /\ \E k \in 1..Len(requests'[t.source]) :
                              requests'[t.source][k] = [query |-> q, table |-> t]
      BY DEF WaitsOnLiveConnection
    <2>1. t \in DOMAIN scans[q] /\ Waits(q, t) /\ t.source # i
      BY <1>2, <1>6
    <2>2. requests'[t.source] = requests[t.source]
      BY <2>1, <1>3, ScannedTables
    <2> QED
      BY <2>1, <2>2, <1>4 DEF ScanInv, WaitsOnLiveConnection
  <1>11. Versions'
    BY <1>2, <1>4, <1>5 DEF ScanInv, Versions, Waits
  <1>12. Losses'
    BY <1>2, <1>4, <1>5 DEF ScanInv, Losses
  <1>13. LossIsContained'
    <2>1. \A q \in Queries : outcome[q] = "error" =>
              \A t \in DOMAIN scans[q] : scans'[q][t].state = scans[q][t].state
      BY <1>5 DEF Waits
    <2> QED
      BY <2>1, <1>2, <1>4 DEF ScanInv, LossIsContained
  <1> QED
    BY <1>1, <1>7, <1>8, <1>9, <1>10, <1>11, <1>12, <1>13 DEF ScanInv

-------------------------------------------------------------------------------
(* Queries *)

\* A request in a queue is well formed, and if not dropped it is a query's.
LEMMA QueuedRequest ==
    ASSUME ScanInv, NEW i \in SourceIds, NEW k \in 1..Len(requests[i])
    PROVE  /\ requests[i][k] \in Request
           /\ requests[i][k].query # Dropped => requests[i][k].query \in Queries
           /\ [requests[i][k] EXCEPT !.query = Dropped].query = Dropped
  <1>1. requests[i] \in Seq(Request)
    BY DEF ScanInv, ScanTypes
  <1>2. requests[i][k] \in Request
    BY <1>1
  <1> QED
    BY <1>2 DEF Request

\* A query that begins has no request in any queue: the earlier one's are dropped.
LEMMA BeginScans ==
    ASSUME ScanInv, NEW q \in Queries, NEW tables \in SUBSET catalogs, Begin(q, tables)
    PROVE  ScanInv'
  <1> USE DEF Begin, vars
  <1>1. Sources' /\ NotServing'
    BY SourcesKept DEF ScanInv, NotServing
  <1>2. /\ UNCHANGED <<phase, catalogs, lost, version, requests>>
        /\ outcome[q] # "running"
    OBVIOUS
  <1>3. /\ outcome'[q] = "running" /\ since'[q] = version
        /\ scans'[q] = [t \in tables |-> Unsent]
        /\ \A p \in Queries \ {q} :
              outcome'[p] = outcome[p] /\ scans'[p] = scans[p] /\ since'[p] = since[p]
    BY DEF ScanInv, ScanTypes
  <1>4. ScanTypes'
    <2>1. Unsent \in Reply
      BY DEF Unsent, Reply
    <2>2. /\ outcome' \in [Queries -> {"none", "running", "rows", "error"}]
          /\ since' \in [Queries -> [SourceIds -> Nat]]
          /\ DOMAIN scans' = Queries
      BY DEF ScanInv, ScanTypes
    <2> QED
      BY <2>1, <2>2, <1>2, <1>3 DEF ScanInv, ScanTypes, Request
  <1> HIDE DEF Begin
  <1>5. \A p \in Queries : \A t : Waits(p, t)' <=> Waits(p, t)
    BY <1>2, <1>3 DEF Waits, Unsent
  <1>6. \A i \in SourceIds : \A k \in 1..Len(requests[i]) :
           requests[i][k].query # Dropped => requests[i][k].query \in Queries
    BY QueuedRequest
  <1>7. Entries'
    BY <1>2, <1>5, <1>6 DEF ScanInv, Entries, EntryWaits, Once
  <1>8. WaitsOnLiveConnection'
    <2> SUFFICES ASSUME NEW p \in Queries, NEW t \in DOMAIN scans'[p], Waits(p, t)'
                 PROVE  /\ t.source \notin lost
                        /\ \E k \in 1..Len(requests[t.source]) :
                              requests[t.source][k] = [query |-> p, table |-> t]
      BY <1>2 DEF WaitsOnLiveConnection
    <2>1. Waits(p, t) /\ t \in DOMAIN scans[p]
      BY <1>5 DEF Waits
    <2> QED
      BY <2>1 DEF ScanInv, WaitsOnLiveConnection
  <1>9. Versions'
    <2>1. \A i \in SourceIds : version[i] \in Nat /\ version[i] <= version[i]
      BY DEF ScanInv, ScanTypes
    <2>2. \A t \in DOMAIN scans'[q] : scans'[q][t].state = "unsent"
      BY <1>3 DEF Unsent
    <2> QED
      BY <1>2, <1>3, <2>1, <2>2 DEF ScanInv, Versions
  <1>10. Losses' /\ LossIsContained'
    BY <1>2, <1>3 DEF ScanInv, Losses, LossIsContained, Unsent
  <1> QED
    BY <1>1, <1>4, <1>7, <1>8, <1>9, <1>10 DEF ScanInv

\* The end of a query changes no scan; what the queues hold of it is dropped.
LEMMA FailScans == ASSUME ScanInv, NEW q \in Queries, Fail(q) PROVE ScanInv'
  <1> USE DEF Fail, vars
  <1>1. Sources'
    BY SourcesKept DEF ScanInv
  <1>2. /\ UNCHANGED <<phase, catalogs, lost, version, scans, since>>
        /\ outcome[q] = "running" /\ outcome'[q] = "error"
        /\ \A p \in Queries \ {q} : outcome'[p] = outcome[p]
        /\ outcome' \in [Queries -> {"none", "running", "rows", "error"}]
    BY DEF ScanInv, ScanTypes
  <1>3. \A i \in SourceIds :
           /\ requests[i] \in Seq(Request) /\ requests'[i] \in Seq(Request)
           /\ Len(requests'[i]) = Len(requests[i])
           /\ \A k \in 1..Len(requests[i]) :
                 /\ requests[i][k] \in Request
                 /\ requests'[i][k] = IF requests[i][k].query = q
                                      THEN [requests[i][k] EXCEPT !.query = Dropped]
                                      ELSE requests[i][k]
    <2> SUFFICES ASSUME NEW i \in SourceIds
                 PROVE  /\ requests[i] \in Seq(Request) /\ requests'[i] \in Seq(Request)
                        /\ Len(requests'[i]) = Len(requests[i])
                        /\ \A k \in 1..Len(requests[i]) :
                              /\ requests[i][k] \in Request
                              /\ requests'[i][k] =
                                    IF requests[i][k].query = q
                                    THEN [requests[i][k] EXCEPT !.query = Dropped]
                                    ELSE requests[i][k]
      OBVIOUS
    <2>1. requests[i] \in Seq(Request)
      BY DEF ScanInv, ScanTypes
    <2>2. \A r \in Request : [r EXCEPT !.query = Dropped] \in Request
      BY DEF Request
    <2>3. DOMAIN requests[i] = 1..Len(requests[i])
      BY <2>1
    <2> QED
      BY <2>1, <2>2, <2>3
  <1>4. /\ DOMAIN requests' = SourceIds
        /\ \E t \in DOMAIN scans[q] : scans[q][t].state \in {"error", "lost"}
        /\ requests' = [i \in SourceIds |-> requests'[i]]
    OBVIOUS
  <1> HIDE DEF Fail
  <1>5. NotServing'
    BY <1>2, <1>3 DEF ScanInv, NotServing
  <1>6. ScanTypes'
    BY <1>2, <1>3, <1>4 DEF ScanInv, ScanTypes, Request
  <1>7. Entries'
    <2> SUFFICES ASSUME NEW i \in SourceIds, NEW k \in 1..Len(requests'[i]),
                        requests'[i][k].query # Dropped
                 PROVE  EntryWaits(i, requests[i][k])' /\ Once(i, k)'
      BY DEF Entries
    <2>1. k \in 1..Len(requests[i]) /\ requests[i][k] \in Request
      BY <1>3
    <2>2. requests[i][k].query # q /\ requests'[i][k] = requests[i][k]
      BY <2>1, <1>3, QueuedRequest
    <2>3. EntryWaits(i, requests[i][k]) /\ Once(i, k) /\ requests[i][k].query \in Queries
      BY <2>1, <2>2, QueuedRequest DEF ScanInv, Entries
    <2>4. EntryWaits(i, requests[i][k])'
      BY <2>2, <2>3, <1>2 DEF EntryWaits, Waits
    <2>5. Once(i, k)'
      <3> SUFFICES ASSUME NEW l \in 1..Len(requests'[i]), requests'[i][l] = requests'[i][k]
                   PROVE  l = k
        BY DEF Once
      <3>1. l \in 1..Len(requests[i])
        BY <1>3
      <3>2. requests'[i][l] = requests[i][l]
        <4>1. CASE requests[i][l].query = q
          <5>1. requests'[i][l] = [requests[i][l] EXCEPT !.query = Dropped]
            BY <3>1, <4>1, <1>3
          <5>2. requests'[i][l].query = Dropped
            BY <3>1, <5>1, QueuedRequest
          <5> QED
            BY <5>2
        <4>2. CASE requests[i][l].query # q
          BY <3>1, <4>2, <1>3
        <4> QED
          BY <4>1, <4>2
      <3> QED
        BY <3>1, <3>2, <2>2, <2>3 DEF Once
    <2> QED
      BY <2>2, <2>4, <2>5
  <1>8. WaitsOnLiveConnection'
    <2> SUFFICES ASSUME NEW p \in Queries, NEW t \in DOMAIN scans[p], Waits(p, t)'
                 PROVE  /\ t.source \notin lost
                        /\ \E k \in 1..Len(requests'[t.source]) :
                              requests'[t.source][k] = [query |-> p, table |-> t]
      BY <1>2 DEF WaitsOnLiveConnection
    <2>1. p # q /\ Waits(p, t)
      BY <1>2 DEF Waits
    <2>2. PICK k \in 1..Len(requests[t.source]) :
              requests[t.source][k] = [query |-> p, table |-> t]
      BY <2>1 DEF ScanInv, WaitsOnLiveConnection
    <2>3. t.source \in SourceIds
      BY ScannedTables
    <2>4. requests[t.source][k].query # q
      BY <2>1, <2>2
    <2>5. requests'[t.source][k] = requests[t.source][k]
      BY <2>3, <2>4, <1>3
    <2> QED
      BY <2>1, <2>2, <2>3, <2>5, <1>3 DEF ScanInv, WaitsOnLiveConnection
  <1>9. Versions' /\ Losses' /\ LossIsContained'
    BY <1>2, <1>4 DEF ScanInv, Versions, Losses, LossIsContained
  <1> QED
    BY <1>1, <1>5, <1>6, <1>7, <1>8, <1>9 DEF ScanInv

\* A query finishes once all of its tables are read, with no request left in a queue.
LEMMA FinishScans == ASSUME ScanInv, NEW q \in Queries, Finish(q) PROVE ScanInv'
  <1> USE DEF Finish, vars
  <1>1. Sources'
    BY SourcesKept DEF ScanInv
  <1>2. /\ UNCHANGED <<phase, catalogs, lost, version, requests, scans, since>>
        /\ outcome[q] = "running" /\ outcome'[q] = "rows"
        /\ \A t \in DOMAIN scans[q] : scans[q][t].state = "read"
        /\ \A p \in Queries \ {q} : outcome'[p] = outcome[p]
        /\ outcome' \in [Queries -> {"none", "running", "rows", "error"}]
    BY DEF ScanInv, ScanTypes
  <1> HIDE DEF Finish
  <1>3. \A p \in Queries : \A t : Waits(p, t)' <=> Waits(p, t)
    BY <1>2 DEF Waits
  <1>4. NotServing'
    BY <1>2 DEF ScanInv, NotServing
  <1>5. ScanTypes'
    BY <1>2 DEF ScanInv, ScanTypes, Request
  <1>6. \A i \in SourceIds : \A k \in 1..Len(requests[i]) :
           requests[i][k].query # Dropped => requests[i][k].query \in Queries
    BY QueuedRequest
  <1>7. Entries'
    BY <1>2, <1>3, <1>6 DEF ScanInv, Entries, EntryWaits, Once
  <1>8. WaitsOnLiveConnection'
    <2> SUFFICES ASSUME NEW p \in Queries, NEW t \in DOMAIN scans'[p], Waits(p, t)'
                 PROVE  /\ t.source \notin lost'
                        /\ \E k \in 1..Len(requests'[t.source]) :
                              requests'[t.source][k] = [query |-> p, table |-> t]
      BY DEF WaitsOnLiveConnection
    <2> QED
      BY <1>2, <1>3 DEF ScanInv, WaitsOnLiveConnection
  <1>9. Versions' /\ Losses' /\ LossIsContained'
    BY <1>2 DEF ScanInv, Versions, Losses, LossIsContained
  <1> QED
    BY <1>1, <1>4, <1>5, <1>7, <1>8, <1>9 DEF ScanInv

-------------------------------------------------------------------------------
(* Requests and replies *)

\* A request goes to the end of the queue of its table's source, and is not there yet.
LEMMA SendScans ==
    ASSUME ScanInv, NEW q \in Queries, NEW t \in DOMAIN scans[q], Send(q, t)
    PROVE  ScanInv'
  <1> USE DEF Send, vars
  <1> DEFINE i == t.source
             r == [query |-> q, table |-> t]
  <1>1. t \in catalogs /\ i \in SourceIds /\ ClientOf(t) = i
    BY ScannedTables
  <1>2. Sources'
    BY SourcesKept DEF ScanInv
  <1>3. /\ UNCHANGED <<phase, catalogs, lost, version, outcome, since>>
        /\ outcome[q] = "running" /\ scans[q][t].state = "unsent"
    OBVIOUS
  <1>4. \E s \in {"waiting", "lost"} :
           /\ SetState(q, t, s)
           /\ IF s = "waiting"
              THEN i \notin lost /\ requests' = [requests EXCEPT ![i] = Append(@, r)]
              ELSE i \in lost /\ UNCHANGED requests
    BY <1>1
  <1>5. PICK s \in {"waiting", "lost"} :
           /\ SetState(q, t, s)
           /\ IF s = "waiting"
              THEN i \notin lost /\ requests' = [requests EXCEPT ![i] = Append(@, r)]
              ELSE i \in lost /\ UNCHANGED requests
    BY <1>4
  <1> HIDE DEF Send
  <1>6. /\ scans'[q] = [scans[q] EXCEPT ![t] = [scans[q][t] EXCEPT !.state = s]]
        /\ \A p \in Queries \ {q} : scans'[p] = scans[p]
        /\ DOMAIN scans' = Queries /\ \A p \in Queries : DOMAIN scans'[p] = DOMAIN scans[p]
    BY <1>5 DEF SetState, ScanInv, ScanTypes
  <1>7. /\ scans'[q][t] \in Reply /\ scans'[q][t].state = s
        /\ scans'[q][t].version = scans[q][t].version
        /\ \A u \in DOMAIN scans[q] \ {t} : scans'[q][u] = scans[q][u]
    <2>1. scans[q][t] \in Reply
      BY DEF ScanInv, ScanTypes
    <2>2. scans'[q][t] = [scans[q][t] EXCEPT !.state = s]
      BY <1>6
    <2>3. s \in {"unsent", "waiting", "read", "error", "lost"}
      OBVIOUS
    <2>4. /\ [scans[q][t] EXCEPT !.state = s] \in Reply
          /\ [scans[q][t] EXCEPT !.state = s].version = scans[q][t].version
          /\ [scans[q][t] EXCEPT !.state = s].state = s
      BY <2>1, <2>3, WithState
    <2>5. \A u \in DOMAIN scans[q] \ {t} : scans'[q][u] = scans[q][u]
      BY <1>6
    <2> QED
      BY <2>2, <2>4, <2>5
  <1>8. /\ r \in Request /\ \A j \in SourceIds : requests[j] \in Seq(Request)
        /\ DOMAIN requests = SourceIds
    BY <1>1 DEF Request, ScanInv, ScanTypes
  <1>9. /\ s = "waiting" =>
             /\ requests'[i] = Append(requests[i], r)
             /\ \A j \in SourceIds \ {i} : requests'[j] = requests[j]
        /\ s = "lost" => requests' = requests
        /\ requests' \in [SourceIds -> Seq(Request)]
    <2>1. CASE s = "waiting"
      <3>1. requests' = [requests EXCEPT ![i] = Append(@, r)]
        BY <1>5, <2>1
      <3>2. Append(requests[i], r) \in Seq(Request)
        BY <1>1, <1>8
      <3>3. requests \in [SourceIds -> Seq(Request)]
        BY DEF ScanInv, ScanTypes
      <3> HIDE DEF i, r
      <3> QED
        BY <2>1, <3>1, <3>2, <3>3, <1>1
    <2>2. CASE s = "lost"
      <3>1. requests' = requests
        BY <1>5, <2>2
      <3> QED
        BY <2>2, <3>1 DEF ScanInv, ScanTypes
    <2> QED
      BY <2>1, <2>2
  <1>10. phase = "serving"
    BY <1>3 DEF ScanInv, NotServing
  <1>11. NotServing'
    BY <1>3, <1>10 DEF NotServing
  <1>12. ScanTypes'
    BY <1>3, <1>6, <1>7, <1>9 DEF ScanInv, ScanTypes, Request
  <1>13. \A p \in Queries : \A u :
            Waits(p, u)' <=> Waits(p, u) \/ (p = q /\ u = t /\ s = "waiting")
    BY <1>3, <1>6, <1>7 DEF Waits
  <1>14. \A j \in SourceIds : \A k \in 1..Len(requests[j]) : requests[j][k] # r
    BY <1>3, DroppedAssumption DEF ScanInv, Entries, EntryWaits, Waits
  <1>15. Entries'
    <2> SUFFICES ASSUME NEW j \in SourceIds, NEW k \in 1..Len(requests'[j]),
                        requests'[j][k].query # Dropped
                 PROVE  EntryWaits(j, requests[j][k])' /\ Once(j, k)'
      BY DEF Entries
    <2>1. CASE requests'[j] = requests[j]
      <3>1. requests[j][k].query \in Queries
        BY <2>1, QueuedRequest
      <3>2. EntryWaits(j, requests[j][k]) /\ Once(j, k)
        BY <2>1 DEF ScanInv, Entries
      <3> QED
        BY <2>1, <3>1, <3>2, <1>13 DEF EntryWaits, Once
    <2>2. CASE s = "waiting" /\ j = i
      <3>1. /\ Len(requests[i]) \in Nat
            /\ Len(requests'[i]) = Len(requests[i]) + 1
            /\ requests'[i][Len(requests[i]) + 1] = r
            /\ \A l \in 1..Len(requests[i]) : requests'[i][l] = requests[i][l]
        BY <2>2, <1>1, <1>8, <1>9
      <3>2. CASE k = Len(requests[i]) + 1
        <4>1. requests'[j][k] = r /\ EntryWaits(j, requests[j][k])'
          BY <2>2, <3>1, <3>2, <1>13 DEF EntryWaits
        <4>2. Once(j, k)'
          BY <2>2, <3>1, <3>2, <4>1, <1>1, <1>14 DEF Once
        <4> QED
          BY <4>1, <4>2
      <3>3. CASE k \in 1..Len(requests[i])
        <4>1. requests'[j][k] = requests[j][k] /\ requests[j][k].query \in Queries
          BY <2>2, <3>1, <3>3, <1>1, QueuedRequest
        <4>2. EntryWaits(j, requests[j][k]) /\ Once(j, k)
          BY <4>1, <2>2, <3>3 DEF ScanInv, Entries
        <4>3. EntryWaits(j, requests[j][k])'
          BY <4>1, <4>2, <1>13 DEF EntryWaits
        <4>4. Once(j, k)'
          <5> SUFFICES ASSUME NEW l \in 1..Len(requests'[j]),
                              requests'[j][l] = requests'[j][k]
                       PROVE  l = k
            BY DEF Once
          <5>1. l # Len(requests[i]) + 1
            BY <2>2, <3>1, <3>3, <4>1, <1>1, <1>14
          <5>2. l \in 1..Len(requests[j])
            BY <2>2, <3>1, <5>1
          <5> QED
            BY <2>2, <3>1, <4>1, <4>2, <5>2 DEF Once
        <4> QED
          BY <4>3, <4>4
      <3> QED
        BY <2>2, <3>1, <3>2, <3>3
    <2> QED
      BY <1>9, <2>1, <2>2
  <1>16. WaitsOnLiveConnection'
    <2> SUFFICES ASSUME NEW p \in Queries, NEW u \in DOMAIN scans'[p], Waits(p, u)'
                 PROVE  /\ u.source \notin lost'
                        /\ \E k \in 1..Len(requests'[u.source]) :
                              requests'[u.source][k] = [query |-> p, table |-> u]
      BY DEF WaitsOnLiveConnection
    <2>1. CASE p = q /\ u = t /\ s = "waiting"
      <3>1. /\ Len(requests[i]) + 1 \in 1..Len(requests'[i])
            /\ requests'[i][Len(requests[i]) + 1] = r
        BY <2>1, <1>1, <1>8, <1>9
      <3> QED
        BY <2>1, <3>1, <1>3, <1>5
    <2>2. CASE Waits(p, u)
      <3>1. u \in DOMAIN scans[p] /\ u.source \in SourceIds
        BY <1>6, ScannedTables
      <3>2. PICK k \in 1..Len(requests[u.source]) :
                requests[u.source][k] = [query |-> p, table |-> u]
        BY <2>2, <3>1 DEF ScanInv, WaitsOnLiveConnection
      <3>3. k \in 1..Len(requests'[u.source]) /\ requests'[u.source][k] = requests[u.source][k]
        <4>1. CASE requests'[u.source] = requests[u.source]
          BY <4>1, <3>2
        <4>2. CASE requests'[u.source] = Append(requests[u.source], r)
          BY <4>2, <3>1, <3>2, <1>8
        <4> QED
          BY <4>1, <4>2, <3>1, <1>9
      <3> QED
        BY <2>2, <3>1, <3>2, <3>3, <1>3 DEF ScanInv, WaitsOnLiveConnection
    <2> QED
      BY <1>13, <2>1, <2>2
  <1>17. Versions'
    <2>1. \A u \in DOMAIN scans'[q] : scans'[q][u].state = "read" =>
              u # t /\ scans'[q][u] = scans[q][u]
      BY <1>6, <1>7
    <2>2. \A p \in Queries : \A j \in SourceIds : since'[p][j] <= version'[j]
      BY <1>3 DEF ScanInv, Versions
    <2>3. \A p \in Queries : \A u \in DOMAIN scans'[p] :
              scans'[p][u].state = "read" => since'[p][u.source] <= scans'[p][u].version
      <3> SUFFICES ASSUME NEW p \in Queries, NEW u \in DOMAIN scans'[p],
                          scans'[p][u].state = "read"
                   PROVE  since'[p][u.source] <= scans'[p][u].version
        OBVIOUS
      <3>1. u \in DOMAIN scans[p] /\ scans'[p][u] = scans[p][u]
        BY <2>1, <1>6
      <3> QED
        BY <3>1, <1>3 DEF ScanInv, Versions
    <2>4. \A p \in Queries :
              outcome'[p] = "rows" => \A u \in DOMAIN scans'[p] : scans'[p][u].state = "read"
      BY <1>3, <1>6 DEF ScanInv, Versions
    <2> QED
      BY <2>2, <2>3, <2>4 DEF Versions
  <1>18. Losses'
    <2>1. \A u \in DOMAIN scans'[q] : scans'[q][u].state = "lost" =>
              (u = t /\ i \in lost) \/ scans'[q][u] = scans[q][u]
      BY <1>5, <1>6, <1>7
    <2> SUFFICES ASSUME NEW p \in Queries, NEW u \in DOMAIN scans'[p],
                        scans'[p][u].state = "lost"
                 PROVE  u.source \in lost
      BY <1>3 DEF Losses
    <2>2. \/ u.source \in lost
          \/ u \in DOMAIN scans[p] /\ scans'[p][u] = scans[p][u]
      BY <2>1, <1>6
    <2> QED
      BY <2>2 DEF ScanInv, Losses
  <1>19. LossIsContained'
    BY <1>3, <1>6 DEF ScanInv, LossIsContained
  <1> QED
    BY <1>2, <1>11, <1>12, <1>15, <1>16, <1>17, <1>18, <1>19 DEF ScanInv

\* What is left of a queue when its oldest request has been answered.
LEMMA QueueTail ==
    ASSUME NEW S, NEW s \in Seq(S), s # << >>
    PROVE  /\ Len(s) \in Nat /\ 1 \in 1..Len(s) /\ Head(s) = s[1]
           /\ Tail(s) \in Seq(S) /\ Len(Tail(s)) = Len(s) - 1
           /\ \A k \in 1..Len(Tail(s)) : k + 1 \in 1..Len(s) /\ Tail(s)[k] = s[k + 1]
           /\ \A k \in 1..Len(s) : k = 1 \/ (k - 1 \in 1..Len(Tail(s)) /\ Tail(s)[k - 1] = s[k])
  OBVIOUS

\* The reply to the oldest request goes to the scan that waits for it.
LEMMA AnswerScans ==
    ASSUME ScanInv, NEW i \in SourceIds, Answer(i)
    PROVE  ScanInv'
  <1> USE DEF Answer, vars
  <1> DEFINE r == requests[i][1]
             n == Len(requests[i])
  <1>1. Sources'
    BY SourcesKept DEF ScanInv
  <1>2. /\ UNCHANGED <<phase, catalogs, lost, version, outcome, since>>
        /\ requests[i] # << >> /\ requests' = [requests EXCEPT ![i] = Tail(@)]
    OBVIOUS
  <1>3. /\ requests[i] \in Seq(Request) /\ DOMAIN requests = SourceIds
        /\ \A j \in SourceIds : requests[j] \in Seq(Request)
    BY DEF ScanInv, ScanTypes
  <1>4. /\ n \in Nat /\ 1 \in 1..n /\ Head(requests[i]) = r
        /\ Len(requests'[i]) = n - 1 /\ requests'[i] \in Seq(Request)
        /\ \A k \in 1..(n - 1) : k + 1 \in 1..n /\ requests'[i][k] = requests[i][k + 1]
        /\ \A k \in 1..n : k = 1 \/ (k - 1 \in 1..(n - 1) /\ requests'[i][k - 1] = requests[i][k])
        /\ \A j \in SourceIds \ {i} : requests'[j] = requests[j]
    <2>1. requests'[i] = Tail(requests[i]) /\ \A j \in SourceIds \ {i} : requests'[j] = requests[j]
      BY <1>2, <1>3
    <2> QED
      BY <2>1, <1>2, <1>3, QueueTail
  <1>5. requests' \in [SourceIds -> Seq(Request)]
    BY <1>2, <1>3, <1>4 DEF ScanInv, ScanTypes
  <1>6. phase = "serving"
    BY <1>2 DEF ScanInv, NotServing
  <1>7. NotServing'
    BY <1>2, <1>6 DEF NotServing
  <1>8. r \in Request
    BY <1>3, <1>4
  <1>9. \A j \in SourceIds : \A k \in 1..Len(requests'[j]) :
           \E l \in 1..Len(requests[j]) :
              /\ requests'[j][k] = requests[j][l]
              /\ l = IF j = i THEN k + 1 ELSE k
    BY <1>4
  \* What does not depend on the reply: the entries that stay are as they were.
  <1>10. \A j \in SourceIds : \A k \in 1..Len(requests'[j]) :
            requests'[j][k].query # Dropped =>
               /\ requests'[j][k].query \in Queries
               /\ EntryWaits(j, requests'[j][k])
               /\ requests'[j][k] # r
               /\ Once(j, k)'
    <2> SUFFICES ASSUME NEW j \in SourceIds, NEW k \in 1..Len(requests'[j]),
                        requests'[j][k].query # Dropped
                 PROVE  /\ requests'[j][k].query \in Queries
                        /\ EntryWaits(j, requests'[j][k])
                        /\ requests'[j][k] # r
                        /\ Once(j, k)'
      OBVIOUS
    <2>1. PICK l \in 1..Len(requests[j]) :
              /\ requests'[j][k] = requests[j][l]
              /\ l = IF j = i THEN k + 1 ELSE k
      BY <1>9
    <2>2. /\ requests[j][l].query \in Queries
          /\ EntryWaits(j, requests[j][l]) /\ Once(j, l)
      BY <2>1, QueuedRequest DEF ScanInv, Entries
    <2>3. requests[j][l] # r
      <3>1. CASE j = i
        <4>1. l = k + 1 /\ k \in 1..(n - 1) /\ l # 1
          BY <3>1, <2>1, <1>4
        <4>2. \A m \in 1..Len(requests[i]) : requests[i][m] = requests[i][l] => m = l
          BY <3>1, <2>2 DEF Once
        <4> QED
          BY <3>1, <4>1, <4>2, <1>4
      <3>2. CASE j # i
        <4>1. r.query # Dropped => r.table.source = i
          BY <1>4 DEF ScanInv, Entries, EntryWaits
        <4> QED
          BY <3>2, <4>1, <2>1, <2>2 DEF EntryWaits
      <3> QED
        BY <3>1, <3>2
    <2>4. Once(j, k)'
      <3> SUFFICES ASSUME NEW h \in 1..Len(requests'[j]), requests'[j][h] = requests'[j][k]
                   PROVE  h = k
        BY DEF Once
      <3>1. PICK m \in 1..Len(requests[j]) :
                /\ requests'[j][h] = requests[j][m]
                /\ m = IF j = i THEN h + 1 ELSE h
        BY <1>9
      <3>2. m = l
        BY <3>1, <2>1, <2>2 DEF Once
      <3>3. Len(requests'[j]) \in Nat
        BY <1>3, <1>4
      <3> QED
        BY <3>1, <3>2, <3>3, <2>1
    <2> QED
      BY <2>1, <2>2, <2>3, <2>4
  <1>11. \A p \in Queries : \A u \in DOMAIN scans[p] :
            Waits(p, u) /\ [query |-> p, table |-> u] # r =>
               /\ u.source \notin lost
               /\ \E k \in 1..Len(requests'[u.source]) :
                     requests'[u.source][k] = [query |-> p, table |-> u]
    <2> SUFFICES ASSUME NEW p \in Queries, NEW u \in DOMAIN scans[p], Waits(p, u),
                        [query |-> p, table |-> u] # r
                 PROVE  /\ u.source \notin lost
                        /\ \E k \in 1..Len(requests'[u.source]) :
                              requests'[u.source][k] = [query |-> p, table |-> u]
      OBVIOUS
    <2>1. u.source \in SourceIds
      BY ScannedTables
    <2>2. PICK k \in 1..Len(requests[u.source]) :
              requests[u.source][k] = [query |-> p, table |-> u]
      BY DEF ScanInv, WaitsOnLiveConnection
    <2>3. CASE u.source = i
      <3>1. k # 1
        BY <2>2, <2>3
      <3> QED
        BY <2>2, <2>3, <3>1, <1>4 DEF ScanInv, WaitsOnLiveConnection
    <2>4. CASE u.source # i
      BY <2>1, <2>2, <2>4, <1>4 DEF ScanInv, WaitsOnLiveConnection
    <2> QED
      BY <2>3, <2>4
  <1>12. CASE r.query = Dropped
    <2>1. scans' = scans
      BY <1>4, <1>12
    <2> HIDE DEF Answer
    <2>2. \A p \in Queries : \A u : Waits(p, u)' <=> Waits(p, u)
      BY <2>1, <1>2 DEF Waits
    <2>3. ScanTypes'
      BY <2>1, <1>2, <1>5 DEF ScanInv, ScanTypes, Request
    <2>4. Entries'
      <3> SUFFICES ASSUME NEW j \in SourceIds, NEW k \in 1..Len(requests'[j]),
                          requests'[j][k].query # Dropped
                   PROVE  EntryWaits(j, requests[j][k])' /\ Once(j, k)'
        BY DEF Entries
      <3> QED
        BY <2>2, <1>10 DEF EntryWaits
    <2>5. WaitsOnLiveConnection'
      <3> SUFFICES ASSUME NEW p \in Queries, NEW u \in DOMAIN scans'[p], Waits(p, u)'
                   PROVE  /\ u.source \notin lost'
                          /\ \E k \in 1..Len(requests'[u.source]) :
                                requests'[u.source][k] = [query |-> p, table |-> u]
        BY DEF WaitsOnLiveConnection
      <3>1. [query |-> p, table |-> u] # r
        BY <1>12, DroppedAssumption
      <3> QED
        BY <3>1, <2>1, <2>2, <1>2, <1>11
    <2>6. Versions' /\ Losses' /\ LossIsContained'
      BY <2>1, <1>2 DEF ScanInv, Versions, Losses, LossIsContained
    <2> QED
      BY <1>1, <1>7, <2>3, <2>4, <2>5, <2>6 DEF ScanInv
  <1>13. CASE r.query # Dropped
    <2> DEFINE q == r.query
               t == r.table
    <2>1. q \in Queries /\ Waits(q, t) /\ t.source = i /\ r = [query |-> q, table |-> t]
      BY <1>4, <1>8, <1>13, QueuedRequest DEF ScanInv, Entries, EntryWaits, Request
    <2>2. t \in DOMAIN scans[q] /\ scans[q][t] \in Reply /\ outcome[q] = "running"
      BY <2>1 DEF Waits, ScanInv, ScanTypes
    <2>3. \E y \in Reply :
             /\ scans' = [scans EXCEPT ![q][t] = y]
             /\ \/ y.state = "read" /\ y.version = version[i]
                \/ y.state = "error"
      <3>1. [state |-> "read", version |-> version[i]] \in Reply
        BY DEF ScanInv, ScanTypes, Reply
      <3>2. /\ [scans[q][t] EXCEPT !.state = "error"] \in Reply
            /\ [scans[q][t] EXCEPT !.state = "error"].state = "error"
        BY <2>2, WithState
      <3>3. \/ scans' = [scans EXCEPT ![q][t] = [state |-> "read", version |-> version[i]]]
            \/ scans' = [scans EXCEPT ![q][t] = [scans[q][t] EXCEPT !.state = "error"]]
        BY <1>4, <1>13 DEF SetState
      <3> QED
        BY <3>1, <3>2, <3>3
    <2>4. PICK y \in Reply :
             /\ scans' = [scans EXCEPT ![q][t] = y]
             /\ \/ y.state = "read" /\ y.version = version[i]
                \/ y.state = "error"
      BY <2>3
    <2> HIDE DEF Answer
    <2>5. /\ scans'[q][t] = y /\ DOMAIN scans' = Queries
          /\ \A p \in Queries : DOMAIN scans'[p] = DOMAIN scans[p]
          /\ \A p \in Queries : \A u \in DOMAIN scans[p] :
                p # q \/ u # t => scans'[p][u] = scans[p][u]
          /\ \A p \in Queries \ {q} : scans'[p] = scans[p]
      BY <2>1, <2>2, <2>4 DEF ScanInv, ScanTypes
    <2>6. \A p \in Queries : \A u : Waits(p, u)' <=> Waits(p, u) /\ ~(p = q /\ u = t)
      BY <2>4, <2>5, <1>2 DEF Waits
    <2>7. ScanTypes'
      BY <2>4, <2>5, <1>2, <1>5 DEF ScanInv, ScanTypes, Request
    <2>8. Entries'
      <3> SUFFICES ASSUME NEW j \in SourceIds, NEW k \in 1..Len(requests'[j]),
                          requests'[j][k].query # Dropped
                   PROVE  EntryWaits(j, requests[j][k])' /\ Once(j, k)'
        BY DEF Entries
      <3> DEFINE x == requests'[j][k]
      <3>1. x.query \in Queries /\ EntryWaits(j, x) /\ x # r /\ Once(j, k)'
        BY <1>10
      <3>2. x \in Request
        BY <1>5
      <3>3. ~(x.query = q /\ x.table = t)
        BY <3>1, <3>2, <2>1 DEF Request
      <3> QED
        BY <3>1, <3>3, <2>6 DEF EntryWaits
    <2>9. WaitsOnLiveConnection'
      <3> SUFFICES ASSUME NEW p \in Queries, NEW u \in DOMAIN scans'[p], Waits(p, u)'
                   PROVE  /\ u.source \notin lost'
                          /\ \E k \in 1..Len(requests'[u.source]) :
                                requests'[u.source][k] = [query |-> p, table |-> u]
        BY DEF WaitsOnLiveConnection
      <3>1. Waits(p, u) /\ [query |-> p, table |-> u] # r
        BY <2>1, <2>6
      <3> QED
        BY <3>1, <2>5, <1>2, <1>11
    <2>10. Versions'
      <3>1. \A p \in Queries : \A j \in SourceIds : since'[p][j] <= version'[j]
        BY <1>2 DEF ScanInv, Versions
      <3>2. \A p \in Queries : \A u \in DOMAIN scans'[p] :
               scans'[p][u].state = "read" => since'[p][u.source] <= scans'[p][u].version
        <4> SUFFICES ASSUME NEW p \in Queries, NEW u \in DOMAIN scans'[p],
                            scans'[p][u].state = "read"
                     PROVE  since'[p][u.source] <= scans'[p][u].version
          OBVIOUS
        <4>1. CASE p = q /\ u = t
          BY <4>1, <2>1, <2>4, <2>5, <3>1, <1>2
        <4>2. CASE ~(p = q /\ u = t)
          <5>1. u \in DOMAIN scans[p] /\ scans'[p][u] = scans[p][u]
            BY <4>2, <2>5
          <5> QED
            BY <5>1, <1>2 DEF ScanInv, Versions
        <4> QED
          BY <4>1, <4>2
      <3>3. \A p \in Queries : outcome'[p] = "rows" =>
               \A u \in DOMAIN scans'[p] : scans'[p][u].state = "read"
        BY <2>2, <2>5, <1>2 DEF ScanInv, Versions
      <3> QED
        BY <3>1, <3>2, <3>3 DEF Versions
    <2>11. Losses'
      <3> SUFFICES ASSUME NEW p \in Queries, NEW u \in DOMAIN scans'[p],
                          scans'[p][u].state = "lost"
                   PROVE  u.source \in lost
        BY <1>2 DEF Losses
      <3>1. u \in DOMAIN scans[p] /\ scans'[p][u] = scans[p][u]
        BY <2>4, <2>5
      <3> QED
        BY <3>1 DEF ScanInv, Losses
    <2>12. LossIsContained'
      <3>1. \A p \in Queries : outcome'[p] = "error" => p # q
        BY <2>2, <1>2
      <3> QED
        BY <3>1, <2>5, <1>2 DEF ScanInv, LossIsContained
    <2> QED
      BY <1>1, <1>7, <2>7, <2>8, <2>9, <2>10, <2>11, <2>12 DEF ScanInv
  <1> QED
    BY <1>12, <1>13

-------------------------------------------------------------------------------

\* Every step of the engine keeps both sides of the requests paired.
LEMMA StepScans == ScanInv /\ [EngineNext]_engineVars => ScanInv'
  <1> SUFFICES ASSUME ScanInv, [EngineNext]_engineVars PROVE ScanInv'
    OBVIOUS
  <1>1. CASE Startup
    BY <1>1, StartupScans
  <1>2. ASSUME NEW i \in SourceIds, ChangeData(i) PROVE ScanInv'
    BY <1>2, ChangeDataScans
  <1>3. ASSUME NEW i \in SourceIds, LoseConnection(i) PROVE ScanInv'
    BY <1>3, LoseConnectionScans
  <1>4. ASSUME NEW i \in SourceIds, Answer(i) PROVE ScanInv'
    BY <1>4, AnswerScans
  <1>5. ASSUME NEW q \in Queries, NEW tables \in SUBSET catalogs, Begin(q, tables)
        PROVE  ScanInv'
    BY <1>5, BeginScans
  <1>6. ASSUME NEW q \in Queries, NEW t \in DOMAIN scans[q], Send(q, t) PROVE ScanInv'
    BY <1>6, SendScans
  <1>7. ASSUME NEW q \in Queries, Fail(q) PROVE ScanInv'
    BY <1>7, FailScans
  <1>8. ASSUME NEW q \in Queries, Finish(q) PROVE ScanInv'
    BY <1>8, FinishScans
  <1>9. CASE UNCHANGED engineVars
    <2>1. UNCHANGED <<vars, lost, version, requests, outcome, scans, since>>
      BY <1>9 DEF engineVars, scanVars, queryVars
    <2>2. Sources'
      BY <2>1, SourcesKept
    <2>3. ScanTypes'
      BY <2>1 DEF ScanInv, ScanTypes, Request, vars
    <2>4. NotServing' /\ Versions' /\ Losses' /\ LossIsContained'
      BY <2>1 DEF ScanInv, NotServing, Versions, Losses, LossIsContained, vars
    <2>5. Entries' /\ WaitsOnLiveConnection'
      BY <2>1 DEF ScanInv, Entries, EntryWaits, Once, WaitsOnLiveConnection, Waits
    <2> QED
      BY <2>2, <2>3, <2>4, <2>5 DEF ScanInv
  <1> QED
    BY <1>1, <1>2, <1>3, <1>4, <1>5, <1>6, <1>7, <1>8, <1>9 DEF EngineNext

\* Both sides of a request stay paired, whatever is lost and in whatever order queries
\* fail, finish and begin again.
THEOREM ScansInvariant == EngineSpec => []ScanInv
  BY InitScans, StepScans, PTL DEF EngineSpec

\* No query is ever left waiting for a reply that cannot come: its scan is queued on
\* the connection of its own source, and that connection lives.
THEOREM LiveConnections == EngineSpec => []WaitsOnLiveConnection
  <1>1. ScanInv => WaitsOnLiveConnection
    BY DEF ScanInv
  <1> QED
    BY <1>1, ScansInvariant, PTL

\* A query that returns rows has read all of its tables, and none of them from before
\* it began.
THEOREM RowsReadDuringQuery == EngineSpec => []ReadsDuringQuery
  <1>1. ScanInv => ReadsDuringQuery
    BY DEF ScanInv, Versions, ReadsDuringQuery
  <1> QED
    BY <1>1, ScansInvariant, PTL

\* A query fails only for a source that it reads: the connections of the others may
\* be lost without its noticing.
THEOREM LossContained == EngineSpec => []LossIsContained
  <1>1. ScanInv => LossIsContained
    BY DEF ScanInv
  <1> QED
    BY <1>1, ScansInvariant, PTL

-------------------------------------------------------------------------------
(* The startup under the queries: every behaviour of the engine is one of         *)
(* EngineStartup, so what is proved of names and tables holds while it serves.    *)

\* The engine, with its queries left out, starts up as EngineStartup says.
LEMMA Implements == EngineSpec => Spec
  <1>1. EngineInit => Init
    BY DEF EngineInit
  <1>2. [EngineNext]_engineVars => [Next]_vars
    BY DEF EngineNext, engineVars, Startup, ChangeData, LoseConnection, Answer, Begin,
         Send, Fail, Finish, vars
  <1> QED
    BY <1>1, <1>2, PTL DEF EngineSpec, Spec

\* While queries run and connections are lost, a canonical name stands for a table if
\* and only if that table is asked for and was there to be introspected.
THEOREM ServingIsCanonical == EngineSpec => []CanonicalNamesComplete
  BY Implements, CanonicalNames, PTL

\* And a bare name stands for the first table of the configuration that has it.
THEOREM ServingPrefersFirst == EngineSpec => []BareNameGoesToFirst
  BY Implements, BareNames, PTL

\* No table goes without a short name that it could have had.
THEOREM ServingShortNames == EngineSpec => []NamedUnlessTaken
  BY Implements, ShortNames, PTL

\* And the legacy name stands for the first my_pg_table.
THEOREM ServingLegacyName == EngineSpec => []LegacyIsFirst
  BY Implements, LegacyNames, PTL

\* A connection that is lost is a source's.
LostSources == lost \subseteq SourceIds

\* Only a source's connection is lost.
LEMMA LostInvariant == EngineSpec => []LostSources
  <1>1. EngineInit => LostSources
    BY DEF EngineInit, LostSources
  <1>2. LostSources /\ [EngineNext]_engineVars => LostSources'
    BY DEF EngineNext, engineVars, Startup, ChangeData, LoseConnection, Answer, Begin,
         Send, Fail, Finish, scanVars, LostSources, SourceIds
  <1> QED
    BY <1>1, <1>2, PTL DEF EngineSpec

\* The types of the registration, the connections and the queries: what is asked of a
\* connection, and what a query reads, is a table that was found.
THEOREM EngineTypes == EngineSpec => []EngineTypeOK
  <1>1. TypeOK /\ LostSources /\ ScanInv => EngineTypeOK
    <2> SUFFICES ASSUME TypeOK, LostSources, ScanInv PROVE EngineTypeOK
      OBVIOUS
    <2>1. catalogs \subseteq AllFound
      BY DEF TypeOK
    <2>2. ScanTypes
      BY DEF ScanInv
    <2>3. requests \in [SourceIds ->
              Seq([query : Queries \cup {Dropped}, table : AllFound])]
      <3> DEFINE Wider == [query : Queries \cup {Dropped}, table : AllFound]
      <3>1. Request \subseteq Wider
        BY <2>1 DEF Request
      <3> HIDE DEF Wider
      <3>2. Seq(Request) \subseteq Seq(Wider)
        BY <3>1
      <3>3. requests \in [SourceIds -> Seq(Request)]
        BY <2>2 DEF ScanTypes
      <3>4. requests \in [SourceIds -> Seq(Wider)]
        BY <3>2, <3>3
      <3> QED
        BY <3>4 DEF Wider
    <2>4. \A q \in Queries :
              /\ DOMAIN scans[q] \subseteq AllFound
              /\ \A t \in DOMAIN scans[q] : scans[q][t] \in Reply
      BY <2>1, <2>2 DEF ScanTypes
    <2> QED
      BY <2>2, <2>3, <2>4 DEF EngineTypeOK, LostSources, ScanTypes
  <1> QED
    BY <1>1, Implements, StartTypes, LostInvariant, ScansInvariant, PTL
===============================================================================
