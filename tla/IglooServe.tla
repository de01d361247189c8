------------------------------ MODULE IglooServe ------------------------------
(* `igloo serve': pgwire connections (src/server.rs) and the CDC polling task   *)
(* (src/cdc_sync.rs) share one cache (src/cache_layer.rs) in front of the       *)
(* engine (src/datafusion_engine.rs). A query awaits the engine between its     *)
(* cache lookup and its cache.set, so source changes, events and invalidations  *)
(* happen while it is in flight.                                                *)
EXTENDS CdcSync

CONSTANTS Clients,      \* connections; each handles one message at a time
          Requests,     \* the requests clients may send
          ReadOnly,     \* keys whose text starts with SELECT or WITH
          Unencodable,  \* keys whose result has a column pgwire cannot encode
          NoParams,     \* the binding of a statement without parameters
          NoRequest,
          MaxClock, MaxTick, MaxVersion     \* bounds

ASSUME SubsetAssumption == ReadOnly \subseteq Keys /\ Unencodable \subseteq Keys
ASSUME ServeBounds == MaxClock \in Nat /\ MaxTick \in Nat /\ MaxVersion \in Nat
ASSUME RequestAssumption ==
    \A r \in Requests :
        /\ r.protocol \in {"simple", "extended"}
        /\ r.key \in Keys
        /\ r.protocol = "simple" => r.binding = NoParams
ASSUME NoRequestAssumption == NoRequest \notin Requests

VARIABLES clock,
          version,      \* of the data the engine reads
          announced,    \* newest version announced by an event of a finished sync
          syncs,        \* finished syncs that found events
          phase,        \* per connection, where its handler is
          request,      \* the message being handled
          result        \* what the engine returned for it

\* announced and syncs exist for the properties alone.
ghostVars == <<announced, syncs>>
clientVars == <<phase, request, result>>
vars == <<cacheVars, cdcVars, clock, version, ghostVars, clientVars>>

\* A result is represented by the statement it answers, the version of the data it
\* was computed from, and the number of syncs that had finished when the engine
\* read that data and when the result was put into the cache.
Results ==
    [key : Keys, binding : {r.binding : r \in Requests}, version : Nat,
     readAt : Nat, setAt : Nat]

Init ==
    /\ CacheInit
    /\ CdcInit
    /\ clock = 0
    /\ version = 0
    /\ announced = 0
    /\ syncs = 0
    /\ phase = [c \in Clients |-> "idle"]
    /\ request = [c \in Clients |-> NoRequest]
    /\ result = [c \in Clients |-> Miss]

-------------------------------------------------------------------------------
(* The environment *)

Advance ==
    /\ clock < MaxClock
    /\ clock' = clock + 1
    /\ UNCHANGED <<cacheVars, cdcVars, version, ghostVars, clientVars>>

\* Another program changes the source data.
ChangeSource ==
    /\ version < MaxVersion
    /\ version' = version + 1
    /\ UNCHANGED <<cacheVars, cdcVars, clock, ghostVars, clientVars>>

Announce ==
    /\ \/ CreateDirectory
       \/ \E e \in Events :
             \/ PublishEvent(e, version) \/ RewriteEvent(e, version)
             \/ WithdrawEvent(e) \/ RepairEvent(e)
    /\ UNCHANGED <<clock, version, ghostVars, clientVars>>

-------------------------------------------------------------------------------
(* The polling task *)

PollRead == ReadStep /\ UNCHANGED <<clock, version, ghostVars, clientVars>>

PollEnd ==
    /\ EndOfSync
    /\ announced' \in {announced} \cup {files[e].version : e \in events}
    /\ announced' >= announced /\ \A e \in events : announced' >= files[e].version
    /\ syncs' = syncs + 1
    /\ UNCHANGED <<clock, version, clientVars>>

-------------------------------------------------------------------------------
(* The handlers: SimpleQueryHandler::do_query and ExtendedQueryHandler::do_query *)

\* Variant: the parameters are not looked at.
CacheableText(r) == r.key \in ReadOnly

Cacheable(r) == r.key \in ReadOnly /\ r.binding = NoParams

Encodable(r) == r.key \notin Unencodable

Receive(c, r) ==
    /\ phase[c] = "idle"
    /\ tick < MaxTick
    /\ request' = [request EXCEPT ![c] = r]
    /\ phase' = [phase EXCEPT ![c] = IF Cacheable(r) THEN "lookup" ELSE "execute"]
    /\ UNCHANGED <<cacheVars, cdcVars, clock, version, ghostVars, result>>

\* The response, rows or an error, is sent and the handler returns.
Respond(c) ==
    /\ phase' = [phase EXCEPT ![c] = "idle"]
    /\ request' = [request EXCEPT ![c] = NoRequest]
    /\ result' = [result EXCEPT ![c] = Miss]

\* cache.get; a hit is encoded and answered, rows or error, without the engine.
Hit(c) ==
    /\ phase[c] = "lookup"
    /\ GetHit(request[c].key, clock)
    /\ Respond(c)
    /\ UNCHANGED <<cdcVars, clock, version, ghostVars>>

NoHit(c) ==
    /\ phase[c] = "lookup"
    /\ GetExpired(request[c].key, clock) \/ GetAbsent(request[c].key)
    /\ phase' = [phase EXCEPT ![c] = "execute"]
    /\ UNCHANGED <<cdcVars, clock, version, ghostVars, request, result>>

\* The engine reads the sources at some moment of the await. A statement that is
\* not read-only may change what later queries read; no event announces that.
Execute(c) ==
    /\ phase[c] = "execute"
    /\ \/ UNCHANGED version
       \/ /\ request[c].key \notin ReadOnly
          /\ version < MaxVersion
          /\ version' = version + 1
    /\ result' = [result EXCEPT ![c] =
           [key |-> request[c].key, binding |-> request[c].binding,
            version |-> version, readAt |-> syncs, setAt |-> 0]]
    /\ phase' = [phase EXCEPT ![c] = "finish"]
    /\ UNCHANGED <<cacheVars, cdcVars, clock, ghostVars, request>>

\* Variant: a failure is cached as a result.
FailCached(c) ==
    /\ phase[c] = "execute"
    /\ IF Cacheable(request[c]) THEN Set(request[c].key, Miss, clock) ELSE UNCHANGED cacheVars
    /\ Respond(c)
    /\ UNCHANGED <<cdcVars, clock, version, ghostVars>>

\* Planning, decoding a parameter or execution fails: user_error, nothing cached.
Fail(c) ==
    /\ phase[c] = "execute"
    /\ Respond(c)
    /\ UNCHANGED <<cacheVars, cdcVars, clock, version, ghostVars>>

\* cache.set, reached by cacheable requests only.
Fill(c) == Set(request[c].key, [result[c] EXCEPT !.setAt = syncs], clock)

\* Variant: the arm that cannot encode the result returns no response.
FinishSimpleEncodable(c) ==
    /\ phase[c] = "finish"
    /\ request[c].protocol = "simple"
    /\ Encodable(request[c])
    /\ IF Cacheable(request[c]) THEN Fill(c) ELSE UNCHANGED cacheVars
    /\ Respond(c)
    /\ UNCHANGED <<cdcVars, clock, version, ghostVars>>

\* batches_to_response comes before cache.set: an unencodable result is answered
\* with an error and not cached.
FinishSimple(c) ==
    /\ phase[c] = "finish"
    /\ request[c].protocol = "simple"
    /\ IF Cacheable(request[c]) /\ Encodable(request[c])
       THEN Fill(c)
       ELSE UNCHANGED cacheVars
    /\ Respond(c)
    /\ UNCHANGED <<cdcVars, clock, version, ghostVars>>

\* cache.set comes before batches_to_response_in_format: the result is cached
\* whether or not it can be encoded.
FinishExtended(c) ==
    /\ phase[c] = "finish"
    /\ request[c].protocol = "extended"
    /\ IF Cacheable(request[c]) THEN Fill(c) ELSE UNCHANGED cacheVars
    /\ Respond(c)
    /\ UNCHANGED <<cdcVars, clock, version, ghostVars>>

Handle(c) ==
    \/ Hit(c) \/ NoHit(c)
    \/ Execute(c) \/ Fail(c)
    \/ FinishSimple(c) \/ FinishExtended(c)

Next ==
    \/ Advance
    \/ ChangeSource
    \/ Announce
    \/ PollRead
    \/ PollEnd
    \/ \E c \in Clients : Handle(c) \/ \E r \in Requests : Receive(c, r)

\* tokio keeps running the polling task (its interval never ends and its steps
\* block on nothing but short critical sections) and every handler that can run;
\* the engine is taken to answer every query in the end. Nothing is assumed of
\* clients, of the sources, or of the writers of the event directory.
Fairness ==
    /\ WF_vars(PollRead \/ PollEnd)
    /\ \A c \in Clients : WF_vars(Handle(c))

Spec == Init /\ [][Next]_vars /\ Fairness

-------------------------------------------------------------------------------
(* Properties *)

\* The shape of the state of cache, listener and connections together.
TypeOK ==
    /\ CacheTypeOK(Results)
    /\ CdcTypeOK
    /\ clock \in Nat
    /\ version \in Nat
    /\ announced \in Nat
    /\ syncs \in Nat
    /\ phase \in [Clients -> {"idle", "lookup", "execute", "finish"}]
    /\ request \in [Clients -> Requests \cup {NoRequest}]
    /\ result \in [Clients -> Results \cup {Miss}]

Answers(b, r) == b.key = r.key /\ b.binding = r.binding

\* A connection is answered with a result of the statement and the parameter values
\* it sent, whichever connection's query put it into the shared cache. The cache
\* key holds no parameter values: this rests on parameterized statements bypassing
\* the cache in both of its calls (extended do_query, server.rs).
AnswersOwnRequest ==
    \A c \in Clients :
        /\ phase[c] = "lookup" /\ CanHit(request[c].key, clock)
               => Answers(store[request[c].key].batches, request[c])
        /\ phase[c] = "finish" => Answers(result[c], request[c])

\* No result outlives an invalidation: everything in the cache was set after the
\* last sync that found an event had finished, although that sync tests is_empty
\* and clears under two different locks (sync, cdc_sync.rs). A cached result older
\* than an announced change can therefore only come from a query that read its
\* data before that sync finished and was still in flight then.
NoEntrySurvivesSync ==
    \A k \in DOMAIN store :
        LET cached == store[k].batches IN
        /\ cached.setAt = syncs
        /\ cached.version < announced => cached.readAt < cached.setAt

\* An event file invalidates the cache at most once, also when it is rewritten
\* before, while or after a sync reads it: syncs that found something never
\* outnumber the files ever marked (processed, cdc_sync.rs).
OneSyncPerEvent == syncs <= Cardinality(processed)

\* Every message gets its response: no order of encoding and caching, no engine
\* error and no concurrent invalidation leaves a connection without an answer.
EveryRequestAnswered ==
    \A c \in Clients : phase[c] # "idle" ~> phase[c] = "idle"

\* An event whose path is not marked yet is handled by a sync in the end: the version
\* it announced is covered by a finished invalidation, also when the directory did not
\* exist yet, the file could not be read at first or is overwritten meanwhile. Only a
\* file that is gone or unreadable time and again can escape. A path that is marked
\* is not looked at again: what is written to it later is handled with the next new
\* path.
EveryEventHandled ==
    \A e \in Events, v \in 1..MaxVersion :
        files[e] \in [readable : BOOLEAN, version : {v}] /\ e \notin processed
            ~> (announced >= v \/ []<>(files[e] \in [readable : {FALSE}, version : Nat]))

Known(r) ==
    [key |-> r.key, binding |-> r.binding, version |-> r.version, readAt |-> r.readAt]

ASSUME UnknownAssumption ==
    Miss \notin [key : Keys, binding : {r.binding : r \in Requests},
                version : Nat, readAt : Nat]

InHand == [c \in Clients |-> IF phase[c] = "finish" THEN Known(result[c]) ELSE Miss]

Cached == {Known(store[k].batches) : k \in DOMAIN store}

Service == INSTANCE AnswerService
               WITH Nothing <- Miss, answer <- InHand, shared <- Cached

\* The handlers of both protocols, the cache with its evictions and expirations and
\* the listener's sync in its steps and locks are together a service whose
\* invalidations are atomic: at the moment at which a sync announces a change, no
\* answer read before it is left to be shared; what is shared later comes from a
\* handler, and only for a statement without parameters (do_query, sync).
ImplementsService == Service!Spec

\* The cache is kept fresh (README.md, main.rs): a hit is never older than a change
\* whose event a finished sync has handled.
HitsAreFresh ==
    [][\A c \in Clients :
          phase[c] = "lookup" /\ phase'[c] = "idle"
              => store[request[c].key].batches.version >= announced]_vars

\* The events there at startup are picked up before a query populates the cache
\* (comment in spawn_polling, cdc_sync.rs).
ExistingEventsFirst == ~IsEmpty => Preexisting \subseteq processed
===============================================================================
