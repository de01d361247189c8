--------------------------- MODULE IglooServeProofs ---------------------------
(* Safety of `igloo serve' for any number of connections, requests and events:  *)
(* what is in the cache answers the request it is handed to, and nothing in it  *)
(* is older than the last invalidation. The cache's part of the argument is in  *)
(* CacheLayerProofs; this module adds the listener's and the connections'.      *)
EXTENDS IglooServe, CacheLayerProofs

\* The listener: the paths it still has to read are unmarked, and a sync that has
\* found something has marked a path that no finished sync was counted for.
ListenerInv ==
    /\ CdcTypeOK
    /\ syncs \in Nat
    /\ version \in Nat
    /\ todo \cap processed = {}
    /\ \A e \in todo \cup processed \cup events : files[e] # Absent
    /\ \A e \in Events : files[e] # Absent => files[e].version <= version
    /\ poller = "ticking" => events = {}
    /\ poller \in {"checking", "clearing"} => events # {}
    /\ syncs <= Cardinality(processed)
    /\ events # {} => syncs + 1 <= Cardinality(processed)

\* A result read since the last finished sync has all that was announced.
Current(r) ==
    /\ r.readAt <= syncs
    /\ r.readAt = syncs => r.version >= announced

\* The cache holds results of unparameterized statements under their own texts.
StoreInv ==
    \A k \in DOMAIN store :
        /\ store[k].batches.key = k
        /\ store[k].batches.binding = NoParams
        /\ store[k].batches.setAt = syncs
        /\ Current(store[k].batches)

\* A handler in progress has a request; it looks up cacheable ones only, and what
\* it finishes with is the engine's answer to it.
ConnectionInv(c) ==
    /\ phase[c] = "idle" => request[c] = NoRequest
    /\ phase[c] # "idle" => request[c] \in Requests
    /\ phase[c] = "lookup" => Cacheable(request[c])
    /\ phase[c] = "finish" =>
           /\ result[c] \in Results
           /\ Answers(result[c], request[c])
           /\ Current(result[c])

ServeTypes ==
    /\ clock \in Nat
    /\ announced \in Nat
    /\ phase \in [Clients -> {"idle", "lookup", "execute", "finish"}]
    /\ request \in [Clients -> Requests \cup {NoRequest}]
    /\ result \in [Clients -> Results \cup {Miss}]

\* The inductive invariant.
ServeInv ==
    /\ CacheInv(Results)
    /\ ListenerInv
    /\ ServeTypes
    /\ announced <= version
    /\ StoreInv
    /\ \A c \in Clients : ConnectionInv(c)

-------------------------------------------------------------------------------
(* The listener *)

\* Marked paths are finitely many, as all of Events are.
LEMMA MarkedFinite ==
    ASSUME processed \subseteq Events
    PROVE  IsFiniteSet(processed) /\ Cardinality(processed) \in Nat
  BY EventsAssumption, FS_Subset, FS_CardinalityType

\* Nothing is listed, marked or announced at the start.
LEMMA ListenerInit ==
    ASSUME CdcInit, syncs = 0, version = 0
    PROVE  ListenerInv
  <1>1. files \in [Events -> EventFile \cup {Absent}]
    BY DEF CdcInit, EventFile
  <1>2. \A e \in Events : files[e] # Absent => files[e].version <= version
    BY DEF CdcInit
  <1>3. Cardinality(processed) = 0
    BY FS_EmptySet DEF CdcInit
  <1> QED
    BY <1>1, <1>2, <1>3 DEF CdcInit, ListenerInv, CdcTypeOK

\* The listener does not depend on the rest of the system.
LEMMA ListenerUnchanged ==
    ASSUME ListenerInv, UNCHANGED <<cdcVars, syncs>>, version' \in Nat, version <= version'
    PROVE  ListenerInv'
  <1> USE DEF ListenerInv
  <1>1. UNCHANGED <<directoryUp, files, processed, poller, todo, events, syncs>>
    BY DEF cdcVars, directoryVars, pollerVars
  <1>2. CdcTypeOK'
    BY <1>1 DEF CdcTypeOK
  <1>3. \A e \in Events : files[e] # Absent => files[e].version \in Nat
    BY DEF CdcTypeOK, EventFile
  <1>4. \A e \in Events : files[e] # Absent => files[e].version <= version'
    BY <1>3
  <1> QED
    BY <1>1, <1>2, <1>4

\* Whatever the writers of the directory do, the paths that were listed, read or marked
\* stay known.
LEMMA AnnounceListener ==
    ASSUME ListenerInv, Announce
    PROVE  ListenerInv'
  <1> USE DEF ListenerInv
  <1>1. UNCHANGED <<processed, poller, events, syncs, version>>
    BY DEF Announce, CreateDirectory, PublishEvent, WithdrawEvent,
           RepairEvent, RewriteEvent, ghostVars, pollerVars
  <1>2. CASE CreateDirectory
    <2>1. UNCHANGED <<files, todo>>
      BY <1>2 DEF CreateDirectory, pollerVars
    <2> QED
      BY <1>1, <1>2, <2>1 DEF CreateDirectory, CdcTypeOK
  <1>3. ASSUME NEW e \in Events, PublishEvent(e, version)
        PROVE  ListenerInv'
    <2>1. PICK ok \in BOOLEAN :
              files' = [files EXCEPT ![e] = [readable |-> ok, version |-> version]]
      BY <1>3 DEF PublishEvent
    <2>2. [readable |-> ok, version |-> version] \in EventFile
      BY DEF EventFile
    <2>3. files' \in [Events -> EventFile \cup {Absent}]
      BY <2>1, <2>2 DEF CdcTypeOK
    <2>4. /\ files'[e] # Absent /\ files'[e].version = version
          /\ \A d \in Events \ {e} : files'[d] = files[d]
      BY <2>1, <2>2, AbsentAssumption DEF CdcTypeOK
    <2>5. todo' \in {todo, todo \cup {e}}
      BY <1>3 DEF PublishEvent
    <2>6. e \notin processed
      BY <1>3 DEF PublishEvent
    <2>7. CdcTypeOK'
      BY <1>1, <1>3, <2>3, <2>5 DEF CdcTypeOK, PublishEvent
    <2>8. \A d \in Events : files'[d] # Absent => files'[d].version <= version
      BY <2>4
    <2>9. \A d \in todo' \cup processed \cup events : files'[d] # Absent
      BY <2>4, <2>5 DEF CdcTypeOK
    <2> QED
      BY <1>1, <2>5, <2>6, <2>7, <2>8, <2>9
  <1>4. ASSUME NEW e \in Events, WithdrawEvent(e) \/ RepairEvent(e)
        PROVE  ListenerInv'
    <2>1. files[e] \in EventFile /\ UNCHANGED <<directoryUp, todo>>
      BY <1>4 DEF WithdrawEvent, RepairEvent, CdcTypeOK, pollerVars
    <2>2. PICK ok \in BOOLEAN : files' = [files EXCEPT ![e].readable = ok]
      BY <1>4 DEF WithdrawEvent, RepairEvent
    <2>3. [files[e] EXCEPT !.readable = ok] \in EventFile
          /\ [files[e] EXCEPT !.readable = ok].version = files[e].version
      BY <2>1 DEF EventFile
    <2>4. /\ files' \in [Events -> EventFile \cup {Absent}]
          /\ files'[e] = [files[e] EXCEPT !.readable = ok]
          /\ \A d \in Events \ {e} : files'[d] = files[d]
      BY <2>2, <2>3 DEF CdcTypeOK
    <2>5. files'[e] # Absent /\ files'[e].version = files[e].version
      BY <2>3, <2>4, AbsentAssumption
    <2>6. CdcTypeOK'
      BY <1>1, <2>1, <2>4 DEF CdcTypeOK
    <2>7. \A d \in Events : files'[d] # Absent => files'[d].version <= version
      BY <1>4, <2>4, <2>5 DEF WithdrawEvent, RepairEvent
    <2>8. \A d \in todo' \cup processed \cup events : files'[d] # Absent
      BY <2>1, <2>4, <2>5 DEF CdcTypeOK
    <2> QED
      BY <1>1, <2>1, <2>6, <2>7, <2>8
  <1>5. ASSUME NEW e \in Events, RewriteEvent(e, version)
        PROVE  ListenerInv'
    <2>1. files[e] \in EventFile /\ UNCHANGED <<directoryUp, todo>>
      BY <1>5 DEF RewriteEvent, CdcTypeOK, pollerVars
    <2>2. [files[e] EXCEPT !.version = version] \in EventFile
          /\ [files[e] EXCEPT !.version = version].version = version
      BY <2>1 DEF EventFile
    <2>3. /\ files' \in [Events -> EventFile \cup {Absent}]
          /\ files'[e] = [files[e] EXCEPT !.version = version]
          /\ \A d \in Events \ {e} : files'[d] = files[d]
      BY <1>5, <2>2 DEF RewriteEvent, CdcTypeOK
    <2>4. files'[e] # Absent /\ files'[e].version = version
      BY <2>2, <2>3, AbsentAssumption
    <2>5. CdcTypeOK'
      BY <1>1, <2>1, <2>3 DEF CdcTypeOK
    <2>6. \A d \in Events : files'[d] # Absent => files'[d].version <= version
      BY <1>5, <2>3, <2>4 DEF RewriteEvent
    <2>7. \A d \in todo' \cup processed \cup events : files'[d] # Absent
      BY <2>1, <2>3, <2>4 DEF CdcTypeOK
    <2> QED
      BY <1>1, <2>1, <2>5, <2>6, <2>7
  <1> QED
    BY <1>2, <1>3, <1>4, <1>5 DEF Announce

\* A sync lists unmarked paths and marks each of them once.
LEMMA ReadStepListener ==
    ASSUME ListenerInv, ReadStep, UNCHANGED <<syncs, version>>
    PROVE  ListenerInv'
  <1> USE DEF ListenerInv, CdcTypeOK, directoryVars
  <1>1. CASE ListDirectory
    BY <1>1 DEF ListDirectory
  <1>2. ASSUME NEW e \in Events, ReadEvent(e)
        PROVE  ListenerInv'
    <2>1. CASE files[e].readable
      <3>1. /\ e \in todo /\ todo' = todo \ {e} /\ poller = "reading"
            /\ processed' = processed \cup {e} /\ events' = events \cup {e}
            /\ UNCHANGED <<directoryUp, files, poller>>
        BY <1>2, <2>1 DEF ReadEvent
      <3>2. e \notin processed
        BY <3>1
      <3>3. IsFiniteSet(processed) /\ Cardinality(processed) \in Nat
        BY MarkedFinite
      <3>4. Cardinality(processed') = Cardinality(processed) + 1
        BY <3>1, <3>2, <3>3, FS_AddElement
      <3> QED
        BY <3>1, <3>2, <3>3, <3>4
    <2>2. CASE ~files[e].readable
      BY <1>2, <2>2 DEF ReadEvent
    <2> QED
      BY <2>1, <2>2
  <1>3. CASE NothingNew
    BY <1>3 DEF NothingNew
  <1>4. CASE SomethingNew
    BY <1>4 DEF SomethingNew
  <1>5. CASE FindEntries
    BY <1>5 DEF FindEntries
  <1> QED
    BY <1>1, <1>2, <1>3, <1>4, <1>5 DEF ReadStep

\* The sync that is over had marked a path no other sync was counted for.
LEMMA EndOfSyncListener ==
    ASSUME ListenerInv, EndOfSync, syncs' = syncs + 1, UNCHANGED version
    PROVE  ListenerInv'
  <1>1. /\ poller \in {"checking", "clearing"} /\ poller' = "ticking" /\ events' = {}
        /\ UNCHANGED <<directoryUp, files, processed, todo>>
    BY DEF EndOfSync, FindEmpty, Invalidate, directoryVars
  <1> QED
    BY <1>1 DEF ListenerInv, CdcTypeOK

-------------------------------------------------------------------------------
(* The cache and the connections *)

\* A step that brings nothing into the store keeps what is known of its contents.
LEMMA StoreKept ==
    ASSUME StoreInv, UNCHANGED <<syncs, announced>>,
           \A k \in DOMAIN store' :
               k \in DOMAIN store /\ store'[k].batches = store[k].batches
    PROVE  StoreInv'
  BY DEF StoreInv, Current

\* What cache.set stores is the engine's answer to an unparameterized statement,
\* read since the last finished sync or known not to be.
LEMMA FillStore ==
    ASSUME ServeInv, NEW c \in Clients, phase[c] = "finish", Cacheable(request[c]),
           Fill(c), UNCHANGED <<syncs, announced>>
    PROVE  CacheInv(Results)' /\ StoreInv'
  <1> DEFINE filled == [result[c] EXCEPT !.setAt = syncs]
  <1>1. /\ request[c] \in Requests /\ result[c] \in Results
        /\ Answers(result[c], request[c]) /\ Current(result[c])
    BY DEF ServeInv, ConnectionInv
  <1>2. syncs \in Nat
    BY DEF ServeInv, ListenerInv
  <1>3. /\ filled \in Results /\ filled.setAt = syncs
        /\ filled.key = result[c].key /\ filled.binding = result[c].binding
        /\ filled.readAt = result[c].readAt /\ filled.version = result[c].version
    BY <1>1, <1>2 DEF Results
  <1>4. request[c].key \in Keys
    BY <1>1, RequestAssumption
  <1>5. Set(request[c].key, filled, clock)
    BY DEF Fill
  <1>6. clock \in Nat /\ CacheInv(Results) /\ StoreInv
    BY DEF ServeInv, ServeTypes
  <1> HIDE DEF filled
  <1>7. CacheInv(Results)'
    BY <1>3, <1>4, <1>5, <1>6, SetInv
  <1>8. \A k \in DOMAIN store' :
            \/ k = request[c].key /\ store'[k].batches = filled
            \/ k \in DOMAIN store /\ store'[k] = store[k]
    BY <1>5, SetContents
  <1>9. StoreInv'
    <2>1. filled.key = request[c].key /\ filled.binding = NoParams
      BY <1>1, <1>3 DEF Answers, Cacheable
    <2>2. Current(filled)
      BY <1>1, <1>3 DEF Current
    <2> QED
      BY <1>3, <1>6, <1>8, <2>1, <2>2 DEF StoreInv, Current
  <1> QED
    BY <1>7, <1>9

\* A handler's step leaves the other connections alone.
LEMMA OthersKept ==
    ASSUME NEW c \in Clients, \A d \in Clients : ConnectionInv(d),
           UNCHANGED <<syncs, announced>>,
           \A d \in Clients \ {c} :
               phase'[d] = phase[d] /\ request'[d] = request[d] /\ result'[d] = result[d]
    PROVE  \A d \in Clients \ {c} : ConnectionInv(d)'
  BY DEF ConnectionInv, Current

\* A handler that has responded has nothing to account for.
LEMMA RespondKept ==
    ASSUME NEW c \in Clients, ServeTypes, \A d \in Clients : ConnectionInv(d),
           UNCHANGED <<clock, syncs, announced>>, Respond(c)
    PROVE  ServeTypes' /\ \A d \in Clients : ConnectionInv(d)'
  <1>1. /\ phase'[c] = "idle" /\ request'[c] = NoRequest
        /\ \A d \in Clients \ {c} :
               phase'[d] = phase[d] /\ request'[d] = request[d] /\ result'[d] = result[d]
    BY DEF Respond, ServeTypes
  <1>2. ConnectionInv(c)'
    BY <1>1 DEF ConnectionInv
  <1>3. ServeTypes'
    BY DEF Respond, ServeTypes
  <1> QED
    BY <1>1, <1>2, <1>3, OthersKept

\* What the connections know survives a step that changes none of them and
\* finishes no sync.
LEMMA ConnectionsUnchanged ==
    ASSUME UNCHANGED <<clientVars, syncs, announced>>, \A c \in Clients : ConnectionInv(c)
    PROVE  \A c \in Clients : ConnectionInv(c)'
  BY DEF ConnectionInv, Current, clientVars

-------------------------------------------------------------------------------
(* The steps *)

\* The initial state satisfies the invariant.
LEMMA ServeInit == Init => ServeInv
  <1> SUFFICES ASSUME Init PROVE ServeInv
    OBVIOUS
  <1>1. CacheInv(Results)
    BY CacheInitInv DEF Init
  <1>2. ListenerInv
    BY ListenerInit DEF Init
  <1>3. StoreInv
    BY DEF Init, CacheInit, StoreInv
  <1>4. ServeTypes /\ announced <= version /\ \A c \in Clients : ConnectionInv(c)
    BY DEF Init, ServeTypes, ConnectionInv
  <1> QED
    BY <1>1, <1>2, <1>3, <1>4 DEF ServeInv

\* A step that leaves the cache alone leaves what is known of it alone.
LEMMA CacheKept ==
    ASSUME CacheInv(Results), UNCHANGED cacheVars
    PROVE  /\ CacheInv(Results)'
           /\ StoreInv /\ UNCHANGED <<syncs, announced>> => StoreInv'
  <1>1. CacheInv(Results)'
    BY DEF CacheInv, CacheTypeOK, CapacityBound, RecencyStamps, CounterConservation,
           cacheVars
  <1>2. StoreInv /\ UNCHANGED <<syncs, announced>> => StoreInv'
    BY DEF StoreInv, Current, cacheVars
  <1> QED
    BY <1>1, <1>2

\* The environment and the listing half of a sync touch no cached result.
LEMMA OutsideStep ==
    ASSUME ServeInv, Advance \/ ChangeSource \/ Announce \/ PollRead \/ UNCHANGED vars
    PROVE  ServeInv'
  <1> USE DEF ServeInv
  <1>1. UNCHANGED cacheVars /\ UNCHANGED ghostVars /\ UNCHANGED clientVars
    BY DEF Advance, ChangeSource, Announce, CreateDirectory, PublishEvent, WithdrawEvent,
           RepairEvent, RewriteEvent, PollRead, ReadStep, ListDirectory, ReadEvent, NothingNew, SomethingNew,
           FindEntries, vars
  <1>2. UNCHANGED <<announced, syncs>> /\ UNCHANGED <<phase, request, result>>
    BY <1>1 DEF ghostVars, clientVars
  <1>3. version \in Nat /\ version' \in Nat /\ version <= version'
    BY DEF ListenerInv, Advance, ChangeSource, Announce, PollRead, vars
  <1>4. clock' \in Nat
    BY DEF ServeTypes, Advance, ChangeSource, Announce, PollRead, vars
  <1>5. CacheInv(Results)' /\ StoreInv'
    BY <1>1, <1>2, CacheKept
  <1>6. \A c \in Clients : ConnectionInv(c)'
    BY <1>1, <1>2, ConnectionsUnchanged
  <1>7. ListenerInv'
    <2>1. CASE Announce
      BY <2>1, AnnounceListener
    <2>2. CASE PollRead
      BY <1>2, <2>2, ReadStepListener DEF PollRead
    <2>3. CASE Advance \/ ChangeSource \/ UNCHANGED vars
      BY <1>2, <1>3, <2>3, ListenerUnchanged DEF Advance, ChangeSource, vars
    <2> QED
      BY <2>1, <2>2, <2>3
  <1>8. ServeTypes' /\ announced' <= version'
    BY <1>2, <1>3, <1>4 DEF ServeTypes
  <1> QED
    BY <1>5, <1>6, <1>7, <1>8

\* A finished sync leaves an empty cache, and every result in flight is now known
\* to have been read before it.
LEMMA PollEndStep ==
    ASSUME ServeInv, PollEnd
    PROVE  ServeInv'
  <1> USE DEF ServeInv
  <1>1. /\ DOMAIN store' = {}
        /\ CacheInv(Results)'
    <2>1. CASE FindEmpty
      BY <2>1, CacheKept DEF FindEmpty, IsEmpty, cacheVars
    <2>2. CASE Invalidate
      BY <2>2, ClearInv DEF Invalidate, Clear
    <2> QED
      BY <2>1, <2>2 DEF PollEnd, EndOfSync
  <1>2. ListenerInv'
    BY EndOfSyncListener DEF PollEnd
  <1>3. announced' \in Nat /\ announced' <= version'
    <2>1. \A e \in events : files[e].version \in Nat /\ files[e].version <= version
      BY DEF ListenerInv, CdcTypeOK, EventFile
    <2> QED
      BY <2>1 DEF PollEnd, ServeTypes
  <1>4. ServeTypes' /\ \A c \in Clients : ConnectionInv(c)'
    <2>1. UNCHANGED <<clock, phase, request, result>> /\ syncs' = syncs + 1
      BY DEF PollEnd, clientVars
    <2>2. \A c \in Clients : ConnectionInv(c)'
      <3> SUFFICES ASSUME NEW c \in Clients PROVE ConnectionInv(c)'
        OBVIOUS
      <3>1. CASE phase[c] = "finish"
        <4>1. result[c].readAt \in Nat /\ result[c].readAt <= syncs /\ syncs \in Nat
          BY <3>1 DEF ConnectionInv, Current, Results, ListenerInv
        <4> QED
          BY <2>1, <3>1, <4>1 DEF ConnectionInv, Current
      <3>2. CASE phase[c] # "finish"
        BY <2>1, <3>2 DEF ConnectionInv
      <3> QED
        BY <3>1, <3>2
    <2> QED
      BY <1>3, <2>1, <2>2 DEF ServeTypes
  <1>5. StoreInv'
    BY <1>1 DEF StoreInv
  <1> QED
    BY <1>1, <1>2, <1>3, <1>4, <1>5

\* A message is taken up; only a cacheable one goes on to the lookup.
LEMMA ReceiveStep ==
    ASSUME ServeInv, NEW c \in Clients, NEW r \in Requests, Receive(c, r)
    PROVE  ServeInv'
  <1> USE DEF ServeInv
  <1>1. /\ UNCHANGED <<cdcVars, clock, version, announced, syncs, result>>
        /\ UNCHANGED cacheVars
    BY DEF Receive, ghostVars
  <1>2. CacheInv(Results)' /\ StoreInv' /\ ListenerInv' /\ announced' <= version'
    <2>1. version' \in Nat /\ version <= version'
      BY <1>1 DEF ListenerInv
    <2> QED
      BY <1>1, <2>1, CacheKept, ListenerUnchanged
  <1>3. /\ request'[c] = r
        /\ phase'[c] = IF Cacheable(r) THEN "lookup" ELSE "execute"
        /\ \A d \in Clients \ {c} :
               phase'[d] = phase[d] /\ request'[d] = request[d] /\ result'[d] = result[d]
    BY DEF Receive, ServeTypes
  <1>4. ConnectionInv(c)'
    BY <1>3 DEF ConnectionInv, Cacheable
  <1>5. \A d \in Clients : ConnectionInv(d)'
    BY <1>1, <1>3, <1>4, OthersKept
  <1>6. ServeTypes'
    BY <1>1 DEF ServeTypes, Receive
  <1> QED
    BY <1>2, <1>5, <1>6

\* cache.get, with or without a result.
LEMMA LookupStep ==
    ASSUME ServeInv, NEW c \in Clients, Hit(c) \/ NoHit(c)
    PROVE  ServeInv'
  <1> USE DEF ServeInv
  <1>1. /\ UNCHANGED <<cdcVars, clock, version, announced, syncs>>
        /\ phase[c] = "lookup"
    BY DEF Hit, NoHit, ghostVars
  <1>2. ListenerInv' /\ announced' <= version'
    <2>1. version' \in Nat /\ version <= version'
      BY <1>1 DEF ListenerInv
    <2> QED
      BY <1>1, <2>1, ListenerUnchanged
  <1>3. CacheInv(Results)' /\ StoreInv'
    <2>1. Get(request[c].key, clock)
      BY DEF Hit, NoHit, Get
    <2>2. clock \in Nat
      BY DEF ServeTypes
    <2>3. CacheInv(Results)'
      BY <2>1, <2>2, GetInv
    <2>4. \A k \in DOMAIN store' :
              k \in DOMAIN store /\ store'[k].batches = store[k].batches
      BY <2>1, GetContents
    <2>5. UNCHANGED <<syncs, announced>>
      BY <1>1
    <2> QED
      BY <2>3, <2>4, <2>5, StoreKept
  <1>4. ServeTypes' /\ \A d \in Clients : ConnectionInv(d)'
    <2>1. CASE Hit(c)
      <3>1. Respond(c)
        BY <2>1 DEF Hit
      <3> QED
        BY <1>1, <3>1, RespondKept
    <2>2. CASE NoHit(c)
      <3>1. /\ phase'[c] = "execute" /\ UNCHANGED <<request, result>>
            /\ \A d \in Clients \ {c} : phase'[d] = phase[d]
        BY <2>2 DEF NoHit, ServeTypes
      <3>2. ConnectionInv(c)'
        BY <1>1, <3>1 DEF ConnectionInv
      <3>3. \A d \in Clients : ConnectionInv(d)'
        BY <1>1, <3>1, <3>2, OthersKept
      <3>4. ServeTypes'
        BY <1>1, <2>2 DEF ServeTypes, NoHit
      <3> QED
        BY <3>3, <3>4
    <2> QED
      BY <2>1, <2>2
  <1> QED
    BY <1>2, <1>3, <1>4

\* The engine's answer: read now, so it has all that was announced.
LEMMA ExecuteStep ==
    ASSUME ServeInv, NEW c \in Clients, Execute(c)
    PROVE  ServeInv'
  <1> USE DEF ServeInv
  <1>1. /\ UNCHANGED <<cdcVars, clock, announced, syncs, request>>
        /\ UNCHANGED cacheVars /\ phase[c] = "execute"
    BY DEF Execute, ghostVars
  <1>2. version \in Nat /\ version' \in Nat /\ version <= version' /\ syncs \in Nat
    BY DEF Execute, ListenerInv
  <1>3. CacheInv(Results)' /\ StoreInv' /\ ListenerInv'
    BY <1>1, <1>2, CacheKept, ListenerUnchanged
  <1>4. announced' <= version'
    BY <1>1, <1>2 DEF ServeTypes
  <1> DEFINE answer == [key |-> request[c].key, binding |-> request[c].binding,
                        version |-> version, readAt |-> syncs, setAt |-> 0]
  <1>5. request[c] \in Requests
    BY <1>1 DEF ConnectionInv
  <1>6. answer \in Results
    BY <1>2, <1>5, RequestAssumption DEF Results
  <1>7. Answers(answer, request[c]) /\ Current(answer)
    BY <1>2 DEF Answers, Current, ServeTypes
  <1>8. /\ result' = [result EXCEPT ![c] = answer]
        /\ phase' = [phase EXCEPT ![c] = "finish"]
    BY DEF Execute
  <1> HIDE DEF answer
  <1>9. /\ result'[c] = answer /\ phase'[c] = "finish"
        /\ \A d \in Clients \ {c} : phase'[d] = phase[d] /\ result'[d] = result[d]
    BY <1>8 DEF ServeTypes
  <1>10. ConnectionInv(c)'
    BY <1>1, <1>5, <1>6, <1>7, <1>9 DEF ConnectionInv, Answers, Current
  <1>11. \A d \in Clients : ConnectionInv(d)'
    BY <1>1, <1>9, <1>10, OthersKept
  <1>12. ServeTypes'
    BY <1>1, <1>6, <1>8 DEF ServeTypes
  <1> QED
    BY <1>3, <1>4, <1>11, <1>12

\* The response is sent, with or without a cache.set before it.
LEMMA FinishStep ==
    ASSUME ServeInv, NEW c \in Clients, Fail(c) \/ FinishSimple(c) \/ FinishExtended(c)
    PROVE  ServeInv'
  <1> USE DEF ServeInv
  <1>1. /\ UNCHANGED <<cdcVars, clock, version, announced, syncs>>
        /\ Respond(c)
    BY DEF Fail, FinishSimple, FinishExtended, ghostVars
  <1>2. \/ UNCHANGED cacheVars
        \/ phase[c] = "finish" /\ Cacheable(request[c]) /\ Fill(c)
    BY DEF Fail, FinishSimple, FinishExtended
  <1>3. CacheInv(Results)' /\ StoreInv'
    BY <1>1, <1>2, CacheKept, FillStore
  <1>4. ListenerInv' /\ announced' <= version'
    <2>1. version' \in Nat /\ version <= version'
      BY <1>1 DEF ListenerInv
    <2> QED
      BY <1>1, <2>1, ListenerUnchanged
  <1>5. ServeTypes' /\ \A d \in Clients : ConnectionInv(d)'
    BY <1>1, RespondKept
  <1> QED
    BY <1>3, <1>4, <1>5

\* Every step preserves the invariant.
LEMMA ServeNext == ServeInv /\ [Next]_vars => ServeInv'
  <1> SUFFICES ASSUME ServeInv, [Next]_vars PROVE ServeInv'
    OBVIOUS
  <1>1. CASE Advance \/ ChangeSource \/ Announce \/ PollRead \/ UNCHANGED vars
    BY <1>1, OutsideStep
  <1>2. CASE PollEnd
    BY <1>2, PollEndStep
  <1>3. ASSUME NEW c \in Clients, Handle(c)
        PROVE  ServeInv'
    BY <1>3, LookupStep, ExecuteStep, FinishStep DEF Handle
  <1>4. ASSUME NEW c \in Clients, NEW r \in Requests, Receive(c, r)
        PROVE  ServeInv'
    BY <1>4, ReceiveStep
  <1> QED
    BY <1>1, <1>2, <1>3, <1>4 DEF Next

\* The invariant holds in every reachable state.
LEMMA SpecServeInv == Spec => []ServeInv
  BY ServeInit, ServeNext, PTL DEF Spec

-------------------------------------------------------------------------------
(* Results *)

\* Type correctness of the whole server.
THEOREM ServeTypeCorrect == Spec => []TypeOK
  <1>1. ServeInv => TypeOK
    BY DEF ServeInv, ServeTypes, ListenerInv, CacheInv, TypeOK
  <1> QED
    BY <1>1, SpecServeInv, PTL

\* No connection is answered with another statement's result or with one for other
\* parameter values, however the handlers and the cache interleave.
THEOREM OwnAnswers == Spec => []AnswersOwnRequest
  <1>1. ASSUME ServeInv, NEW c \in Clients, phase[c] = "lookup",
               CanHit(request[c].key, clock)
        PROVE  Answers(store[request[c].key].batches, request[c])
    <2>1. request[c].binding = NoParams
      BY <1>1 DEF ServeInv, ConnectionInv, Cacheable
    <2>2. request[c].key \in DOMAIN store
      BY <1>1 DEF CanHit
    <2> QED
      BY <1>1, <2>1, <2>2 DEF ServeInv, StoreInv, Answers
  <1>2. ServeInv => AnswersOwnRequest
    BY <1>1 DEF ServeInv, ConnectionInv, AnswersOwnRequest
  <1> QED
    BY <1>2, SpecServeInv, PTL

\* No cached result outlives an invalidation, and one older than an announced
\* change was read before the sync that announced it had finished.
THEOREM NothingSurvivesSync == Spec => []NoEntrySurvivesSync
  <1>1. ASSUME ServeInv, NEW k \in DOMAIN store
        PROVE  /\ store[k].batches.setAt = syncs
               /\ store[k].batches.version < announced =>
                      store[k].batches.readAt < store[k].batches.setAt
    <2>1. store[k].batches \in Results
      BY <1>1 DEF ServeInv, CacheInv, CacheTypeOK, Entry
    <2>2. /\ store[k].batches.version \in Nat /\ store[k].batches.readAt \in Nat
          /\ syncs \in Nat /\ announced \in Nat
      BY <1>1, <2>1 DEF Results, ServeInv, ListenerInv, ServeTypes
    <2>3. store[k].batches.setAt = syncs /\ Current(store[k].batches)
      BY <1>1 DEF ServeInv, StoreInv
    <2> QED
      BY <2>2, <2>3 DEF Current
  <1>2. ServeInv => NoEntrySurvivesSync
    BY <1>1 DEF NoEntrySurvivesSync
  <1> QED
    BY <1>2, SpecServeInv, PTL

\* No event file invalidates the cache twice.
THEOREM EachEventOnce == Spec => []OneSyncPerEvent
  <1>1. ServeInv => OneSyncPerEvent
    BY DEF ServeInv, ListenerInv, OneSyncPerEvent
  <1> QED
    BY <1>1, SpecServeInv, PTL

\* The counters account for the store under the server's use of the cache too, and
\* its capacity is kept.
THEOREM ServeConserves == Spec => [](CounterConservation /\ CapacityBound)
  <1>1. ServeInv => CounterConservation /\ CapacityBound
    BY DEF ServeInv, CacheInv
  <1> QED
    BY <1>1, SpecServeInv, PTL

-------------------------------------------------------------------------------
(* Stale hits: the result of a query is set after a sync finished that the query  *)
(* had read before. Nothing else makes a hit older than what was announced.       *)

\* No query has read its data and has its result still to set.
NoneInFlight == \A c \in Clients : phase[c] = "finish" => ~Cacheable(request[c])

\* What is in the cache, or on its way there, was read after the last sync.
ReadSinceSync ==
    /\ \A k \in DOMAIN store : store[k].batches.readAt = syncs
    /\ \A c \in Clients :
          phase[c] = "finish" /\ Cacheable(request[c]) => result[c].readAt = syncs

\* A handler that is done, or that goes on without an answer, adds nothing in flight.
LEMMA InFlightKept ==
    ASSUME ReadSinceSync, NEW c \in Clients, UNCHANGED syncs, phase'[c] # "finish",
           \A d \in Clients \ {c} :
               phase'[d] = phase[d] /\ request'[d] = request[d] /\ result'[d] = result[d]
    PROVE  \A d \in Clients :
               phase'[d] = "finish" /\ Cacheable(request'[d]) => result'[d].readAt = syncs'
  BY DEF ReadSinceSync

\* A response leaves the other handlers alone.
LEMMA RespondLeaves ==
    ASSUME ServeTypes, NEW c \in Clients, Respond(c)
    PROVE  /\ phase'[c] = "idle"
           /\ \A d \in Clients \ {c} :
                  phase'[d] = phase[d] /\ request'[d] = request[d] /\ result'[d] = result[d]
  BY DEF ServeTypes, Respond

\* What a handler does keeps this: it answers from the cache, reads, or sets what it
\* has read since the last sync.
LEMMA HandleFresh ==
    ASSUME ServeInv, ReadSinceSync, NEW c \in Clients, Handle(c)
    PROVE  ReadSinceSync'
  <1>1. ServeTypes /\ CacheInv(Results)
    BY DEF ServeInv
  <1>2. UNCHANGED syncs
    BY DEF Handle, Hit, NoHit, Execute, Fail, FinishSimple, FinishExtended, ghostVars
  <1>3. CASE Hit(c) \/ NoHit(c)
    <2>1. \A k \in DOMAIN store' :
              k \in DOMAIN store /\ store'[k].batches = store[k].batches
      BY <1>1, <1>3, GetContents DEF Hit, NoHit, Get
    <2>2. \A k \in DOMAIN store' : store'[k].batches.readAt = syncs'
      BY <1>2, <2>1 DEF ReadSinceSync
    <2>3. /\ phase'[c] # "finish"
          /\ \A d \in Clients \ {c} :
                 phase'[d] = phase[d] /\ request'[d] = request[d] /\ result'[d] = result[d]
      BY <1>1, <1>3, RespondLeaves DEF Hit, NoHit, ServeTypes
    <2> QED
      BY <1>2, <2>2, <2>3, InFlightKept DEF ReadSinceSync
  <1>4. CASE Execute(c)
    <2>1. UNCHANGED <<store, request>>
      BY <1>4 DEF Execute, cacheVars
    <2>2. /\ result'[c].readAt = syncs
          /\ \A d \in Clients \ {c} : phase'[d] = phase[d] /\ result'[d] = result[d]
      BY <1>1, <1>4 DEF Execute, ServeTypes
    <2> QED
      BY <1>2, <2>1, <2>2 DEF ReadSinceSync
  <1>5. CASE Fail(c) \/ FinishSimple(c) \/ FinishExtended(c)
    <2>1. \/ UNCHANGED cacheVars
          \/ phase[c] = "finish" /\ Cacheable(request[c]) /\ Fill(c)
      BY <1>5 DEF Fail, FinishSimple, FinishExtended
    <2>2. ASSUME NEW k \in DOMAIN store'
          PROVE  store'[k].batches.readAt = syncs'
      <3>1. CASE UNCHANGED cacheVars
        BY <1>2, <3>1 DEF ReadSinceSync, cacheVars
      <3>2. CASE phase[c] = "finish" /\ Cacheable(request[c]) /\ Fill(c)
        <4> DEFINE set == [result[c] EXCEPT !.setAt = syncs]
        <4>1. result[c] \in Results
          BY <3>2 DEF ServeInv, ConnectionInv
        <4>2. set.readAt = syncs
          BY <3>2, <4>1 DEF ReadSinceSync, Results
        <4> HIDE DEF set
        <4>3. Set(request[c].key, set, clock)
          BY <3>2 DEF Fill, set
        <4>4. store'[k].batches = set \/ (k \in DOMAIN store /\ store'[k] = store[k])
          BY <4>3, SetContents
        <4> QED
          BY <1>2, <4>2, <4>4 DEF ReadSinceSync
      <3> QED
        BY <2>1, <3>1, <3>2
    <2>3. /\ phase'[c] # "finish"
          /\ \A d \in Clients \ {c} :
                 phase'[d] = phase[d] /\ request'[d] = request[d] /\ result'[d] = result[d]
      BY <1>1, <1>5, RespondLeaves DEF Fail, FinishSimple, FinishExtended
    <2> QED
      BY <1>2, <2>2, <2>3, InFlightKept DEF ReadSinceSync
  <1> QED
    BY <1>3, <1>4, <1>5 DEF Handle

\* So does every step, so long as no sync finishes over a query in flight.
LEMMA StepFresh ==
    ASSUME ServeInv, ReadSinceSync, [Next]_vars, PollEnd => NoneInFlight
    PROVE  ReadSinceSync'
  <1>1. CASE Advance \/ ChangeSource \/ Announce \/ PollRead \/ UNCHANGED vars
    <2>1. UNCHANGED <<store, syncs, phase, request, result>>
      BY <1>1 DEF Advance, ChangeSource, Announce, CreateDirectory, PublishEvent,
         WithdrawEvent, RepairEvent, RewriteEvent, PollRead, ReadStep, ListDirectory, ReadEvent,
         NothingNew, SomethingNew, FindEntries, vars, cacheVars, ghostVars, clientVars
    <2> QED
      BY <2>1 DEF ReadSinceSync
  <1>2. CASE PollEnd
    <2>1. DOMAIN store' = {}
      BY <1>2 DEF PollEnd, EndOfSync, FindEmpty, IsEmpty, Invalidate, Clear, cacheVars
    <2>2. UNCHANGED <<phase, request, result>> /\ NoneInFlight
      BY <1>2 DEF PollEnd, clientVars
    <2>3. \A c \in Clients : ~(phase'[c] = "finish" /\ Cacheable(request'[c]))
      BY <2>2 DEF NoneInFlight, Cacheable
    <2> QED
      BY <2>1, <2>3 DEF ReadSinceSync, Cacheable
  <1>3. ASSUME NEW c \in Clients, Handle(c)
        PROVE  ReadSinceSync'
    BY <1>3, HandleFresh
  <1>4. ASSUME NEW c \in Clients, NEW r \in Requests, Receive(c, r)
        PROVE  ReadSinceSync'
    <2>1. UNCHANGED <<store, syncs, result>>
      BY <1>4 DEF Receive, cacheVars, ghostVars
    <2>2. /\ phase'[c] # "finish"
          /\ \A d \in Clients \ {c} : phase'[d] = phase[d] /\ request'[d] = request[d]
      BY <1>4 DEF Receive, ServeInv, ServeTypes
    <2> QED
      BY <2>1, <2>2, InFlightKept DEF ReadSinceSync
  <1> QED
    BY <1>1, <1>2, <1>3, <1>4 DEF Next

\* Then a hit has all that was announced.
LEMMA HitFresh ==
    ASSUME ServeInv, ReadSinceSync, [Next]_vars, NEW c \in Clients,
           phase[c] = "lookup", phase'[c] = "idle"
    PROVE  store[request[c].key].batches.version >= announced
  <1>1. Hit(c)
    <2>1. ServeTypes
      BY DEF ServeInv
    <2>2. ~(Advance \/ ChangeSource \/ Announce \/ PollRead \/ PollEnd \/ UNCHANGED vars)
      BY DEF Advance, ChangeSource, Announce, PollRead, PollEnd, vars, clientVars
    <2>3. ASSUME NEW d \in Clients, NEW r \in Requests, Receive(d, r) PROVE FALSE
      BY <2>1, <2>3 DEF Receive, ServeTypes
    <2>4. ASSUME NEW d \in Clients, Handle(d) PROVE d = c
      BY <2>1, <2>4, RespondLeaves DEF Handle, Hit, NoHit, Execute, Fail, FinishSimple,
         FinishExtended, ServeTypes
    <2>5. Handle(c)
      <3>1. \E d \in Clients : Handle(d)
        BY <2>2, <2>3, Zenon DEF Next
      <3>2. PICK d \in Clients : Handle(d)
        BY <3>1
      <3> QED
        BY <2>4, <3>2
    <2>6. ~NoHit(c) /\ ~Execute(c) /\ ~Fail(c) /\ ~FinishSimple(c) /\ ~FinishExtended(c)
      BY <2>1 DEF NoHit, Execute, Fail, FinishSimple, FinishExtended, ServeTypes
    <2> QED
      BY <2>5, <2>6 DEF Handle
  <1> DEFINE cached == store[request[c].key].batches
  <1>2. request[c].key \in DOMAIN store
    BY <1>1 DEF Hit, GetHit, CanHit
  <1>3. cached \in Results /\ Current(cached)
    BY <1>2 DEF ServeInv, CacheInv, CacheTypeOK, Entry, StoreInv
  <1>4. cached.readAt = syncs
    BY <1>2 DEF ReadSinceSync
  <1> QED
    BY <1>3, <1>4 DEF Current

\* The only way to a stale hit: if no sync finishes while a query that read before it
\* has still to set its result, every hit has all that was announced. There is no other
\* race in the listener's steps and locks, nor between the connections.
THEOREM FreshUnlessInFlight ==
    Spec /\ [][PollEnd => NoneInFlight]_vars => HitsAreFresh
  <1>1. Init => ReadSinceSync
    BY DEF Init, CacheInit, ReadSinceSync
  <1>2. ServeInv /\ ReadSinceSync /\ [Next]_vars /\ [PollEnd => NoneInFlight]_vars
            => ReadSinceSync'
    <2>1. CASE UNCHANGED vars
      <3>1. UNCHANGED <<store, syncs, phase, request, result>>
        BY <2>1 DEF vars, cacheVars, ghostVars, clientVars
      <3> QED
        BY <3>1 DEF ReadSinceSync
    <2>2. CASE ~UNCHANGED vars
      BY <2>2, StepFresh
    <2> QED
      BY <2>1, <2>2
  <1>3. ServeInv /\ ReadSinceSync /\ [Next]_vars =>
            [\A c \in Clients :
                phase[c] = "lookup" /\ phase'[c] = "idle"
                    => store[request[c].key].batches.version >= announced]_vars
    BY HitFresh
  <1> QED
    BY <1>1, <1>2, <1>3, SpecServeInv, PTL DEF Spec, HitsAreFresh

-------------------------------------------------------------------------------
(* The service *)

\* An answer of the engine is known, and never mistaken for none.
LEMMA KnownIsAnswer == ASSUME NEW r \in Results PROVE Known(r) # Miss
  BY UnknownAssumption DEF Results, Known

\* What is in hand depends on the handlers that are about to respond alone.
LEMMA InHandKept ==
    ASSUME \A d \in Clients : phase'[d] = "finish" <=> phase[d] = "finish",
           \A d \in Clients : phase[d] = "finish" => result'[d] = result[d]
    PROVE  InHand' = InHand
  BY DEF InHand, Known

\* After the response there is nothing in hand.
LEMMA RespondDismisses ==
    ASSUME ServeTypes, NEW c \in Clients, Respond(c)
    PROVE  Service!Dismiss(c)
  <1>1. /\ phase'[c] = "idle"
        /\ \A d \in Clients \ {c} : phase'[d] = phase[d] /\ result'[d] = result[d]
    BY DEF Respond, ServeTypes
  <1>2. InHand' = [InHand EXCEPT ![c] = Miss]
    BY <1>1 DEF InHand, Known
  <1> QED
    BY <1>2 DEF Respond, Service!Dismiss

\* Removing entries from the cache leaves the service fewer answers to give.
LEMMA CachedShrinks ==
    ASSUME \A k \in DOMAIN store' :
               k \in DOMAIN store /\ store'[k].batches = store[k].batches
    PROVE  Cached' \subseteq Cached
  BY DEF Cached, Known

\* A handler that is neither idle nor finishing waits for an answer.
LEMMA HandlerWaits ==
    ASSUME ServeInv, NEW c \in Clients, phase[c] \in {"lookup", "execute"}
    PROVE  Service!Waiting(c)
  <1>1. request[c] \in Requests /\ request[c] # NoRequest
    BY NoRequestAssumption DEF ServeInv, ConnectionInv
  <1>2. InHand[c] = Miss
    BY DEF InHand
  <1> QED
    BY <1>1, <1>2 DEF Service!Waiting

\* Changes of the data are seen as such; the clock, the writers and the first
\* steps of a sync are not seen.
LEMMA OutsideServes ==
    ASSUME Advance \/ ChangeSource \/ Announce \/ PollRead \/ UNCHANGED vars
    PROVE  [Service!Next]_Service!serviceVars
  <1>1. UNCHANGED cacheVars /\ UNCHANGED ghostVars /\ UNCHANGED clientVars
    BY DEF Advance, ChangeSource, Announce, CreateDirectory, PublishEvent, WithdrawEvent,
           RepairEvent, RewriteEvent, PollRead, ReadStep, ListDirectory, ReadEvent, NothingNew, SomethingNew,
           FindEntries, vars
  <1>2. InHand' = InHand
    BY <1>1, InHandKept DEF clientVars
  <1>3. Cached' = Cached
    BY <1>1 DEF Cached, Known, cacheVars
  <1>4. UNCHANGED <<announced, syncs, request, InHand, Cached>>
    BY <1>1, <1>2, <1>3 DEF ghostVars, clientVars
  <1>5. CASE ChangeSource
    BY <1>4, <1>5 DEF ChangeSource, Service!Next, Service!Change
  <1>6. CASE ~ChangeSource
    BY <1>4, <1>6 DEF Advance, Announce, PollRead, vars, Service!serviceVars
  <1> QED
    BY <1>5, <1>6

\* The step that ends a sync is the whole invalidation.
LEMMA SyncServes ==
    ASSUME ServeInv, PollEnd
    PROVE  Service!Invalidate
  <1>1. DOMAIN store' = {}
    BY DEF PollEnd, EndOfSync, FindEmpty, Invalidate, Clear, IsEmpty, cacheVars
  <1>2. Cached' = {}
    BY <1>1 DEF Cached
  <1>3. announced' \in announced..version
    <2>1. \A e \in events : files[e].version \in Nat /\ files[e].version <= version
      BY DEF ServeInv, ListenerInv, CdcTypeOK, EventFile
    <2> QED
      BY <2>1 DEF PollEnd, ServeInv, ServeTypes, ListenerInv
  <1>4. UNCHANGED <<version, request>> /\ InHand' = InHand /\ syncs' = syncs + 1
    <2>1. UNCHANGED <<version, phase, request, result>> /\ syncs' = syncs + 1
      BY DEF PollEnd, clientVars
    <2> QED
      BY <2>1, InHandKept
  <1> QED
    BY <1>2, <1>3, <1>4 DEF Service!Invalidate

\* Receiving a request is the service's being asked.
LEMMA ReceiveServes ==
    ASSUME ServeInv, NEW c \in Clients, NEW r \in Requests, Receive(c, r)
    PROVE  Service!Ask(c)
  <1>1. request[c] = NoRequest
    BY DEF Receive, ServeInv, ConnectionInv
  <1>2. phase' = [phase EXCEPT ![c] = IF Cacheable(r) THEN "lookup" ELSE "execute"]
        /\ phase[c] = "idle" /\ result' = result
    BY DEF Receive
  <1>3. InHand' = InHand
    BY <1>2, InHandKept DEF ServeInv, ServeTypes
  <1>4. Cached' = Cached
    BY DEF Receive, Cached, Known, cacheVars
  <1> QED
    BY <1>1, <1>3, <1>4 DEF Receive, ghostVars, Service!Ask

\* A hit is an answer to the same statement; a miss may take an expired answer away.
LEMMA LookupServes ==
    ASSUME ServeInv, NEW c \in Clients, Hit(c) \/ NoHit(c)
    PROVE  Service!Forget \/ Service!AnswerShared(c)
  <1>1. phase[c] = "lookup" /\ UNCHANGED <<version, announced, syncs>>
    BY DEF Hit, NoHit, ghostVars
  <1>2. CASE Hit(c)
    <2> DEFINE k == request[c].key
    <2>1. /\ k \in DOMAIN store /\ DOMAIN store' = DOMAIN store
          /\ \A j \in DOMAIN store : store'[j].batches = store[j].batches
      BY <1>2 DEF Hit, GetHit, CanHit, ServeInv, CacheInv, CacheTypeOK, Entry
    <2>2. Cached' = Cached
      BY <2>1 DEF Cached, Known
    <2>3. /\ Known(store[k].batches) \in Cached
          /\ Known(store[k].batches).key = k
          /\ Known(store[k].batches).binding = request[c].binding
      BY <1>1, <2>1 DEF Cached, Known, ServeInv, StoreInv, ConnectionInv, Cacheable
    <2>4. Service!Waiting(c) /\ Service!Dismiss(c)
      BY <1>1, <1>2, HandlerWaits, RespondDismisses DEF Hit, ServeInv
    <2> QED
      BY <1>1, <2>2, <2>3, <2>4 DEF Service!AnswerShared
  <1>3. CASE NoHit(c)
    <2>1. Get(request[c].key, clock)
      BY <1>3 DEF NoHit, Get
    <2>2. \A k \in DOMAIN store' :
              k \in DOMAIN store /\ store'[k].batches = store[k].batches
      BY <2>1, GetContents DEF ServeInv
    <2>3. Cached' \subseteq Cached
      BY <2>2, CachedShrinks
    <2>4. InHand' = InHand
      BY <1>1, <1>3, InHandKept DEF NoHit, ServeInv, ServeTypes
    <2> QED
      BY <1>1, <1>3, <2>3, <2>4 DEF NoHit, Service!Forget
  <1> QED
    BY <1>2, <1>3

\* Running the engine is the service's reading of the sources.
LEMMA ExecuteServes ==
    ASSUME ServeInv, NEW c \in Clients, Execute(c)
    PROVE  Service!Read(c)
  <1> DEFINE read == [key |-> request[c].key, binding |-> request[c].binding,
                      version |-> version, readAt |-> syncs]
  <1>1. Service!Waiting(c)
    BY HandlerWaits DEF Execute
  <1>2. InHand' = [InHand EXCEPT ![c] = read]
    <2>1. /\ phase'[c] = "finish"
          /\ Known(result'[c]) = read
          /\ \A d \in Clients \ {c} : phase'[d] = phase[d] /\ result'[d] = result[d]
      BY DEF Execute, ServeInv, ServeTypes, Known
    <2> HIDE DEF read
    <2> QED
      BY <2>1 DEF InHand, Known
  <1>3. Cached' = Cached
    BY DEF Execute, Cached, Known, cacheVars
  <1> QED
    BY <1>1, <1>2, <1>3 DEF Execute, ghostVars, Service!Read

\* Only what was read for a statement without parameters is shared.
LEMMA FinishServes ==
    ASSUME ServeInv, NEW c \in Clients, FinishSimple(c) \/ FinishExtended(c)
    PROVE  Service!Deliver(c)
  <1>1. phase[c] = "finish" /\ Respond(c) /\ UNCHANGED <<version, announced, syncs>>
    BY DEF FinishSimple, FinishExtended, ghostVars
  <1>2. result[c] \in Results /\ InHand[c] = Known(result[c]) /\ InHand[c] # Miss
    BY <1>1, KnownIsAnswer DEF InHand, ServeInv, ConnectionInv
  <1>3. UNCHANGED cacheVars \/ (Cacheable(request[c]) /\ Fill(c))
    BY DEF FinishSimple, FinishExtended
  <1>4. Cached' \subseteq Cached
            \cup (IF Service!Shareable(request[c]) THEN {InHand[c]} ELSE {})
    <2>1. CASE UNCHANGED cacheVars
      BY <2>1 DEF Cached, Known, cacheVars
    <2>2. CASE Cacheable(request[c]) /\ Fill(c)
      <3> DEFINE filled == [result[c] EXCEPT !.setAt = syncs]
      <3>1. Known(filled) = InHand[c]
        BY <1>2 DEF Results, Known
      <3>2. \A k \in DOMAIN store' :
                \/ store'[k].batches = filled
                \/ k \in DOMAIN store /\ store'[k] = store[k]
        BY <2>2, SetContents DEF Fill
      <3> HIDE DEF filled
      <3>3. Cached' \subseteq Cached \cup {InHand[c]}
        BY <3>1, <3>2 DEF Cached, Known
      <3> QED
        BY <2>2, <3>3 DEF Cacheable, Service!Shareable
    <2> QED
      BY <1>3, <2>1, <2>2
  <1> QED
    BY <1>1, <1>2, <1>4, RespondDismisses DEF ServeInv, Service!Deliver

\* An error of the engine is the service's refusal.
LEMMA FailServes ==
    ASSUME ServeInv, NEW c \in Clients, Fail(c)
    PROVE  Service!Refuse(c)
  <1>1. Cached' = Cached
    BY DEF Fail, Cached, Known, cacheVars
  <1> QED
    BY <1>1, HandlerWaits, RespondDismisses DEF Fail, ghostVars, ServeInv, Service!Refuse

\* Every step is a step of the service, or none.
LEMMA StepServes == ServeInv /\ [Next]_vars => [Service!Next]_Service!serviceVars
  <1> SUFFICES ASSUME ServeInv, [Next]_vars PROVE [Service!Next]_Service!serviceVars
    OBVIOUS
  <1>1. CASE Advance \/ ChangeSource \/ Announce \/ PollRead \/ UNCHANGED vars
    BY <1>1, OutsideServes
  <1>2. CASE PollEnd
    BY <1>2, SyncServes DEF Service!Next
  <1>3. ASSUME NEW c \in Clients, Handle(c)
        PROVE  Service!Next
    BY <1>3, LookupServes, ExecuteServes, FinishServes, FailServes
       DEF Handle, Service!Next
  <1>4. ASSUME NEW c \in Clients, NEW r \in Requests, Receive(c, r)
        PROVE  Service!Next
    BY <1>4, ReceiveServes DEF Service!Next
  <1> QED
    BY <1>1, <1>2, <1>3, <1>4 DEF Next

\* The service begins with nothing asked and nothing kept.
LEMMA InitServes == Init => Service!Init
  BY DEF Init, CacheInit, InHand, Cached, Service!Init

\* Handlers, cache and listener, with all their steps and locks, are a service
\* whose invalidations are atomic.
THEOREM ServeImplements == Spec => ImplementsService
  <1>1. Spec => [][Service!Next]_Service!serviceVars
    BY SpecServeInv, StepServes, PTL DEF Spec
  <1> QED
    BY <1>1, InitServes, PTL DEF Spec, ImplementsService, Service!Spec
===============================================================================
