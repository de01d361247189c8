------------------------------- MODULE CdcSync --------------------------------
(* The CDC listener of src/cdc_sync.rs: one polling task that reads a directory *)
(* of event files and clears the cache when it finds a new one. sync is not     *)
(* atomic: it lists the directory, reads the files one at a time, asks the      *)
(* cache whether it is empty under one lock and clears it under another, and    *)
(* queries and writers of event files run between any two of these steps.       *)
EXTENDS CacheLayer

CONSTANTS Events,       \* paths of .json files in iceberg_path
          Preexisting,  \* the event files that are there at startup
          Absent        \* no file at that path

ASSUME EventsAssumption == IsFiniteSet(Events) /\ Preexisting \subseteq Events

VARIABLES directoryUp,  \* iceberg_path is a directory that can be listed
          files,        \* per path, the file there: readable or not, and the
                        \* version of the source data its event announces
          processed,    \* CdcListener.processed
          poller,       \* where the polling task is
          todo,         \* listed paths not looked at yet
          events        \* paths read by this sync

pollerVars == <<processed, poller, todo, events>>
directoryVars == <<directoryUp, files>>
cdcVars == <<directoryVars, pollerVars>>

EventFile == [readable : BOOLEAN, version : Nat]

ASSUME AbsentAssumption == Absent \notin EventFile

CdcInit ==
    /\ directoryUp \in BOOLEAN
    /\ Preexisting # {} => directoryUp
    /\ files = [e \in Events |->
           IF e \in Preexisting THEN [readable |-> TRUE, version |-> 0] ELSE Absent]
    /\ processed = {}
    /\ poller = "ticking"
    /\ todo = {}
    /\ events = {}

-------------------------------------------------------------------------------
(* The writers of the directory (outside the repository). The producer writes   *)
(* an event after the change it announces. A file that appears while the        *)
(* directory is being read may or may not be among its entries.                 *)

CreateDirectory ==
    /\ ~directoryUp
    /\ directoryUp' = TRUE
    /\ UNCHANGED <<files, pollerVars, cacheVars>>

PublishEvent(e, version) ==
    /\ directoryUp
    /\ files[e] = Absent
    /\ \E ok \in BOOLEAN :
          files' = [files EXCEPT ![e] = [readable |-> ok, version |-> version]]
    /\ \/ UNCHANGED todo
       \/ poller = "reading" /\ todo' = todo \cup {e}
    /\ UNCHANGED <<directoryUp, processed, poller, events, cacheVars>>

\* The file is removed, alone or with its directory, or can no longer be read. Nothing
\* is read at that path either way, so one that is gone is known as unreadable.
WithdrawEvent(e) ==
    /\ files[e] # Absent
    /\ files[e].readable
    /\ files' = [files EXCEPT ![e].readable = FALSE]
    /\ UNCHANGED <<directoryUp, pollerVars, cacheVars>>

\* A file that could not be read (permissions, an encoding in progress) can be, or a
\* removed one is put back.
RepairEvent(e) ==
    /\ files[e] # Absent
    /\ ~files[e].readable
    /\ files' = [files EXCEPT ![e].readable = TRUE]
    /\ UNCHANGED <<directoryUp, pollerVars, cacheVars>>

\* The file is overwritten with the event of a later change.
RewriteEvent(e, version) ==
    /\ files[e] # Absent
    /\ files[e].version < version
    /\ files' = [files EXCEPT ![e].version = version]
    /\ UNCHANGED <<directoryUp, pollerVars, cacheVars>>

-------------------------------------------------------------------------------
(* sync *)

\* A poll of a path that is not a directory, or cannot be listed, returns 0 and
\* changes nothing; the next tick tries again.
ListDirectory ==
    /\ poller = "ticking"
    /\ directoryUp
    /\ todo' = {e \in Events : files[e] # Absent} \ processed
    /\ events' = {}
    /\ poller' = "reading"
    /\ UNCHANGED <<directoryVars, processed, cacheVars>>

\* Variants: the path is marked before the file is read; the path is not marked.
ReadEventMarkFirst(e) ==
    /\ poller = "reading"
    /\ e \in todo
    /\ todo' = todo \ {e}
    /\ processed' = processed \cup {e}
    /\ events' = IF files[e].readable THEN events \cup {e} ELSE events
    /\ UNCHANGED <<directoryVars, poller, cacheVars>>

ReadEventUnmarked(e) ==
    /\ poller = "reading"
    /\ e \in todo
    /\ todo' = todo \ {e}
    /\ events' = IF files[e].readable THEN events \cup {e} ELSE events
    /\ UNCHANGED <<directoryVars, poller, processed, cacheVars>>

\* A file that cannot be read is logged, stays unmarked and is tried by the next
\* sync.
ReadEvent(e) ==
    /\ poller = "reading"
    /\ e \in todo
    /\ todo' = todo \ {e}
    /\ \/ /\ files[e].readable
          /\ processed' = processed \cup {e}
          /\ events' = events \cup {e}
       \/ /\ ~files[e].readable
          /\ UNCHANGED <<processed, events>>
    /\ UNCHANGED <<directoryVars, poller, cacheVars>>

NothingNew ==
    /\ poller = "reading"
    /\ todo = {}
    /\ events = {}
    /\ poller' = "ticking"
    /\ UNCHANGED <<directoryVars, processed, todo, events, cacheVars>>

SomethingNew ==
    /\ poller = "reading"
    /\ todo = {}
    /\ events # {}
    /\ poller' = "checking"
    /\ UNCHANGED <<directoryVars, processed, todo, events, cacheVars>>

\* Variant: one entry is taken for none.
FindEmptyOffByOne ==
    /\ poller = "checking"
    /\ Cardinality(DOMAIN store) <= 1
    /\ poller' = "ticking"
    /\ events' = {}
    /\ UNCHANGED <<directoryVars, processed, todo, cacheVars>>

\* `if !cache.is_empty()' (cache.len(), called for the log line, reads only).
FindEmpty ==
    /\ poller = "checking"
    /\ IsEmpty
    /\ poller' = "ticking"
    /\ events' = {}
    /\ UNCHANGED <<directoryVars, processed, todo, cacheVars>>

FindEntries ==
    /\ poller = "checking"
    /\ ~IsEmpty
    /\ poller' = "clearing"
    /\ UNCHANGED <<directoryVars, processed, todo, events, cacheVars>>

\* Variant: only the least-recently-used results are dropped.
InvalidateOldest ==
    /\ poller = "clearing"
    /\ store' = [k \in DOMAIN store \ LruKeys |-> store[k]]
    /\ poller' = "ticking"
    /\ events' = {}
    /\ UNCHANGED <<tick, hits, misses, evictions_lru, evictions_ttl>>
    /\ UNCHANGED <<directoryVars, processed, todo>>

Invalidate ==
    /\ poller = "clearing"
    /\ Clear
    /\ poller' = "ticking"
    /\ events' = {}
    /\ UNCHANGED <<directoryVars, processed, todo>>

\* The step with which a sync that found new events is over.
EndOfSync == FindEmpty \/ Invalidate

ReadStep ==
    \/ ListDirectory
    \/ \E e \in Events : ReadEvent(e)
    \/ NothingNew
    \/ SomethingNew
    \/ FindEntries

CdcTypeOK ==
    /\ directoryUp \in BOOLEAN
    /\ files \in [Events -> EventFile \cup {Absent}]
    /\ processed \subseteq Events
    /\ poller \in {"ticking", "reading", "checking", "clearing"}
    /\ todo \subseteq Events
    /\ events \subseteq Events
===============================================================================
