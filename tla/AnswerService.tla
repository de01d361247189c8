---------------------------- MODULE AnswerService -----------------------------
(* What the clients of `igloo serve' may rely on, without cache, clock, event    *)
(* files or polling: a request is answered with what the engine reads for it, or *)
(* with a shared answer to the same statement; an invalidation announces changes *)
(* and takes all shared answers away at once. Only a query that was in flight    *)
(* over it can share an answer that is older.                                    *)
EXTENDS Integers

CONSTANTS Clients, Requests, ReadOnly, NoParams, NoRequest, Nothing

VARIABLES version,      \* of the data the engine reads
          announced,    \* newest version announced by an invalidation
          syncs,        \* invalidations
          request,      \* per client, the request it waits for
          answer,       \* per client, what was read for it
          shared        \* answers that may be given to any client

serviceVars == <<version, announced, syncs, request, answer, shared>>

Init ==
    /\ version = 0
    /\ announced = 0
    /\ syncs = 0
    /\ request = [c \in Clients |-> NoRequest]
    /\ answer = [c \in Clients |-> Nothing]
    /\ shared = {}

Shareable(r) == r.key \in ReadOnly /\ r.binding = NoParams

Waiting(c) == request[c] # NoRequest /\ answer[c] = Nothing

Dismiss(c) ==
    /\ request' = [request EXCEPT ![c] = NoRequest]
    /\ answer' = [answer EXCEPT ![c] = Nothing]

Change ==
    /\ version' = version + 1
    /\ UNCHANGED <<announced, syncs, request, answer, shared>>

Invalidate ==
    /\ announced' \in announced..version
    /\ syncs' = syncs + 1
    /\ shared' = {}
    /\ UNCHANGED <<version, request, answer>>

\* Shared answers may be lost at any time.
Forget ==
    /\ shared' \subseteq shared
    /\ UNCHANGED <<version, announced, syncs, request, answer>>

Ask(c) ==
    /\ request[c] = NoRequest
    /\ \E r \in Requests : request' = [request EXCEPT ![c] = r]
    /\ UNCHANGED <<version, announced, syncs, answer, shared>>

AnswerShared(c) ==
    /\ Waiting(c)
    /\ \E a \in shared : a.key = request[c].key /\ a.binding = request[c].binding
    /\ Dismiss(c)
    /\ UNCHANGED <<version, announced, syncs, shared>>

\* Only what is not a query changes data.
Read(c) ==
    /\ Waiting(c)
    /\ answer' = [answer EXCEPT ![c] =
           [key |-> request[c].key, binding |-> request[c].binding,
            version |-> version, readAt |-> syncs]]
    /\ \/ version' = version
       \/ request[c].key \notin ReadOnly /\ version' = version + 1
    /\ UNCHANGED <<announced, syncs, request, shared>>

Deliver(c) ==
    /\ answer[c] # Nothing
    /\ shared' \subseteq shared \cup (IF Shareable(request[c]) THEN {answer[c]} ELSE {})
    /\ Dismiss(c)
    /\ UNCHANGED <<version, announced, syncs>>

Refuse(c) ==
    /\ Waiting(c)
    /\ Dismiss(c)
    /\ UNCHANGED <<version, announced, syncs, shared>>

Next ==
    \/ Change \/ Invalidate \/ Forget
    \/ \E c \in Clients :
          Ask(c) \/ AnswerShared(c) \/ Read(c) \/ Deliver(c) \/ Refuse(c)

Spec == Init /\ [][Next]_serviceVars
===============================================================================
