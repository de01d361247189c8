----------------------------- MODULE RecencyCache -----------------------------
(* What a caller of src/cache_layer.rs may rely on, without ticks and stamps:   *)
(* the cache is a list of results in order of use, oldest use first. A get      *)
(* answers with the last result set for its key if that set's clock reading is  *)
(* at most Ttl before the get's own, and moves it to the end of the list; a set *)
(* puts its result at the end and drops the head of a full list.                *)
EXTENDS Integers, Sequences, SequencesExt

CONSTANTS Threads, Keys, Batches, MaxEntries, Ttl, Miss, Idle

VARIABLES entries,      \* <<[key, batches, inserted_at], ...>>, oldest use first
          clock, call, reply

abstractVars == <<entries, clock, call, reply>>

Init ==
    /\ entries = << >>
    /\ clock = 0
    /\ call = [p \in Threads |-> Idle]
    /\ reply = [p \in Threads |-> Miss]

Places(key) == {i \in 1..Len(entries) : entries[i].key = key}

Expired(e, now) == now - e.inserted_at > Ttl

Others(key) ==
    IF Places(key) = {} THEN entries
    ELSE RemoveAt(entries, CHOOSE i \in Places(key) : TRUE)

Advance ==
    /\ clock' = clock + 1
    /\ UNCHANGED <<entries, call, reply>>

Invoke(p) ==
    /\ call[p] = Idle
    /\ \/ \E key \in Keys :
              call' = [call EXCEPT ![p] = [op |-> "get", key |-> key, now |-> clock]]
       \/ \E key \in Keys, b \in Batches :
              call' = [call EXCEPT
                  ![p] = [op |-> "set", key |-> key, batches |-> b, now |-> clock]]
    /\ UNCHANGED <<entries, clock, reply>>

Answer(p, result) ==
    /\ reply' = [reply EXCEPT ![p] = result]
    /\ call' = [call EXCEPT ![p] = Idle]

Get(p) ==
    /\ call[p] # Idle
    /\ call[p].op = "get"
    /\ LET key == call[p].key
           now == call[p].now
       IN \/ \E i \in Places(key) :
                /\ ~Expired(entries[i], now)
                /\ entries' = Append(Others(key), entries[i])
                /\ Answer(p, entries[i].batches)
          \/ /\ \A i \in Places(key) : Expired(entries[i], now)
             /\ entries' = Others(key)
             /\ Answer(p, Miss)
    /\ UNCHANGED clock

Set(p) ==
    /\ call[p] # Idle
    /\ call[p].op = "set"
    /\ LET c    == call[p]
           rest == Others(c.key)
           kept == IF Len(rest) = MaxEntries THEN Tail(rest) ELSE rest
       IN entries' = Append(kept,
              [key |-> c.key, batches |-> c.batches, inserted_at |-> c.now])
    /\ call' = [call EXCEPT ![p] = Idle]
    /\ UNCHANGED <<clock, reply>>

Clear ==
    /\ entries' = << >>
    /\ UNCHANGED <<clock, call, reply>>

Next == Advance \/ Clear \/ \E p \in Threads : Invoke(p) \/ Get(p) \/ Set(p)

Spec == Init /\ [][Next]_abstractVars
===============================================================================
