------------------------------ MODULE CryptoDemo -------------------------------
(* `igloo crypto-demo' (src/crypto_metrics.rs): a run writes the sample data if  *)
(* its directory has no .parquet file, then evaluates the metrics one after the  *)
(* other, reading the file for each. Several runs may share the directory. The   *)
(* file is a sequence of pieces, each written at its own place; what a run       *)
(* writes is the same in every run. A run may be killed, or its write may fail,  *)
(* with the file half written.                                                   *)
EXTENDS Integers, Sequences, FiniteSets

CONSTANTS Runs,             \* runs of the demo
          Pieces, Metrics   \* pieces of the file, queries of the suite

ASSUME CryptoBounds == Pieces \in Nat \ {0} /\ Metrics \in Nat

VARIABLES sample,       \* pieces present in sample_ohlcv.parquet, by place
          exists,       \* whether the file exists
          step,         \* per run: "idle", "create", "write", "query", "done",
                        \* "failed" or "killed"
          place,        \* per run, pieces written or queries answered
          interrupted   \* some write was cut off, at whatever time

cryptoVars == <<sample, exists, step, place, interrupted>>

\* Variant: the noise is seeded by the run.
SeededPiece(r, k) == <<r, k>>

\* The k-th piece of the deterministic series.
Piece(r, k) == <<"sample", k>>

\* The file is one complete series.
Whole ==
    /\ DOMAIN sample = 1..Pieces
    /\ \A j, k \in 1..Pieces : sample[j][1] = sample[k][1]

CryptoInit ==
    /\ sample = << >>
    /\ exists = FALSE
    /\ step = [r \in Runs |-> "idle"]
    /\ place = [r \in Runs |-> 0]
    /\ interrupted = FALSE

Enter(r, s) ==
    /\ step' = [step EXCEPT ![r] = s]
    /\ place' = [place EXCEPT ![r] = 0]

\* The directory is listed: has_parquet.
Look(r) ==
    /\ step[r] = "idle"
    /\ Enter(r, IF exists THEN "query" ELSE "create")
    /\ UNCHANGED <<sample, exists, interrupted>>

\* create_dir_all and File::create, which empties a file that is there by now.
Create(r) ==
    /\ step[r] = "create"
    /\ sample' = << >>
    /\ exists' = TRUE
    /\ Enter(r, "write")
    /\ UNCHANGED interrupted

\* The next piece goes to its place, wherever the end of the file is.
Put(s, k, x) == [j \in DOMAIN s \cup {k} |-> IF j = k THEN x ELSE s[j]]

WritePiece(r) ==
    /\ step[r] = "write"
    /\ place[r] < Pieces
    /\ sample' = Put(sample, place[r] + 1, Piece(r, place[r] + 1))
    /\ place' = [place EXCEPT ![r] = @ + 1]
    /\ UNCHANGED <<exists, step, interrupted>>

\* Variant: the writer is dropped without writing the end of the file.
CloseEarly(r) ==
    /\ step[r] = "write"
    /\ place[r] = Pieces - 1
    /\ Enter(r, "query")
    /\ UNCHANGED <<sample, exists, interrupted>>

\* The writer is closed and the table registered.
Close(r) ==
    /\ step[r] = "write"
    /\ place[r] = Pieces
    /\ Enter(r, "query")
    /\ UNCHANGED <<sample, exists, interrupted>>

\* The directory cannot be made, the file not be created, or a write fails.
WriteFails(r) ==
    /\ step[r] \in {"create", "write"}
    /\ Enter(r, "failed")
    /\ interrupted' = (interrupted \/ step[r] = "write")
    /\ UNCHANGED <<sample, exists>>

\* The process is killed.
Kill(r) ==
    /\ step[r] \in {"create", "write", "query"}
    /\ Enter(r, "killed")
    /\ interrupted' = (interrupted \/ step[r] = "write")
    /\ UNCHANGED <<sample, exists>>

\* One query of metrics_suite. A file without a single piece may count as no rows.
Query(r) ==
    /\ step[r] = "query"
    /\ place[r] < Metrics
    /\ \/ /\ Whole \/ DOMAIN sample = {}
          /\ place' = [place EXCEPT ![r] = @ + 1]
          /\ UNCHANGED step
       \/ /\ ~Whole
          /\ Enter(r, "failed")
    /\ UNCHANGED <<sample, exists, interrupted>>

Complete(r) ==
    /\ step[r] = "query"
    /\ place[r] = Metrics
    /\ Enter(r, "done")
    /\ UNCHANGED <<sample, exists, interrupted>>

\* The demo is run again.
Again(r) ==
    /\ step[r] \in {"done", "failed", "killed"}
    /\ Enter(r, "idle")
    /\ UNCHANGED <<sample, exists, interrupted>>

CryptoStep(r) ==
    \/ Look(r) \/ Create(r) \/ WritePiece(r) \/ Close(r) \/ WriteFails(r)
    \/ Kill(r) \/ Query(r) \/ Complete(r) \/ Again(r)

-------------------------------------------------------------------------------
(* Properties *)

Writing(r) == step[r] \in {"create", "write"}

CryptoTypeOK ==
    /\ exists \in BOOLEAN /\ interrupted \in BOOLEAN
    /\ DOMAIN sample \subseteq 1..Pieces
    /\ step \in [Runs -> {"idle", "create", "write", "query", "done", "failed", "killed"}]
    /\ place \in [Runs -> Nat]

\* The data that a run leaves behind is whole once every run has stopped writing,
\* also when several runs found the directory empty and wrote the file at the same
\* time, and unless one was cut off while writing (write_sample_ohlcv).
SampleWhole ==
    exists /\ ~interrupted /\ (\A r \in Runs : ~Writing(r)) => Whole

\* A run whose queries fail met a file that somebody was still writing, or had been
\* kept from writing to the end (run_crypto_demo looks for a .parquet file and not at
\* what is in it): in an undisturbed directory the demo fails on no data of its own.
FailureExplained ==
    [][\A r \in Runs :
          step[r] = "query" /\ step'[r] = "failed" =>
              interrupted \/ \E o \in Runs : Writing(o)]_cryptoVars
===============================================================================
