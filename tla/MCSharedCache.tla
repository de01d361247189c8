----------------------------- MODULE MCSharedCache -----------------------------
(* Two threads, three keys and a capacity of two: every set of the third key    *)
(* evicts, and a get and a set can wait for the lock with clock readings in     *)
(* either order.                                                                *)
EXTENDS SharedCache, TLC

Symmetry == Permutations(Threads) \cup Permutations(Keys) \cup Permutations(Batches)
===============================================================================
