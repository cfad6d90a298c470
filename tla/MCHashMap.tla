----------------------------- MODULE MCHashMap -----------------------------
(* HashMap.tla with a few keys, whose hashes put them all in one bucket.   *)
EXTENDS HashMap, TLC

CONSTANTS k1, k2, k3, k4

OneBucket == [k \in Key |-> 0]

(* In one bucket no key differs from another, and no cell from another.    *)
Interchangeable == Permutations(Key) \cup Permutations(Addr)
=============================================================================
