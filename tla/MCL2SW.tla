------------------------------- MODULE MCL2SW -------------------------------
(* L2SW.tla with a few stations whose addresses collide, and two ports.    *)
EXTENDS L2SW, TLC

CONSTANTS m1, m2, m3, p1, p2

OneBucket == [k \in Mac \cup {Zero} |-> 0]
Pairs     == m1 :> 0 @@ m2 :> 2 @@ m3 :> 1 @@ Zero :> 0

(* The index of p2 does not fit in the two bits that are kept of it.       *)
Indexes == p1 :> 2 @@ p2 :> 7

(* In one bucket no station differs from another, and no cell from another. *)
Interchangeable == Permutations(Mac) \cup Permutations(Heap)
=============================================================================
