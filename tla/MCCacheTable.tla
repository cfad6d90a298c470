--------------------------- MODULE MCCacheTable ----------------------------
(* CacheTable.tla with three keys in one bucket and a clock of two seconds *)
(* that may be set back.                                                   *)
EXTENDS CacheTable

OneBucket == [k \in Key |-> 0]
=============================================================================
