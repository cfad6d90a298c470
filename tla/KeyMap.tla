------------------------------- MODULE KeyMap -------------------------------
(***************************************************************************)
(* What the users of forwarder/include/HashMap.hpp rely on: a partial map  *)
(* from keys to values, and the answer the last call gave.  HashMap.tla is *)
(* the implementation with its buckets, chains and back pointers.          *)
(***************************************************************************)
EXTENDS FiniteSets, Naturals

CONSTANTS Key,        \* the keys the callers use
          Value       \* the values they store

VARIABLES store,      \* the map: a function whose domain is the set of keys present
          answer      \* <<call, result>> of the last call that returned

mvars == <<store, answer>>

With(m, k, v)  == [x \in DOMAIN m \cup {k} |-> IF x = k THEN v ELSE m[x]]
Without(m, k)  == [x \in DOMAIN m \ {k} |-> m[x]]
EmptyMap       == [x \in {} |-> x]

Init == store = EmptyMap /\ answer = <<"none">>

Update(k, v) == /\ store' = With(store, k, v)
                /\ answer' = <<"update">>

Get(k) == /\ answer' = IF k \in DOMAIN store THEN <<"get", store[k]>>
                                             ELSE <<"OutOfRange">>
          /\ UNCHANGED store

IsExist(k) == answer' = <<"isExist", k \in DOMAIN store>> /\ UNCHANGED store

GetSize == answer' = <<"getSize", Cardinality(DOMAIN store)>> /\ UNCHANGED store

Del(k) == /\ store' = Without(store, k)
          /\ answer' = <<"del", k \in DOMAIN store>>

Clear == store' = EmptyMap /\ answer' = <<"clear">>

Next == \/ \E k \in Key : \/ \E v \in Value : Update(k, v)
                          \/ Get(k) \/ IsExist(k) \/ Del(k)
        \/ GetSize
        \/ Clear

Spec == Init /\ [][Next]_mvars
=============================================================================
