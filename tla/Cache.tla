------------------------------- MODULE Cache -------------------------------
(***************************************************************************)
(* What the switches rely on in forwarder/include/CacheTable.hpp: a map    *)
(* whose entries know when they were last updated, and refresh(), which at *)
(* one blow removes what is too old.  CacheTable.tla implements it; the    *)
(* ARP and MAC tables of L3SW.tla are two of them.                         *)
(***************************************************************************)
EXTENDS Integers

CONSTANTS Key, Item,
          age_out       \* seconds after which an entry is too old

VARIABLES table,        \* a function from the keys that are there to their entries
          now           \* time(NULL)

Init == table = [k \in {} |-> k] /\ now = 0

(* Only a new entry can become persistent.                                 *)
Update(k, v, persistent) ==
  /\ table' = LET t == table IN [x \in DOMAIN t \cup {k} |->
                 IF x = k THEN [item |-> v, last_ref |-> now,
                                persistent |-> k \notin DOMAIN t /\ persistent]
                          ELSE t[x]]
  /\ UNCHANGED now

(* After the clock was set back, an entry that is ahead of it is too old:  *)
(* ages are unsigned.                                                      *)
TooOld(k) == /\ ~ table[k].persistent
             /\ table[k].last_ref + age_out < now \/ now < table[k].last_ref

Refresh(all) ==
  /\ table' = [k \in {x \in DOMAIN table : ~ all /\ ~ TooOld(x)} |-> table[k]]
  /\ UNCHANGED now

Tick    == now' = now + 1 /\ UNCHANGED table
SetBack == now' \in 0 .. now - 1 /\ UNCHANGED table

Next == \/ \E k \in Key, v \in Item, persistent \in BOOLEAN : Update(k, v, persistent)
        \/ \E all \in BOOLEAN : Refresh(all)
        \/ Tick \/ SetBack

Spec == Init /\ [][Next]_<<table, now>>
=============================================================================
