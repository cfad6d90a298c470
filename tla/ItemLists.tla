----------------------------- MODULE ItemLists -----------------------------
(* What Array.tla promises: sequences, each of its own.                    *)
EXTENDS SequencesExt

CONSTANTS ArrayName, Element
VARIABLE list

Init == list = [x \in ArrayName |-> <<>>]

Next ==
  \E x \in ArrayName :
    \/ \E v \in Element : list' = [list EXCEPT ![x] = Append(@, v)]
    \/ \E k \in DOMAIN list[x], v \in Element : list' = [list EXCEPT ![x][k] = v]
    \/ \E k \in DOMAIN list[x] : list' = [list EXCEPT ![x] = RemoveAt(@, k)]
    \/ list' = [list EXCEPT ![x] = <<>>]
    \/ \E y \in ArrayName : list' = [list EXCEPT ![x] = list[y]]

Spec == Init /\ [][Next]_list
=============================================================================
