------------------------------- MODULE Array -------------------------------
(***************************************************************************)
(* forwarder/include/Array.hpp: arrays kept as singly linked lists, which  *)
(* HashMap hands its keys over in.  Several arrays share one heap.         *)
(***************************************************************************)
EXTENDS Integers, Sequences

CONSTANTS ArrayName, Element,
          Node,    \* bound: the cells of the heap
          NULL

ASSUME ArrayAssumption == NULL \notin Node

VARIABLES heap,    \* the nodes in use
          root, size

avars == <<heap, root, size>>

ArrayInit ==
  /\ heap = [n \in {} |-> NULL]
  /\ root = [x \in ArrayName |-> NULL]
  /\ size = [x \in ArrayName |-> 0]

-----------------------------------------------------------------------------
Free == Node \ DOMAIN heap

(* The node reached by index steps from node first.                        *)
Reached(h, first, index) ==
  LET reached[k \in 0 .. index] == IF k = 0 THEN first ELSE h[reached[k - 1]].next
  IN  reached[index]

Walk(x, index) == Reached(heap, root[x], index)

getArrayItem(x, index) == IF index < size[x] THEN Walk(x, index) ELSE NULL

Nodes(x) == {Walk(x, k) : k \in 0 .. size[x] - 1}

Linked(h, node, to) == IF node = NULL THEN h ELSE [h EXCEPT ![node].next = to]
With(h, node, v)    == [n \in DOMAIN h \cup {node} |->
                          IF n = node THEN [item |-> v, next |-> NULL] ELSE h[n]]
Without(h, nodes)   == [n \in DOMAIN h \ nodes |-> h[n]]

(* mutant: the new node becomes the first *)
addFirst(x, v) ==
  \E node \in Free :
    /\ heap' = Linked(With(heap, node, v), node, root[x])
    /\ root' = [root EXCEPT ![x] = node]
    /\ size' = [size EXCEPT ![x] = @ + 1]

add(x, v) ==
  \E node \in Free :
    /\ heap' = With(Linked(heap, IF root[x] = NULL THEN NULL ELSE Walk(x, size[x] - 1), node), node, v)
    /\ root' = [root EXCEPT ![x] = IF @ = NULL THEN node ELSE @]
    /\ size' = [size EXCEPT ![x] = @ + 1]

(* An index that is too large makes set() and del() throw.                 *)
SetItem(x, index, v) ==
  /\ getArrayItem(x, index) # NULL
  /\ heap' = [heap EXCEPT ![getArrayItem(x, index)].item = v]
  /\ UNCHANGED <<root, size>>

del(x, index) ==
  /\ index < size[x]
  /\ IF index = 0
     THEN /\ root' = [root EXCEPT ![x] = heap[@].next]
          /\ heap' = Without(heap, {root[x]})
     ELSE LET prev   == getArrayItem(x, index - 1)
              target == getArrayItem(x, index)
          IN  /\ heap' = Without(Linked(heap, prev, heap[target].next), {target})
              /\ UNCHANGED root
  /\ size' = [size EXCEPT ![x] = @ - 1]

(* Every node is deleted from the front.                                   *)
clear(x) ==
  /\ heap' = Without(heap, Nodes(x))
  /\ root' = [root EXCEPT ![x] = IF size[x] = 0 THEN @ ELSE Walk(x, size[x])]
  /\ size' = [size EXCEPT ![x] = 0]

(* mutant: the copy shares the nodes *)
_copy_fromShared(x, y) ==
  /\ heap' = Without(heap, Nodes(x))
  /\ root' = [root EXCEPT ![x] = root[y]]
  /\ size' = [size EXCEPT ![x] = size[y]]

(* clear(), then add() of one item after the other, to new nodes.          *)
_copy_from(x, y) ==
  LET kept == Without(heap, Nodes(x))
      n    == size[y]
  IN  \E new \in [1 .. n -> Node \ DOMAIN kept] :
        /\ \A j, k \in 1 .. n : j # k => new[j] # new[k]
        /\ heap' = [c \in DOMAIN kept \cup {new[k] : k \in 1 .. n} |->
                      IF c \in DOMAIN kept THEN kept[c]
                      ELSE LET k == CHOOSE j \in 1 .. n : new[j] = c
                           IN  [item |-> heap[getArrayItem(y, k - 1)].item,
                                next |-> IF k = n THEN NULL ELSE new[k + 1]]]
        /\ root' = [root EXCEPT ![x] = IF n = 0 THEN NULL ELSE new[1]]
        /\ size' = [size EXCEPT ![x] = n]

ArrayNext ==
  \E x \in ArrayName :
    \/ \E v \in Element : add(x, v)
    \/ \E index \in 0 .. size[x] : del(x, index) \/ \E v \in Element : SetItem(x, index, v)
    \/ clear(x)
    \/ \E y \in ArrayName \ {x} : _copy_from(x, y)

ArraySpec == ArrayInit /\ [][ArrayNext]_avars

-----------------------------------------------------------------------------
(* Properties *)

(* Each array ends where its size says, no two share a node, and no node   *)
(* is left that no array reaches: a copy is deep, clear() frees it all.    *)
NodesOwned ==
  /\ \A x \in ArrayName : Walk(x, size[x]) = NULL
  /\ \A x, y \in ArrayName : x # y => Nodes(x) \cap Nodes(y) = {}
  /\ DOMAIN heap = UNION {Nodes(x) : x \in ArrayName}

(* What get() returns of an array, in order: a sequence for each array.    *)
Contents(x) == [k \in 1 .. size[x] |-> heap[getArrayItem(x, k - 1)].item]

Lists == INSTANCE ItemLists WITH list <- [x \in ArrayName |-> Contents(x)]

(* The arrays behave as sequences: what get() returns is what was added,   *)
(* set or copied, in order, whatever is done to the others.                *)
ImplementsLists == Lists!Spec
=============================================================================
