------------------------------- MODULE HashMap ------------------------------
(***************************************************************************)
(* forwarder/include/HashMap.hpp: a table of Size buckets, each the head   *)
(* of a doubly linked chain.  The head of a chain is stored in the table   *)
(* itself, the other nodes come from `new` and go back with `delete`.      *)
(*                                                                         *)
(* chain[b] is bucket b as the next pointers give it: the head first, and  *)
(* <<>> when the head is marked empty.  A node carries its own address and *)
(* the prev pointer the code stored in it, which need not be the address   *)
(* of the node before it.                                                  *)
(***************************************************************************)
EXTENDS Naturals, FiniteSets, SequencesExt

CONSTANTS Key, Value,
          Size,       \* number of buckets (`size`)
          HashOf,     \* getHash() of each key
          Addr,       \* the addresses `new HashMapItem` can return
          HeadAddr,   \* the address of a bucket's head (never freed)
          Null        \* nullptr

ASSUME KeyAssumption  == IsFiniteSet(Key)
ASSUME SizeAssumption == Size \in Nat \ {0}
ASSUME HashAssumption == HashOf \in [Key -> Nat]
ASSUME AddrAssumption == HeadAddr \notin Addr /\ Null \notin Addr \cup {HeadAddr}

VARIABLES chain,      \* [Bucket -> Seq(Node)]
          todo,       \* [Bucket -> Seq(Key)]: the keys clear() has still to delete
          clearing,   \* clear() is in its loop
          corrupt,    \* del wrote through a prev that is not the node before
          answer      \* result of the last call, as in KeyMap

vars == <<chain, todo, clearing, corrupt, answer>>

Bucket  == 0 .. Size - 1
hash(k) == HashOf[k] % Size

Node == [key : Key, obj : Value, at : Addr \cup {HeadAddr}, prev : Addr \cup {HeadAddr, Null}]

(* The heap cells in use.  `new` may return any other, a freed one too.    *)
Used == {n.at : n \in UNION {Range(chain[b]) : b \in Bucket}}

-----------------------------------------------------------------------------
(* Reading *)

IsAt(k, i) == i \in DOMAIN chain[hash(k)] /\ chain[hash(k)][i].key = k

(* mutant: the walk stops before the last node *)
isExistButLast(k) == \E i \in DOMAIN chain[hash(k)] : IsAt(k, i) /\ i < Len(chain[hash(k)])

isExist(k) == \E i \in DOMAIN chain[hash(k)] : IsAt(k, i)

(* _getItem: the first node of the bucket that has the key.                *)
Pos(k) == CHOOSE i \in DOMAIN chain[hash(k)] :
             IsAt(k, i) /\ \A j \in 1 .. i - 1 : ~ IsAt(k, j)

(* mutants: a slot too many, the chain backwards *)
getKeysAndOne(b)   == Append([i \in DOMAIN chain[b] |-> chain[b][i].key], Null)
getKeysReversed(b) == Reverse([i \in DOMAIN chain[b] |-> chain[b][i].key])

getKeys(b) == [i \in DOMAIN chain[b] |-> chain[b][i].key]
Present    == {k \in Key : isExist(k)}
Places     == UNION {{<<b, i>> : i \in DOMAIN chain[b]} : b \in Bucket}
getSize    == Cardinality(Places)

-----------------------------------------------------------------------------
(* update: overwrite in place, or add at the end of the chain *)

Overwrite(k, v) ==
  /\ isExist(k)
  /\ chain' = [chain EXCEPT ![hash(k)][Pos(k)].obj = v]

FillHead(k, v) ==
  /\ chain[hash(k)] = <<>>
  /\ chain' = [chain EXCEPT ![hash(k)] = << [key |-> k, obj |-> v, at |-> HeadAddr, prev |-> Null] >>]

AddLast(k, v) ==
  /\ ~ isExist(k)
  /\ chain[hash(k)] # <<>>
  /\ \E a \in Addr \ Used :
       chain' = [chain EXCEPT ![hash(k)] =
                   Append(@, [key |-> k, obj |-> v, at |-> a, prev |-> Last(@).at])]

Store(k, v) == Overwrite(k, v) \/ FillHead(k, v) \/ AddLast(k, v)

-----------------------------------------------------------------------------
(* del, case by case; s is the chain and i the position of the key in it *)

(* The head is the only node: init() marks it empty.                       *)
DropOnly(b, i) ==
  /\ chain[b][i].prev = Null
  /\ i = Len(chain[b])
  /\ chain' = [chain EXCEPT ![b] = <<>>]
  /\ UNCHANGED corrupt

(* mutants: the key is copied and not the value; the head is taken out like *)
(* any other node                                                          *)
DropHeadKeyOnly(b, i) ==
  /\ chain[b][i].prev = Null
  /\ i < Len(chain[b])
  /\ chain' = [chain EXCEPT ![b] = RemoveAt([@ EXCEPT ![i].key = chain[b][i + 1].key], i + 1)]
  /\ UNCHANGED corrupt

DropHeadOut(b, i) ==
  /\ chain[b][i].prev = Null
  /\ i < Len(chain[b])
  /\ chain' = [chain EXCEPT ![b] = RemoveAt([@ EXCEPT ![i + 1].prev = Null], i)]
  /\ UNCHANGED corrupt

(* The head takes over its successor's contents and the successor is       *)
(* freed.  The node after that one keeps its prev.                         *)
DropHead(b, i) ==
  /\ chain[b][i].prev = Null
  /\ i < Len(chain[b])
  /\ chain' = [chain EXCEPT ![b] =
                 RemoveAt([@ EXCEPT ![i].key = chain[b][i + 1].key,
                                    ![i].obj = chain[b][i + 1].obj], i + 1)]
  /\ UNCHANGED corrupt

(* prev->setNext(nullptr), delete.                                         *)
DropLast(b, i) ==
  /\ chain[b][i].prev = chain[b][i - 1].at
  /\ i = Len(chain[b])
  /\ chain' = [chain EXCEPT ![b] = RemoveAt(@, i)]
  /\ UNCHANGED corrupt

(* mutant: next->setPrev(prev) forgotten *)
DropMiddleHalf(b, i) ==
  /\ chain[b][i].prev = chain[b][i - 1].at
  /\ i < Len(chain[b])
  /\ chain' = [chain EXCEPT ![b] = RemoveAt(@, i)]
  /\ UNCHANGED corrupt

(* prev->setNext(next), next->setPrev(prev), delete.                       *)
DropMiddle(b, i) ==
  /\ chain[b][i].prev = chain[b][i - 1].at
  /\ i < Len(chain[b])
  /\ chain' = [chain EXCEPT ![b] = RemoveAt([@ EXCEPT ![i + 1].prev = chain[b][i].prev], i)]
  /\ UNCHANGED corrupt

(* The same two cases when prev is some other address: the next pointer is *)
(* written into a cell that is free or belongs to another node, and the    *)
(* node is deleted while the one before still leads to it.  Whatever the   *)
(* program does after that is undefined, so no action follows.             *)
DropAstray(b, i) ==
  /\ chain[b][i].prev # chain[b][i - 1].at
  /\ corrupt' = TRUE
  /\ UNCHANGED chain

Drop(b, i) == \/ DropOnly(b, i) \/ DropHead(b, i)
              \/ /\ chain[b][i].prev # Null
                 /\ DropLast(b, i) \/ DropMiddle(b, i) \/ DropAstray(b, i)

Unlink(k) == IF isExist(k) THEN Drop(hash(k), Pos(k)) ELSE UNCHANGED <<chain, corrupt>>

-----------------------------------------------------------------------------
(* The calls.  The users of a map are single-threaded: while clear() is in *)
(* its loop no other call is made.                                         *)

Ready == ~ corrupt /\ ~ clearing

Init == /\ chain = [b \in Bucket |-> <<>>]
        /\ todo = [b \in Bucket |-> <<>>]
        /\ clearing = FALSE /\ corrupt = FALSE
        /\ answer = <<"none">>

Update(k, v) == /\ Ready
                /\ Store(k, v)
                /\ answer' = <<"update">>
                /\ UNCHANGED <<todo, clearing, corrupt>>

Get(k) == /\ Ready
          /\ answer' = IF isExist(k) THEN <<"get", chain[hash(k)][Pos(k)].obj>>
                                     ELSE <<"OutOfRange">>
          /\ UNCHANGED <<chain, todo, clearing, corrupt>>

IsExist(k) == /\ Ready
              /\ answer' = <<"isExist", isExist(k)>>
              /\ UNCHANGED <<chain, todo, clearing, corrupt>>

GetSize == /\ Ready
           /\ answer' = <<"getSize", getSize>>
           /\ UNCHANGED <<chain, todo, clearing, corrupt>>

Del(k) == /\ Ready
          /\ Unlink(k)
          /\ answer' = <<"del", isExist(k)>>
          /\ UNCHANGED <<todo, clearing>>

(* clear(): take all the keys, then del them one by one.  ~HashMap and the *)
(* Route destructor's map go the same way.                                 *)
Clear == /\ Ready
         /\ clearing' = TRUE
         /\ todo' = [b \in Bucket |-> getKeys(b)]
         /\ answer' = <<"clear">>
         /\ UNCHANGED <<chain, corrupt>>

(* getKeys lists bucket 0 first, and a bucket from its head on.            *)
ClearDel(b) == /\ clearing /\ ~ corrupt
               /\ todo[b] # <<>>
               /\ \A c \in 0 .. b - 1 : todo[c] = <<>>
               /\ Unlink(Head(todo[b]))
               /\ todo' = [todo EXCEPT ![b] = Tail(@)]
               /\ UNCHANGED <<clearing, answer>>

ClearEnd == /\ clearing /\ ~ corrupt
            /\ \A b \in Bucket : todo[b] = <<>>
            /\ clearing' = FALSE
            /\ UNCHANGED <<chain, todo, corrupt, answer>>

Next == \/ \E k \in Key : \/ \E v \in Value : Update(k, v)
                          \/ Get(k) \/ IsExist(k) \/ Del(k)
        \/ GetSize
        \/ Clear \/ ClearEnd
        \/ \E b \in Bucket : ClearDel(b)

(* The loop of clear() runs on once it is entered.                         *)
Fairness == WF_vars(ClearEnd \/ \E b \in Bucket : ClearDel(b))

Spec == Init /\ [][Next]_vars /\ Fairness

-----------------------------------------------------------------------------
(* Properties *)

(* Every variable keeps the shape the class gives it.                      *)
TypeOK == /\ chain \in [Bucket -> Seq(Node)]
          /\ todo \in [Bucket -> Seq(Key)]
          /\ clearing \in BOOLEAN
          /\ corrupt \in BOOLEAN

(* A key sits in the bucket it hashes to and only once there, so that      *)
(* _getItem, which stops at the first match, cannot miss a newer copy.     *)
KeysPlaced ==
  \A b \in Bucket : \A i, j \in DOMAIN chain[b] :
     /\ hash(chain[b][i].key) = b
     /\ chain[b][i].key = chain[b][j].key => i = j

(* The first node of a chain is the one in the table, the others are live  *)
(* heap cells of their own, also when `new` reuses what del freed.         *)
CellsOwned ==
  \A b, c \in Bucket : \A i \in DOMAIN chain[b], j \in DOMAIN chain[c] :
     /\ i = 1 <=> chain[b][i].at = HeadAddr
     /\ i # 1 /\ chain[b][i].at = chain[c][j].at => b = c /\ i = j

(* Deleting the head leaves the prev of one node wrong (HashMap.hpp:261),  *)
(* and however calls follow each other that is always the second node of   *)
(* its chain: all the others point at the node before them.                *)
BackLinks ==
  \A b \in Bucket : \A i \in DOMAIN chain[b] :
     /\ i = 1 <=> chain[b][i].prev = Null
     /\ i > 2 => chain[b][i].prev = chain[b][i - 1].at

Linked == KeysPlaced /\ CellsOwned /\ BackLinks

(* At most two of the keys in use share a bucket.                          *)
AtMostTwo == \A p, q, r \in Key :
                hash(p) = hash(q) /\ hash(q) = hash(r) => p = q \/ q = r \/ p = r

(* del writes only through a prev that is the node before.  Holds when     *)
(* AtMostTwo does, as in the map from route types to next hops             *)
(* (RouteTable.cpp:5), and not in general.                                 *)
NeverCorrupt == ~ corrupt

(* clear(), and with it the destructor, meets no wrong prev whatever calls *)
(* were made before: it always deletes the head of a chain.                *)
ClearSafe == clearing => ~ corrupt

(* The test of del (ci/src/hashmap_test.cpp:45-55): a deleted key is gone  *)
(* and the others stay, for the first, a middle and the last node alike.   *)
DelRemoves ==
  [][\A k \in Key : Del(k) => Present' = Present \ {k}]_vars

(* The map its users see.  While clear() is in its loop nobody can look,   *)
(* and it counts as empty from its first step on.                          *)
Contents == IF clearing THEN [k \in {} |-> k]
                        ELSE [k \in Present |-> chain[hash(k)][Pos(k)].obj]

Map == INSTANCE KeyMap WITH store <- Contents

(* Every call does to the map what KeyMap says and returns what it says,   *)
(* up to the first write through a wrong prev.                             *)
ImplementsMap == Map!Init /\ [][Map!Next \/ corrupt']_<<Contents, answer>>
=============================================================================
