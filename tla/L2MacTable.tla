----------------------------- MODULE L2MacTable -----------------------------
(***************************************************************************)
(* L2SW/src/mac_table.c: the address table of the C switch.  Every bucket  *)
(* has an entry in the table itself, which counts as empty when its        *)
(* address is 0, and a doubly linked chain of malloc'ed entries behind it. *)
(*                                                                         *)
(* A bucket is the sequence of its entries by their next pointers, never   *)
(* empty.  As in HashMap.tla an entry carries its address and the prev the *)
(* code stored in it.  The operators take a bucket s, or a table t.        *)
(***************************************************************************)
EXTENDS Naturals, FiniteSets, SequencesExt

CONSTANTS Mac,          \* the addresses of the stations
          Zero,         \* 00:00:00:00:00:00, which marks an empty entry
          HASH_SIZE,
          HashOf,       \* the address as a number
          Heap,         \* the addresses malloc can return
          HeadAddr,     \* the address of the entry in the table
          Null,
          MAC_TABLE_AGING_TIME,
          MaxTime,      \* bound: the clock stops there
          UInt8,        \* number of values of a uint8_t, for interface indexes
          UInt64        \* number of values of a uint64_t; any well above MaxTime

ASSUME TableAssumption ==
  /\ IsFiniteSet(Mac) /\ Zero \notin Mac
  /\ HASH_SIZE \in Nat \ {0}
  /\ HashOf \in [Mac \cup {Zero} -> Nat]
  /\ HeadAddr \notin Heap /\ Null \notin Heap \cup {HeadAddr}
ASSUME TimeAssumption ==
  /\ MAC_TABLE_AGING_TIME \in Nat /\ MaxTime \in Nat
  /\ UInt8 \in Nat \ {0}
  /\ UInt64 \in Nat /\ UInt64 > MaxTime + MAC_TABLE_AGING_TIME

Bucket   == 0 .. HASH_SIZE - 1
hash8(k) == HashOf[k] % HASH_SIZE

Entry == [mac_addr : Mac \cup {Zero}, netif_index : 0 .. UInt8 - 1, last_time : 0 .. MaxTime,
          at : Heap \cup {HeadAddr}, prev : Heap \cup {HeadAddr, Null}]

EmptyEntry == [mac_addr |-> Zero, netif_index |-> 0, last_time |-> 0, at |-> HeadAddr, prev |-> Null]

init_mac_table == [b \in Bucket |-> <<EmptyEntry>>]

Allocated(t) == {e.at : e \in UNION {Range(t[b]) : b \in Bucket}}

-----------------------------------------------------------------------------
Places(s, k) == {i \in DOMAIN s : s[i].mac_addr = k}
Place(s, k)  == CHOOSE i \in Places(s, k) : \A j \in Places(s, k) : i <= j

(* update_mac_table: the head if it is empty or has the address, another   *)
(* entry that has it, or a new one at the end.  The interface index was    *)
(* cut to eight bits when it was passed.                                   *)
Renewed(e, k, index, time) ==
  [e EXCEPT !.mac_addr = k, !.netif_index = index % UInt8, !.last_time = time]

(* mutant: an address that is known keeps its age *)
UpdatedNotAge(s, k, index, time, free) ==
  IF s[1].mac_addr # Zero /\ Places(s, k) # {}
  THEN {[s EXCEPT ![Place(s, k)].netif_index = index % UInt8]}
  ELSE IF s[1].mac_addr = Zero
  THEN {[s EXCEPT ![1] = Renewed(@, k, index, time)]}
  ELSE {Append(s, Renewed([EmptyEntry EXCEPT !.at = a, !.prev = Last(s).at], k, index, time)) : a \in free}

(* mutant: a new entry points back at itself *)
UpdatedPrevSelf(s, k, index, time, free) ==
  IF s[1].mac_addr = Zero
  THEN {[s EXCEPT ![1] = Renewed(@, k, index, time)]}
  ELSE IF Places(s, k) # {}
  THEN {[s EXCEPT ![Place(s, k)] = Renewed(@, k, index, time)]}
  ELSE {Append(s, Renewed([EmptyEntry EXCEPT !.at = a, !.prev = a], k, index, time)) : a \in free}

(* mutant: an address that is known keeps its interface *)
UpdatedAgeOnly(s, k, index, time, free) ==
  IF s[1].mac_addr = Zero
  THEN {[s EXCEPT ![1] = Renewed(@, k, index, time)]}
  ELSE IF Places(s, k) # {}
  THEN {[s EXCEPT ![Place(s, k)].last_time = time]}
  ELSE {Append(s, Renewed([EmptyEntry EXCEPT !.at = a, !.prev = Last(s).at], k, index, time)) : a \in free}

Updated(s, k, index, time, free) ==
  IF s[1].mac_addr = Zero
  THEN {[s EXCEPT ![1] = Renewed(@, k, index, time)]}
  ELSE IF Places(s, k) # {}
  THEN {[s EXCEPT ![Place(s, k)] = Renewed(@, k, index, time)]}
  ELSE {Append(s, Renewed([EmptyEntry EXCEPT !.at = a, !.prev = Last(s).at], k, index, time)) : a \in free}

(* get_mac_entry: a null pointer for a bucket that is empty, or has more   *)
(* than one entry but not this one; a hit, which renews the entry; and for *)
(* a single other entry the null next pointer is followed.                 *)
Single(s)    == Len(s) = 1
Empty(s)     == Single(s) /\ s[1].mac_addr = Zero
Misses(s, k) == Empty(s) \/ (~ Single(s) /\ Places(s, k) = {})
Hits(s, k)   == ~ Empty(s) /\ Places(s, k) # {}
Faults(s, k) == Single(s) /\ s[1].mac_addr \notin {Zero, k}

-----------------------------------------------------------------------------
(* delete_mac_entry of the i-th entry of bucket s.  The head takes over    *)
(* the contents of its successor, which is freed; the one after that keeps *)
(* its prev, and so does the one after an entry taken from the middle.     *)
IsFirst(s, i)     == s[i].prev = Null
IsBehind(s, i)    == ~ IsFirst(s, i) /\ s[i].prev = s[i - 1].at

(* mutant: the only entry is taken away like any other *)
DeletedAll(s, i) ==
  IF IsFirst(s, i) /\ i < Len(s)
  THEN RemoveAt([s EXCEPT ![i] = [s[i + 1] EXCEPT !.at = HeadAddr, !.prev = Null]], i + 1)
  ELSE RemoveAt(s, i)

(* mutant: the entry behind the head is freed but not unlinked *)
DeletedTwice(s, i) ==
  IF IsFirst(s, i)
  THEN IF i = Len(s) THEN <<EmptyEntry>>
       ELSE [s EXCEPT ![i] = [s[i + 1] EXCEPT !.at = HeadAddr, !.prev = Null]]
  ELSE RemoveAt(s, i)

Deleted(s, i) ==
  IF IsFirst(s, i)
  THEN IF i = Len(s) THEN <<EmptyEntry>>
       ELSE RemoveAt([s EXCEPT ![i] = [s[i + 1] EXCEPT !.at = HeadAddr, !.prev = Null]], i + 1)
  ELSE RemoveAt(s, i)

(* now - last_time on two uint64_t.                                        *)
Aged(e, time) == /\ (time + UInt64 - e.last_time) % UInt64 > MAC_TABLE_AGING_TIME
                 /\ e.mac_addr # Zero

(* The first entry refresh_mac_table() deletes of a bucket; after each     *)
(* delete it starts again from the head.                                   *)
AgedPlaces(s, time) == {i \in DOMAIN s : Aged(s[i], time)}
FirstAged(s, time)  == CHOOSE i \in AgedPlaces(s, time) : \A j \in AgedPlaces(s, time) : i <= j
=============================================================================
