----------------------------- MODULE L2SWProofs -----------------------------
(***************************************************************************)
(* Proofs about L2SW.tla, for any stations, hash function, number of       *)
(* buckets, heap, ports and times.                                         *)
(***************************************************************************)
EXTENDS L2SW, ProofLemmas, FunctionTheorems

-----------------------------------------------------------------------------
(* The invariant, one bucket at a time                                     *)

(* s is bucket b: one entry for each address, of those that belong there;  *)
(* only the first has no prev, and an empty entry is alone.                *)
BucketOf(b, s) ==
  /\ s \in Seq(Entry) /\ Len(s) >= 1
  /\ \A i \in 1 .. Len(s) : s[i].prev = Null <=> i = 1
  /\ \A i \in 1 .. Len(s) : IF s[i].mac_addr = Zero THEN Len(s) = 1 ELSE hash8(s[i].mac_addr) = b
  /\ \A i, j \in 1 .. Len(s) : s[i].mac_addr = s[j].mac_addr => i = j

Knows(s, k) == \E i \in 1 .. Len(s) : s[i].mac_addr = k

(* Its entries tell what was seen, and when, at time n; a look-up may have *)
(* renewed them since.                                                     *)
TrueOf(s, sn, hd, n) ==
  \A i \in 1 .. Len(s) : LET k == s[i].mac_addr IN
     k # Zero => /\ sn[k] # None
                 /\ hd[k] <= s[i].last_time /\ s[i].last_time <= n
                 /\ s[i].netif_index = IfIndex[sn[k]] % UInt8

(* A prev can be wrong only where three stations were seen.                *)
Ordered(s)     == \A i \in 2 .. Len(s) : s[i].prev = s[i - 1].at
Seen(b, sn)    == {k \in Mac : hash8(k) = b /\ sn[k] # None}
Crowded(b, sn) == Cardinality(Seen(b, sn)) > 2

BucketInv(b, s, sn, hd, n) ==
  /\ BucketOf(b, s)
  /\ TrueOf(s, sn, hd, n)
  /\ Ordered(s) \/ Crowded(b, sn)
  /\ \A k \in Mac : hash8(k) = b /\ sn[k] # None /\ n <= hd[k] + MAC_TABLE_AGING_TIME => Knows(s, k)

Table(t, sn, hd, n) ==
  /\ t \in [Bucket -> Seq(Entry)]
  /\ \A b \in Bucket : BucketInv(b, t[b], sn, hd, n)

(* While a refresh runs, nothing is younger than it, and the buckets it    *)
(* has left hold nothing old.                                              *)
Sweeping ==
  Refreshing =>
    /\ current <= now
    /\ \A b \in Bucket : \A i \in 1 .. Len(entry[b]) :
          entry[b][i].mac_addr # Zero => entry[b][i].last_time <= current
    /\ \A b \in 0 .. sweep - 1 : AgedPlaces(entry[b], current) = {}

Typed ==
  /\ {now, ref_last, current} \subseteq 0 .. MaxTime
  /\ sweep \in 0 .. HASH_SIZE
  /\ frame \in {None} \cup [port : Port, src : Mac, dst : Mac \cup {Broadcast}]
  /\ sent \subseteq Port
  /\ failed \in {"no", "null", "astray"}
  /\ seen \in [Mac -> Port \cup {None}]
  /\ heard \in [Mac -> 0 .. MaxTime]
  /\ \A k \in Mac : heard[k] <= now

IInv == Typed /\ Table(entry, seen, heard, now) /\ Sweeping /\ NeverAstray

-----------------------------------------------------------------------------
(* Facts about constants, places and entries                               *)

(* hash8() names a bucket of the table.                                    *)
LEMMA HashInBucket == \A k \in Mac \cup {Zero} : hash8(k) \in Bucket
<1> SUFFICES ASSUME NEW k \in Mac \cup {Zero}
             PROVE  hash8(k) \in Bucket
  OBVIOUS
<1>1. HashOf[k] \in Int /\ HASH_SIZE \in Nat \ {0}
  BY TableAssumption
<1> QED BY <1>1, ModInRange DEF hash8, Bucket

(* What a head is set to when it is emptied.                               *)
LEMMA EmptyIsEntry == EmptyEntry \in Entry
BY TimeAssumption DEF EmptyEntry, Entry

(* A place is in the bucket; if an address has one, Place() is one.        *)
LEMMA PlaceFound ==
  ASSUME NEW s \in Seq(Entry), NEW k, Places(s, k) # {}
  PROVE  Place(s, k) \in 1 .. Len(s) /\ s[Place(s, k)].mac_addr = k
<1>1. Len(s) \in Nat /\ Places(s, k) \in SUBSET (0 .. Len(s))
  BY LenProperties DEF Places
<1>2. \E i \in Places(s, k) : \A j \in Places(s, k) : i <= j
  BY <1>1, Least
<1>3. Place(s, k) \in Places(s, k)
  BY <1>2 DEF Place
<1> QED BY <1>3, LenProperties DEF Places

(* An address is known where it has a place.                               *)
LEMMA KnowsIsPlaces ==
  ASSUME NEW s \in Seq(Entry), NEW k
  PROVE  Knows(s, k) <=> Places(s, k) # {}
BY LenProperties DEF Knows, Places

(* now - last_time does not wrap for an entry that is not younger.         *)
LEMMA AgedSince ==
  ASSUME NEW e \in Entry, NEW time \in 0 .. MaxTime, e.last_time <= time
  PROVE  Aged(e, time) <=> e.mac_addr # Zero /\ e.last_time + MAC_TABLE_AGING_TIME < time
<1>1. /\ e.last_time \in Nat /\ time \in Nat /\ MAC_TABLE_AGING_TIME \in Nat
      /\ UInt64 \in Nat /\ time < UInt64
  BY TimeAssumption DEF Entry
<1>2. time - e.last_time \in 0 .. UInt64 - 1
  BY <1>1
<1>3. (time + UInt64 - e.last_time) % UInt64 = time - e.last_time
  <2>1. time + UInt64 - e.last_time = (time - e.last_time) + UInt64
    BY <1>1
  <2>2. ((time - e.last_time) + UInt64) % UInt64 = time - e.last_time
    BY <1>1, <1>2, ModWrapped
  <2> QED BY <2>1, <2>2
<1> QED BY <1>1, <1>3 DEF Aged

(* Three entries are three stations.                                       *)
LEMMA ThreeIsCrowded ==
  ASSUME NEW b, NEW s, NEW sn, NEW hd, NEW n,
         BucketOf(b, s), TrueOf(s, sn, hd, n), Len(s) >= 3
  PROVE  Crowded(b, sn)
<1>1. Len(s) \in Nat /\ \A i \in 1 .. Len(s) : s[i] \in Entry
  BY ElementOfSeq, LenProperties DEF BucketOf
<1>2. \A i \in 1 .. 3 : s[i].mac_addr \in Seen(b, sn)
  <2> SUFFICES ASSUME NEW i \in 1 .. 3
               PROVE  s[i].mac_addr \in Seen(b, sn)
    OBVIOUS
  <2>1. i \in 1 .. Len(s)
    BY <1>1
  <2>2. s[i].mac_addr # Zero /\ hash8(s[i].mac_addr) = b
    BY <2>1, <1>1 DEF BucketOf
  <2>3. s[i].mac_addr \in Mac
    BY <1>1, <2>1, <2>2 DEF Entry
  <2> QED BY <2>1, <2>2, <2>3 DEF TrueOf, Seen
<1>3. s[1].mac_addr # s[2].mac_addr /\ s[1].mac_addr # s[3].mac_addr /\ s[2].mac_addr # s[3].mac_addr
  BY <1>1 DEF BucketOf
<1> DEFINE A == {s[1].mac_addr}
           B == A \cup {s[2].mac_addr}
           C == B \cup {s[3].mac_addr}
<1>4. IsFiniteSet(A) /\ Cardinality(A) = 1
  BY FS_Singleton
<1>5. IsFiniteSet(B) /\ Cardinality(B) = 2
  <2>1. s[2].mac_addr \notin A
    BY <1>3
  <2> HIDE DEF A
  <2> QED BY <1>4, <2>1, FS_AddElement
<1>6. IsFiniteSet(C) /\ Cardinality(C) = 3
  <2>1. s[3].mac_addr \notin B
    BY <1>3
  <2> HIDE DEF B
  <2> QED BY <1>5, <2>1, FS_AddElement
<1>7. C \subseteq Seen(b, sn)
  BY <1>2
<1>8. IsFiniteSet(Seen(b, sn))
  BY TableAssumption, FS_Subset DEF Seen
<1>9. Cardinality(C) <= Cardinality(Seen(b, sn)) /\ Cardinality(Seen(b, sn)) \in Nat
  BY <1>7, <1>8, FS_Subset, FS_CardinalityType
<1> QED BY <1>6, <1>9 DEF Crowded

(* A bucket stays crowded when another station is heard.                   *)
LEMMA CrowdedStays ==
  ASSUME NEW b, NEW sn \in [Mac -> Port \cup {None}], NEW k \in Mac, NEW i \in Port,
         Crowded(b, sn)
  PROVE  Crowded(b, [sn EXCEPT ![k] = i])
<1> DEFINE S == Seen(b, sn)
           T == Seen(b, [sn EXCEPT ![k] = i])
<1>1. S \subseteq T
  BY PortAssumption DEF Seen
<1>2. IsFiniteSet(T) /\ S \in SUBSET T
  BY <1>1, TableAssumption, FS_Subset DEF Seen
<1> HIDE DEF S, T
<1>3. Cardinality(S) <= Cardinality(T) /\ Cardinality(S) \in Nat /\ Cardinality(T) \in Nat
  BY <1>2, FS_Subset, FS_CardinalityType
<1> QED BY <1>3 DEF Crowded, S, T

-----------------------------------------------------------------------------
(* Learning: update_mac_table()                                            *)

(* The station is at place p of t, the head of s if that was empty, its    *)
(* own, or a new one; all other places are as they were.                   *)
LearnedAt(p, s, t, k, i, time) ==
  /\ t[p].mac_addr = k /\ t[p].last_time = time /\ t[p].netif_index = IfIndex[i] % UInt8
  /\ \A j \in 1 .. Len(s) : j # p => t[j] = s[j]
  /\ \/ /\ Len(t) = Len(s) /\ s[p].mac_addr \in {Zero, k}
        /\ t[p].at = s[p].at /\ t[p].prev = s[p].prev
     \/ /\ p = Len(s) + 1 /\ Len(t) = p /\ s[1].mac_addr # Zero /\ ~ Knows(s, k)
        /\ t[p].prev = s[Len(s)].at

(* What Updated() leaves.                                                  *)
LEMMA UpdatedElements ==
  ASSUME NEW b, NEW s, BucketOf(b, s), NEW k \in Mac, NEW i \in Port, NEW time \in 0 .. MaxTime,
         NEW free \in SUBSET Heap,
         NEW t \in Updated(s, k, IfIndex[i], time, free)
  PROVE  /\ t \in Seq(Entry)
         /\ \E p \in 1 .. Len(t) : LearnedAt(p, s, t, k, i, time)
<1>1. /\ s \in Seq(Entry) /\ Len(s) \in Nat /\ Len(s) >= 1
      /\ \A j \in 1 .. Len(s) : s[j] \in Entry
  BY ElementOfSeq, LenProperties DEF BucketOf
<1>2. IfIndex[i] % UInt8 \in 0 .. UInt8 - 1
  BY PortAssumption, TimeAssumption, ModInRange
<1>3. \A e \in Entry :
        /\ Renewed(e, k, IfIndex[i], time) \in Entry
        /\ Renewed(e, k, IfIndex[i], time).mac_addr = k
        /\ Renewed(e, k, IfIndex[i], time).last_time = time
        /\ Renewed(e, k, IfIndex[i], time).netif_index = IfIndex[i] % UInt8
        /\ Renewed(e, k, IfIndex[i], time).at = e.at
        /\ Renewed(e, k, IfIndex[i], time).prev = e.prev
  BY <1>2 DEF Renewed, Entry
<1>4. ASSUME NEW p \in 1 .. Len(s), s[p].mac_addr \in {Zero, k},
             t = [s EXCEPT ![p] = Renewed(@, k, IfIndex[i], time)]
      PROVE  /\ t \in Seq(Entry)
             /\ p \in 1 .. Len(t)
             /\ t[p] = Renewed(s[p], k, IfIndex[i], time)
             /\ Len(t) = Len(s)
             /\ \A j \in 1 .. Len(s) : j # p => t[j] = s[j]
  <2>1. Renewed(s[p], k, IfIndex[i], time) \in Entry
    BY <1>1, <1>3
  <2>2. t = [s EXCEPT ![p] = Renewed(s[p], k, IfIndex[i], time)]
    BY <1>4
  <2>3. /\ Len(t) = Len(s) /\ t \in Seq(Entry)
        /\ \A j \in 1 .. Len(s) : t[j] = IF j = p THEN Renewed(s[p], k, IfIndex[i], time) ELSE s[j]
    BY <1>1, <2>1, <2>2, ExceptSeq
  <2> QED BY <2>3
<1>5. CASE s[1].mac_addr = Zero
  <2>1. t = [s EXCEPT ![1] = Renewed(@, k, IfIndex[i], time)]
    BY <1>5 DEF Updated
  <2>2. 1 \in 1 .. Len(s) /\ s[1].mac_addr \in {Zero, k}
    BY <1>1, <1>5
  <2>3. /\ t \in Seq(Entry)
        /\ 1 \in 1 .. Len(t)
        /\ t[1] = Renewed(s[1], k, IfIndex[i], time)
        /\ Len(t) = Len(s)
        /\ \A j \in 1 .. Len(s) : j # 1 => t[j] = s[j]
    BY <1>4, <2>1, <2>2
  <2> QED BY <2>2, <2>3, <1>1, <1>3 DEF LearnedAt
<1>6. CASE s[1].mac_addr # Zero /\ Places(s, k) # {}
  <2> DEFINE p == Place(s, k)
  <2>1. t = [s EXCEPT ![p] = Renewed(@, k, IfIndex[i], time)]
    BY <1>6 DEF Updated
  <2>2. p \in 1 .. Len(s) /\ s[p].mac_addr \in {Zero, k}
    BY <1>1, <1>6, PlaceFound
  <2> HIDE DEF p
  <2>3. /\ t \in Seq(Entry)
        /\ p \in 1 .. Len(t)
        /\ t[p] = Renewed(s[p], k, IfIndex[i], time)
        /\ Len(t) = Len(s)
        /\ \A j \in 1 .. Len(s) : j # p => t[j] = s[j]
    BY <1>4, <2>1, <2>2
  <2> QED BY <2>2, <2>3, <1>1, <1>3 DEF LearnedAt
<1>7. CASE s[1].mac_addr # Zero /\ Places(s, k) = {}
  <2>1. PICK a \in free :
          t = Append(s, Renewed([EmptyEntry EXCEPT !.at = a, !.prev = Last(s).at], k, IfIndex[i], time))
    BY <1>7 DEF Updated
  <2> DEFINE new == [EmptyEntry EXCEPT !.at = a, !.prev = Last(s).at]
             e   == Renewed(new, k, IfIndex[i], time)
  <2>2. Last(s) = s[Len(s)] /\ s[Len(s)] \in Entry
    BY <1>1 DEF Last
  <2>3. new \in Entry /\ new.prev = s[Len(s)].at
    <3>1. a \in Heap /\ s[Len(s)].at \in Heap \cup {HeadAddr}
      BY <2>2 DEF Entry
    <3>2. [EmptyEntry EXCEPT !.at = a, !.prev = s[Len(s)].at] \in Entry
      BY <3>1, EmptyIsEntry DEF Entry
    <3>3. [EmptyEntry EXCEPT !.at = a, !.prev = s[Len(s)].at].prev = s[Len(s)].at
      BY EmptyIsEntry DEF Entry
    <3> QED BY <2>2, <3>2, <3>3
  <2>4. /\ e \in Entry /\ e.mac_addr = k /\ e.last_time = time
        /\ e.netif_index = IfIndex[i] % UInt8 /\ e.prev = s[Len(s)].at
    BY <2>3, <1>3
  <2>5. t = Append(s, e)
    BY <2>1
  <2> HIDE DEF new, e
  <2>6. /\ t \in Seq(Entry) /\ Len(t) = Len(s) + 1
        /\ \A j \in 1 .. Len(s) : t[j] = s[j]
        /\ t[Len(s) + 1] = e
    BY <2>4, <2>5, <1>1, AppendProperties
  <2>7. ~ Knows(s, k)
    BY <1>1, <1>7, KnowsIsPlaces
  <2>8. Len(s) + 1 \in 1 .. Len(t)
    BY <2>6, <1>1
  <2> QED BY <2>4, <2>6, <2>7, <2>8, <1>7 DEF LearnedAt
<1> QED BY <1>5, <1>6, <1>7

(* Learning a station keeps what is said of its bucket, and it is known.   *)
LEMMA LearnBucketInv ==
  ASSUME NEW b, NEW s,
         NEW sn \in [Mac -> Port \cup {None}], NEW n \in 0 .. MaxTime,
         NEW hd \in [Mac -> 0 .. MaxTime], \A m \in Mac : hd[m] <= n,
         BucketInv(b, s, sn, hd, n),
         NEW k \in Mac, hash8(k) = b, NEW i \in Port, NEW free \in SUBSET Heap,
         NEW t \in Updated(s, k, IfIndex[i], n, free)
  PROVE  BucketInv(b, t, [sn EXCEPT ![k] = i], [hd EXCEPT ![k] = n], n) /\ Knows(t, k)
<1> DEFINE sn2 == [sn EXCEPT ![k] = i]
           hd2 == [hd EXCEPT ![k] = n]
<1>1. /\ BucketOf(b, s) /\ s \in Seq(Entry) /\ Len(s) \in Nat /\ Len(s) >= 1
      /\ \A j \in 1 .. Len(s) : s[j] \in Entry
  BY ElementOfSeq, LenProperties DEF BucketInv, BucketOf
<1>2. t \in Seq(Entry) /\ Len(t) \in Nat /\ \A j \in 1 .. Len(t) : t[j] \in Entry
  <2>1. t \in Seq(Entry)
    BY <1>1, UpdatedElements
  <2> QED BY <2>1, ElementOfSeq, LenProperties
<1>3. PICK p \in 1 .. Len(t) :
        /\ t[p].mac_addr = k /\ t[p].last_time = n /\ t[p].netif_index = IfIndex[i] % UInt8
        /\ \A j \in 1 .. Len(s) : j # p => t[j] = s[j]
        /\ \/ /\ Len(t) = Len(s) /\ s[p].mac_addr \in {Zero, k}
              /\ t[p].at = s[p].at /\ t[p].prev = s[p].prev
           \/ /\ p = Len(s) + 1 /\ Len(t) = p /\ s[1].mac_addr # Zero /\ ~ Knows(s, k)
              /\ t[p].prev = s[Len(s)].at
  <2>1. \E p \in 1 .. Len(t) : LearnedAt(p, s, t, k, i, n)
    BY <1>1, UpdatedElements
  <2> QED BY <2>1 DEF LearnedAt
<1>4. k # Zero
  BY TableAssumption
<1>5. \A j \in 1 .. Len(t) : j # p => j \in 1 .. Len(s) /\ t[j] = s[j]
  BY <1>1, <1>2, <1>3
(* No other place holds the station, and none is empty.                    *)
<1>6. \A j \in 1 .. Len(t) : j # p => s[j].mac_addr # k /\ s[j].mac_addr # Zero
  <2> SUFFICES ASSUME NEW j \in 1 .. Len(t), j # p
               PROVE  s[j].mac_addr # k /\ s[j].mac_addr # Zero
    OBVIOUS
  <2>1. j \in 1 .. Len(s)
    BY <1>5
  <2>2. CASE Len(t) = Len(s) /\ s[p].mac_addr \in {Zero, k}
    <3>1. p \in 1 .. Len(s) /\ Len(s) # 1
      BY <2>1, <2>2, <1>1
    <3>2. s[j].mac_addr # Zero /\ s[p].mac_addr # Zero
      BY <2>1, <3>1, <1>1 DEF BucketOf
    <3> QED BY <2>1, <2>2, <3>1, <3>2, <1>1 DEF BucketOf
  <2>3. CASE s[1].mac_addr # Zero /\ ~ Knows(s, k)
    <3>1. s[j].mac_addr # k
      BY <2>1, <2>3 DEF Knows
    <3>2. Len(s) = 1 => j = 1
      BY <2>1
    <3> QED BY <2>1, <2>3, <3>1, <3>2, <1>1 DEF BucketOf
  <2> QED BY <2>2, <2>3, <1>3
<1>7. BucketOf(b, t)
  <2>1. \A j \in 1 .. Len(t) : t[j].prev = Null <=> j = 1
    <3>1. ASSUME p = Len(s) + 1, t[p].prev = s[Len(s)].at
          PROVE  t[p].prev # Null /\ p # 1
      <4>1. s[Len(s)].at \in Heap \cup {HeadAddr}
        BY <1>1 DEF Entry
      <4> QED BY <3>1, <4>1, <1>1, TableAssumption
    <3>2. t[p].prev = Null <=> p = 1
      BY <3>1, <1>1, <1>3 DEF BucketOf
    <3>3. \A j \in 1 .. Len(s) : s[j].prev = Null <=> j = 1
      BY <1>1 DEF BucketOf
    <3> QED BY <3>2, <3>3, <1>5
  <2>2. \A j \in 1 .. Len(t) : t[j].mac_addr # Zero /\ hash8(t[j].mac_addr) = b
    <3>1. \A j \in 1 .. Len(s) : s[j].mac_addr # Zero => hash8(s[j].mac_addr) = b
      BY <1>1 DEF BucketOf
    <3> QED BY <3>1, <1>3, <1>4, <1>5, <1>6
  <2>3. \A j, l \in 1 .. Len(t) : t[j].mac_addr = t[l].mac_addr => j = l
    <3>1. \A j, l \in 1 .. Len(s) : s[j].mac_addr = s[l].mac_addr => j = l
      BY <1>1 DEF BucketOf
    <3> QED BY <3>1, <1>3, <1>5, <1>6
  <2>4. Len(t) >= 1
    BY <1>2
  <2> QED BY <2>1, <2>2, <2>3, <2>4, <1>2 DEF BucketOf
<1>8. TrueOf(t, sn2, hd2, n)
  <2> SUFFICES ASSUME NEW j \in 1 .. Len(t)
               PROVE  LET m == t[j].mac_addr IN
                      m # Zero => /\ sn2[m] # None
                                  /\ hd2[m] <= t[j].last_time /\ t[j].last_time <= n
                                  /\ t[j].netif_index = IfIndex[sn2[m]] % UInt8
    BY DEF TrueOf
  <2>1. CASE j = p
    <3>1. sn2[k] = i /\ hd2[k] = n /\ i # None
      BY PortAssumption
    <3> QED BY <2>1, <3>1, <1>3
  <2>2. CASE j # p
    <3> DEFINE m == s[j].mac_addr
    <3>1. m # k /\ m # Zero /\ t[j] = s[j] /\ j \in 1 .. Len(s)
      BY <2>2, <1>5, <1>6
    <3>2. m \in Mac
      BY <3>1, <1>1 DEF Entry
    <3>3. sn2[m] = sn[m] /\ hd2[m] = hd[m]
      BY <3>1, <3>2
    <3>4. /\ sn[m] # None
          /\ hd[m] <= s[j].last_time /\ s[j].last_time <= n
          /\ s[j].netif_index = IfIndex[sn[m]] % UInt8
      BY <3>1 DEF BucketInv, TrueOf
    <3> HIDE DEF m, sn2, hd2
    <3> QED BY <3>1, <3>3, <3>4 DEF m
  <2> QED BY <2>1, <2>2
<1>9. Ordered(t) \/ Crowded(b, sn2)
  <2>1. CASE Crowded(b, sn)
    BY <2>1, CrowdedStays
  <2>2. CASE Ordered(s)
    <3> SUFFICES ASSUME NEW j \in 2 .. Len(t)
                 PROVE  t[j].prev = t[j - 1].at
      BY DEF Ordered
    <3>1. j \in 1 .. Len(t) /\ j - 1 \in 1 .. Len(t)
      BY <1>2
    <3>2. CASE Len(t) = Len(s) /\ t[p].at = s[p].at /\ t[p].prev = s[p].prev
      <4>1. t[j].prev = s[j].prev /\ t[j - 1].at = s[j - 1].at
        BY <3>1, <3>2, <1>5
      <4> QED BY <4>1, <3>2, <2>2 DEF Ordered
    <3>3. CASE p = Len(s) + 1 /\ Len(t) = p /\ t[p].prev = s[Len(s)].at
      <4>1. j - 1 # p /\ t[j - 1] = s[j - 1]
        BY <3>1, <3>3, <1>5, <1>2
      <4>2. CASE j = p
        <5>1. j - 1 = Len(s)
          BY <4>2, <3>3, <1>1
        <5> QED BY <4>1, <4>2, <5>1, <3>3
      <4>3. CASE j # p
        <5>1. t[j] = s[j] /\ j \in 2 .. Len(s)
          BY <4>3, <3>1, <1>5, <1>1
        <5> QED BY <5>1, <4>1, <2>2 DEF Ordered
      <4> QED BY <4>2, <4>3
    <3> QED BY <3>2, <3>3, <1>3
  <2> QED BY <2>1, <2>2 DEF BucketInv
<1>10. \A m \in Mac : hash8(m) = b /\ sn2[m] # None /\ n <= hd2[m] + MAC_TABLE_AGING_TIME => Knows(t, m)
  <2> SUFFICES ASSUME NEW m \in Mac, hash8(m) = b, sn2[m] # None, n <= hd2[m] + MAC_TABLE_AGING_TIME
               PROVE  Knows(t, m)
    OBVIOUS
  <2>1. CASE m = k
    BY <2>1, <1>3 DEF Knows
  <2>2. CASE m # k
    <3>1. sn[m] # None /\ n <= hd[m] + MAC_TABLE_AGING_TIME
      BY <2>2
    <3>2. PICK j \in 1 .. Len(s) : s[j].mac_addr = m
      BY <3>1 DEF BucketInv, Knows
    <3>3. m # Zero
      BY TableAssumption
    <3>4. j # p /\ j \in 1 .. Len(t)
      BY <3>2, <3>3, <2>2, <1>1, <1>2, <1>3
    <3> QED BY <3>2, <3>4, <1>5 DEF Knows
  <2> QED BY <2>1, <2>2
<1>11. Knows(t, k)
  BY <1>3 DEF Knows
<1> HIDE DEF sn2, hd2
<1>12. BucketInv(b, t, sn2, hd2, n)
  BY <1>7, <1>8, <1>9, <1>10 DEF BucketInv
<1> QED BY <1>11, <1>12 DEF sn2, hd2

(* And what is said of the others.                                         *)
LEMMA OtherBucketInv ==
  ASSUME NEW b, NEW s,
         NEW sn \in [Mac -> Port \cup {None}], NEW hd \in [Mac -> 0 .. MaxTime], NEW n,
         BucketInv(b, s, sn, hd, n),
         NEW k \in Mac, hash8(k) # b, NEW i
  PROVE  BucketInv(b, s, [sn EXCEPT ![k] = i], [hd EXCEPT ![k] = n], n)
<1> DEFINE sn2 == [sn EXCEPT ![k] = i]
           hd2 == [hd EXCEPT ![k] = n]
<1>1. \A m \in Mac : hash8(m) = b => sn2[m] = sn[m] /\ hd2[m] = hd[m]
  OBVIOUS
<1>2. TrueOf(s, sn2, hd2, n)
  <2>1. \A j \in 1 .. Len(s) : s[j] \in Entry
    BY ElementOfSeq DEF BucketInv, BucketOf
  <2>2. \A j \in 1 .. Len(s) : s[j].mac_addr # Zero => s[j].mac_addr \in Mac /\ hash8(s[j].mac_addr) = b
    BY <2>1 DEF BucketInv, BucketOf, Entry
  <2> HIDE DEF sn2, hd2
  <2> QED BY <1>1, <2>2 DEF TrueOf, BucketInv
<1> HIDE DEF sn2, hd2
<1>3. Seen(b, sn2) = Seen(b, sn)
  BY <1>1 DEF Seen
<1>4. BucketInv(b, s, sn2, hd2, n)
  BY <1>1, <1>2, <1>3 DEF BucketInv, Crowded
<1> QED BY <1>4 DEF sn2, hd2

(* A look-up that renews an entry keeps what is said of its bucket.        *)
LEMMA RenewBucketInv ==
  ASSUME NEW b, NEW s, NEW sn, NEW n \in 0 .. MaxTime,
         NEW hd \in [Mac -> 0 .. MaxTime],
         BucketInv(b, s, sn, hd, n), NEW p \in 1 .. Len(s)
  PROVE  BucketInv(b, [s EXCEPT ![p].last_time = n], sn, hd, n)
<1> DEFINE t == [s EXCEPT ![p].last_time = n]
           e == [s[p] EXCEPT !.last_time = n]
<1>1. /\ s \in Seq(Entry) /\ Len(s) \in Nat
      /\ \A j \in 1 .. Len(s) : s[j] \in Entry
  BY ElementOfSeq, LenProperties DEF BucketInv, BucketOf
<1>2. /\ e \in Entry /\ e.mac_addr = s[p].mac_addr /\ e.prev = s[p].prev /\ e.at = s[p].at
      /\ e.netif_index = s[p].netif_index /\ e.last_time = n
  BY <1>1 DEF Entry
<1>3. t = [s EXCEPT ![p] = e]
  OBVIOUS
<1> HIDE DEF t, e
<1>4. /\ t \in Seq(Entry) /\ Len(t) = Len(s)
      /\ \A j \in 1 .. Len(s) : t[j] = IF j = p THEN e ELSE s[j]
  BY <1>1, <1>2, <1>3, ExceptSeq
<1>5. \A j \in 1 .. Len(s) : /\ t[j].mac_addr = s[j].mac_addr /\ t[j].prev = s[j].prev
                             /\ t[j].at = s[j].at /\ t[j].netif_index = s[j].netif_index
                             /\ t[j].last_time = IF j = p THEN n ELSE s[j].last_time
  BY <1>2, <1>4
<1>6. BucketOf(b, t)
  BY <1>4, <1>5 DEF BucketOf, BucketInv
<1>7. TrueOf(t, sn, hd, n)
  <2>1. \A j \in 1 .. Len(s) : s[j].mac_addr # Zero =>
           /\ sn[s[j].mac_addr] # None
           /\ hd[s[j].mac_addr] <= s[j].last_time /\ s[j].last_time <= n
           /\ s[j].netif_index = IfIndex[sn[s[j].mac_addr]] % UInt8
    BY DEF BucketInv, TrueOf
  <2>2. \A j \in 1 .. Len(s) : s[j].mac_addr # Zero =>
           hd[s[j].mac_addr] \in Nat /\ s[j].last_time \in Nat
    BY <1>1 DEF Entry
  <2>3. n \in Nat
    OBVIOUS
  <2> QED BY <2>1, <2>2, <2>3, <1>4, <1>5 DEF TrueOf
<1>8. Ordered(s) => Ordered(t)
  <2> SUFFICES ASSUME Ordered(s), NEW j \in 2 .. Len(t)
               PROVE  t[j].prev = t[j - 1].at
    BY DEF Ordered
  <2>1. j \in 1 .. Len(s) /\ j - 1 \in 1 .. Len(s) /\ j \in 2 .. Len(s)
    BY <1>1, <1>4
  <2> QED BY <2>1, <1>5 DEF Ordered
<1>9. \A k \in Mac : Knows(s, k) => Knows(t, k)
  BY <1>4, <1>5 DEF Knows
<1>10. BucketInv(b, t, sn, hd, n)
  BY <1>6, <1>7, <1>8, <1>9 DEF BucketInv
<1> QED BY <1>10 DEF t

-----------------------------------------------------------------------------
(* Forgetting: delete_mac_entry()                                          *)

(* Where the contents of place j were before place i was deleted.          *)
Before(j, i) == IF j < i THEN j ELSE j + 1

(* What Deleted() leaves: an empty head, or one place less; the later      *)
(* entries move up, in contents if the head is deleted.                    *)
LEMMA DeletedElements ==
  ASSUME NEW b, NEW s, BucketOf(b, s), NEW i \in 1 .. Len(s)
  PROVE  \/ Len(s) = 1 /\ Deleted(s, i) = <<EmptyEntry>>
         \/ /\ Len(s) > 1
            /\ Deleted(s, i) \in Seq(Entry) /\ Len(Deleted(s, i)) = Len(s) - 1
            /\ \A j \in 1 .. Len(s) - 1 :
                 /\ Deleted(s, i)[j].mac_addr    = s[Before(j, i)].mac_addr
                 /\ Deleted(s, i)[j].netif_index = s[Before(j, i)].netif_index
                 /\ Deleted(s, i)[j].last_time   = s[Before(j, i)].last_time
                 /\ Deleted(s, i)[j].prev = Null <=> j = 1
<1>1. /\ s \in Seq(Entry) /\ Len(s) \in Nat /\ Len(s) >= 1
      /\ \A j \in 1 .. Len(s) : s[j] \in Entry
      /\ \A j \in 1 .. Len(s) : s[j].prev = Null <=> j = 1
  BY ElementOfSeq, LenProperties DEF BucketOf
<1>2. CASE i = 1 /\ Len(s) = 1
  BY <1>1, <1>2 DEF Deleted, IsFirst
<1>3. CASE i = 1 /\ Len(s) # 1
  <2>0. Len(s) > 1
    <3>1. \A n \in Nat : n >= 1 /\ n # 1 => n > 1
      OBVIOUS
    <3>2. Len(s) \in Nat /\ Len(s) >= 1 /\ Len(s) # 1
      BY <1>1, <1>3
    <3> QED BY <3>1, <3>2
  <2> DEFINE e == [s[2] EXCEPT !.at = HeadAddr, !.prev = Null]
             r == [s EXCEPT ![1] = e]
  <2>1. 1 \in 1 .. Len(s) /\ 2 \in 1 .. Len(s) /\ s[2] \in Entry
    BY <1>1, <2>0
  <2>2. /\ e \in Entry /\ e.mac_addr = s[2].mac_addr /\ e.netif_index = s[2].netif_index
        /\ e.last_time = s[2].last_time /\ e.prev = Null
    BY <2>1 DEF Entry
  <2>3. IsFirst(s, 1)
    BY <1>1, <2>1 DEF IsFirst
  <2>4. Deleted(s, i) = RemoveAt(r, 2)
    BY <1>1, <1>3, <2>3 DEF Deleted
  <2> HIDE DEF e
  <2>5. /\ r \in Seq(Entry) /\ Len(r) = Len(s)
        /\ \A j \in 1 .. Len(s) : r[j] = IF j = 1 THEN e ELSE s[j]
    BY <1>1, <2>1, <2>2, ExceptSeq
  <2> HIDE DEF r
  <2>6. /\ RemoveAt(r, 2) \in Seq(Entry)
        /\ Len(RemoveAt(r, 2)) = Len(s) - 1
        /\ \A j \in 1 .. Len(s) - 1 : RemoveAt(r, 2)[j] = IF j < 2 THEN r[j] ELSE r[j + 1]
    BY <2>1, <2>5, RemoveAtElements
  <2>7. \A j \in 1 .. Len(s) - 1 : RemoveAt(r, 2)[j] = IF j = 1 THEN e ELSE s[j + 1]
    <3> SUFFICES ASSUME NEW j \in 1 .. Len(s) - 1
                 PROVE  RemoveAt(r, 2)[j] = IF j = 1 THEN e ELSE s[j + 1]
      OBVIOUS
    <3>1. CASE j = 1
      BY <3>1, <2>5, <2>6, <1>1
    <3>2. CASE j # 1
      <4>1. ~ (j < 2) /\ j + 1 \in 1 .. Len(s) /\ j + 1 # 1
        BY <3>2, <1>1
      <4> QED BY <3>2, <4>1, <2>5, <2>6
    <3> QED BY <3>1, <3>2
  <2>8. \A j \in 1 .. Len(s) - 1 :
          /\ RemoveAt(r, 2)[j].mac_addr    = s[Before(j, i)].mac_addr
          /\ RemoveAt(r, 2)[j].netif_index = s[Before(j, i)].netif_index
          /\ RemoveAt(r, 2)[j].last_time   = s[Before(j, i)].last_time
          /\ RemoveAt(r, 2)[j].prev = Null <=> j = 1
    <3> SUFFICES ASSUME NEW j \in 1 .. Len(s) - 1
                 PROVE  /\ RemoveAt(r, 2)[j].mac_addr    = s[Before(j, i)].mac_addr
                        /\ RemoveAt(r, 2)[j].netif_index = s[Before(j, i)].netif_index
                        /\ RemoveAt(r, 2)[j].last_time   = s[Before(j, i)].last_time
                        /\ RemoveAt(r, 2)[j].prev = Null <=> j = 1
      OBVIOUS
    <3>1. Before(j, i) = j + 1 /\ j + 1 \in 1 .. Len(s) /\ j + 1 # 1
      BY <1>1, <1>3, <2>0 DEF Before
    <3>2. CASE j = 1
      BY <3>1, <3>2, <2>2, <2>7
    <3>3. CASE j # 1
      <4>1. RemoveAt(r, 2)[j] = s[j + 1]
        BY <3>3, <2>7
      <4>2. s[j + 1].prev # Null
        BY <3>1, <1>1
      <4> QED BY <3>1, <3>3, <4>1, <4>2
    <3> QED BY <3>2, <3>3
  <2> QED BY <2>0, <2>4, <2>6, <2>8, <1>3
<1>4. CASE i # 1
  <2>1. Deleted(s, i) = RemoveAt(s, i)
    BY <1>1, <1>4 DEF Deleted, IsFirst
  <2>2. /\ RemoveAt(s, i) \in Seq(Entry)
        /\ Len(RemoveAt(s, i)) = Len(s) - 1
        /\ \A j \in 1 .. Len(s) - 1 : RemoveAt(s, i)[j] = IF j < i THEN s[j] ELSE s[j + 1]
    BY <1>1, RemoveAtElements
  <2>3. \A j \in 1 .. Len(s) - 1 : /\ RemoveAt(s, i)[j] = s[Before(j, i)]
                                   /\ Before(j, i) \in 1 .. Len(s)
                                   /\ Before(j, i) = 1 <=> j = 1
    BY <2>2, <1>1, <1>4 DEF Before
  <2>4. Len(s) > 1
    BY <1>1, <1>4
  <2> QED BY <2>1, <2>2, <2>3, <2>4, <1>1
<1> QED BY <1>2, <1>3, <1>4

(* Deleting an entry that is too old keeps what is said of its bucket.     *)
LEMMA DeleteBucketInv ==
  ASSUME NEW b, NEW s,
         NEW sn \in [Mac -> Port \cup {None}], NEW n \in 0 .. MaxTime,
         NEW hd \in [Mac -> 0 .. MaxTime],
         BucketInv(b, s, sn, hd, n), NEW i \in 1 .. Len(s),
         s[i].mac_addr # Zero, s[i].last_time + MAC_TABLE_AGING_TIME < n
  PROVE  BucketInv(b, Deleted(s, i), sn, hd, n)
<1> DEFINE t == Deleted(s, i)
<1>1. /\ BucketOf(b, s) /\ TrueOf(s, sn, hd, n)
      /\ s \in Seq(Entry) /\ Len(s) \in Nat /\ Len(s) >= 1
      /\ \A j \in 1 .. Len(s) : s[j] \in Entry
  BY ElementOfSeq, LenProperties DEF BucketInv, BucketOf
(* The station of the entry need not be remembered any more.               *)
<1>2. \A k \in Mac : hash8(k) = b /\ sn[k] # None /\ n <= hd[k] + MAC_TABLE_AGING_TIME =>
         \E j \in 1 .. Len(s) : j # i /\ s[j].mac_addr = k
  <2> SUFFICES ASSUME NEW k \in Mac, hash8(k) = b, sn[k] # None, n <= hd[k] + MAC_TABLE_AGING_TIME
               PROVE  \E j \in 1 .. Len(s) : j # i /\ s[j].mac_addr = k
    OBVIOUS
  <2>1. PICK j \in 1 .. Len(s) : s[j].mac_addr = k
    BY DEF BucketInv, Knows
  <2>2. ASSUME j = i
        PROVE  FALSE
    <3>1. hd[k] <= s[i].last_time
      BY <2>1, <2>2, <1>1 DEF TrueOf
    <3>2. hd[k] \in Nat /\ s[i].last_time \in Nat /\ n \in Nat /\ MAC_TABLE_AGING_TIME \in Nat
      <4>1. k \in Mac /\ s[i] \in Entry
        BY <1>1
      <4>2. hd[k] \in 0 .. MaxTime /\ s[i].last_time \in 0 .. MaxTime
        BY <4>1 DEF Entry
      <4> QED BY <4>2, TimeAssumption
    <3> QED BY <3>1, <3>2
  <2> QED BY <2>1, <2>2
<1>3. CASE Len(s) = 1 /\ t = <<EmptyEntry>>
  <2>1. /\ <<EmptyEntry>> \in Seq(Entry) /\ Len(<<EmptyEntry>>) = 1
        /\ <<EmptyEntry>>[1] = EmptyEntry
    BY EmptyIsEntry
  <2>2. EmptyEntry.mac_addr = Zero /\ EmptyEntry.prev = Null
    BY DEF EmptyEntry
  <2> HIDE DEF t
  <2>3. /\ t \in Seq(Entry) /\ Len(t) = 1
        /\ \A j \in 1 .. Len(t) : j = 1 /\ t[j].mac_addr = Zero /\ t[j].prev = Null
    BY <2>1, <2>2, <1>3
  <2>4. BucketOf(b, t)
    BY <2>3 DEF BucketOf
  <2>5. TrueOf(t, sn, hd, n) /\ Ordered(t)
    BY <2>3 DEF TrueOf, Ordered
  <2>6. \A k \in Mac : ~ (hash8(k) = b /\ sn[k] # None /\ n <= hd[k] + MAC_TABLE_AGING_TIME)
    BY <1>2, <1>3
  <2>7. BucketInv(b, t, sn, hd, n)
    BY <2>4, <2>5, <2>6 DEF BucketInv
  <2> QED BY <2>7 DEF t
<1>4. CASE /\ Len(s) > 1
           /\ t \in Seq(Entry) /\ Len(t) = Len(s) - 1
           /\ \A j \in 1 .. Len(s) - 1 :
                /\ t[j].mac_addr    = s[Before(j, i)].mac_addr
                /\ t[j].netif_index = s[Before(j, i)].netif_index
                /\ t[j].last_time   = s[Before(j, i)].last_time
                /\ t[j].prev = Null <=> j = 1
  <2> HIDE DEF t
  <2>1. /\ \A j \in 1 .. Len(s) - 1 : Before(j, i) \in 1 .. Len(s) /\ Before(j, i) # i
        /\ \A j, l \in 1 .. Len(s) - 1 : Before(j, i) = Before(l, i) => j = l
    BY <1>1 DEF Before
  <2>2. \A l \in 1 .. Len(s) : l # i => \E j \in 1 .. Len(s) - 1 : l = Before(j, i)
    <3> SUFFICES ASSUME NEW l \in 1 .. Len(s), l # i
                 PROVE  \E j \in 1 .. Len(s) - 1 : l = Before(j, i)
      OBVIOUS
    <3>1. CASE l < i
      <4>1. l \in 1 .. Len(s) - 1 /\ l = Before(l, i)
        BY <3>1, <1>1 DEF Before
      <4> QED BY <4>1
    <3>2. CASE l > i
      <4>1. l - 1 \in 1 .. Len(s) - 1 /\ l = Before(l - 1, i)
        BY <3>2, <1>1 DEF Before
      <4> QED BY <4>1
    <3> QED BY <3>1, <3>2, <1>1
  <2>3. BucketOf(b, t)
    <3>1. \A j \in 1 .. Len(s) : s[j].mac_addr # Zero /\ hash8(s[j].mac_addr) = b
      BY <1>1, <1>4 DEF BucketOf
    <3>2. \A j, l \in 1 .. Len(s) : s[j].mac_addr = s[l].mac_addr => j = l
      BY <1>1 DEF BucketOf
    <3>3. \A j, l \in 1 .. Len(t) : t[j].mac_addr = t[l].mac_addr => j = l
      BY <3>2, <2>1, <1>4
    <3>4. \A j \in 1 .. Len(t) : t[j].mac_addr # Zero /\ hash8(t[j].mac_addr) = b
      BY <3>1, <2>1, <1>4
    <3>5. Len(t) >= 1
      BY <1>1, <1>4
    <3> QED BY <3>3, <3>4, <3>5, <1>4 DEF BucketOf
  <2>4. TrueOf(t, sn, hd, n)
    <3> SUFFICES ASSUME NEW j \in 1 .. Len(t), t[j].mac_addr # Zero
                 PROVE  /\ sn[t[j].mac_addr] # None
                        /\ hd[t[j].mac_addr] <= t[j].last_time /\ t[j].last_time <= n
                        /\ t[j].netif_index = IfIndex[sn[t[j].mac_addr]] % UInt8
      BY DEF TrueOf
    <3> DEFINE l == Before(j, i)
    <3>1. /\ l \in 1 .. Len(s) /\ t[j].mac_addr = s[l].mac_addr
          /\ t[j].netif_index = s[l].netif_index /\ t[j].last_time = s[l].last_time
      BY <2>1, <1>4
    <3> HIDE DEF l
    <3> QED BY <3>1, <1>1 DEF TrueOf
  <2>5. Ordered(t) \/ Crowded(b, sn)
    <3>1. CASE Len(s) >= 3
      BY <3>1, <1>1, ThreeIsCrowded
    <3>2. CASE Len(s) < 3
      BY <3>2, <1>1, <1>4 DEF Ordered
    <3> QED BY <3>1, <3>2, <1>1
  <2>6. \A k \in Mac : hash8(k) = b /\ sn[k] # None /\ n <= hd[k] + MAC_TABLE_AGING_TIME => Knows(t, k)
    <3> SUFFICES ASSUME NEW k \in Mac, hash8(k) = b, sn[k] # None, n <= hd[k] + MAC_TABLE_AGING_TIME
                 PROVE  Knows(t, k)
      OBVIOUS
    <3>1. PICK l \in 1 .. Len(s) : l # i /\ s[l].mac_addr = k
      BY <1>2
    <3>2. PICK j \in 1 .. Len(s) - 1 : l = Before(j, i)
      BY <3>1, <2>2
    <3>3. j \in 1 .. Len(t) /\ t[j].mac_addr = k
      BY <3>1, <3>2, <1>4
    <3> QED BY <3>3 DEF Knows
  <2>7. BucketInv(b, t, sn, hd, n)
    BY <2>3, <2>4, <2>5, <2>6 DEF BucketInv
  <2> QED BY <2>7 DEF t
<1> QED BY <1>1, <1>3, <1>4, DeletedElements

-----------------------------------------------------------------------------
(* The steps                                                               *)

(* What a bucket of the table is, under the invariant.                     *)
LEMMA TableBucket ==
  ASSUME IInv, NEW b \in Bucket
  PROVE  /\ BucketInv(b, entry[b], seen, heard, now)
         /\ entry[b] \in Seq(Entry) /\ Len(entry[b]) \in Nat
         /\ \A j \in 1 .. Len(entry[b]) : entry[b][j] \in Entry
BY ElementOfSeq, LenProperties DEF IInv, Table, BucketInv, BucketOf

(* Before the first frame every bucket has its empty head.                 *)
LEMMA InitInv == Init => IInv
<1> SUFFICES ASSUME Init
             PROVE  IInv
  OBVIOUS
<1>1. Typed
  BY TimeAssumption, TableAssumption DEF Init, Typed
<1>2. /\ <<EmptyEntry>> \in Seq(Entry) /\ Len(<<EmptyEntry>>) = 1
      /\ <<EmptyEntry>>[1].mac_addr = Zero /\ <<EmptyEntry>>[1].prev = Null
  <2>1. EmptyEntry.mac_addr = Zero /\ EmptyEntry.prev = Null
    BY DEF EmptyEntry
  <2> QED BY <2>1, EmptyIsEntry
<1>3. \A b \in Bucket : BucketInv(b, <<EmptyEntry>>, seen, heard, now)
  <2> SUFFICES ASSUME NEW b \in Bucket
               PROVE  BucketInv(b, <<EmptyEntry>>, seen, heard, now)
    OBVIOUS
  <2>1. BucketOf(b, <<EmptyEntry>>)
    BY <1>2 DEF BucketOf
  <2>2. TrueOf(<<EmptyEntry>>, seen, heard, now) /\ Ordered(<<EmptyEntry>>)
    BY <1>2 DEF TrueOf, Ordered
  <2>3. \A k \in Mac : seen[k] = None
    BY DEF Init
  <2> QED BY <2>1, <2>2, <2>3 DEF BucketInv
<1>4. Table(entry, seen, heard, now)
  <2>1. entry = [b \in Bucket |-> <<EmptyEntry>>]
    BY DEF Init, init_mac_table
  <2> QED BY <2>1, <1>2, <1>3 DEF Table
<1>5. Sweeping /\ NeverAstray
  BY TableAssumption DEF Init, Sweeping, Refreshing, NeverAstray
<1> QED BY <1>1, <1>4, <1>5 DEF IInv

(* The table after learning, and the history after hearing.                *)
LEMMA LearnedTable ==
  ASSUME IInv, NEW i \in Port, NEW src \in Mac, NEW t \in Learned(i, src)
  PROVE  /\ Table(t, [seen EXCEPT ![src] = i], [heard EXCEPT ![src] = now], now)
         /\ Knows(t[hash8(src)], src)
         /\ \A b \in Bucket : b # hash8(src) => t[b] = entry[b]
<1> DEFINE b == hash8(src)
           free == Heap \ Allocated(entry)
           sn == [seen EXCEPT ![src] = i]
           hd == [heard EXCEPT ![src] = now]
<1>1. PICK s \in Updated(entry[b], src, IfIndex[i], now, free) : t = [entry EXCEPT ![b] = s]
  BY DEF Learned
<1>2. b \in Bucket /\ free \in SUBSET Heap
  BY HashInBucket
<1>3. /\ seen \in [Mac -> Port \cup {None}] /\ heard \in [Mac -> 0 .. MaxTime]
      /\ now \in 0 .. MaxTime /\ \A m \in Mac : heard[m] <= now
  BY DEF IInv, Typed
<1>4. BucketInv(b, s, sn, hd, now) /\ Knows(s, src)
  <2> HIDE DEF free
  <2>1. BucketInv(b, entry[b], seen, heard, now)
    BY <1>2, TableBucket
  <2> QED BY <2>1, <1>2, <1>3, LearnBucketInv
<1>5. entry \in [Bucket -> Seq(Entry)]
  BY DEF IInv, Table
<1>6. \A c \in Bucket : t[c] = IF c = b THEN s ELSE entry[c]
  BY <1>1, <1>2, <1>5
<1>7. s \in Seq(Entry)
  BY <1>4 DEF BucketInv, BucketOf
<1>8. t \in [Bucket -> Seq(Entry)]
  BY <1>1, <1>2, <1>5, <1>7
<1>9. \A c \in Bucket : c # b => BucketInv(c, entry[c], sn, hd, now)
  BY <1>3, TableBucket, OtherBucketInv
<1> HIDE DEF sn, hd, b
<1>10. Table(t, sn, hd, now)
  BY <1>4, <1>6, <1>8, <1>9 DEF Table
<1> QED BY <1>2, <1>4, <1>6, <1>10 DEF sn, hd, b

(* A look-up in a good table.                                              *)
LEMMA RenewedTable ==
  ASSUME NEW t, NEW sn, NEW hd \in [Mac -> 0 .. MaxTime], NEW n \in 0 .. MaxTime,
         Table(t, sn, hd, n),
         NEW b \in Bucket, NEW p \in 1 .. Len(t[b])
  PROVE  Table([t EXCEPT ![b][p].last_time = n], sn, hd, n)
<1> DEFINE s == [t[b] EXCEPT ![p].last_time = n]
           u == [t EXCEPT ![b] = s]
<1>1. [t EXCEPT ![b][p].last_time = n] = u
  OBVIOUS
<1>2. BucketInv(b, s, sn, hd, n)
  BY RenewBucketInv DEF Table
<1> HIDE DEF s
<1>3. s \in Seq(Entry)
  BY <1>2 DEF BucketInv, BucketOf
<1>4. u \in [Bucket -> Seq(Entry)] /\ \A c \in Bucket : u[c] = IF c = b THEN s ELSE t[c]
  BY <1>3 DEF Table
<1> HIDE DEF u
<1>5. Table(u, sn, hd, n)
  BY <1>2, <1>4 DEF Table
<1> QED BY <1>1, <1>5

(* Receive: learning, and a look-up perhaps.                               *)
LEMMA ReceiveInv ==
  ASSUME IInv, NEW i \in Port, NEW src \in Mac, NEW dst \in Mac \cup {Broadcast}, Receive(i, src, dst)
  PROVE  IInv'
<1> DEFINE sn == [seen EXCEPT ![src] = i]
           hd == [heard EXCEPT ![src] = now]
<1>1. /\ Running /\ sweep = HASH_SIZE
      /\ frame' = [port |-> i, src |-> src, dst |-> dst]
      /\ Hears(i, src)
  BY DEF Receive, Polling, Spread, Flood, Forward, Fault
<1>2. /\ seen' = sn /\ heard' = hd
      /\ UNCHANGED <<now, ref_last, current, sweep>>
  BY <1>1 DEF Hears
<1>3. /\ seen \in [Mac -> Port \cup {None}] /\ heard \in [Mac -> 0 .. MaxTime]
      /\ now \in 0 .. MaxTime /\ \A m \in Mac : heard[m] <= now
  BY DEF IInv, Typed
<1>4. sn \in [Mac -> Port \cup {None}] /\ hd \in [Mac -> 0 .. MaxTime] /\ \A m \in Mac : hd[m] <= now
  BY <1>3
<1>5. Table(entry', sn, hd, now) /\ sent' \subseteq Port /\ failed' \in {"no", "null"}
  <2>1. CASE Spread(i, src)
    BY <2>1, <1>1, LearnedTable DEF Spread, Running
  <2>2. CASE Flood(i, src, dst)
    BY <2>2, <1>1, LearnedTable DEF Flood, Running
  <2>3. CASE Fault(i, src, dst)
    BY <2>3, LearnedTable DEF Fault
  <2>4. CASE Forward(i, src, dst) /\ dst # Broadcast
    <3> DEFINE b == hash8(dst)
    <3>1. PICK t \in Learned(i, src) :
            /\ Hits(t[b], dst)
            /\ entry' = [t EXCEPT ![b][Place(t[b], dst)].last_time = now]
            /\ sent' = PortOf(t[b][Place(t[b], dst)])
      BY <2>4 DEF Forward
    <3>2. Table(t, sn, hd, now)
      BY LearnedTable
    <3>3. b \in Bucket
      BY <2>4, HashInBucket
    <3> HIDE DEF b, sn, hd
    <3>4. Place(t[b], dst) \in 1 .. Len(t[b])
      BY <3>1, <3>2, <3>3, PlaceFound DEF Hits, Table
    <3>5. Table(entry', sn, hd, now)
      BY <3>1, <3>2, <3>3, <3>4, <1>3, <1>4, RenewedTable
    <3>6. sent' \subseteq Port
      BY <3>1 DEF PortOf
    <3>7. failed' = "no"
      BY <2>4, <1>1 DEF Forward, Running
    <3> QED BY <3>5, <3>6, <3>7
  <2> QED BY <2>1, <2>2, <2>3, <2>4 DEF Receive
<1>6. Typed'
  <2>1. seen' \in [Mac -> Port \cup {None}] /\ heard' \in [Mac -> 0 .. MaxTime] /\ \A m \in Mac : heard'[m] <= now'
    BY <1>2, <1>4
  <2>2. frame' \in [port : Port, src : Mac, dst : Mac \cup {Broadcast}]
    BY <1>1
  <2>3. {now', ref_last', current'} \subseteq 0 .. MaxTime /\ sweep' \in 0 .. HASH_SIZE
    BY <1>2 DEF IInv, Typed
  <2>4. failed' \in {"no", "null", "astray"}
    BY <1>5
  <2> QED BY <2>1, <2>2, <2>3, <2>4, <1>5 DEF Typed
<1>7. Table(entry', seen', heard', now')
  BY <1>2, <1>5
<1>8. Sweeping'
  BY <1>1, <1>2, TableAssumption DEF Sweeping, Refreshing
<1>9. NeverAstray'
  BY <1>5 DEF NeverAstray
<1> QED BY <1>6, <1>7, <1>8, <1>9 DEF IInv

(* StartRefresh: nothing in the table is younger than the time it reads.   *)
LEMMA StartRefreshInv == IInv /\ StartRefresh => IInv'
<1> SUFFICES ASSUME IInv, StartRefresh
             PROVE  IInv'
  OBVIOUS
<1>1. /\ sweep' = 0 /\ current' = now /\ frame' = None /\ sent' = {}
      /\ UNCHANGED <<entry, now, ref_last, failed, seen, heard>>
  BY DEF StartRefresh, NoFrame
<1>2. Typed'
  BY <1>1, TableAssumption DEF IInv, Typed
<1>3. Table(entry', seen', heard', now')
  BY <1>1 DEF IInv
<1>4. Sweeping'
  <2>1. current' <= now'
    BY <1>1 DEF IInv, Typed
  <2>2. \A b \in Bucket : \A j \in 1 .. Len(entry'[b]) :
          entry'[b][j].mac_addr # Zero => entry'[b][j].last_time <= current'
    BY <1>1, TableBucket DEF BucketInv, TrueOf
  <2>3. \A b \in 0 .. sweep' - 1 : AgedPlaces(entry'[b], current') = {}
    BY <1>1
  <2> QED BY <2>1, <2>2, <2>3 DEF Sweeping
<1>5. NeverAstray'
  BY <1>1 DEF StartRefresh, Polling, Running, NeverAstray
<1> QED BY <1>2, <1>3, <1>4, <1>5 DEF IInv

(* The entry refresh_mac_table() deletes is the first that is too old.     *)
LEMMA PlaceAged ==
  ASSUME IInv, Refreshing, AgedPlaces(entry[sweep], current) # {}
  PROVE  LET s == entry[sweep]
             i == Place(s, s[FirstAged(s, current)].mac_addr)
         IN  /\ sweep \in Bucket /\ i \in 1 .. Len(s) /\ i \in AgedPlaces(s, current)
             /\ s[i].mac_addr # Zero /\ s[i].last_time + MAC_TABLE_AGING_TIME < now
<1> DEFINE s == entry[sweep]
           f == FirstAged(s, current)
           i == Place(s, s[f].mac_addr)
<1>1. sweep \in Bucket
  BY TableAssumption DEF IInv, Typed, Refreshing, Bucket
<1>2. /\ BucketInv(sweep, s, seen, heard, now)
      /\ s \in Seq(Entry) /\ Len(s) \in Nat
      /\ \A j \in 1 .. Len(s) : s[j] \in Entry
  BY <1>1, TableBucket
<1>3. DOMAIN s = 1 .. Len(s)
  BY <1>2, LenProperties
<1> HIDE DEF s
<1>4. AgedPlaces(s, current) \in SUBSET (0 .. Len(s)) /\ AgedPlaces(s, current) # {}
  BY <1>2, <1>3 DEF AgedPlaces, s
<1>5. \E j \in AgedPlaces(s, current) : \A l \in AgedPlaces(s, current) : j <= l
  BY <1>2, <1>4, Least
<1>6. f \in AgedPlaces(s, current)
  BY <1>5 DEF FirstAged
<1> HIDE DEF f
<1>7. f \in 1 .. Len(s) /\ Aged(s[f], current) /\ s[f].mac_addr # Zero
  BY <1>6, <1>3 DEF AgedPlaces, Aged
<1>8. i \in 1 .. Len(s) /\ s[i].mac_addr = s[f].mac_addr
  <2>1. Places(s, s[f].mac_addr) # {}
    BY <1>3, <1>7 DEF Places
  <2> QED BY <2>1, <1>2, PlaceFound
<1> HIDE DEF i
<1>9. i = f
  BY <1>2, <1>7, <1>8 DEF BucketInv, BucketOf
<1>10. /\ current <= now /\ current \in 0 .. MaxTime /\ now \in 0 .. MaxTime
       /\ s[f].last_time <= current
  BY <1>1, <1>7 DEF IInv, Typed, Sweeping, s
<1>11. s[f].last_time + MAC_TABLE_AGING_TIME < current
  BY <1>2, <1>7, <1>10, AgedSince
<1>12. s[f].last_time + MAC_TABLE_AGING_TIME < now
  <2>1. s[f].last_time \in Nat /\ MAC_TABLE_AGING_TIME \in Nat /\ current \in Nat /\ now \in Nat
    BY <1>2, <1>7, <1>10, TimeAssumption DEF Entry
  <2> QED BY <2>1, <1>10, <1>11
<1> QED BY <1>1, <1>6, <1>7, <1>9, <1>12 DEF i, f, s

(* RefreshDelete: what it deletes is too old to be remembered; a wrong     *)
(* prev was left where three stations were.                                *)
LEMMA RefreshDeleteInv == IInv /\ RefreshDelete => IInv'
<1> SUFFICES ASSUME IInv, RefreshDelete
             PROVE  IInv'
  OBVIOUS
<1> DEFINE s == entry[sweep]
           i == Place(s, s[FirstAged(s, current)].mac_addr)
           t == Deleted(s, i)
<1>1. /\ Refreshing /\ AgedPlaces(s, current) # {}
      /\ \/ entry' = [entry EXCEPT ![sweep] = t] /\ UNCHANGED failed
         \/ ~ (IsFirst(s, i) \/ IsBehind(s, i)) /\ failed' = "astray" /\ UNCHANGED entry
      /\ frame' = None /\ sent' = {}
      /\ UNCHANGED <<now, ref_last, current, sweep, seen, heard>>
  BY DEF RefreshDelete, NoFrame
<1>2. /\ sweep \in Bucket /\ i \in 1 .. Len(s)
      /\ s[i].mac_addr # Zero /\ s[i].last_time + MAC_TABLE_AGING_TIME < now
  BY <1>1, PlaceAged
<1>3. /\ BucketInv(sweep, s, seen, heard, now)
      /\ s \in Seq(Entry) /\ Len(s) \in Nat
  BY <1>2, TableBucket
<1>4. /\ seen \in [Mac -> Port \cup {None}] /\ heard \in [Mac -> 0 .. MaxTime]
      /\ now \in 0 .. MaxTime /\ entry \in [Bucket -> Seq(Entry)]
  BY DEF IInv, Typed, Table
<1>5. CASE entry' = [entry EXCEPT ![sweep] = t] /\ UNCHANGED failed
  <2> HIDE DEF i
  <2>1. BucketInv(sweep, t, seen, heard, now)
    BY <1>2, <1>3, <1>4, DeleteBucketInv
  <2>2. t \in Seq(Entry)
    BY <2>1 DEF BucketInv, BucketOf
  <2>3. entry' \in [Bucket -> Seq(Entry)] /\ \A b \in Bucket : entry'[b] = IF b = sweep THEN t ELSE entry[b]
    BY <1>2, <1>4, <1>5, <2>2
  <2>4. Table(entry', seen', heard', now')
    BY <1>1, <2>1, <2>3, TableBucket DEF Table
  <2>5. Typed'
    BY <1>1, <1>5 DEF IInv, Typed
  <2>6. Sweeping'
    <3>1. current <= now /\ \A b \in 0 .. sweep - 1 : AgedPlaces(entry[b], current) = {}
      BY <1>1 DEF IInv, Sweeping
    <3>2. \A b \in 0 .. sweep - 1 : AgedPlaces(entry'[b], current) = {}
      <4>1. \A b \in 0 .. sweep - 1 : b \in Bucket /\ b # sweep
        BY <1>2, TableAssumption DEF Bucket
      <4> QED BY <4>1, <3>1, <2>3
    <3>3. \A b \in Bucket : \A j \in 1 .. Len(entry[b]) :
            entry[b][j].mac_addr # Zero => entry[b][j].last_time <= current
      BY <1>1 DEF IInv, Sweeping
    <3>4. \A j \in 1 .. Len(t) : t[j].mac_addr # Zero => t[j].last_time <= current
      <4>1. BucketOf(sweep, s)
        BY <1>3 DEF BucketInv
      <4>2. CASE Len(s) = 1 /\ t = <<EmptyEntry>>
        <5>1. \A j \in 1 .. Len(<<EmptyEntry>>) : <<EmptyEntry>>[j].mac_addr = Zero
          BY DEF EmptyEntry
        <5> QED BY <4>2, <5>1
      <4>3. CASE /\ Len(t) = Len(s) - 1
                 /\ \A j \in 1 .. Len(s) - 1 :
                      /\ t[j].mac_addr  = s[Before(j, i)].mac_addr
                      /\ t[j].last_time = s[Before(j, i)].last_time
        <5>1. \A j \in 1 .. Len(s) - 1 : Before(j, i) \in 1 .. Len(s)
          BY <1>2, <1>3 DEF Before
        <5>2. \A j \in 1 .. Len(s) : s[j].mac_addr # Zero => s[j].last_time <= current
          BY <3>3, <1>2
        <5> HIDE DEF s, t
        <5> QED BY <5>1, <5>2, <4>3
      <4> HIDE DEF s
      <4>4. \/ Len(s) = 1 /\ t = <<EmptyEntry>>
            \/ /\ Len(t) = Len(s) - 1
               /\ \A j \in 1 .. Len(s) - 1 :
                    /\ t[j].mac_addr  = s[Before(j, i)].mac_addr
                    /\ t[j].last_time = s[Before(j, i)].last_time
        BY <1>2, <4>1, DeletedElements
      <4> QED BY <4>2, <4>3, <4>4
    <3> HIDE DEF t
    <3>5. \A b \in Bucket : \A j \in 1 .. Len(entry'[b]) :
            entry'[b][j].mac_addr # Zero => entry'[b][j].last_time <= current
      BY <3>3, <3>4, <2>3
    <3> QED BY <1>1, <3>1, <3>2, <3>5 DEF Sweeping
  <2>7. NeverAstray'
    BY <1>1, <1>5 DEF Refreshing, Running, NeverAstray
  <2> QED BY <2>4, <2>5, <2>6, <2>7 DEF IInv
<1>6. CASE ~ (IsFirst(s, i) \/ IsBehind(s, i)) /\ failed' = "astray" /\ UNCHANGED entry
  <2>1. Typed' /\ Table(entry', seen', heard', now')
    BY <1>1, <1>6 DEF IInv, Typed
  <2>2. Sweeping'
    BY <1>6 DEF Sweeping, Refreshing, Running
  <2> HIDE DEF s, i
  <2>3. ~ Ordered(s)
    <3>1. BucketOf(sweep, s)
      BY <1>3 DEF BucketInv
    <3>2. i # 1
      BY <3>1, <1>2, <1>6 DEF IsFirst, BucketOf
    <3>3. i \in 2 .. Len(s)
      BY <3>2, <1>2, <1>3
    <3> QED BY <3>3, <1>6 DEF IsBehind, Ordered
  <2>4. Crowded(sweep, seen)
    BY <2>3, <1>3 DEF BucketInv
  <2>5. NeverAstray'
    BY <2>4, <1>1, <1>2 DEF NeverAstray, Crowded, Seen
  <2> QED BY <2>1, <2>2, <2>5 DEF IInv
<1> HIDE DEF s, i, t
<1> QED BY <1>1, <1>5, <1>6

(* RefreshNext: a bucket is left when nothing old is in it.                *)
LEMMA RefreshNextInv == IInv /\ RefreshNext => IInv'
<1> SUFFICES ASSUME IInv, RefreshNext
             PROVE  IInv'
  OBVIOUS
<1>1. /\ Refreshing /\ AgedPlaces(entry[sweep], current) = {}
      /\ sweep' = sweep + 1 /\ ref_last' \in {now, ref_last}
      /\ frame' = None /\ sent' = {}
      /\ UNCHANGED <<entry, now, current, failed, seen, heard>>
  BY DEF RefreshNext, NoFrame
<1>2. sweep \in 0 .. HASH_SIZE - 1 /\ HASH_SIZE \in Nat
  BY <1>1, TableAssumption DEF Refreshing, IInv, Typed
<1>3. Typed'
  BY <1>1, <1>2 DEF IInv, Typed
<1>4. Table(entry', seen', heard', now')
  BY <1>1 DEF IInv
<1>5. Sweeping'
  <2>1. /\ current <= now
        /\ \A b \in Bucket : \A j \in 1 .. Len(entry[b]) :
              entry[b][j].mac_addr # Zero => entry[b][j].last_time <= current
        /\ \A b \in 0 .. sweep - 1 : AgedPlaces(entry[b], current) = {}
    BY <1>1 DEF IInv, Sweeping
  <2>2. \A b \in 0 .. sweep' - 1 : b = sweep \/ b \in 0 .. sweep - 1
    BY <1>1, <1>2
  <2> QED BY <2>1, <2>2, <1>1 DEF Sweeping
<1>6. NeverAstray'
  BY <1>1 DEF Refreshing, Running, NeverAstray
<1> QED BY <1>3, <1>4, <1>5, <1>6 DEF IInv

(* Tick: what was true of the table stays so.                              *)
LEMMA TickInv == IInv /\ Tick => IInv'
<1> SUFFICES ASSUME IInv, Tick
             PROVE  IInv'
  OBVIOUS
<1>1. /\ Running /\ now' = now + 1 /\ now < MaxTime /\ frame' = None /\ sent' = {}
      /\ UNCHANGED <<entry, ref_last, current, sweep, failed, seen, heard>>
  BY DEF Tick, NoFrame
<1>2. now \in 0 .. MaxTime /\ MaxTime \in Nat /\ MAC_TABLE_AGING_TIME \in Nat
  BY TimeAssumption DEF IInv, Typed
<1>3. heard \in [Mac -> 0 .. MaxTime] /\ \A k \in Mac : heard[k] <= now
  BY DEF IInv, Typed
<1>4. Typed'
  <2>1. now' \in 0 .. MaxTime /\ \A k \in Mac : heard[k] <= now'
    BY <1>1, <1>2, <1>3
  <2> QED BY <1>1, <2>1 DEF IInv, Typed
<1>5. ASSUME NEW b \in Bucket
      PROVE  BucketInv(b, entry[b], seen, heard, now')
  <2>1. /\ BucketInv(b, entry[b], seen, heard, now)
        /\ \A j \in 1 .. Len(entry[b]) : entry[b][j] \in Entry
    BY TableBucket
  <2>2. TrueOf(entry[b], seen, heard, now')
    <3>1. \A j \in 1 .. Len(entry[b]) : entry[b][j].last_time \in Nat
      BY <2>1 DEF Entry
    <3>2. \A x \in Nat : x <= now => x <= now'
      BY <1>1, <1>2
    <3>3. TrueOf(entry[b], seen, heard, now)
      BY <2>1 DEF BucketInv
    <3> QED BY <3>1, <3>2, <3>3 DEF TrueOf
  <2>3. \A k \in Mac : hash8(k) = b /\ seen[k] # None /\ now' <= heard[k] + MAC_TABLE_AGING_TIME =>
           Knows(entry[b], k)
    <3>1. \A k \in Mac : now' <= heard[k] + MAC_TABLE_AGING_TIME => now <= heard[k] + MAC_TABLE_AGING_TIME
      BY <1>1, <1>2, <1>3
    <3> QED BY <3>1, <2>1 DEF BucketInv
  <2> QED BY <2>1, <2>2, <2>3 DEF BucketInv
<1>6. Table(entry', seen', heard', now')
  BY <1>1, <1>5 DEF IInv, Table
<1>7. Sweeping'
  <2>1. Refreshing => current <= now'
    BY <1>1, <1>2 DEF IInv, Typed, Sweeping
  <2> QED BY <1>1, <2>1 DEF IInv, Sweeping, Refreshing, Running
<1>8. NeverAstray'
  BY <1>1 DEF Running, NeverAstray
<1> QED BY <1>4, <1>6, <1>7, <1>8 DEF IInv

(* Every step keeps the invariant.                                         *)
LEMMA NextInv == IInv /\ [Next]_vars => IInv'
<1> SUFFICES ASSUME IInv, [Next]_vars
             PROVE  IInv'
  OBVIOUS
<1>1. CASE \E i \in Port, src \in Mac, dst \in Mac \cup {Broadcast} : Receive(i, src, dst)
  BY <1>1, ReceiveInv
<1>2. CASE StartRefresh
  BY <1>2, StartRefreshInv
<1>3. CASE RefreshDelete
  BY <1>3, RefreshDeleteInv
<1>4. CASE RefreshNext
  BY <1>4, RefreshNextInv
<1>5. CASE Tick
  BY <1>5, TickInv
<1>6. CASE UNCHANGED vars
  BY <1>6 DEF vars, IInv, Typed, Sweeping, Refreshing, Running, NeverAstray
<1> QED BY <1>1, <1>2, <1>3, <1>4, <1>5, <1>6 DEF Next

-----------------------------------------------------------------------------
(* Theorems                                                                *)

(* The invariant holds in every reachable state.                           *)
THEOREM Invariant == Spec => []IInv
<1> QED BY InitInv, NextInv, PTL DEF Spec

(* Every variable keeps its shape, and no bucket is ever without its head. *)
THEOREM TypeCorrect == Spec => []TypeOK
<1>1. IInv => TypeOK
  <2> SUFFICES ASSUME IInv
               PROVE  TypeOK
    OBVIOUS
  <2>1. entry \in [Bucket -> Seq(Entry)]
    BY DEF IInv, Table
  <2>2. \A b \in Bucket : entry[b] # <<>>
    BY TableBucket DEF BucketInv, BucketOf
  <2> QED BY <2>1, <2>2 DEF IInv, Typed, TypeOK
<1> QED BY <1>1, Invariant, PTL

(* Every entry but an empty head is a station's, in its bucket, once, and  *)
(* says where the station was last heard: update_mac_table() never leaves  *)
(* two entries of an address or an entry that is out of date, and          *)
(* delete_mac_entry() does not mix entries up.                             *)
THEOREM TellsTruth == Spec => []EntriesTrue
<1>1. IInv => EntriesTrue
  <2> SUFFICES ASSUME IInv, NEW b \in Bucket, NEW i \in DOMAIN entry[b], NEW j \in DOMAIN entry[b]
               PROVE  LET k == entry[b][i].mac_addr IN
                      /\ k = Zero => i = 1 /\ Single(entry[b])
                      /\ k # Zero => /\ hash8(k) = b
                                     /\ entry[b][j].mac_addr = k => i = j
                                     /\ seen[k] # None
                                     /\ entry[b][i].netif_index = IfIndex[seen[k]] % UInt8
    BY DEF EntriesTrue
  <2>1. BucketInv(b, entry[b], seen, heard, now)
    BY TableBucket
  <2>2. i \in 1 .. Len(entry[b]) /\ j \in 1 .. Len(entry[b])
    BY TableBucket, LenProperties
  <2>3. Len(entry[b]) = 1 => i = 1
    BY <2>2
  <2> QED BY <2>1, <2>2, <2>3 DEF BucketInv, BucketOf, TrueOf, Single
<1> QED BY <1>1, Invariant, PTL

(* A station heard no longer than the ageing time ago is in the table,     *)
(* whatever the refreshes deleted around it.                               *)
THEOREM StationsRemembered == Spec => []Remembers
<1>1. IInv => Remembers
  <2> SUFFICES ASSUME IInv, NEW k \in Mac, seen[k] # None, now - heard[k] <= MAC_TABLE_AGING_TIME
               PROVE  Known(k)
    BY DEF Remembers
  <2> DEFINE b == hash8(k)
  <2>1. b \in Bucket
    BY HashInBucket
  <2>2. BucketInv(b, entry[b], seen, heard, now) /\ entry[b] \in Seq(Entry)
    BY <2>1, TableBucket
  <2>3. now <= heard[k] + MAC_TABLE_AGING_TIME
    <3>1. now \in 0 .. MaxTime /\ heard[k] \in 0 .. MaxTime
      BY DEF IInv, Typed
    <3> QED BY <3>1, TimeAssumption
  <2>4. Knows(entry[b], k)
    BY <2>2, <2>3 DEF BucketInv
  <2> QED BY <2>2, <2>4, KnowsIsPlaces DEF Known
<1> QED BY <1>1, Invariant, PTL

(* A refresh deletes through a wrong prev only where three stations of one *)
(* bucket were heard: up to two, the pointers are right.                   *)
THEOREM AstrayOnlyCrowded == Spec => []NeverAstray
<1>1. IInv => NeverAstray
  BY DEF IInv
<1> QED BY <1>1, Invariant, PTL

(* A refresh ends with nothing in the table that was too old at its start. *)
THEOREM RefreshesFully == Spec => LeavesFresh
<1>1. IInv /\ [Next]_vars =>
        [sweep' = HASH_SIZE /\ sweep # HASH_SIZE =>
           \A b \in Bucket : AgedPlaces(entry'[b], current) = {}]_vars
  <2> SUFFICES ASSUME IInv, Next, sweep' = HASH_SIZE, sweep # HASH_SIZE, NEW b \in Bucket
               PROVE  AgedPlaces(entry'[b], current) = {}
    BY DEF vars
  <2>1. RefreshNext
    <3>1. ASSUME NEW i \in Port, NEW src \in Mac, NEW dst \in Mac \cup {Broadcast}, Receive(i, src, dst)
          PROVE  FALSE
      BY <3>1 DEF Receive, Polling
    <3>2. CASE StartRefresh
      BY <3>2 DEF StartRefresh, Polling
    <3>3. CASE RefreshDelete
      BY <3>3 DEF RefreshDelete
    <3>4. CASE Tick
      BY <3>4 DEF Tick
    <3> QED BY <3>1, <3>2, <3>3, <3>4 DEF Next
  <2>2. /\ Refreshing /\ sweep' = sweep + 1 /\ UNCHANGED entry
        /\ AgedPlaces(entry[sweep], current) = {}
    BY <2>1 DEF RefreshNext
  <2>3. \A c \in 0 .. sweep - 1 : AgedPlaces(entry[c], current) = {}
    BY <2>2 DEF IInv, Sweeping
  <2>4. b = sweep \/ b \in 0 .. sweep - 1
    BY <2>2, TableAssumption DEF IInv, Typed, Bucket
  <2> QED BY <2>2, <2>3, <2>4
<1> QED BY <1>1, Invariant, PTL DEF Spec, LeavesFresh

-----------------------------------------------------------------------------
(* Delivery                                                                *)

(* What eight bits of an index tell: the interface, if the index fits in   *)
(* them, and another one or none if it does not.                           *)
THEOREM ReachedRight ==
  \A p \in Port : IF IfIndex[p] < UInt8 THEN Reached(p) = {p} ELSE p \notin Reached(p)
<1> SUFFICES ASSUME NEW p \in Port
             PROVE  IF IfIndex[p] < UInt8 THEN Reached(p) = {p} ELSE p \notin Reached(p)
  OBVIOUS
<1>1. IfIndex[p] \in Nat /\ UInt8 \in Nat \ {0}
  BY PortAssumption, TimeAssumption
<1>2. CASE IfIndex[p] < UInt8
  <2>1. IfIndex[p] % UInt8 = IfIndex[p]
    BY <1>1, <1>2, ModBelow
  <2> QED BY <2>1, <1>2, PortAssumption DEF Reached
<1>3. CASE ~ IfIndex[p] < UInt8
  <2>1. IfIndex[p] % UInt8 \in 0 .. UInt8 - 1
    BY <1>1
  <2>2. IfIndex[p] % UInt8 # IfIndex[p]
    BY <2>1, <1>1, <1>3
  <2> QED BY <2>2, <1>3 DEF Reached
<1> QED BY <1>2, <1>3

(* A frame that is read is sent right.                                     *)
LEMMA ReceiveDelivers ==
  ASSUME IInv, NEW i \in Port, NEW src \in Mac, NEW dst \in Mac \cup {Broadcast}, Receive(i, src, dst)
  PROVE  Delivers'
<1> DEFINE sn == [seen EXCEPT ![src] = i]
           hd == [heard EXCEPT ![src] = now]
           b  == hash8(dst)
<1>1. /\ frame' = [port |-> i, src |-> src, dst |-> dst]
      /\ seen' = sn
  BY DEF Receive, Spread, Flood, Forward, Fault, Hears
<1>2. frame'.dst = dst /\ frame'.port = i
  BY <1>1
<1>3. CASE dst = Broadcast
  BY <1>2, <1>3 DEF Receive, Spread, Delivers
<1>4. CASE dst # Broadcast /\ Flood(i, src, dst)
  <2>1. PICK t \in Learned(i, src) : Misses(t[b], dst) /\ entry' = t
    BY <1>4 DEF Flood
  <2>2. dst \in Mac /\ b \in Bucket /\ dst # Zero
    BY <1>4, HashInBucket, TableAssumption
  <2>3. t[b] \in Seq(Entry)
    BY <2>2, LearnedTable DEF Table
  <2>4. Places(t[b], dst) = {}
    <3>1. CASE Empty(t[b])
      BY <3>1, <2>2, <2>3, LenProperties DEF Empty, Single, Places
    <3> QED BY <3>1, <2>1 DEF Misses
  <2>5. ~ Known(dst)'
    BY <2>1, <2>4 DEF Known
  <2>6. sent' = Port \ {i}
    BY <1>4 DEF Flood
  <2> QED BY <1>2, <2>5, <2>6 DEF Delivers
<1>5. CASE dst # Broadcast /\ Forward(i, src, dst)
  <2>1. PICK t \in Learned(i, src) :
          /\ Hits(t[b], dst)
          /\ entry' = [t EXCEPT ![b][Place(t[b], dst)].last_time = now]
          /\ sent' = PortOf(t[b][Place(t[b], dst)])
    BY <1>5 DEF Forward
  <2>2. dst \in Mac /\ b \in Bucket /\ dst # Zero
    BY <1>5, HashInBucket, TableAssumption
  <2>3. Table(t, sn, hd, now)
    BY LearnedTable
  <2> DEFINE s == t[b]
             p == Place(s, dst)
  <2> HIDE DEF sn, hd, b
  <2>4. BucketInv(b, s, sn, hd, now) /\ s \in Seq(Entry) /\ t \in [Bucket -> Seq(Entry)]
    BY <2>2, <2>3 DEF Table
  <2>5. p \in 1 .. Len(s) /\ s[p].mac_addr = dst
    BY <2>1, <2>4, PlaceFound DEF Hits
  <2>6. s[p].netif_index = IfIndex[sn[dst]] % UInt8
    BY <2>2, <2>4, <2>5 DEF BucketInv, TrueOf
  <2>7. PortOf(s[p]) = Reached(sn[dst])
    <3> HIDE DEF p, s
    <3> QED BY <2>6 DEF PortOf, Reached
  <2>8. sent' = Reached(seen'[dst])
    BY <2>1, <2>7, <1>1
  <2>9. Known(dst)'
    <3> DEFINE u == [s EXCEPT ![p].last_time = now]
               e == [s[p] EXCEPT !.last_time = now]
    <3>1. entry'[b] = u
      BY <2>1, <2>2, <2>4
    <3>2. u = [s EXCEPT ![p] = e]
      OBVIOUS
    <3>3. e \in Entry /\ e.mac_addr = dst
      <4>1. s[p] \in Entry /\ now \in 0 .. MaxTime
        BY <2>4, <2>5, ElementOfSeq DEF IInv, Typed
      <4> QED BY <4>1, <2>5 DEF Entry
    <3> HIDE DEF e, u, s, p
    <3>4. u \in Seq(Entry) /\ Len(u) = Len(s) /\ u[p] = e
      BY <3>2, <3>3, <2>4, <2>5, ExceptSeq
    <3>5. Knows(u, dst)
      BY <3>3, <3>4, <2>5 DEF Knows
    <3>6. Places(u, dst) # {}
      BY <3>4, <3>5, KnowsIsPlaces
    <3> QED BY <3>1, <3>6 DEF Known, b
  <2> QED BY <1>2, <1>5, <2>8, <2>9 DEF Delivers
<1>6. CASE dst # Broadcast /\ Fault(i, src, dst)
  BY <1>6 DEF Fault, Delivers, Running
<1> QED BY <1>3, <1>4, <1>5, <1>6 DEF Receive

(* A frame for a station in the table goes to the interface that eight     *)
(* bits of the index of the station's port tell, any other frame to all    *)
(* ports but its own, unless the switch dies of it.  With ReachedRight:    *)
(* to the port where the station was last heard and nowhere else if its    *)
(* index is below 256, and never there if it is not.                       *)
THEOREM DeliversRight == Spec => []Delivers
<1>1. Init => Delivers
  BY DEF Init, Delivers
<1>2. IInv /\ Delivers /\ [Next]_vars => Delivers'
  <2> SUFFICES ASSUME IInv, Delivers, [Next]_vars
               PROVE  Delivers'
    OBVIOUS
  <2>1. CASE \E i \in Port, src \in Mac, dst \in Mac \cup {Broadcast} : Receive(i, src, dst)
    BY <2>1, ReceiveDelivers
  <2>2. CASE StartRefresh \/ RefreshDelete \/ RefreshNext \/ Tick
    <3>1. frame' = None
      BY <2>2 DEF StartRefresh, RefreshDelete, RefreshNext, Tick, NoFrame
    <3> QED BY <3>1 DEF Delivers
  <2>3. CASE UNCHANGED vars
    BY <2>3 DEF vars, Delivers, Running, Known
  <2> QED BY <2>1, <2>2, <2>3 DEF Next
<1> QED BY <1>1, <1>2, Invariant, PTL DEF Spec

-----------------------------------------------------------------------------
(* Progress of a refresh                                                   *)

(* Deleting an old entry leaves one less of them.                          *)
LEMMA FewerAged ==
  ASSUME NEW b, NEW s, BucketOf(b, s), NEW i \in 1 .. Len(s), NEW time,
         i \in AgedPlaces(s, time)
  PROVE  /\ Cardinality(AgedPlaces(Deleted(s, i), time)) < Cardinality(AgedPlaces(s, time))
         /\ Len(Deleted(s, i)) <= Len(s)
<1> DEFINE t == Deleted(s, i)
           S == AgedPlaces(s, time)
           T == AgedPlaces(t, time)
           R == S \ {i}
<1>1. s \in Seq(Entry) /\ Len(s) \in Nat /\ DOMAIN s = 1 .. Len(s)
  BY LenProperties DEF BucketOf
<1>2. IsFiniteSet(S)
  <2>1. S \in SUBSET (1 .. Len(s)) /\ 1 \in Int /\ Len(s) \in Int
    BY <1>1 DEF AgedPlaces
  <2>2. IsFiniteSet(1 .. Len(s))
    BY <2>1, FS_Interval
  <2> HIDE DEF S
  <2> QED BY <2>1, <2>2, FS_Subset
<1> HIDE DEF S
<1>3. /\ IsFiniteSet(R) /\ Cardinality(R) = Cardinality(S) - 1
      /\ Cardinality(S) \in Nat /\ Cardinality(S) > 0
  <2>1. Cardinality(S) \in Nat /\ Cardinality(S) # 0
    BY <1>2, FS_CardinalityType, FS_EmptySet DEF S
  <2> QED BY <2>1, <1>2, FS_RemoveElement DEF S
<1>4. CASE Len(s) = 1 /\ t = <<EmptyEntry>>
  <2>1. T = {}
    <3>1. EmptyEntry.mac_addr = Zero
      BY DEF EmptyEntry
    <3> QED BY <3>1, <1>4 DEF AgedPlaces, Aged
  <2>2. Cardinality(T) = 0
    BY <2>1, FS_EmptySet
  <2>3. Len(<<EmptyEntry>>) = 1
    OBVIOUS
  <2> HIDE DEF T, t
  <2> QED BY <2>2, <2>3, <1>3, <1>4 DEF S, T, t
<1>5. CASE /\ t \in Seq(Entry) /\ Len(t) = Len(s) - 1
           /\ \A j \in 1 .. Len(s) - 1 :
                /\ t[j].mac_addr  = s[Before(j, i)].mac_addr
                /\ t[j].last_time = s[Before(j, i)].last_time
  <2> HIDE DEF t
  <2>1. DOMAIN t = 1 .. Len(s) - 1
    BY <1>5, LenProperties
  <2>2. \A j \in T : Before(j, i) \in R
    <3> SUFFICES ASSUME NEW j \in T
                 PROVE  Before(j, i) \in R
      OBVIOUS
    <3>1. j \in 1 .. Len(s) - 1 /\ Aged(t[j], time)
      BY <2>1 DEF AgedPlaces
    <3>2. Before(j, i) \in 1 .. Len(s) /\ Before(j, i) # i
      BY <3>1, <1>1 DEF Before
    <3>3. Aged(s[Before(j, i)], time)
      BY <3>1, <1>5 DEF Aged
    <3> QED BY <3>2, <3>3, <1>1 DEF AgedPlaces, S
  <2> DEFINE F == [j \in T |-> Before(j, i)]
  <2>3. F \in [T -> R]
    BY <2>2
  <2>4. \A j, l \in T : F[j] = F[l] => j = l
    <3>1. T \subseteq 1 .. Len(s) - 1
      BY <2>1 DEF AgedPlaces
    <3> HIDE DEF T
    <3>2. \A j, l \in T : Before(j, i) = Before(l, i) => j = l
      BY <3>1, <1>1 DEF Before
    <3> QED BY <3>2
  <2> HIDE DEF F, T, R
  <2>5. F \in Injection(T, R)
    BY <2>3, <2>4, Fun_IsInj
  <2>6. IsFiniteSet(T) /\ Cardinality(T) <= Cardinality(R)
    BY <2>5, <1>3, FS_Injection
  <2>7. Cardinality(T) \in Nat
    BY <2>6, FS_CardinalityType
  <2>8. Cardinality(T) < Cardinality(S)
    BY <2>6, <2>7, <1>3
  <2>9. Len(t) <= Len(s)
    BY <1>1, <1>5
  <2> QED BY <2>8, <2>9 DEF S, T, t
<1> HIDE DEF T, R, t
<1>6. \/ Len(s) = 1 /\ t = <<EmptyEntry>>
      \/ /\ t \in Seq(Entry) /\ Len(t) = Len(s) - 1
         /\ \A j \in 1 .. Len(s) - 1 :
              /\ t[j].mac_addr  = s[Before(j, i)].mac_addr
              /\ t[j].last_time = s[Before(j, i)].last_time
  BY DeletedElements DEF t
<1> QED BY <1>4, <1>5, <1>6

(* Each delete of a refresh leaves an old entry less and no bucket longer: *)
(* starting again from the head after every delete comes to an end.        *)
THEOREM RefreshAdvances == Spec => RefreshProgresses
<1>1. IInv /\ [Next]_vars =>
        [RefreshDelete /\ Running' =>
           /\ Cardinality(AgedPlaces(entry'[sweep], current)) < Cardinality(AgedPlaces(entry[sweep], current))
           /\ Len(entry'[sweep]) <= Len(entry[sweep])]_vars
  <2> SUFFICES ASSUME IInv, RefreshDelete, Running'
               PROVE  /\ Cardinality(AgedPlaces(entry'[sweep], current)) < Cardinality(AgedPlaces(entry[sweep], current))
                      /\ Len(entry'[sweep]) <= Len(entry[sweep])
    OBVIOUS
  <2> DEFINE s == entry[sweep]
             i == Place(s, s[FirstAged(s, current)].mac_addr)
  <2>1. /\ Refreshing /\ AgedPlaces(s, current) # {}
        /\ entry' = [entry EXCEPT ![sweep] = Deleted(s, i)]
    BY DEF RefreshDelete, Running
  <2>2. sweep \in Bucket /\ i \in 1 .. Len(s) /\ i \in AgedPlaces(s, current)
    BY <2>1, PlaceAged
  <2>3. BucketOf(sweep, s)
    BY <2>2, TableBucket DEF BucketInv
  <2>4. entry'[sweep] = Deleted(s, i)
    BY <2>1, <2>2 DEF IInv, Table
  <2> HIDE DEF s, i
  <2> QED BY <2>2, <2>3, <2>4, FewerAged DEF s
<1> QED BY <1>1, Invariant, PTL DEF Spec, RefreshProgresses
=============================================================================
