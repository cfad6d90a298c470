-------------------------- MODULE CacheTableProofs --------------------------
(***************************************************************************)
(* Proofs about CacheTable.tla, for any keys, items, hash function, number *)
(* of buckets, heap and times.  The table's part of the invariant is that  *)
(* of HashMapProofs.                                                       *)
(***************************************************************************)
EXTENDS CacheTable, HashMapProofs

-----------------------------------------------------------------------------
(* The invariants *)

Clocks == {now, current} \subseteq 0 .. MaxTime /\ delete_all \in BOOLEAN

(* The list of a refresh(true) is what clear() has.                        *)
CacheInv == TypeOK /\ Table /\ Clocks /\ (delete_all => ClearList)

(* What a refresh is going to delete is in its list.                       *)
LeavingListed ==
  clearing /\ ~ corrupt =>
    \A k \in Present : Leaving(k) => \E j \in 1 .. Len(todo[hash(k)]) : todo[hash(k)][j] = k

-----------------------------------------------------------------------------
(* The values of a CacheTable                                              *)

(* An entry that is there is a CacheItem.                                  *)
LEMMA EntryIsItem ==
  ASSUME Table, NEW k \in Present
  PROVE  Entry(k) \in CacheItem
<1>1. k \in Key /\ isExist(k) /\ hash(k) \in Bucket
  BY HashInRange DEF Present
<1>2. Pos(k) \in 1 .. Len(chain[hash(k)])
  BY <1>1, PosFinds
<1>3. chain[hash(k)] \in Seq(Node)
  BY <1>1 DEF Table
<1>4. chain[hash(k)][Pos(k)] \in Node
  BY <1>2, <1>3, ElementOfSeq
<1> QED BY <1>4, CacheItemAssumption DEF Node, Entry

(* What update() puts there is one.                                        *)
LEMMA ItemOf ==
  ASSUME Clocks, NEW k, NEW v \in Item, NEW p \in BOOLEAN
  PROVE  [item |-> v, persistent |-> ~ isExist(k) /\ p, last_ref |-> now] \in Value
BY CacheItemAssumption DEF CacheItem, Clocks, isExist

(* current - last_ref wraps for an entry that is ahead of the clock, and    *)
(* then comes out far above age_out.                                       *)
LEMMA ElapsedSince ==
  ASSUME NEW c \in CacheItem, NEW t \in 0 .. MaxTime
  PROVE  Expired(c, t) <=> ~ c.persistent /\ (c.last_ref + age_out < t \/ t < c.last_ref)
<1>1. c.last_ref \in 0 .. MaxTime /\ MaxTime \in Nat /\ age_out \in Nat /\ UInt64 \in Nat /\ UInt64 > MaxTime + age_out
  BY ClockAssumption DEF CacheItem
<1>2. CASE c.last_ref <= t
  <2>1. t - c.last_ref \in 0 .. UInt64 - 1
    BY <1>1, <1>2
  <2>2. t + UInt64 - c.last_ref = (t - c.last_ref) + UInt64
    BY <1>1
  <2>3. ((t - c.last_ref) + UInt64) % UInt64 = t - c.last_ref
    BY <1>1, <2>1, ModWrapped
  <2>4. Elapsed(t, c.last_ref) = t - c.last_ref
    BY <2>2, <2>3 DEF Elapsed
  <2> QED BY <1>1, <1>2, <2>4 DEF Expired
<1>3. CASE t < c.last_ref
  <2>1. t + UInt64 - c.last_ref \in 0 .. UInt64 - 1
    BY <1>1, <1>3
  <2>2. (t + UInt64 - c.last_ref) % UInt64 = t + UInt64 - c.last_ref
    BY <1>1, <2>1
  <2>3. Elapsed(t, c.last_ref) = t + UInt64 - c.last_ref
    BY <2>2 DEF Elapsed
  <2>4. t + UInt64 - c.last_ref > age_out
    BY <1>1
  <2> QED BY <1>1, <1>3, <2>3, <2>4 DEF Expired
<1> QED BY <1>1, <1>2, <1>3

(* The key a refresh comes to, and its list without it.                    *)
LEMMA NextOfList ==
  ASSUME TypeOK, NEW b \in Bucket, RefreshDel(b)
  PROVE  /\ Head(todo[b]) \in Key /\ Head(todo[b]) = todo[b][1]
         /\ Len(todo[b]) \in Nat /\ Len(todo[b]) > 0
         /\ todo' \in [Bucket -> Seq(Key)]
         /\ Len(todo'[b]) = Len(todo[b]) - 1
         /\ \A j \in 1 .. Len(todo[b]) - 1 : todo'[b][j] = todo[b][j + 1]
         /\ \A c \in Bucket : c # b => todo'[c] = todo[c]
<1>1. todo[b] \in Seq(Key) /\ todo[b] # <<>> /\ todo' = [todo EXCEPT ![b] = Tail(todo[b])]
  BY DEF TypeOK, RefreshDel
<1>2. Len(todo[b]) \in Nat \ {0}
  BY <1>1, EmptySeq
<1>3. /\ Head(todo[b]) \in Key /\ Head(todo[b]) = todo[b][1]
      /\ Tail(todo[b]) \in Seq(Key) /\ Len(Tail(todo[b])) = Len(todo[b]) - 1
      /\ \A j \in 1 .. Len(todo[b]) - 1 : Tail(todo[b])[j] = todo[b][j + 1]
  BY <1>1, <1>2, HeadTailProperties, ElementOfSeq
<1>4. todo \in [Bucket -> Seq(Key)]
  BY DEF TypeOK
<1> QED BY <1>1, <1>2, <1>3, <1>4

-----------------------------------------------------------------------------
(* The table's invariant: up to answer, most steps are steps of HashMap    *)

(* A new table is empty, and so is its list.                               *)
LEMMA CacheInitInv == CacheInit => CacheInv
<1> SUFFICES ASSUME CacheInit
             PROVE  CacheInv
  OBVIOUS
<1>1. IInv
  BY InitInv DEF CacheInit
<1>2. Clocks
  <2>1. now = 0 /\ current = 0 /\ delete_all = FALSE
    BY DEF CacheInit
  <2>2. 0 \in 0 .. MaxTime
    BY ClockAssumption
  <2> QED BY <2>1, <2>2 DEF Clocks
<1> QED BY <1>1, <1>2 DEF IInv, CacheInv

(* Every step keeps it.  A refresh(true) deletes head after head, as       *)
(* clear() does, and so through no prev pointer.                           *)
LEMMA CacheNextInv == CacheInv /\ [CacheNext]_cvars => CacheInv'
<1> SUFFICES ASSUME CacheInv, [CacheNext]_cvars
             PROVE  CacheInv'
  OBVIOUS
<1>0. TypeOK /\ Table /\ Clocks /\ (delete_all => ClearList)
  BY DEF CacheInv
<1>1. ASSUME NEW k \in Key, NEW v \in Item, NEW p \in BOOLEAN, CacheUpdate(k, v, p)
      PROVE  CacheInv'
  <2> DEFINE e == [item |-> v, persistent |-> ~ isExist(k) /\ p, last_ref |-> now]
  <2>1. e \in Value
    BY <1>0, ItemOf
  <2>2. Update(k, e)
    BY <1>1 DEF CacheUpdate, Update
  <2> HIDE DEF e
  <2>3. IInv
    BY <1>0, <1>1 DEF CacheUpdate, Ready, ClearList, IInv
  <2>4. IInv'
    BY <2>1, <2>2, <2>3, NextInv DEF Next
  <2> QED BY <1>0, <1>1, <2>4 DEF CacheUpdate, IInv, CacheInv, Clocks
<1>2. ASSUME UNCHANGED <<chain, todo, clearing, corrupt>>, Clocks', UNCHANGED delete_all
      PROVE  CacheInv'
  BY <1>0, <1>2 DEF CacheInv, Table, Chains, Apart, TypeOK, ClearList, getKeys
<1>3. ASSUME NEW k \in Key, CacheGet(k)
      PROVE  CacheInv'
  BY <1>0, <1>2, <1>3 DEF CacheGet, Clocks
<1>4. ASSUME NEW all \in BOOLEAN, Refresh(all)
      PROVE  CacheInv'
  <2>1. Table'
    BY <1>0, <1>4 DEF Refresh, Table, Chains, Apart
  <2>2. todo' \in [Bucket -> Seq(Key)]
    BY <1>0, <1>4, KeysOfChain DEF Refresh
  <2>3. ClearList'
    BY <1>4 DEF Refresh, Ready, ClearList, getKeys
  <2>4. Clocks'
    BY <1>0, <1>4 DEF Refresh, Clocks
  <2>5. TypeOK'
    BY <1>0, <1>4, <2>2 DEF Refresh, TypeOK
  <2> QED BY <2>1, <2>3, <2>4, <2>5 DEF CacheInv
<1>5. ASSUME NEW b \in Bucket, RefreshDel(b)
      PROVE  CacheInv'
  <2>1. Clocks' /\ delete_all' = delete_all /\ clearing' = clearing
    BY <1>0, <1>5 DEF RefreshDel, Clocks
  <2>2. CASE delete_all
    <3>1. ClearDel(b)
      BY <1>5, <2>2 DEF RefreshDel, ClearDel
    <3>2. IInv
      BY <1>0, <2>2 DEF IInv
    <3>3. IInv'
      BY <3>1, <3>2, NextInv DEF Next
    <3> QED BY <2>1, <3>3 DEF IInv, CacheInv
  <2>3. CASE ~ delete_all
    <3>1. Head(todo[b]) \in Key /\ todo' \in [Bucket -> Seq(Key)]
      BY <1>0, <1>5, NextOfList
    <3>2. Table' /\ corrupt' \in BOOLEAN
      <4>1. CASE Unlink(Head(todo[b]))
        BY <1>0, <3>1, <4>1, UnlinkStep DEF TypeOK
      <4>2. CASE UNCHANGED <<chain, corrupt>>
        BY <1>0, <4>2 DEF Table, Chains, Apart, TypeOK
      <4> QED BY <1>5, <4>1, <4>2 DEF RefreshDel
    <3>3. TypeOK'
      BY <1>0, <2>1, <3>1, <3>2 DEF TypeOK, Table
    <3> QED BY <2>1, <2>3, <3>2, <3>3 DEF CacheInv
  <2> QED BY <2>2, <2>3
<1>6. CASE RefreshEnd
  <2>1. TypeOK' /\ Clocks' /\ ClearList'
    BY <1>0, <1>6 DEF RefreshEnd, TypeOK, Clocks, ClearList
  <2>2. Table'
    BY <1>0, <1>6 DEF RefreshEnd, Table, Chains, Apart
  <2> QED BY <2>1, <2>2 DEF CacheInv
<1>7. CASE Tick
  <2>1. now' \in 0 .. MaxTime
    BY <1>0, <1>7, ClockAssumption DEF Tick, Clocks
  <2> QED BY <1>0, <1>2, <1>7, <2>1 DEF Tick, Clocks
<1>8. CASE SetBack
  <2>1. now' \in 0 .. MaxTime
    BY <1>0, <1>8, ClockAssumption DEF SetBack, Clocks
  <2> QED BY <1>0, <1>2, <1>8, <2>1 DEF SetBack, Clocks
<1>9. CASE UNCHANGED cvars
  BY <1>0, <1>2, <1>9 DEF cvars, Clocks
<1> QED BY <1>1, <1>3, <1>4, <1>5, <1>6, <1>7, <1>8, <1>9 DEF CacheNext

(* The table stays one, whatever is cached, refreshed and when.            *)
THEOREM CacheInvariant == CacheSpec => []CacheInv
<1> QED BY CacheInitInv, CacheNextInv, PTL DEF CacheSpec

(* refresh(true), and with it the destructor, never deletes through a      *)
(* wrong prev, whatever calls went before and wherever the clock was set.  *)
THEOREM FlushIsSafe == CacheSpec => []FlushSafe
<1>1. CacheInv => FlushSafe
  BY DEF CacheInv, ClearList, FlushSafe
<1> QED BY <1>1, CacheInvariant, PTL

-----------------------------------------------------------------------------
(* What the steps do to the entries                                        *)

(* The invariant and, what follows from it, that a key is bound once.      *)
CacheShaped == CacheInv /\ MapShape

(* MapShape adds nothing to the invariant.                                 *)
LEMMA ShapeOfCache == CacheInv => CacheShaped
BY ShapeOfTable DEF CacheInv, CacheShaped

(* A step that leaves the chains alone leaves the entries alone.           *)
LEMMA EntriesStay ==
  ASSUME UNCHANGED chain
  PROVE  Present' = Present /\ \A k : Entry(k)' = Entry(k)
BY DEF Present, isExist, IsAt, Entry, Pos

(* update() sets one entry.                                                *)
LEMMA UpdatedEntry ==
  ASSUME CacheShaped, CacheShaped', NEW k \in Key, NEW v \in Item, NEW p \in BOOLEAN, CacheUpdate(k, v, p)
  PROVE  LET e == [item |-> v, persistent |-> ~ isExist(k) /\ p, last_ref |-> now] IN
         /\ Present' = Present \cup {k}
         /\ \A l \in Present' : Entry(l)' = IF l = k THEN e ELSE Entry(l)
<1> DEFINE e == [item |-> v, persistent |-> ~ isExist(k) /\ p, last_ref |-> now]
<1>1. e \in Value
  BY ItemOf DEF CacheShaped, CacheInv
<1>2. Store(k, e)
  BY DEF CacheUpdate
<1> HIDE DEF e
<1>3. /\ Present' = Present \cup {k}
      /\ \A l \in Present' : chain'[hash(l)][Pos(l)'].obj = IF l = k THEN e ELSE chain[hash(l)][Pos(l)].obj
  <2>1. Table /\ MapShape /\ MapShape'
    BY DEF CacheShaped, CacheInv
  <2> QED BY <1>1, <1>2, <2>1, StoreObjects
<1> QED BY <1>3 DEF e, Entry

(* A step of the loop of refresh() deletes the key it comes to if that is  *)
(* too old, or all are to go; it touches no other entry.                   *)
LEMMA RefreshedEntry ==
  ASSUME CacheShaped, CacheShaped', NEW b \in Bucket, RefreshDel(b), ~ corrupt'
  PROVE  LET k == Head(todo[b]) IN
         /\ Present' = IF Leaving(k) THEN Present \ {k} ELSE Present
         /\ \A l \in Present' : Entry(l)' = Entry(l)
<1> DEFINE k == Head(todo[b])
<1>1. k \in Key
  BY NextOfList DEF CacheShaped, CacheInv
<1>2. /\ clearing
      /\ Leaving(k) => Unlink(k)
      /\ ~ Leaving(k) => UNCHANGED <<chain, corrupt>>
  BY DEF RefreshDel, Leaving
<1> HIDE DEF k
<1>3. CASE Leaving(k)
  <2>1. Table /\ MapShape /\ MapShape'
    BY DEF CacheShaped, CacheInv
  <2>2. /\ Present' = Present \ {k}
        /\ \A l \in Present' : chain'[hash(l)][Pos(l)'].obj = chain[hash(l)][Pos(l)].obj
    BY <1>1, <1>2, <1>3, <2>1, UnlinkObjects
  <2> QED BY <1>3, <2>2 DEF Entry, k
<1>4. CASE ~ Leaving(k)
  BY <1>2, <1>4, EntriesStay DEF k
<1> QED BY <1>3, <1>4

-----------------------------------------------------------------------------
(* The list of a refresh                                                   *)

(* What refresh() has still to delete is in its list.                      *)
LEMMA ListedStep == CacheShaped /\ CacheShaped' /\ LeavingListed /\ [CacheNext]_cvars => LeavingListed'
<1> SUFFICES ASSUME CacheShaped, CacheShaped', LeavingListed, [CacheNext]_cvars, clearing', ~ corrupt'
             PROVE  \A k \in Present' : Leaving(k)' => \E j \in 1 .. Len(todo'[hash(k)]) : todo'[hash(k)][j] = k
  BY DEF LeavingListed
<1>1. ASSUME UNCHANGED <<chain, todo, clearing, corrupt, current, delete_all>>
      PROVE  \A k \in Present' : Leaving(k)' => \E j \in 1 .. Len(todo'[hash(k)]) : todo'[hash(k)][j] = k
  <2>1. Present' = Present /\ \A k : Entry(k)' = Entry(k)
    BY <1>1, EntriesStay
  <2>2. \A k : Leaving(k)' = Leaving(k)
    BY <1>1, <2>1 DEF Leaving
  <2> QED BY <1>1, <2>1, <2>2 DEF LeavingListed
<1>2. ASSUME NEW all \in BOOLEAN, Refresh(all), NEW k \in Present'
      PROVE  \E j \in 1 .. Len(todo'[hash(k)]) : todo'[hash(k)][j] = k
  <2>1. UNCHANGED chain /\ todo' = [b \in Bucket |-> getKeys(b)]
    BY <1>2 DEF Refresh
  <2>2. k \in Present /\ k \in Key /\ hash(k) \in Bucket /\ isExist(k)
    BY <2>1, EntriesStay, HashInRange DEF Present
  <2>3. Pos(k) \in 1 .. Len(chain[hash(k)]) /\ chain[hash(k)][Pos(k)].key = k
    BY <2>2, PosFinds DEF CacheShaped, CacheInv
  <2>4. /\ Len(getKeys(hash(k))) = Len(chain[hash(k)])
        /\ getKeys(hash(k))[Pos(k)] = k
    BY <2>2, <2>3, KeysOfChain DEF CacheShaped, CacheInv
  <2>5. todo'[hash(k)] = getKeys(hash(k))
    BY <2>1, <2>2
  <2> QED BY <2>3, <2>4, <2>5
<1>3. ASSUME NEW b \in Bucket, RefreshDel(b), NEW k \in Present', Leaving(k)'
      PROVE  \E j \in 1 .. Len(todo'[hash(k)]) : todo'[hash(k)][j] = k
  <2> DEFINE h == Head(todo[b])
  <2>1. /\ h = todo[b][1] /\ Len(todo[b]) \in Nat
        /\ Len(todo'[b]) = Len(todo[b]) - 1
        /\ \A j \in 1 .. Len(todo[b]) - 1 : todo'[b][j] = todo[b][j + 1]
        /\ \A c \in Bucket : c # b => todo'[c] = todo[c]
    BY <1>3, NextOfList DEF CacheShaped, CacheInv
  <2>2. /\ Present' = IF Leaving(h) THEN Present \ {h} ELSE Present
        /\ \A l \in Present' : Entry(l)' = Entry(l)
    BY <1>3, RefreshedEntry
  <2> HIDE DEF h
  <2>3. clearing /\ ~ corrupt /\ UNCHANGED <<current, delete_all, clearing>>
    BY <1>3 DEF RefreshDel
  <2>4. Leaving(k) /\ k \in Present /\ k # h
    BY <1>3, <2>2, <2>3 DEF Leaving
  <2>5. k \in Key /\ hash(k) \in Bucket
    BY <2>4, HashInRange DEF Present
  <2>6. PICK j \in 1 .. Len(todo[hash(k)]) : todo[hash(k)][j] = k
    BY <2>3, <2>4 DEF LeavingListed
  <2>7. CASE hash(k) # b
    BY <2>1, <2>5, <2>6, <2>7
  <2>8. CASE hash(k) = b
    <3>1. j # 1
      BY <2>1, <2>4, <2>6, <2>8
    <3>2. j - 1 \in 1 .. Len(todo[b]) - 1 /\ (j - 1) + 1 = j
      BY <3>1, <2>1, <2>6, <2>8
    <3>3. todo'[b][j - 1] = k
      BY <3>2, <2>1, <2>6, <2>8
    <3> QED BY <3>2, <3>3, <2>1, <2>8
  <2> QED BY <2>7, <2>8
<1>4. CASE RefreshEnd
  BY <1>4 DEF RefreshEnd
<1>5. ASSUME NEW k \in Key, NEW v \in Item, NEW p \in BOOLEAN, CacheUpdate(k, v, p)
      PROVE  FALSE
  BY <1>5 DEF CacheUpdate, Ready
<1>6. CASE \/ \E k \in Key : CacheGet(k)
           \/ Tick \/ SetBack \/ UNCHANGED cvars
  BY <1>1, <1>6 DEF CacheGet, Tick, SetBack, cvars
<1> QED BY <1>2, <1>3, <1>4, <1>5, <1>6 DEF CacheNext

-----------------------------------------------------------------------------
(* The cache its users see                                                 *)

(* Nothing is leaving while no refresh is in its loop.                     *)
LEMMA IdleContents ==
  ASSUME ~ clearing
  PROVE  CacheContents = [k \in Present |-> Entry(k)]
BY DEF CacheContents, Leaving

(* A new table is an empty cache.                                          *)
LEMMA CacheStartsEmpty == CacheInit => Cached!Init
<1> SUFFICES ASSUME CacheInit
             PROVE  Cached!Init
  OBVIOUS
<1>1. \A k \in Key : DOMAIN chain[hash(k)] = {}
  BY HashInRange DEF CacheInit, Init
<1>2. Present = {}
  BY <1>1 DEF Present, isExist
<1>3. ~ clearing /\ now = 0
  BY DEF CacheInit, Init
<1>4. CacheContents = [k \in {} |-> Entry(k)]
  BY <1>2, <1>3, IdleContents
<1> QED BY <1>3, <1>4 DEF Cached!Init

(* update(): the entry is the one Cache says.                              *)
LEMMA UpdateIsCached ==
  ASSUME CacheShaped, CacheShaped', NEW k \in Key, NEW v \in Item, NEW p \in BOOLEAN, CacheUpdate(k, v, p)
  PROVE  Cached!Update(k, v, p)
<1> DEFINE e == [item |-> v, persistent |-> ~ isExist(k) /\ p, last_ref |-> now]
           f == [item |-> v, last_ref |-> now, persistent |-> k \notin Present /\ p]
<1>1. ~ clearing /\ ~ clearing' /\ now' = now
  BY DEF CacheUpdate, Ready
<1>2. CacheContents = [l \in Present |-> Entry(l)] /\ CacheContents' = [l \in Present' |-> Entry(l)']
  BY <1>1 DEF CacheContents, Leaving
<1>3. Present' = Present \cup {k} /\ \A l \in Present' : Entry(l)' = IF l = k THEN e ELSE Entry(l)
  BY UpdatedEntry
<1>4. e = f
  <2>1. (~ isExist(k) /\ p) <=> (k \notin Present /\ p)
    BY DEF Present
  <2>2. (~ isExist(k) /\ p) = (k \notin Present /\ p)
    BY <2>1, EqualTruth, Zenon
  <2> QED BY <2>2
<1> HIDE DEF e
<1>5. CacheContents' = [l \in Present \cup {k} |-> IF l = k THEN f ELSE CacheContents[l]]
  <2> HIDE DEF f
  <2> QED BY <1>2, <1>3, <1>4
<1>6. DOMAIN CacheContents = Present
  BY <1>2
<1> QED BY <1>1, <1>5, <1>6 DEF Cached!Update

(* refresh(): from its first step on, what is too old is gone.             *)
LEMMA RefreshIsCached ==
  ASSUME CacheShaped, NEW all \in BOOLEAN, Refresh(all)
  PROVE  Cached!Refresh(all)
<1>1. /\ ~ clearing /\ ~ corrupt /\ clearing' = TRUE /\ current' = now /\ delete_all' = all
      /\ now' = now /\ chain' = chain
  BY DEF Refresh, Ready
<1>2. Present' = Present /\ \A k : Entry(k)' = Entry(k)
  BY <1>1, EntriesStay
<1>3. CacheContents = [k \in Present |-> Entry(k)]
  BY <1>1, IdleContents
<1>4. ASSUME NEW k \in Present
      PROVE  Leaving(k)' <=> all \/ Cached!TooOld(k)
  <2>1. Leaving(k)' <=> all \/ Expired(Entry(k), now)
    BY <1>1, <1>2 DEF Leaving
  <2>2. Entry(k) \in CacheItem /\ now \in 0 .. MaxTime
    BY <1>1, EntryIsItem DEF CacheShaped, CacheInv, Clocks
  <2>3. Expired(Entry(k), now)
          <=> /\ ~ Entry(k).persistent
              /\ Entry(k).last_ref + age_out < now \/ now < Entry(k).last_ref
    BY <2>2, ElapsedSince
  <2>4. CacheContents[k] = Entry(k)
    BY <1>3
  <2> QED BY <2>1, <2>3, <2>4 DEF Cached!TooOld
<1>5. {x \in Present' : ~ Leaving(x)'} = {x \in Present : ~ all /\ ~ Cached!TooOld(x)}
  BY <1>2, <1>4
<1>6. DOMAIN CacheContents = Present
  BY <1>3
<1>7. CacheContents' = [k \in {x \in Present' : ~ Leaving(x)'} |-> Entry(k)']
  BY DEF CacheContents
<1>8. CacheContents' = [k \in {x \in Present : ~ all /\ ~ Cached!TooOld(x)} |-> CacheContents[k]]
  BY <1>2, <1>3, <1>5, <1>7
<1> QED BY <1>1, <1>6, <1>8 DEF Cached!Refresh

(* The loop itself is not seen,                                            *)
LEMMA LoopUnseen ==
  ASSUME CacheShaped, CacheShaped', NEW b \in Bucket, RefreshDel(b), ~ corrupt'
  PROVE  CacheContents' = CacheContents
<1> DEFINE h == Head(todo[b])
<1>1. /\ Present' = IF Leaving(h) THEN Present \ {h} ELSE Present
      /\ \A l \in Present' : Entry(l)' = Entry(l)
  BY RefreshedEntry
<1> HIDE DEF h
<1>2. UNCHANGED <<clearing, current, delete_all>>
  BY DEF RefreshDel
<1>3. \A l \in Present' : Leaving(l)' <=> Leaving(l)
  BY <1>1, <1>2 DEF Leaving
<1>4. {x \in Present' : ~ Leaving(x)'} = {x \in Present : ~ Leaving(x)}
  BY <1>1, <1>3
<1>5. CacheContents' = [k \in {x \in Present' : ~ Leaving(x)'} |-> Entry(k)']
  BY DEF CacheContents
<1> QED BY <1>1, <1>4, <1>5 DEF CacheContents

(* and neither is its end: all that was too old is deleted by then.        *)
LEMMA EndUnseen ==
  ASSUME CacheShaped, LeavingListed, RefreshEnd
  PROVE  CacheContents' = CacheContents
<1>1. /\ clearing /\ ~ corrupt /\ clearing' = FALSE /\ UNCHANGED chain
      /\ \A b \in Bucket : todo[b] = <<>>
  BY DEF RefreshEnd
<1>2. Present' = Present /\ \A k : Entry(k)' = Entry(k)
  BY <1>1, EntriesStay
<1>3. \A k \in Present : ~ Leaving(k)
  <2>1. \A k \in Present : Len(todo[hash(k)]) = 0
    BY <1>1, HashInRange DEF Present
  <2> QED BY <1>1, <2>1 DEF LeavingListed
<1>4. CacheContents = [k \in Present |-> Entry(k)]
  BY <1>3 DEF CacheContents
<1>5. CacheContents' = [k \in Present' |-> Entry(k)']
  BY <1>1 DEF CacheContents, Leaving
<1> QED BY <1>2, <1>4, <1>5

(* Where only the clock or the answer moves, the cache stays.              *)
LEMMA ContentsStay ==
  ASSUME UNCHANGED <<chain, clearing, current, delete_all>>
  PROVE  CacheContents' = CacheContents
<1>1. Present' = Present /\ \A k : Entry(k)' = Entry(k)
  BY EntriesStay
<1>2. \A k : Leaving(k)' <=> Leaving(k)
  BY <1>1 DEF Leaving
<1> QED BY <1>1, <1>2 DEF CacheContents

(* Every step is one of Cache, or not seen, or corrupts memory.            *)
LEMMA CacheStep ==
  ASSUME CacheShaped, CacheShaped', LeavingListed, [CacheNext]_cvars
  PROVE  [Cached!Next \/ corrupt']_<<CacheContents, now>>
<1>1. CASE \E k \in Key, v \in Item, p \in BOOLEAN : CacheUpdate(k, v, p)
  BY <1>1, UpdateIsCached DEF Cached!Next
<1>2. CASE \E all \in BOOLEAN : Refresh(all)
  BY <1>2, RefreshIsCached DEF Cached!Next
<1>3. CASE \E b \in Bucket : RefreshDel(b)
  <2>1. now' = now
    BY <1>3 DEF RefreshDel
  <2> QED BY <1>3, <2>1, LoopUnseen
<1>4. CASE RefreshEnd
  <2>1. now' = now
    BY <1>4 DEF RefreshEnd
  <2> QED BY <1>4, <2>1, EndUnseen
<1>5. CASE Tick
  <2>1. CacheContents' = CacheContents /\ now' = now + 1
    BY <1>5, ContentsStay DEF Tick
  <2> QED BY <2>1 DEF Cached!Next, Cached!Tick
<1>6. CASE (\E k \in Key : CacheGet(k)) \/ UNCHANGED cvars
  <2>1. CacheContents' = CacheContents /\ now' = now
    BY <1>6, ContentsStay DEF CacheGet, cvars
  <2> QED BY <2>1
<1>7. CASE SetBack
  <2>1. CacheContents' = CacheContents /\ now' \in 0 .. now - 1
    BY <1>7, ContentsStay DEF SetBack
  <2> QED BY <2>1 DEF Cached!Next, Cached!SetBack
<1> QED BY <1>1, <1>2, <1>3, <1>4, <1>5, <1>6, <1>7 DEF CacheNext

(* A CacheTable does what Cache says, update() and refresh() at one blow,  *)
(* wherever the clock is set, as long as del goes through right links.     *)
THEOREM CacheRefines == CacheSpec => ImplementsCache
<1>1. CacheInit => LeavingListed
  <2> SUFFICES ASSUME CacheInit
               PROVE  LeavingListed
    OBVIOUS
  <2>1. \A k \in Key : DOMAIN chain[hash(k)] = {}
    BY HashInRange DEF CacheInit, Init
  <2>2. Present = {}
    BY <2>1 DEF Present, isExist
  <2> QED BY <2>2 DEF LeavingListed
<1>2. CacheInv => CacheShaped
  BY ShapeOfCache
<1>3. CacheShaped /\ CacheShaped' /\ LeavingListed /\ [CacheNext]_cvars => LeavingListed'
  BY ListedStep
<1>4. CacheShaped /\ CacheShaped' /\ LeavingListed /\ [CacheNext]_cvars
        => [Cached!Next \/ corrupt']_<<CacheContents, now>>
  BY CacheStep
<1> QED BY <1>1, <1>2, <1>3, <1>4, CacheInvariant, CacheStartsEmpty, PTL DEF CacheSpec, ImplementsCache
=============================================================================
