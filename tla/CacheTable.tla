----------------------------- MODULE CacheTable -----------------------------
(***************************************************************************)
(* forwarder/include/CacheTable.hpp: a HashMap whose values carry the time *)
(* they were last updated, and refresh(), which deletes what is too old.   *)
(* The ARP and MAC tables of the switch programs are CacheTables.          *)
(*                                                                         *)
(* The table is the one of HashMap.tla with CacheItems for values.  The    *)
(* code stores a pointer to the CacheItem, and update() of a key that is   *)
(* there changes the object behind it: that is HashMap's Overwrite.        *)
(* todo and clearing belong to the loop of refresh() here, which takes all *)
(* keys first and deletes afterwards as clear() does.                      *)
(***************************************************************************)
EXTENDS HashMap

CONSTANTS Item,          \* the values callers cache
          age_out,       \* seconds after which an entry is too old
          MaxTime,       \* bound: the clock stops there
          ClockSteps,    \* the wall clock may be set back
          UInt64         \* number of values of a uint64_t; any power well above MaxTime

CacheItem == [item : Item, persistent : BOOLEAN, last_ref : 0 .. MaxTime]

ASSUME CacheItemAssumption == Value = CacheItem
ASSUME ClockAssumption == /\ age_out \in Nat /\ MaxTime \in Nat
                          /\ ClockSteps \in BOOLEAN
                          /\ UInt64 \in Nat /\ UInt64 > MaxTime + age_out

VARIABLES now,           \* what time(NULL) returns
          current,       \* the time refresh() read when it started
          delete_all     \* its argument

cvars == <<chain, todo, clearing, corrupt, answer, now, current, delete_all>>

-----------------------------------------------------------------------------
Entry(k) == chain[hash(k)][Pos(k)].obj

(* current - last_ref on two uint64_t.                                     *)
Elapsed(t, ref) == (t + UInt64 - ref) % UInt64

Expired(c, t) == ~ c.persistent /\ Elapsed(t, c.last_ref) > age_out

CacheInit == /\ Init
             /\ now = 0 /\ current = 0
             /\ delete_all = FALSE

(* mutant: the entry of a key that is there keeps its time                 *)
CacheUpdateStale(k, v, persistent) ==
  /\ Ready
  /\ Store(k, [item |-> v,
               persistent |-> ~ isExist(k) /\ persistent,
               last_ref |-> IF isExist(k) THEN Entry(k).last_ref ELSE now])
  /\ answer' = <<"update">>
  /\ UNCHANGED <<todo, clearing, corrupt, now, current, delete_all>>

(* A key that is there is updated without the flag: CacheItem::update      *)
(* takes persistent=false by default (CacheTable.hpp:66).                  *)
CacheUpdate(k, v, persistent) ==
  /\ Ready
  /\ Store(k, [item |-> v,
               persistent |-> ~ isExist(k) /\ persistent,
               last_ref |-> now])
  /\ answer' = <<"update">>
  /\ UNCHANGED <<todo, clearing, corrupt, now, current, delete_all>>

(* A look does not renew the entry.                                        *)
CacheGet(k) ==
  /\ Ready
  /\ answer' = IF isExist(k) THEN <<"get", Entry(k).item>> ELSE <<"OutOfRange">>
  /\ UNCHANGED <<chain, todo, clearing, corrupt, now, current, delete_all>>

(* mutant: the time is not read *)
RefreshLate(all) ==
  /\ Ready
  /\ clearing' = TRUE
  /\ current' = current
  /\ delete_all' = all
  /\ todo' = [b \in Bucket |-> getKeys(b)]
  /\ UNCHANGED <<chain, corrupt, answer, now>>

Refresh(all) ==
  /\ Ready
  /\ clearing' = TRUE
  /\ current' = now
  /\ delete_all' = all
  /\ todo' = [b \in Bucket |-> getKeys(b)]
  /\ UNCHANGED <<chain, corrupt, answer, now>>

RefreshDel(b) ==
  /\ clearing /\ ~ corrupt
  /\ todo[b] # <<>>
  /\ \A c \in 0 .. b - 1 : todo[c] = <<>>
  /\ LET k == Head(todo[b])
     IN  IF delete_all \/ Expired(Entry(k), current)
         THEN Unlink(k)
         ELSE UNCHANGED <<chain, corrupt>>
  /\ todo' = [todo EXCEPT ![b] = Tail(@)]
  /\ UNCHANGED <<clearing, answer, now, current, delete_all>>

RefreshEnd ==
  /\ clearing /\ ~ corrupt
  /\ \A b \in Bucket : todo[b] = <<>>
  /\ clearing' = FALSE
  /\ UNCHANGED <<chain, todo, corrupt, answer, now, current, delete_all>>

(* time(NULL) is the wall clock: it runs, and an administrator or NTP may  *)
(* set it back.                                                            *)
Tick == /\ ~ corrupt
        /\ now < MaxTime
        /\ now' = now + 1
        /\ UNCHANGED <<chain, todo, clearing, corrupt, answer, current, delete_all>>

SetBack == /\ ClockSteps /\ ~ corrupt
           /\ now' \in 0 .. now - 1
           /\ UNCHANGED <<chain, todo, clearing, corrupt, answer, current, delete_all>>

CacheNext == \/ \E k \in Key : \/ \E v \in Item, p \in BOOLEAN : CacheUpdate(k, v, p)
                               \/ CacheGet(k)
             \/ \E all \in BOOLEAN : Refresh(all)
             \/ \E b \in Bucket : RefreshDel(b)
             \/ RefreshEnd
             \/ Tick
             \/ SetBack

(* refresh() runs to its end, and the main loop of a switch calls it again *)
(* and again (test/L3SW/l3sw.cpp:75-78).                                   *)
CacheFairness == /\ WF_cvars(RefreshEnd \/ \E b \in Bucket : RefreshDel(b))
                 /\ WF_cvars(Refresh(FALSE))

CacheSpec == CacheInit /\ [][CacheNext]_cvars /\ CacheFairness

-----------------------------------------------------------------------------
(* Properties *)

(* refresh(true), which the destructor calls, never deletes through a      *)
(* wrong prev: it takes every chain from the head.                         *)
FlushSafe == clearing /\ delete_all => ~ corrupt

(* Entries that have expired do go away, unless they are updated first, or *)
(* the clock is set back.                                                  *)
ExpiredGoes ==
  \A k \in Key :
     (k \in Present /\ Expired(Entry(k), now)) ~>
        (corrupt \/ (k \in Present => ~ Expired(Entry(k), now)))

(* The cache its users see.  While refresh() is in its loop nobody can     *)
(* look, and what it is going to delete counts as deleted.                 *)
Leaving(k)    == clearing /\ (delete_all \/ Expired(Entry(k), current))
CacheContents == [k \in {x \in Present : ~ Leaving(x)} |-> Entry(k)]

Cached == INSTANCE Cache WITH table <- CacheContents

(* update() and refresh() do what Cache says, the latter at one blow,      *)
(* wherever the clock is set, up to the first write through a wrong prev.  *)
ImplementsCache ==
  Cached!Init /\ [][Cached!Next \/ corrupt']_<<CacheContents, now>>
=============================================================================
