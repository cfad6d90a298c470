-------------------------------- MODULE L2SW --------------------------------
(***************************************************************************)
(* L2SW/src/l2sw.c: the layer 2 switch in C.  One thread: now and then it  *)
(* refreshes the address table, otherwise it reads a frame, learns where   *)
(* the source is and sends the frame on.                                   *)
(***************************************************************************)
EXTENDS L2MacTable

CONSTANTS Port,             \* the interfaces given on the command line
          IfIndex,          \* the kernel's index of each
          Broadcast,        \* ff:ff:ff:ff:ff:ff
          None,
          MAC_REF_INTERVAL

ASSUME PortAssumption == /\ IfIndex \in [Port -> Nat \ {0}]
                         /\ \A p, q \in Port : IfIndex[p] = IfIndex[q] => p = q
                         /\ MAC_REF_INTERVAL \in Nat
                         /\ Broadcast \notin Mac \cup {Zero}
                         /\ None \notin Port

VARIABLES entry,        \* the table
          now,          \* time(NULL)
          ref_last,     \* mac_ref_time_last
          current,      \* the time refresh_mac_table() read
          sweep,        \* the bucket it is at; HASH_SIZE when it is not running
          frame,        \* the frame received in the last step, if any
          sent,         \* the interfaces it was written to
          failed,       \* "null": a null pointer was followed; "astray": a wrong prev
          seen, heard   \* history: where and when a station last sent a frame

vars == <<entry, now, ref_last, current, sweep, frame, sent, failed, seen, heard>>

Known(k)   == Places(entry[hash8(k)], k) # {}
Running    == failed = "no"
Polling    == Running /\ sweep = HASH_SIZE
Refreshing == Running /\ sweep < HASH_SIZE

Init == /\ entry = init_mac_table
        /\ now = 0 /\ ref_last = 0 /\ current = 0
        /\ sweep = HASH_SIZE
        /\ frame = None /\ sent = {}
        /\ failed = "no"
        /\ seen = [k \in Mac |-> None]
        /\ heard = [k \in Mac |-> 0]

-----------------------------------------------------------------------------
(* A frame of a known type is received on port i.  The lookup of its       *)
(* destination comes after its source has been learned, in the table t.    *)

Learned(i, src) ==
  {[entry EXCEPT ![hash8(src)] = s] :
     s \in Updated(entry[hash8(src)], src, IfIndex[i], now, Heap \ Allocated(entry))}

Hears(i, src) == /\ seen' = [seen EXCEPT ![src] = i]
                 /\ heard' = [heard EXCEPT ![src] = now]
                 /\ UNCHANGED <<now, ref_last, current, sweep>>

Spread(i, src) ==
  /\ entry' \in Learned(i, src)
  /\ sent' = Port \ {i}
  /\ UNCHANGED failed
  /\ Hears(i, src)

(* mutant: the frame is written to the port it came from as well *)
FloodAll(i, src, dst) ==
  /\ \E t \in Learned(i, src) :
       /\ Misses(t[hash8(dst)], dst)
       /\ entry' = t
  /\ sent' = Port
  /\ UNCHANGED failed
  /\ Hears(i, src)

Flood(i, src, dst) ==
  /\ \E t \in Learned(i, src) :
       /\ Misses(t[hash8(dst)], dst)
       /\ entry' = t
  /\ sent' = Port \ {i}
  /\ UNCHANGED failed
  /\ Hears(i, src)

(* To the interface that has the index of the entry, the one the frame     *)
(* came from included.                                                     *)
PortOf(e) == {p \in Port : IfIndex[p] = e.netif_index}

Forward(i, src, dst) ==
  /\ \E t \in Learned(i, src) : LET s == t[hash8(dst)] IN
       /\ Hits(s, dst)
       /\ entry' = [t EXCEPT ![hash8(dst)][Place(s, dst)].last_time = now]
       /\ sent' = PortOf(s[Place(s, dst)])
  /\ UNCHANGED failed
  /\ Hears(i, src)

Fault(i, src, dst) ==
  /\ \E t \in Learned(i, src) :
       /\ Faults(t[hash8(dst)], dst)
       /\ entry' = t
  /\ failed' = "null"
  /\ sent' = {}
  /\ Hears(i, src)

Receive(i, src, dst) ==
  /\ Polling
  /\ frame' = [port |-> i, src |-> src, dst |-> dst]
  /\ IF dst = Broadcast THEN Spread(i, src)
     ELSE Flood(i, src, dst) \/ Forward(i, src, dst) \/ Fault(i, src, dst)

-----------------------------------------------------------------------------
(* refresh_mac_table() *)

NoFrame == frame' = None /\ sent' = {}

StartRefresh ==
  /\ Polling
  /\ now >= ref_last + MAC_REF_INTERVAL
  /\ sweep' = 0
  /\ current' = now
  /\ NoFrame
  /\ UNCHANGED <<entry, now, ref_last, failed, seen, heard>>

RefreshDelete ==
  /\ Refreshing
  /\ LET s == entry[sweep]
         i == Place(s, s[FirstAged(s, current)].mac_addr)
     IN  /\ AgedPlaces(s, current) # {}
         /\ IF IsFirst(s, i) \/ IsBehind(s, i)
            THEN entry' = [entry EXCEPT ![sweep] = Deleted(s, i)] /\ UNCHANGED failed
            ELSE failed' = "astray" /\ UNCHANGED entry
  /\ NoFrame
  /\ UNCHANGED <<now, ref_last, current, sweep, seen, heard>>

(* mutant: a bucket is left while there are aged entries in it *)
RefreshNextEarly ==
  /\ Refreshing
  /\ ~ Aged(entry[sweep][1], current)
  /\ sweep' = sweep + 1
  /\ ref_last' = IF sweep' = HASH_SIZE THEN now ELSE ref_last
  /\ NoFrame
  /\ UNCHANGED <<entry, now, current, failed, seen, heard>>

RefreshNext ==
  /\ Refreshing
  /\ AgedPlaces(entry[sweep], current) = {}
  /\ sweep' = sweep + 1
  /\ ref_last' = IF sweep' = HASH_SIZE THEN now ELSE ref_last
  /\ NoFrame
  /\ UNCHANGED <<entry, now, current, failed, seen, heard>>

Tick == /\ Running
        /\ now < MaxTime
        /\ now' = now + 1
        /\ NoFrame
        /\ UNCHANGED <<entry, ref_last, current, sweep, failed, seen, heard>>

Next == \/ \E i \in Port, src \in Mac, dst \in Mac \cup {Broadcast} : Receive(i, src, dst)
        \/ StartRefresh \/ RefreshDelete \/ RefreshNext
        \/ Tick

Spec == Init /\ [][Next]_vars

-----------------------------------------------------------------------------
(* Properties *)

(* Every variable keeps its shape.                                         *)
TypeOK == /\ entry \in [Bucket -> Seq(Entry)]
          /\ \A b \in Bucket : entry[b] # <<>>
          /\ {now, ref_last, current} \subseteq 0 .. MaxTime
          /\ sweep \in 0 .. HASH_SIZE
          /\ frame \in {None} \cup [port : Port, src : Mac, dst : Mac \cup {Broadcast}]
          /\ sent \subseteq Port
          /\ failed \in {"no", "null", "astray"}
          /\ seen \in [Mac -> Port \cup {None}]
          /\ heard \in [Mac -> 0 .. MaxTime]

(* Every entry but an empty head is of a station that sent a frame, is in  *)
(* its bucket, once, and has the last eight bits of the index of the       *)
(* interface the station sent from last (l2sw.c:198, mac_table.h:18).      *)
EntriesTrue ==
  \A b \in Bucket : \A i, j \in DOMAIN entry[b] : LET k == entry[b][i].mac_addr IN
     /\ k = Zero => i = 1 /\ Single(entry[b])
     /\ k # Zero => /\ hash8(k) = b
                    /\ entry[b][j].mac_addr = k => i = j
                    /\ seen[k] # None
                    /\ entry[b][i].netif_index = IfIndex[seen[k]] % UInt8

(* A station that sent a frame no longer than the ageing time ago is known *)
(* to the table, whatever else was deleted.                                *)
Remembers ==
  \A k \in Mac : seen[k] # None /\ now - heard[k] <= MAC_TABLE_AGING_TIME => Known(k)

(* The interface whose index the table can tell for p: p alone if its      *)
(* index fits in a byte, and never p if it does not (ReachedRight).        *)
Reached(p) == {q \in Port : IfIndex[q] = IfIndex[p] % UInt8}

(* A frame for a known station goes to the port the station was last heard *)
(* on and no other, a frame for an unknown one everywhere else, unless the *)
(* switch dies of it.  A station behind an interface of index 256 or more  *)
(* gets none of the frames that are for it alone: its entry has eight bits *)
(* of the index, which line 242 compares with the whole one.               *)
Delivers ==
  frame # None /\ Running =>
     sent = IF frame.dst # Broadcast /\ Known(frame.dst) THEN Reached(seen[frame.dst])
                                                        ELSE Port \ {frame.port}

(* When a refresh ends no entry is left that was too old when it began.    *)
LeavesFresh ==
  [][sweep' = HASH_SIZE /\ sweep # HASH_SIZE =>
        \A b \in Bucket : AgedPlaces(entry'[b], current) = {}]_vars

(* A refresh starts a bucket again after every delete, and yet ends: each  *)
(* delete leaves an old entry less, and no new one turns up.               *)
RefreshProgresses ==
  [][RefreshDelete /\ Running' =>
        /\ Cardinality(AgedPlaces(entry'[sweep], current)) < Cardinality(AgedPlaces(entry[sweep], current))
        /\ Len(entry'[sweep]) <= Len(entry[sweep])]_vars

(* A refresh deletes through a wrong prev only after three stations of one *)
(* bucket sent frames.                                                     *)
NeverAstray ==
  failed = "astray" =>
     \E b \in Bucket : Cardinality({k \in Mac : hash8(k) = b /\ seen[k] # None}) > 2

(* A frame for an address that is not in the table is written to all ports *)
(* but the one it came from ("!send all ports", l2sw.c:227-238).           *)
FloodsUnknown ==
  frame # None /\ frame.dst # Broadcast =>
     Known(frame.dst) \/ sent = Port \ {frame.port}
=============================================================================
