----------------------------- MODULE L3SWProofs -----------------------------
(***************************************************************************)
(* Proofs about L3SW.tla, for any interfaces, stations, frames and routes. *)
(* The routing table's part of the invariant is that of RouteTableProofs.  *)
(***************************************************************************)
EXTENDS L3SW, RouteTableProofs

-----------------------------------------------------------------------------
(* The invariant *)

(* Where main() is and what it holds there.  From HandleIP to Forward the  *)
(* frame is IPv4, and at Forward r_resolve() has returned.                 *)
Placed ==
  /\ step \in {"boot", "arp", "mac", "recv", "handle", "resolve", "forward"}
  /\ port \in Netif
  /\ step \in {"handle", "resolve", "forward"} => pkt \in Frame /\ heard[pkt.src] # None
  /\ step \in {"resolve", "forward"} => pkt.kind = "IPv4"
  /\ looking <=> step = "resolve"
  /\ step = "forward" => answer[1] = "route"
  /\ step \in {"boot", "resolve"} => sent = {}

Timed == now \in 0 .. MaxTime /\ ref_at \in [arp : 0 .. now, mac : 0 .. now]

(* Who claimed an address was heard, and none of it lies in the future.    *)
Remembered ==
  /\ heard \in [Mac -> {None} \cup [port : Netif, time : 0 .. now]]
  /\ claimed \in [Address -> {None} \cup [mac : Mac, time : 0 .. now]]
  /\ \A a \in Address : claimed[a] # None => heard[claimed[a].mac] # None

(* An entry of a table is what was heard last, with its time.              *)
ArpTrue ==
  /\ DOMAIN arp_tbl \subseteq Address
  /\ \A a \in DOMAIN arp_tbl :
        /\ claimed[a] # None
        /\ arp_tbl[a] = [item |-> claimed[a].mac, last_ref |-> claimed[a].time, persistent |-> FALSE]

MacTrue ==
  /\ DOMAIN mac_tbl \subseteq Mac
  /\ \A m \in DOMAIN mac_tbl :
        /\ heard[m] # None
        /\ mac_tbl[m] = [item |-> heard[m].port, last_ref |-> heard[m].time, persistent |-> FALSE]

(* A table forgets nothing that was not too old when it was last           *)
(* refreshed, and holds nothing that was.                                  *)
ArpKept  == \A a \in Address : claimed[a] # None /\ ref_at.arp <= claimed[a].time + age_out => a \in DOMAIN arp_tbl
MacKept  == \A m \in Mac : heard[m] # None /\ ref_at.mac <= heard[m].time + age_out => m \in DOMAIN mac_tbl
ArpFresh == \A a \in DOMAIN arp_tbl : ref_at.arp <= arp_tbl[a].last_ref + age_out
MacFresh == \A m \in DOMAIN mac_tbl : ref_at.mac <= mac_tbl[m].last_ref + age_out

SwitchInv == /\ IInv
             /\ Placed /\ Timed /\ Remembered
             /\ ArpTrue /\ MacTrue
             /\ ArpKept /\ MacKept /\ ArpFresh /\ MacFresh

(* What a frame says.                                                      *)
LEMMA FrameFields ==
  ASSUME NEW f \in Frame
  PROVE  /\ f.src \in Mac /\ f # None
         /\ f.kind \in {"request", "reply"} => f.sender \in Address
         /\ f.kind = "IPv4" => f.dst \in Address
<1>1. CASE f \in ArpFrame
  BY <1>1, SwitchAssumption DEF ArpFrame
<1>2. CASE f \in IPFrame
  BY <1>2, SwitchAssumption DEF IPFrame
<1> QED BY <1>1, <1>2, SwitchAssumption

(* The network of an interface is one addRoute() takes.                    *)
LEMMA OwnNetwork == \A i \in Netif : NetOf(i) \in Network
<1> SUFFICES ASSUME NEW i \in Netif
             PROVE  NetOf(i) \in Network
  OBVIOUS
<1>1. NetIP[i] \in Seq(Bit) /\ Len(NetIP[i]) = W /\ NetLen[i] \in 0 .. W
  BY AddressIsSeq, SwitchAssumption
<1>2. SubSeq(NetIP[i], 1, NetLen[i]) \in Seq(Bit) /\ Len(SubSeq(NetIP[i], 1, NetLen[i])) = NetLen[i]
  BY <1>1, Leading
<1>3. NetLen[i] <= W
  BY <1>1, WidthAssumption
<1> QED BY <1>2, <1>3, NetworkIsSeq DEF NetOf

(* The next interface, or the next round.                                  *)
LEMMA NextPortPlaced ==
  ASSUME port \in Netif, NextPort
  PROVE  step' \in {"recv", "arp"} /\ port' \in Netif
BY SwitchAssumption DEF NextPort, Netif

(* Before the first frame both tables are empty.                           *)
LEMMA SwitchInitInv == SwitchInit => SwitchInv
<1> SUFFICES ASSUME SwitchInit
             PROVE  SwitchInv
  OBVIOUS
<1>1. IInv
  BY InitInv DEF SwitchInit
<1>2. Placed
  BY SwitchAssumption DEF SwitchInit, Init, Placed, Netif
<1>3. Timed
  BY SwitchAssumption DEF SwitchInit, ArpTable!Init, Timed
<1>4. Remembered
  BY DEF SwitchInit, Remembered
<1>5. ArpTrue /\ MacTrue
  BY DEF SwitchInit, ArpTable!Init, MacTable!Init, ArpTrue, MacTrue
<1>6. ArpKept /\ MacKept
  BY DEF SwitchInit, ArpKept, MacKept
<1>7. ArpFresh /\ MacFresh
  BY DEF SwitchInit, ArpTable!Init, MacTable!Init, ArpFresh, MacFresh
<1> QED BY <1>1, <1>2, <1>3, <1>4, <1>5, <1>6, <1>7 DEF SwitchInv

(* Steps that touch neither table, clock nor history keep what is said of  *)
(* them.                                                                   *)
LEMMA TablesStay ==
  ASSUME SwitchInv, UNCHANGED <<arp_tbl, mac_tbl, now, ref_at, heard, claimed>>
  PROVE  (Timed /\ Remembered /\ ArpTrue /\ MacTrue /\ ArpKept /\ MacKept /\ ArpFresh /\ MacFresh)'
BY DEF SwitchInv, Timed, Remembered, ArpTrue, MacTrue, ArpKept, MacKept, ArpFresh, MacFresh

(* Boot, Idle, HandleIP, Resolve, Forward: only main() and the routing     *)
(* table move.                                                             *)
LEMMA BootInv == SwitchInv /\ Boot => SwitchInv'
<1> SUFFICES ASSUME SwitchInv, Boot
             PROVE  SwitchInv'
  OBVIOUS
<1>1. AddRoute(NetOf(port), CONNECTED, Root.nexthop)
  BY DEF Boot
<1>2. NetOf(port) \in Network /\ CONNECTED \in RouteType /\ Root.nexthop \in Address
  <2>1. NetOf(port) \in Network
    BY OwnNetwork DEF SwitchInv, Placed
  <2>2. CONNECTED \in RouteType
    BY DEF CONNECTED, RouteType, INVALID
  <2>3. Root.nexthop \in Address
    BY WidthAssumption DEF Root, Address, Bit
  <2> QED BY <2>1, <2>2, <2>3
<1>3. IInv'
  <2> HIDE DEF SwitchInv
  <2>1. IInv
    BY DEF SwitchInv
  <2> QED BY <1>1, <1>2, <2>1, AddRouteInv
<1>4. Placed'
  BY <1>1, SwitchAssumption DEF SwitchInv, Placed, Boot, AddRoute, Netif
<1>5. UNCHANGED <<arp_tbl, mac_tbl, now, ref_at, heard, claimed>>
  BY DEF Boot
<1> QED BY <1>3, <1>4, <1>5, TablesStay DEF SwitchInv

(* Idle: no frame to read, the next interface.                             *)
LEMMA IdleInv == SwitchInv /\ Idle => SwitchInv'
<1> SUFFICES ASSUME SwitchInv, Idle
             PROVE  SwitchInv'
  OBVIOUS
<1>1. IInv'
  BY NextInv DEF SwitchInv, Idle
<1>2. Placed'
  BY NextPortPlaced DEF SwitchInv, Placed, Idle, rvars
<1>3. UNCHANGED <<arp_tbl, mac_tbl, now, ref_at, heard, claimed>>
  BY DEF Idle
<1> QED BY <1>1, <1>2, <1>3, TablesStay DEF SwitchInv

(* HandleIP: the frame is IPv4, and its route is looked up next.           *)
LEMMA HandleIPInv == SwitchInv /\ HandleIP => SwitchInv'
<1> SUFFICES ASSUME SwitchInv, HandleIP
             PROVE  SwitchInv'
  OBVIOUS
<1>1. pkt \in Frame /\ pkt.dst \in Address /\ Ask(pkt.dst)
  BY FrameFields DEF SwitchInv, Placed, HandleIP
<1>2. IInv'
  BY <1>1, NextInv DEF SwitchInv, Next
<1>3. Placed'
  BY <1>1 DEF SwitchInv, Placed, HandleIP, Ask
<1>4. UNCHANGED <<arp_tbl, mac_tbl, now, ref_at, heard, claimed>>
  BY DEF HandleIP
<1> QED BY <1>2, <1>3, <1>4, TablesStay DEF SwitchInv

(* Resolve: one step of r_resolve().                                       *)
LEMMA ResolveInv == SwitchInv /\ Resolve => SwitchInv'
<1> SUFFICES ASSUME SwitchInv, Resolve
             PROVE  SwitchInv'
  OBVIOUS
<1>1. Follow \/ Return
  BY DEF Resolve
<1>2. IInv'
  BY <1>1, NextInv DEF SwitchInv, Next
<1>3. looking' \in BOOLEAN /\ (~ looking' => answer'[1] = "route")
  <2>1. looking' \in BOOLEAN
    BY <1>2 DEF IInv, TypeOK
  <2>2. CASE Follow
    BY <2>2, FollowHop DEF SwitchInv, Follow
  <2>3. CASE Return
    BY <2>3 DEF Return
  <2> QED BY <1>1, <2>1, <2>2, <2>3
<1>4. Placed'
  BY <1>3 DEF SwitchInv, Placed, Resolve
<1>5. UNCHANGED <<arp_tbl, mac_tbl, now, ref_at, heard, claimed>>
  BY DEF Resolve
<1> QED BY <1>2, <1>4, <1>5, TablesStay DEF SwitchInv

(* Forward: to the station the ARP table has, or a request for it.         *)
LEMMA ForwardInv == SwitchInv /\ Forward => SwitchInv'
<1> SUFFICES ASSUME SwitchInv, Forward
             PROVE  SwitchInv'
  OBVIOUS
<1>1. IInv'
  BY NextInv DEF SwitchInv, Forward
<1>2. Placed'
  BY NextPortPlaced DEF SwitchInv, Placed, Forward, rvars
<1>3. UNCHANGED <<arp_tbl, mac_tbl, now, ref_at, heard, claimed>>
  BY DEF Forward
<1> QED BY <1>1, <1>2, <1>3, TablesStay DEF SwitchInv

-----------------------------------------------------------------------------
(* The steps that touch the tables *)

(* What a table keeps when it is refreshed.                                *)
LEMMA RefreshArpInv == SwitchInv /\ RefreshArp => SwitchInv'
<1> SUFFICES ASSUME SwitchInv, RefreshArp
             PROVE  SwitchInv'
  OBVIOUS
<1> DEFINE kept == {a \in DOMAIN arp_tbl : ~ ArpTable!TooOld(a)}
<1>1. arp_tbl' = [a \in kept |-> arp_tbl[a]]
  BY DEF RefreshArp, ArpTable!Refresh
<1>2. \A a \in DOMAIN arp_tbl : a \in kept <=> now <= arp_tbl[a].last_ref + age_out
  BY SwitchAssumption DEF SwitchInv, ArpTrue, Remembered, Timed, ArpTable!TooOld
<1>3. kept \subseteq DOMAIN arp_tbl
  OBVIOUS
<1>4. /\ UNCHANGED <<rvars, port, pkt, mac_tbl, now, heard, claimed>>
      /\ step = "arp" /\ step' = "mac" /\ ref_at' = [ref_at EXCEPT !.arp = now]
  BY DEF RefreshArp, ArpTable!Refresh
<1> HIDE DEF kept
<1>5. IInv'
  BY <1>4, NextInv DEF SwitchInv
<1>6. Placed'
  BY <1>4 DEF SwitchInv, Placed, rvars
<1>0. /\ ref_at'.arp = now /\ ref_at'.mac = ref_at.mac
      /\ ref_at.arp \in 0 .. now /\ now \in Nat
      /\ Timed'
  BY <1>4, SwitchAssumption DEF SwitchInv, Timed
<1>7. Remembered' /\ MacTrue' /\ MacKept' /\ MacFresh'
  BY <1>0, <1>4 DEF SwitchInv, Remembered, MacTrue, MacKept, MacFresh
<1>8. ArpTrue'
  BY <1>1, <1>3, <1>4 DEF SwitchInv, ArpTrue
<1>9. ArpKept'
  <2> SUFFICES ASSUME NEW a \in Address, claimed[a] # None, now <= claimed[a].time + age_out
               PROVE  a \in kept
    BY <1>0, <1>1, <1>4 DEF ArpKept
  <2>1. a \in DOMAIN arp_tbl
    <3>1. claimed[a].time \in Nat
      BY DEF SwitchInv, Remembered
    <3> QED BY <1>0, <3>1, SwitchAssumption DEF SwitchInv, ArpKept
  <2>2. arp_tbl[a].last_ref = claimed[a].time
    BY <2>1 DEF SwitchInv, ArpTrue
  <2> QED BY <1>2, <2>1, <2>2
<1>10. ArpFresh'
  BY <1>0, <1>1, <1>2, <1>3, <1>4 DEF ArpFresh
<1> QED BY <1>0, <1>5, <1>6, <1>7, <1>8, <1>9, <1>10 DEF SwitchInv

(* RefreshMac: what was heard too long ago goes from the MAC table.        *)
LEMMA RefreshMacInv == SwitchInv /\ RefreshMac => SwitchInv'
<1> SUFFICES ASSUME SwitchInv, RefreshMac
             PROVE  SwitchInv'
  OBVIOUS
<1> DEFINE kept == {m \in DOMAIN mac_tbl : ~ MacTable!TooOld(m)}
<1>1. mac_tbl' = [m \in kept |-> mac_tbl[m]]
  BY DEF RefreshMac, MacTable!Refresh
<1>2. \A m \in DOMAIN mac_tbl : m \in kept <=> now <= mac_tbl[m].last_ref + age_out
  BY SwitchAssumption DEF SwitchInv, MacTrue, Remembered, Timed, MacTable!TooOld
<1>3. kept \subseteq DOMAIN mac_tbl
  OBVIOUS
<1>4. /\ UNCHANGED <<rvars, port, pkt, arp_tbl, now, heard, claimed>>
      /\ step = "mac" /\ step' = "recv" /\ ref_at' = [ref_at EXCEPT !.mac = now]
  BY DEF RefreshMac, MacTable!Refresh
<1> HIDE DEF kept
<1>5. IInv'
  BY <1>4, NextInv DEF SwitchInv
<1>6. Placed'
  BY <1>4 DEF SwitchInv, Placed, rvars
<1>0. /\ ref_at'.mac = now /\ ref_at'.arp = ref_at.arp
      /\ ref_at.mac \in 0 .. now /\ now \in Nat
      /\ Timed'
  BY <1>4, SwitchAssumption DEF SwitchInv, Timed
<1>7. Remembered' /\ ArpTrue' /\ ArpKept' /\ ArpFresh'
  BY <1>0, <1>4 DEF SwitchInv, Remembered, ArpTrue, ArpKept, ArpFresh
<1>8. MacTrue'
  BY <1>1, <1>3, <1>4 DEF SwitchInv, MacTrue
<1>9. MacKept'
  <2> SUFFICES ASSUME NEW m \in Mac, heard[m] # None, now <= heard[m].time + age_out
               PROVE  m \in kept
    BY <1>0, <1>1, <1>4 DEF MacKept
  <2>1. m \in DOMAIN mac_tbl
    <3>1. heard[m].time \in Nat
      BY DEF SwitchInv, Remembered
    <3> QED BY <1>0, <3>1, SwitchAssumption DEF SwitchInv, MacKept
  <2>2. mac_tbl[m].last_ref = heard[m].time
    BY <2>1 DEF SwitchInv, MacTrue
  <2> QED BY <1>2, <2>1, <2>2
<1>10. MacFresh'
  BY <1>0, <1>1, <1>2, <1>3, <1>4 DEF MacFresh
<1> QED BY <1>0, <1>5, <1>6, <1>7, <1>8, <1>9, <1>10 DEF SwitchInv

(* The source of a frame is learned, and is what was heard last.           *)
LEMMA ReceiveInv ==
  ASSUME SwitchInv, NEW f \in Frame, Receive(f)
  PROVE  SwitchInv'
<1> DEFINE k == f.src
           entry == [item |-> port, last_ref |-> now,
                     persistent |-> k \notin DOMAIN mac_tbl /\ FALSE]
<1>1. k \in Mac
  BY FrameFields
<1>2. mac_tbl' = [m \in DOMAIN mac_tbl \cup {k} |-> IF m = k THEN entry ELSE mac_tbl[m]]
  BY DEF Receive, MacTable!Update
<1>3. heard' = [heard EXCEPT ![k] = [port |-> port, time |-> now]]
  BY DEF Receive
<1>4. /\ UNCHANGED <<rvars, port, arp_tbl, ref_at, now, claimed>>
      /\ pkt' = f /\ step = "recv" /\ step' = "handle"
  BY DEF Receive, MacTable!Update
<1>5. /\ [port |-> port, time |-> now] \in [port : Netif, time : 0 .. now]
      /\ [port |-> port, time |-> now] # None
  BY SwitchAssumption DEF SwitchInv, Placed, Timed
<1>6. entry = [item |-> port, last_ref |-> now, persistent |-> FALSE]
  OBVIOUS
<1> HIDE DEF k, entry
<1>7. /\ heard' \in [Mac -> {None} \cup [port : Netif, time : 0 .. now]]
      /\ heard'[k] = [port |-> port, time |-> now] /\ heard'[k] # None
      /\ \A m \in Mac \ {k} : heard'[m] = heard[m]
  BY <1>1, <1>3, <1>5 DEF SwitchInv, Remembered
<1>8. IInv'
  BY <1>4, NextInv DEF SwitchInv
<1>9. Placed'
  BY <1>4, <1>7 DEF SwitchInv, Placed, rvars, k
<1>10. Timed' /\ ArpTrue' /\ ArpKept' /\ ArpFresh'
  BY <1>4 DEF SwitchInv, Timed, ArpTrue, ArpKept, ArpFresh
<1>11. Remembered'
  BY <1>4, <1>7 DEF SwitchInv, Remembered
<1>12. MacTrue'
  <2>1. ASSUME NEW m \in DOMAIN mac_tbl', m = k
        PROVE  /\ heard'[m] # None
               /\ mac_tbl'[m] = [item |-> heard'[m].port, last_ref |-> heard'[m].time, persistent |-> FALSE]
    <3>1. heard'[m] # None /\ heard'[m].port = port /\ heard'[m].time = now
      BY <1>7, <2>1
    <3>2. mac_tbl'[m] = entry
      BY <1>2, <2>1
    <3> QED BY <1>6, <3>1, <3>2
  <2>2. ASSUME NEW m \in DOMAIN mac_tbl', m # k
        PROVE  /\ heard'[m] # None
               /\ mac_tbl'[m] = [item |-> heard'[m].port, last_ref |-> heard'[m].time, persistent |-> FALSE]
    <3>1. m \in DOMAIN mac_tbl /\ mac_tbl'[m] = mac_tbl[m] /\ heard'[m] = heard[m]
      BY <1>2, <1>7, <2>2 DEF SwitchInv, MacTrue
    <3> QED BY <3>1 DEF SwitchInv, MacTrue
  <2>3. DOMAIN mac_tbl' \subseteq Mac
    BY <1>1, <1>2 DEF SwitchInv, MacTrue
  <2> QED BY <2>1, <2>2, <2>3 DEF MacTrue
<1>13. MacKept'
  BY <1>2, <1>4, <1>7 DEF SwitchInv, MacKept
<1>14. MacFresh'
  <2> SUFFICES ASSUME NEW m \in DOMAIN mac_tbl'
               PROVE  ref_at.mac <= mac_tbl'[m].last_ref + age_out
    BY <1>4 DEF MacFresh
  <2>1. CASE m = k
    <3>1. mac_tbl'[m].last_ref = now
      BY <1>2, <1>6, <2>1
    <3> QED BY <3>1, SwitchAssumption DEF SwitchInv, Timed
  <2>2. CASE m # k
    BY <1>2, <2>2 DEF SwitchInv, MacFresh
  <2> QED BY <2>1, <2>2
<1> QED BY <1>8, <1>9, <1>10, <1>11, <1>12, <1>13, <1>14 DEF SwitchInv

(* The sender of an ARP frame is learned, and is who claimed it last.      *)
LEMMA HandleArpInv == SwitchInv /\ HandleArp => SwitchInv'
<1> SUFFICES ASSUME SwitchInv, HandleArp
             PROVE  SwitchInv'
  OBVIOUS
<1> DEFINE k == pkt.sender
           claim == [mac |-> pkt.src, time |-> now]
           entry == [item |-> pkt.src, last_ref |-> now,
                     persistent |-> k \notin DOMAIN arp_tbl /\ FALSE]
<1>1. /\ pkt \in Frame /\ pkt.src \in Mac /\ k \in Address
      /\ heard[pkt.src] # None
  BY FrameFields DEF SwitchInv, Placed, HandleArp
<1>2. arp_tbl' = [a \in DOMAIN arp_tbl \cup {k} |-> IF a = k THEN entry ELSE arp_tbl[a]]
  BY DEF HandleArp, ArpTable!Update
<1>3. claimed' = [claimed EXCEPT ![k] = claim]
  BY DEF HandleArp
<1>4. /\ UNCHANGED <<rvars, mac_tbl, ref_at, now, heard>>
      /\ NextPort /\ step = "handle"
  BY DEF HandleArp, ArpTable!Update
<1>5. claim \in [mac : Mac, time : 0 .. now] /\ claim # None
  BY <1>1, SwitchAssumption DEF SwitchInv, Timed
<1>6. /\ entry = [item |-> pkt.src, last_ref |-> now, persistent |-> FALSE]
      /\ claim.mac = pkt.src /\ claim.time = now
  OBVIOUS
<1> HIDE DEF k, entry, claim
<1>7. /\ claimed' \in [Address -> {None} \cup [mac : Mac, time : 0 .. now]]
      /\ claimed'[k] = claim /\ claimed'[k] # None
      /\ \A a \in Address \ {k} : claimed'[a] = claimed[a]
  BY <1>1, <1>3, <1>5 DEF SwitchInv, Remembered
<1>8. IInv'
  BY <1>4, NextInv DEF SwitchInv
<1>9. Placed'
  BY <1>4, NextPortPlaced DEF SwitchInv, Placed, rvars
<1>10. Timed' /\ MacTrue' /\ MacKept' /\ MacFresh'
  BY <1>4 DEF SwitchInv, Timed, MacTrue, MacKept, MacFresh
<1>11. Remembered'
  <2>1. \A a \in Address : claimed'[a] # None => heard[claimed'[a].mac] # None
    BY <1>1, <1>6, <1>7 DEF SwitchInv, Remembered
  <2> QED BY <1>4, <1>7, <2>1 DEF SwitchInv, Remembered
<1>12. ArpTrue'
  BY <1>1, <1>2, <1>6, <1>7 DEF SwitchInv, ArpTrue
<1>13. ArpKept'
  BY <1>2, <1>4, <1>7 DEF SwitchInv, ArpKept
<1>14. ArpFresh'
  <2> SUFFICES ASSUME NEW a \in DOMAIN arp_tbl'
               PROVE  ref_at.arp <= arp_tbl'[a].last_ref + age_out
    BY <1>4 DEF ArpFresh
  <2>1. CASE a = k
    <3>1. arp_tbl'[a].last_ref = now
      BY <1>2, <1>6, <2>1
    <3> QED BY <3>1, SwitchAssumption DEF SwitchInv, Timed
  <2>2. CASE a # k
    BY <1>2, <2>2 DEF SwitchInv, ArpFresh
  <2> QED BY <2>1, <2>2
<1> QED BY <1>8, <1>9, <1>10, <1>11, <1>12, <1>13, <1>14 DEF SwitchInv

(* A tick ages no entry before the next refresh.                           *)
LEMMA TickInv == SwitchInv /\ Tick => SwitchInv'
<1> SUFFICES ASSUME SwitchInv, Tick
             PROVE  SwitchInv'
  OBVIOUS
<1>1. /\ UNCHANGED <<rvars, step, port, pkt, arp_tbl, mac_tbl, ref_at, heard, claimed>>
      /\ now' = now + 1 /\ now < MaxTime /\ sent' = {}
  BY DEF Tick
<1>2. now' \in 0 .. MaxTime /\ 0 .. now \subseteq 0 .. now'
  BY <1>1, SwitchAssumption DEF SwitchInv, Timed
<1>3. IInv'
  BY <1>1, NextInv DEF SwitchInv
<1>4. Placed'
  BY <1>1 DEF SwitchInv, Placed, rvars
<1>5. Timed'
  BY <1>1, <1>2 DEF SwitchInv, Timed
<1>6. ArpTrue' /\ MacTrue' /\ ArpKept' /\ MacKept' /\ ArpFresh' /\ MacFresh'
  BY <1>1 DEF SwitchInv, ArpTrue, MacTrue, ArpKept, MacKept, ArpFresh, MacFresh
<1>9. Remembered'
  <2>1. heard \in [Mac -> {None} \cup [port : Netif, time : 0 .. now']]
    BY <1>2 DEF SwitchInv, Remembered
  <2>2. claimed \in [Address -> {None} \cup [mac : Mac, time : 0 .. now']]
    BY <1>2 DEF SwitchInv, Remembered
  <2> QED BY <1>1, <2>1, <2>2 DEF SwitchInv, Remembered
<1> QED BY <1>3, <1>4, <1>5, <1>6, <1>9 DEF SwitchInv

(* Nothing happens.                                                        *)
LEMMA SwitchStutterInv == SwitchInv /\ UNCHANGED lvars => SwitchInv'
<1> SUFFICES ASSUME SwitchInv, UNCHANGED lvars
             PROVE  SwitchInv'
  OBVIOUS
<1>1. IInv'
  BY NextInv DEF SwitchInv, lvars
<1>2. Placed'
  BY DEF SwitchInv, Placed, lvars, rvars
<1> QED BY <1>1, <1>2, TablesStay DEF SwitchInv, lvars

(* Every step keeps the invariant.                                         *)
LEMMA SwitchNextInv == SwitchInv /\ [SwitchNext]_lvars => SwitchInv'
BY BootInv, RefreshArpInv, RefreshMacInv, IdleInv, ReceiveInv, HandleArpInv, HandleIPInv,
   ResolveInv, ForwardInv, TickInv, SwitchStutterInv
   DEF SwitchNext, Main

-----------------------------------------------------------------------------
(* The theorems *)

(* The invariant holds of every behaviour of the switch.                   *)
THEOREM SwitchInvariant == SwitchSpec => []SwitchInv
<1> QED BY SwitchInitInv, SwitchNextInv, PTL DEF SwitchSpec

(* What l3sw routes: a frame for a station in both tables, at Forward.     *)
LEMMA IPv4Sent ==
  ASSUME SwitchInv, SwitchNext, NEW o \in sent', o.kind = "IPv4"
  PROVE  /\ pkt.dst \in DOMAIN arp_tbl
         /\ arp_tbl[pkt.dst].item \in DOMAIN mac_tbl
         /\ o = Out(mac_tbl[arp_tbl[pkt.dst].item].item, "IPv4", arp_tbl[pkt.dst].item, pkt.dst)
<1>1. CASE HandleArp
  BY <1>1 DEF HandleArp, Out
<1>2. CASE Forward
  <2>1. o \in Routed(pkt.dst)
    BY <1>2 DEF Forward
  <2>2. o \notin Requests(pkt.dst)
    BY DEF Requests, Out
  <2> QED BY <2>1, <2>2 DEF Routed
<1>3. CASE Boot \/ Resolve
  BY <1>3 DEF Boot, Resolve, SwitchInv, Placed
<1>4. CASE ~ (HandleArp \/ Forward \/ Boot \/ Resolve)
  BY <1>4 DEF SwitchNext, Main, RefreshArp, RefreshMac, Idle, Receive, HandleIP, Tick
<1> QED BY <1>1, <1>2, <1>3, <1>4

(* However stations move, take over addresses and are forgotten, an IPv4   *)
(* frame leaves for the last claimant of its address where that one was    *)
(* heard last.                                                             *)
THEOREM RoutesTruly == SwitchSpec => ForwardsTrue
<1>1. SwitchInv /\ [SwitchNext]_lvars =>
        [\A o \in sent' : o.kind = "IPv4" =>
           /\ claimed[o.addr] # None /\ o.to = claimed[o.addr].mac
           /\ o.port = heard[o.to].port]_lvars
  <2> SUFFICES ASSUME SwitchInv, SwitchNext, NEW o \in sent', o.kind = "IPv4"
               PROVE  /\ claimed[o.addr] # None /\ o.to = claimed[o.addr].mac
                      /\ o.port = heard[o.to].port
    OBVIOUS
  <2> DEFINE m == arp_tbl[pkt.dst].item
  <2>1. /\ pkt.dst \in DOMAIN arp_tbl /\ m \in DOMAIN mac_tbl
        /\ o = Out(mac_tbl[m].item, "IPv4", m, pkt.dst)
    BY IPv4Sent
  <2>2. o.addr = pkt.dst /\ o.to = m /\ o.port = mac_tbl[m].item
    BY <2>1 DEF Out
  <2>3. claimed[pkt.dst] # None /\ m = claimed[pkt.dst].mac
    BY <2>1 DEF SwitchInv, ArpTrue
  <2>4. mac_tbl[m].item = heard[m].port
    BY <2>1 DEF SwitchInv, MacTrue
  <2> QED BY <2>2, <2>3, <2>4
<1> QED BY <1>1, SwitchInvariant, PTL DEF SwitchSpec, ForwardsTrue

(* At Forward the best route is CONNECTED.                                 *)
LEMMA ForwardConnected ==
  ASSUME SwitchInv, Forward
  PROVE  /\ pkt \in Frame /\ pkt.dst \in Address
         /\ getBestRouteType(routes[answer[2]]) = CONNECTED
<1>1. pkt \in Frame /\ pkt.kind = "IPv4" /\ answer[1] = "route"
  BY DEF SwitchInv, Placed, Forward
<1> QED BY <1>1, FrameFields DEF SwitchInv, IInv, Answered

(* The tables age apart, and a frame for an address the ARP table has is   *)
(* dropped exactly if its station was silent too long when the MAC table   *)
(* was last refreshed; otherwise it is routed.                             *)
THEOREM RecentReached == SwitchSpec => DeliversRecent
<1>1. SwitchInv /\ [SwitchNext]_lvars =>
        [Forward /\ ~ Forgotten(pkt.dst) =>
           IF Silent(pkt.dst) THEN sent' = {}
                              ELSE \E o \in sent' : o.kind = "IPv4"]_lvars
  <2> SUFFICES ASSUME SwitchInv, Forward, ~ Forgotten(pkt.dst)
               PROVE  IF Silent(pkt.dst) THEN sent' = {}
                                         ELSE \E o \in sent' : o.kind = "IPv4"
    OBVIOUS
  <2> DEFINE a == pkt.dst
             m == claimed[a].mac
  <2>1. a \in Address /\ sent' = Routed(a)
    BY ForwardConnected DEF Forward
  <2>2. /\ claimed[a] # None /\ claimed[a].time \in Nat
        /\ m \in Mac /\ heard[m] # None /\ heard[m].time \in Nat
    BY <2>1 DEF SwitchInv, Remembered, Forgotten
  <2>3. ref_at.arp \in Nat /\ ref_at.mac \in Nat /\ age_out \in Nat
    BY SwitchAssumption DEF SwitchInv, Timed
  <2>4. a \in DOMAIN arp_tbl
    BY <2>1, <2>2, <2>3 DEF SwitchInv, ArpKept, Forgotten
  <2>5. arp_tbl[a].item = m
    BY <2>4 DEF SwitchInv, ArpTrue
  <2>6. m \in DOMAIN mac_tbl <=> ~ Silent(a)
    <3>1. ~ Silent(a) => m \in DOMAIN mac_tbl
      BY <2>2, <2>3 DEF SwitchInv, MacKept, Silent
    <3>2. m \in DOMAIN mac_tbl => mac_tbl[m].last_ref = heard[m].time
      BY DEF SwitchInv, MacTrue
    <3>3. m \in DOMAIN mac_tbl => ~ Silent(a)
      BY <2>2, <2>3, <3>2 DEF SwitchInv, MacFresh, Silent
    <3> QED BY <3>1, <3>3
  <2>7. sent' = {Out(mac_tbl[k].item, "IPv4", k, a) : k \in {m} \cap DOMAIN mac_tbl}
    BY <2>1, <2>4, <2>5, ForwardConnected DEF Routed
  <2>8. CASE Silent(a)
    BY <2>6, <2>7, <2>8
  <2>9. CASE ~ Silent(a)
    <3>1. Out(mac_tbl[m].item, "IPv4", m, a) \in sent'
      BY <2>6, <2>7, <2>9
    <3> QED BY <3>1, <2>9 DEF Out
  <2> QED BY <2>8, <2>9
<1> QED BY <1>1, SwitchInvariant, PTL DEF SwitchSpec, DeliversRecent

(* What was claimed too long before the last refresh, or never, is asked   *)
(* for and not sent to a station that may have gone.                       *)
THEOREM ForgottenAsked == SwitchSpec => AsksForgotten
<1>1. SwitchInv /\ [SwitchNext]_lvars =>
        [Forward /\ Forgotten(pkt.dst) => sent' = Requests(pkt.dst)]_lvars
  <2> SUFFICES ASSUME SwitchInv, Forward, Forgotten(pkt.dst)
               PROVE  sent' = Requests(pkt.dst)
    OBVIOUS
  <2>1. pkt.dst \notin DOMAIN arp_tbl
    <3> SUFFICES ASSUME pkt.dst \in DOMAIN arp_tbl
                 PROVE  FALSE
      OBVIOUS
    <3>1. claimed[pkt.dst] # None /\ ref_at.arp <= claimed[pkt.dst].time + age_out
      BY DEF SwitchInv, ArpTrue, ArpFresh
    <3>2. claimed[pkt.dst].time \in Nat
      BY <3>1, ForwardConnected DEF SwitchInv, Remembered
    <3> QED BY <3>1, <3>2, SwitchAssumption DEF Forgotten, SwitchInv, Timed
  <2> QED BY <2>1, ForwardConnected DEF Forward, Routed
<1> QED BY <1>1, SwitchInvariant, PTL DEF SwitchSpec, AsksForgotten

-----------------------------------------------------------------------------
(* The routing table in the switch *)

(* The switch takes the steps of the routing table's specification, and no *)
(* others: what is proved of every table holds of the one in the switch.   *)
THEOREM SwitchUsesTable == SwitchSpec => Init /\ [][Next]_rvars
<1>1. SwitchInit => Init
  BY DEF SwitchInit
<1>2. SwitchInv /\ [SwitchNext]_lvars => [Next]_rvars
  <2> SUFFICES ASSUME SwitchInv, [SwitchNext]_lvars
               PROVE  Next \/ UNCHANGED rvars
    OBVIOUS
  <2>1. CASE Boot
    <3>1. port \in Netif /\ AddRoute(NetOf(port), CONNECTED, Root.nexthop)
      BY <2>1 DEF SwitchInv, Placed, Boot
    <3>2. PICK o \in Offer : o = [net |-> NetOf(port), type |-> CONNECTED, nexthop |-> Root.nexthop]
      BY <3>1, OwnAssumption
    <3>3. o.net = NetOf(port) /\ o.type = CONNECTED /\ o.nexthop = Root.nexthop
      BY <3>2
    <3>4. AddRoute(o.net, o.type, o.nexthop)
      BY <3>1, <3>3, Zenon
    <3> QED BY <3>2, <3>4, Zenon DEF Next
  <2>2. CASE HandleIP
    <3>1. pkt.dst \in Address /\ Ask(pkt.dst)
      BY <2>2, FrameFields DEF SwitchInv, Placed, HandleIP
    <3> QED BY <3>1, Zenon DEF Next
  <2>3. CASE Resolve
    BY <2>3, Zenon DEF Resolve, Next
  <2>4. CASE ~ (Boot \/ HandleIP \/ Resolve)
    <3>1. UNCHANGED lvars => UNCHANGED rvars
      BY DEF lvars
    <3>2. RefreshArp \/ RefreshMac \/ Idle \/ (\E f \in Frame : Receive(f)) \/ HandleArp \/ Forward \/ Tick
            => UNCHANGED rvars
      BY DEF RefreshArp, RefreshMac, Idle, Receive, HandleArp, Forward, Tick
    <3> QED BY <2>4, <3>1, <3>2, Zenon DEF SwitchNext, Main
  <2> QED BY <2>1, <2>2, <2>3, <2>4
<1> QED BY <1>1, <1>2, SwitchInvariant, PTL DEF SwitchSpec

(* So every frame is routed by the longest prefix that matches,            *)
THEOREM SwitchMatchesLongest == SwitchSpec => []LongestMatch
<1>1. SwitchInv => LongestMatch
  BY LongestOfTable DEF SwitchInv
<1> QED BY <1>1, SwitchInvariant, PTL

(* and r_resolve() stays on the chain of the address it was called with.   *)
THEOREM SwitchKeepsToChain == SwitchSpec => []KeepsToChain
<1>1. Init => KeepsToChain
  BY DEF Init, KeepsToChain
<1>2. SwitchInv => IInv
  BY DEF SwitchInv
<1> QED BY <1>1, <1>2, ChainStep, SwitchInvariant, SwitchUsesTable, PTL

(* main() adds the networks of its interfaces, as CONNECTED, beside the    *)
(* route of the root.                                                      *)
OwnRoutes ==
  /\ \A p \in DOMAIN routes \ {<<>>} :
        DOMAIN routes[p] = {CONNECTED} /\ \E j \in Netif : p = NetOf(j)
  /\ DOMAIN routes[<<>>] \subseteq {CONNECTED, UNREACH}
  /\ CONNECTED \in DOMAIN routes[<<>>] => \E j \in Netif : NetOf(j) = <<>>
  /\ \A t \in DOMAIN routes[<<>>] : routes[<<>>][t] = <<Root.nexthop>>

(* The route that r_resolve() is at, and returns, matches the frame.       *)
AskedFor ==
  /\ step \in {"resolve", "forward"} => asked = pkt.dst
  /\ looking => IsPrefix(at, asked)
  /\ step = "forward" => IsPrefix(answer[2], asked)

(* The best type of a set of these two.                                    *)
LEMMA BestOfTwo ==
  ASSUME NEW r, DOMAIN r \subseteq {CONNECTED, UNREACH}, CONNECTED \in DOMAIN r
  PROVE  getBestRouteType(r) = CONNECTED
<1>1. \A t \in DOMAIN r : CONNECTED <= t
  BY DEF CONNECTED, UNREACH
<1>2. \A t \in DOMAIN r : (\A u \in DOMAIN r : t <= u) => t = CONNECTED
  BY DEF CONNECTED, UNREACH
<1>3. DOMAIN r # {}
  OBVIOUS
<1> QED BY <1>1, <1>2, <1>3 DEF getBestRouteType

(* A route of the table that is CONNECTED is that of an interface.         *)
LEMMA ConnectedOwn ==
  ASSUME IInv, OwnRoutes, NEW p \in DOMAIN routes, getBestRouteType(routes[p]) = CONNECTED
  PROVE  \E j \in Netif : p = NetOf(j)
<1>1. CASE p = <<>>
  <2>1. CONNECTED \in DOMAIN routes[<<>>]
    <3>1. IsRoute(routes[p]) /\ DOMAIN routes[p] # {}
      BY DEF IInv, TypeOK, OneNexthop
    <3> QED BY <1>1, <3>1, BestType
  <2> QED BY <1>1, <2>1 DEF OwnRoutes
<1>2. CASE p # <<>>
  BY <1>2 DEF OwnRoutes
<1> QED BY <1>1, <1>2

(* The chain of the root stays at the root: its next hop is 0.             *)
LEMMA RootStays ==
  ASSUME IInv, OwnRoutes
  PROVE  Via(<<>>) = <<>>
<1>1. <<>> \in DOMAIN routes /\ IsRoute(routes[<<>>]) /\ DOMAIN routes[<<>>] # {}
  BY DEF IInv, Rooted, TypeOK, OneNexthop
<1>2. PICK t \in DOMAIN routes[<<>>] : t = getBestRouteType(routes[<<>>])
  BY <1>1, BestType
<1>3. getBestNexthops(routes[<<>>]) = <<Root.nexthop>>
  BY <1>2 DEF OwnRoutes, getBestNexthops, getNexthops
<1>4. resolve(Root.nexthop) = <<>>
  <2>1. Root.nexthop \in Address
    BY WidthAssumption DEF Root, Address, Bit
  <2>2. PICK z \in Address : z = Root.nexthop
    BY <2>1
  <2>3. \A b \in 1 .. W : z[b] = 0
    BY <2>2 DEF Root
  <2>4. z \in Seq(Bit) /\ Len(z) = W /\ W \in Nat
    BY AddressIsSeq, WidthAssumption
  <2>5. CASE Found(z) = {}
    BY <2>2, <2>5 DEF resolve
  <2>6. CASE Found(z) # {}
    <3>1. Deepest(z) \in 0 .. W - 1
      BY <2>4, <2>6, DeepestFound DEF Found, Visited
    <3>2. PICK d \in 0 .. W : d = Deepest(z)
      BY <2>4, <3>1
    <3>3. /\ SubSeq(z, 1, d) \in Seq(Bit) /\ Len(SubSeq(z, 1, d)) = d
          /\ \A b \in 1 .. d : SubSeq(z, 1, d)[b] = z[b]
      BY <2>4, Leading
    <3>4. Zero(SubSeq(z, 1, d))
      <4>1. PICK l \in Seq(Bit) : l = SubSeq(z, 1, d)
        BY <3>3
      <4>2. DOMAIN l = 1 .. d /\ \A b \in 1 .. d : l[b] = z[b] /\ b \in 1 .. W
        BY <2>4, <3>3, <4>1
      <4> QED BY <2>3, <4>1, <4>2 DEF Zero
    <3> QED BY <2>2, <3>2, <3>4 DEF resolve
  <2> QED BY <2>5, <2>6
<1>5. Head(<<Root.nexthop>>) = Root.nexthop
  OBVIOUS
<1> QED BY <1>3, <1>4, <1>5 DEF Via

(* At first the root's route is all there is.                              *)
LEMMA OwnStart == SwitchInit => OwnRoutes /\ AskedFor
<1> SUFFICES ASSUME SwitchInit
             PROVE  OwnRoutes /\ AskedFor
  OBVIOUS
<1> DEFINE r == addNexthop(NoNexthops, UNREACH, Root.nexthop)
<1>1. DOMAIN r = {UNREACH} /\ r[UNREACH] = <<Root.nexthop>>
  <2>1. DOMAIN NoNexthops = {} /\ getNexthops(NoNexthops, UNREACH) = <<>>
    BY DEF NoNexthops, getNexthops
  <2>2. DOMAIN r = {UNREACH} /\ r[UNREACH] = Append(<<>>, Root.nexthop)
    BY <2>1 DEF addNexthop
  <2>3. \A a : Append(<<>>, a) = <<a>>
    OBVIOUS
  <2> QED BY <2>2, <2>3, Zenon
<1>2. routes = [p \in {<<>>} |-> r] /\ step = "boot" /\ looking = FALSE
  BY DEF SwitchInit, Init
<1> HIDE DEF r
<1>3. OwnRoutes
  <2>1. DOMAIN routes = {<<>>} /\ routes[<<>>] = r
    BY <1>2
  <2>2. CONNECTED \notin DOMAIN r /\ UNREACH \in {CONNECTED, UNREACH}
    BY <1>1 DEF CONNECTED, UNREACH
  <2> QED BY <1>1, <2>1, <2>2 DEF OwnRoutes
<1>4. AskedFor
  BY <1>2 DEF AskedFor
<1> QED BY <1>3, <1>4

(* main() adds the network of an interface.                                *)
LEMMA BootOwn ==
  ASSUME SwitchInv, OwnRoutes, Boot
  PROVE  OwnRoutes'
<1>1. PICK net \in Network : net = NetOf(port)
  BY OwnNetwork DEF SwitchInv, Placed
<1>2. AddRoute(net, CONNECTED, Root.nexthop) /\ port \in Netif
  BY <1>1 DEF Boot, SwitchInv, Placed
<1> DEFINE r == addNexthop(Has(net), CONNECTED, Root.nexthop)
<1>3. CASE Refused(net, CONNECTED)
  <2>1. net \in DOMAIN routes
    BY <1>3 DEF Refused, Has, NoNexthops, getNexthops
  <2>2. routes' = [p \in DOMAIN routes \cup {net} |-> IF p = net THEN Has(net) ELSE routes[p]]
    BY <1>2, <1>3 DEF AddRoute, PutRoute
  <2>3. DOMAIN routes' = DOMAIN routes /\ \A p \in DOMAIN routes : routes'[p] = routes[p]
    BY <2>1, <2>2 DEF Has
  <2>4. <<>> \in DOMAIN routes
    BY DEF SwitchInv, IInv, Rooted
  <2> QED BY <2>3, <2>4 DEF OwnRoutes
<1>4. CASE ~ Refused(net, CONNECTED)
  <2>1. routes' = [p \in DOMAIN routes \cup {net} |-> IF p = net THEN r ELSE routes[p]]
    BY <1>2, <1>4 DEF AddRoute, PutRoute
  <2>2. DOMAIN r = DOMAIN Has(net) \cup {CONNECTED}
    BY DEF addNexthop
  <2>3. r[CONNECTED] = <<Root.nexthop>>
    BY <1>4 DEF addNexthop, Refused
  <2>4. \A t \in DOMAIN Has(net) \ {CONNECTED} : r[t] = Has(net)[t]
    BY DEF addNexthop
  <2> HIDE DEF r
  <2>5. <<>> \in DOMAIN routes
    BY DEF SwitchInv, IInv, Rooted
  <2>6. CASE net = <<>>
    <3>1. DOMAIN routes' = DOMAIN routes /\ routes'[<<>>] = r
          /\ \A p \in DOMAIN routes \ {<<>>} : routes'[p] = routes[p]
      BY <2>1, <2>5, <2>6
    <3>2. Has(net) = routes[<<>>]
      BY <2>5, <2>6 DEF Has
    <3>3. DOMAIN r \subseteq {CONNECTED, UNREACH} /\ \A t \in DOMAIN r : r[t] = <<Root.nexthop>>
      BY <2>2, <2>3, <2>4, <3>2 DEF OwnRoutes
    <3>4. \E j \in Netif : NetOf(j) = <<>>
      BY <1>1, <1>2, <2>6
    <3>5. \A p \in DOMAIN routes' \ {<<>>} :
            DOMAIN routes'[p] = {CONNECTED} /\ \E j \in Netif : p = NetOf(j)
      BY <3>1 DEF OwnRoutes
    <3> QED BY <3>1, <3>3, <3>4, <3>5, Zenon DEF OwnRoutes
  <2>7. CASE net # <<>>
    <3>1. net \notin DOMAIN routes
      <4> SUFFICES ASSUME net \in DOMAIN routes
                   PROVE  FALSE
        OBVIOUS
      <4>1. CONNECTED \in DOMAIN routes[net] /\ Has(net) = routes[net]
        BY <2>7 DEF OwnRoutes, Has
      <4>2. Len(routes[net][CONNECTED]) = 1
        BY <4>1 DEF SwitchInv, IInv, OneNexthop
      <4>3. routes[net][CONNECTED] # <<>>
        BY <4>2, EmptySeq
      <4> QED BY <1>4, <4>1, <4>3 DEF Refused, getNexthops
    <3>2. DOMAIN r = {CONNECTED}
      BY <2>2, <3>1 DEF Has, NoNexthops
    <3>3. DOMAIN routes' = DOMAIN routes \cup {net} /\ routes'[net] = r
          /\ \A p \in DOMAIN routes : routes'[p] = routes[p]
      BY <2>1, <3>1
    <3>4. \A p \in DOMAIN routes' \ {<<>>} :
            DOMAIN routes'[p] = {CONNECTED} /\ \E j \in Netif : p = NetOf(j)
      BY <1>1, <1>2, <3>2, <3>3 DEF OwnRoutes
    <3> QED BY <2>5, <3>3, <3>4 DEF OwnRoutes
  <2> QED BY <2>6, <2>7
<1> QED BY <1>3, <1>4

(* Every step keeps both.                                                  *)
LEMMA OwnStep ==
  ASSUME SwitchInv, OwnRoutes, AskedFor, [SwitchNext]_lvars
  PROVE  (OwnRoutes /\ AskedFor)'
<1>1. looking <=> step = "resolve"
  BY DEF SwitchInv, Placed
<1>2. ASSUME UNCHANGED routes PROVE OwnRoutes'
  BY <1>2 DEF OwnRoutes
<1>3. CASE Boot
  <2>1. step' \in {"boot", "arp"} /\ ~ looking'
    BY <1>1, <1>3 DEF Boot, AddRoute
  <2> QED BY <1>3, <2>1, BootOwn DEF AskedFor
<1>4. CASE HandleIP
  <2>1. pkt.dst \in Address /\ Ask(pkt.dst)
    BY <1>4, FrameFields DEF SwitchInv, Placed, HandleIP
  <2>2. resolve(pkt.dst) \in Matches(pkt.dst)
    BY <2>1, LongestOfTable DEF SwitchInv, LongestMatch
  <2>3. IsPrefix(resolve(pkt.dst), pkt.dst)
    BY <2>2 DEF Matches
  <2>4. at' = resolve(pkt.dst) /\ asked' = pkt.dst /\ pkt' = pkt /\ step' = "resolve" /\ UNCHANGED routes
    BY <1>4, <2>1 DEF HandleIP, Ask
  <2> QED BY <1>2, <2>3, <2>4 DEF AskedFor
<1>5. CASE Resolve /\ Follow
  <2>1. /\ at \in DOMAIN routes /\ looking
        /\ getBestRouteType(routes[at]) # CONNECTED
    BY <1>5 DEF Follow, SwitchInv, IInv, TypeOK
  <2>2. at = <<>>
    BY <2>1, BestOfTwo DEF OwnRoutes
  <2>3. at' = Via(at) /\ UNCHANGED <<nodes, routes, looking, asked, answer>>
    BY <1>5, FollowHop DEF SwitchInv
  <2>4. at' = <<>> /\ step' = "resolve" /\ pkt' = pkt /\ step = "resolve"
    BY <1>5, <2>1, <2>2, <2>3, RootStays DEF Resolve, SwitchInv
  <2>5. IsPrefix(<<>>, asked)
    BY <2>1, <2>2 DEF AskedFor
  <2>6. UNCHANGED routes /\ asked' = asked
    BY <2>3
  <2> QED BY <1>2, <2>4, <2>5, <2>6 DEF AskedFor
<1>6. CASE Resolve /\ Return
  <2>1. /\ looking /\ ~ looking' /\ answer' = <<"route", at>> /\ UNCHANGED <<routes, asked, pkt>>
        /\ step = "resolve"
    BY <1>6 DEF Resolve, Return
  <2>2. answer'[2] = at
    BY <2>1
  <2> QED BY <1>2, <2>1, <2>2 DEF AskedFor
<1>7. CASE Tick \/ UNCHANGED lvars
  <2>1. UNCHANGED <<routes, looking, asked, at, answer, step, pkt>>
    BY <1>7 DEF Tick, lvars, rvars
  <2> QED BY <1>2, <2>1 DEF AskedFor
<1>8. CASE RefreshArp \/ RefreshMac \/ Idle \/ (\E f \in Frame : Receive(f)) \/ HandleArp \/ Forward
  <2>1. UNCHANGED rvars /\ step' \notin {"resolve", "forward"} /\ ~ looking
    BY <1>1, <1>8 DEF RefreshArp, RefreshMac, Idle, Receive, HandleArp, Forward, NextPort
  <2>2. UNCHANGED <<routes, looking>>
    BY <2>1 DEF rvars
  <2> QED BY <1>2, <2>1, <2>2 DEF AskedFor
<1> QED BY <1>3, <1>4, <1>5, <1>6, <1>7, <1>8 DEF SwitchNext, Main, Resolve

(* A frame is routed only to an address in the network of an interface:    *)
(* for any other, which the root's route matches, r_resolve() never        *)
(* returns, and l3sw.cpp:138 is not reached.                               *)
THEOREM RoutesLocally ==
  SwitchSpec => [][Forward => \E j \in Netif : IsPrefix(NetOf(j), pkt.dst)]_lvars
<1>1. SwitchSpec => [](OwnRoutes /\ AskedFor)
  BY OwnStart, OwnStep, SwitchInvariant, PTL DEF SwitchSpec
<1>2. SwitchInv /\ OwnRoutes /\ AskedFor /\ [SwitchNext]_lvars =>
        [Forward => \E j \in Netif : IsPrefix(NetOf(j), pkt.dst)]_lvars
  <2> SUFFICES ASSUME SwitchInv, OwnRoutes, AskedFor, Forward
               PROVE  \E j \in Netif : IsPrefix(NetOf(j), pkt.dst)
    OBVIOUS
  <2>1. step = "forward" /\ IsPrefix(answer[2], pkt.dst)
    BY DEF Forward, AskedFor
  <2>2. answer[2] \in DOMAIN routes /\ getBestRouteType(routes[answer[2]]) = CONNECTED
    BY <2>1 DEF SwitchInv, Placed, IInv, Answered
  <2>3. PICK j \in Netif : answer[2] = NetOf(j)
    BY <2>2, ConnectedOwn DEF SwitchInv
  <2> QED BY <2>1, <2>3
<1> QED BY <1>1, <1>2, SwitchInvariant, PTL DEF SwitchSpec
=============================================================================
