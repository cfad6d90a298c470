-------------------------------- MODULE L3SW --------------------------------
(***************************************************************************)
(* forwarder/test/L3SW/l3sw.cpp: the layer 3 switch.  One thread refreshes *)
(* its ARP and MAC tables, looks at each interface once, and handles the   *)
(* frame it finds there: it learns from it, answers ARP requests for its   *)
(* own addresses, and routes IPv4.  The routing table and r_resolve() are  *)
(* those of RouteTable.tla, the two tables are Caches.  The clock may tick *)
(* between any two steps.                                                  *)
(***************************************************************************)
EXTENDS RouteTable

CONSTANTS NETIF_NUM,
          NetIP, NetLen,   \* address and netmask length of each interface
          NetMac,          \* its MAC address
          Mac,             \* the MAC addresses of the stations
          Broadcast,
          Frame,           \* the frames stations may send
          None,
          age_out,         \* of both tables
          MaxTime          \* bound: the clock stops there

Netif  == 1 .. NETIF_NUM
NetOf(i) == SubSeq(NetIP[i], 1, NetLen[i])

(* A frame tells the MAC addresses it goes to and comes from.  ARP says    *)
(* which IP address is at the source, IPv4 to which address it goes.       *)
ArpFrame == [kind : {"request", "reply"}, to : Mac \cup Range(NetMac) \cup {Broadcast},
             src : Mac, sender : Address, target : Address]
IPFrame  == [kind : {"IPv4"}, to : Mac \cup Range(NetMac) \cup {Broadcast},
             src : Mac, dst : Address]

ASSUME SwitchAssumption ==
  /\ NETIF_NUM \in Nat \ {0}
  /\ NetIP \in [Netif -> Address] /\ NetLen \in [Netif -> 0 .. W]
  /\ Broadcast \notin Mac \cup Range(NetMac)
  /\ DOMAIN NetMac = Netif /\ Range(NetMac) \cap Mac = {}
  /\ Frame \subseteq ArpFrame \cup IPFrame /\ None \notin Frame
  /\ None \notin [mac : Mac, time : 0 .. MaxTime] \cup [port : Netif, time : 0 .. MaxTime]
  /\ age_out \in Nat /\ MaxTime \in Nat

(* The addRoute() calls of main(), one for each interface.                 *)
ASSUME OwnAssumption ==
  \A i \in Netif : [net |-> NetOf(i), type |-> CONNECTED, nexthop |-> Root.nexthop] \in Offer

VARIABLES step,              \* where main() is
          port,              \* the interface it is at
          pkt,               \* the frame it is handling
          arp_tbl, mac_tbl,
          now,               \* time(NULL)
          ref_at,            \* history: when each table was last refreshed
          sent,              \* what the last step sent
          heard, claimed     \* history: last frame of a MAC address, last claim to an IP address

lvars == <<rvars, step, port, pkt, arp_tbl, mac_tbl, now, ref_at, sent, heard, claimed>>

ArpTable == INSTANCE Cache WITH table <- arp_tbl, Key <- Address, Item <- Mac
MacTable == INSTANCE Cache WITH table <- mac_tbl, Key <- Mac, Item <- Netif

SwitchInit ==
  /\ Init
  /\ step = "boot" /\ port = 1 /\ pkt = None
  /\ ArpTable!Init /\ MacTable!Init
  /\ ref_at = [arp |-> 0, mac |-> 0] /\ sent = {}
  /\ heard = [m \in Mac |-> None]
  /\ claimed = [a \in Address |-> None]

-----------------------------------------------------------------------------
(* mutant: the tables are refreshed once, before the loop *)
NextPortOnly ==
  IF port < NETIF_NUM THEN step' = "recv" /\ port' = port + 1
                      ELSE step' = "recv" /\ port' = 1

NextPort ==
  IF port < NETIF_NUM THEN step' = "recv" /\ port' = port + 1
                      ELSE step' = "arp" /\ port' = 1

(* The network of each interface is put into the routing table.            *)
Boot ==
  /\ step = "boot"
  /\ AddRoute(NetOf(port), CONNECTED, Root.nexthop)
  /\ IF port < NETIF_NUM THEN port' = port + 1 /\ UNCHANGED step
                         ELSE port' = 1 /\ step' = "arp"
  /\ UNCHANGED <<pkt, arp_tbl, mac_tbl, now, ref_at, sent, heard, claimed>>

(* mutant: the ARP table is not refreshed *)
RefreshArpNot ==
  /\ step = "arp"
  /\ step' = "mac"
  /\ ref_at' = [ref_at EXCEPT !.arp = now]
  /\ sent' = {}
  /\ UNCHANGED <<rvars, port, pkt, arp_tbl, mac_tbl, now, heard, claimed>>

RefreshArp ==
  /\ step = "arp"
  /\ ArpTable!Refresh(FALSE)
  /\ step' = "mac"
  /\ ref_at' = [ref_at EXCEPT !.arp = now]
  /\ sent' = {}
  /\ UNCHANGED <<rvars, port, pkt, mac_tbl, heard, claimed>>

RefreshMac ==
  /\ step = "mac"
  /\ MacTable!Refresh(FALSE)
  /\ step' = "recv"
  /\ ref_at' = [ref_at EXCEPT !.mac = now]
  /\ sent' = {}
  /\ UNCHANGED <<rvars, port, pkt, arp_tbl, heard, claimed>>

(* Nothing there, or a frame that recv() filters out.                      *)
Idle ==
  /\ step = "recv"
  /\ NextPort
  /\ sent' = {}
  /\ UNCHANGED <<rvars, pkt, arp_tbl, mac_tbl, now, ref_at, heard, claimed>>

(* mutant: a station that is known is not updated *)
ReceiveNew(f) ==
  /\ step = "recv"
  /\ pkt' = f
  /\ step' = "handle"
  /\ IF f.src \in DOMAIN mac_tbl THEN UNCHANGED <<mac_tbl, now>>
                                 ELSE MacTable!Update(f.src, port, FALSE)
  /\ heard' = [heard EXCEPT ![f.src] = [port |-> port, time |-> now]]
  /\ sent' = {}
  /\ UNCHANGED <<rvars, port, arp_tbl, ref_at, claimed>>

Receive(f) ==
  /\ step = "recv"
  /\ pkt' = f
  /\ step' = "handle"
  /\ MacTable!Update(f.src, port, FALSE)
  /\ heard' = [heard EXCEPT ![f.src] = [port |-> port, time |-> now]]
  /\ sent' = {}
  /\ UNCHANGED <<rvars, port, arp_tbl, ref_at, claimed>>

Out(j, kind, to, addr) == [port |-> j, kind |-> kind, to |-> to, addr |-> addr]

(* mutant: only requests for the interface's own address are learned from *)
HandleArpOwn ==
  /\ step = "handle" /\ pkt.kind \in {"request", "reply"}
  /\ IF pkt.kind = "request" /\ pkt.target = NetIP[port]
     THEN /\ sent' = {Out(port, "reply", pkt.src, pkt.sender)}
          /\ ArpTable!Update(pkt.sender, pkt.src, FALSE)
     ELSE sent' = {} /\ UNCHANGED <<arp_tbl, now>>
  /\ claimed' = [claimed EXCEPT ![pkt.sender] = [mac |-> pkt.src, time |-> now]]
  /\ pkt' = None
  /\ NextPort
  /\ UNCHANGED <<rvars, mac_tbl, ref_at, heard>>

HandleArp ==
  /\ step = "handle" /\ pkt.kind \in {"request", "reply"}
  /\ sent' = IF pkt.kind = "request" /\ pkt.target = NetIP[port]
             THEN {Out(port, "reply", pkt.src, pkt.sender)} ELSE {}
  /\ ArpTable!Update(pkt.sender, pkt.src, FALSE)
  /\ claimed' = [claimed EXCEPT ![pkt.sender] = [mac |-> pkt.src, time |-> now]]
  /\ pkt' = None
  /\ NextPort
  /\ UNCHANGED <<rvars, mac_tbl, ref_at, heard>>

HandleIP ==
  /\ step = "handle" /\ pkt.kind = "IPv4"
  /\ Ask(pkt.dst)
  /\ step' = "resolve"
  /\ sent' = {}
  /\ UNCHANGED <<port, pkt, arp_tbl, mac_tbl, now, ref_at, heard, claimed>>

(* The loop of r_resolve().                                                *)
Resolve ==
  /\ step = "resolve"
  /\ Follow \/ Return
  /\ step' = IF looking' THEN "resolve" ELSE "forward"
  /\ UNCHANGED <<port, pkt, arp_tbl, mac_tbl, now, ref_at, sent, heard, claimed>>

Requests(addr) == {Out(j, "request", Broadcast, addr) : j \in Netif \ {port}}

(* A frame whose MAC address has aged out is dropped without a word.       *)
Routed(addr) ==
  IF getBestRouteType(routes[answer[2]]) # CONNECTED THEN {}
  ELSE IF addr \notin DOMAIN arp_tbl THEN Requests(addr)
  ELSE LET m == arp_tbl[addr].item
       IN  {Out(mac_tbl[k].item, "IPv4", k, addr) : k \in {m} \cap DOMAIN mac_tbl}

Forward ==
  /\ step = "forward"
  /\ sent' = Routed(pkt.dst)
  /\ pkt' = None
  /\ NextPort
  /\ UNCHANGED <<rvars, arp_tbl, mac_tbl, now, ref_at, heard, claimed>>

Tick ==
  /\ now < MaxTime
  /\ now' = now + 1
  /\ sent' = {}
  /\ UNCHANGED <<rvars, step, port, pkt, arp_tbl, mac_tbl, ref_at, heard, claimed>>

Main == \/ Boot \/ RefreshArp \/ RefreshMac
        \/ Idle \/ \E f \in Frame : Receive(f)
        \/ HandleArp \/ HandleIP \/ Resolve \/ Forward

SwitchNext == Main \/ Tick

(* The thread runs on; poll() returns after a millisecond at the latest.   *)
SwitchSpec == SwitchInit /\ [][SwitchNext]_lvars /\ WF_lvars(Main)

-----------------------------------------------------------------------------
(* Properties *)

(* A routed frame goes to the station that last claimed its address, on    *)
(* the interface that station was last heard on, however old either is.    *)
ForwardsTrue ==
  [][\A o \in sent' : o.kind = "IPv4" =>
        /\ claimed[o.addr] # None /\ o.to = claimed[o.addr].mac
        /\ o.port = heard[o.to].port]_lvars

(* When the address was not claimed, or too long before the last refresh,  *)
(* the switch asks for it everywhere but where the frame came from.        *)
Forgotten(addr) == claimed[addr] = None \/ claimed[addr].time + age_out < ref_at.arp

AsksForgotten ==
  [][Forward /\ Forgotten(pkt.dst) => sent' = Requests(pkt.dst)]_lvars

(* The two tables age apart (l3sw.cpp:77-78, 99, 111).  A frame for an     *)
(* address that is not forgotten is routed, but for one case: its station  *)
(* was silent too long when the MAC table was last refreshed.  Then it is  *)
(* dropped and nobody is asked for the address (l3sw.cpp:128).             *)
Silent(addr) == heard[claimed[addr].mac].time + age_out < ref_at.mac

DeliversRecent ==
  [][Forward /\ ~ Forgotten(pkt.dst) =>
        IF Silent(pkt.dst) THEN sent' = {}
                           ELSE \E o \in sent' : o.kind = "IPv4"]_lvars

(* The main loop comes round again and again, unless it stays in           *)
(* r_resolve() for an address without a connected route.                   *)
ServesOn == []<>(step = "arp") \/ <>[](looking /\ resolve(asked) \notin Grounded)

(* Only frames sent to the switch are routed: recv() is said to filter     *)
(* what is not for the interface's own address (NetIf.cpp:176-177).        *)
RoutesOwn ==
  [][Forward => pkt.to \in {NetMac[port], Broadcast}]_lvars
=============================================================================
