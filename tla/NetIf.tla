------------------------------- MODULE NetIf -------------------------------
(***************************************************************************)
(* forwarder/src/NetIf.cpp: the interfaces of a host, and a program on it  *)
(* that keeps the frame it received last in one Ethernet object, as        *)
(* l3sw.cpp and vlan_switch.cpp do, and sends it on, or sends what l3sw    *)
(* makes of it.  A frame on the wire is taken by the next host, which runs *)
(* the same code: one host stands for all of them in turn.                 *)
(***************************************************************************)
EXTENDS Ethernet

CONSTANTS Netif,      \* the interfaces
          iftype,     \* of each: "access", "trunk" or "L3"
          vlan,       \* its VLAN, 0 for "L3"
          Mac, IP,    \* its addresses
          VlanId,     \* the VLANs programs send into
          Station,    \* MAC addresses of stations
          Frame,      \* the frames stations send
          Garbage     \* what a header that was never set may be taken to say

Words(n) == {w \in Seq(Word) : Len(w) = n}

(* Frames are long enough for the headers they say they have.  A tag of    *)
(* zeros is in front of no other, and 0x88a8 in front of one.              *)
Fits(data, k) ==
  CASE data[k] = ETHTYPE_ARP  -> Len(data) >= k + 14
    [] data[k] = ETHTYPE_IPV4 -> Len(data) >= k + 10
    [] OTHER                  -> Len(data) >= k

Framed(data) ==
  /\ data \in Seq(Word) /\ Len(data) >= 7 /\ Fits(data, 7)
  /\ data[7] \in {ETHTYPE_DOT1Q, ETHTYPE_QINQ} =>
       /\ Len(data) >= 9 /\ Fits(data, 9)
       /\ data[9] = ETHTYPE_DOT1Q => data[8] # 0
       /\ data[9] = ETHTYPE_QINQ  => Len(data) >= 11 /\ data[10] # 0 /\ data[11] = ETHTYPE_DOT1Q

ASSUME NetIfAssumption ==
  /\ 0 \notin Netif
  /\ \A i \in Netif : Mac[i] \in Words(3) /\ IP[i] \in Words(2)
  /\ Station \subseteq Words(3) /\ Garbage \subseteq Words(2)
  /\ \A f \in Frame : Framed(f)
  /\ iftype \in [Netif -> {"access", "trunk", "L3"}]
  /\ vlan \in [Netif -> Word]
  /\ \A i \in Netif : iftype[i] = "L3" => vlan[i] = 0
  /\ VlanId \subseteq Word

VARIABLES wire,       \* the frame sent last, until a host takes one
          pkt,        \* the program's Ethernet object
          at,         \* the interface its frame came from, 0 if there is none
          up,         \* whether the program runs
          received,   \* history: the frame that came
          lent        \* history: the L3 interfaces it was sent to since, 0 if to all stations

vars == <<wire, pkt, at, up, received, lent>>

NoFrame == <<>>

Init ==
  /\ wire = NoFrame
  /\ pkt = Blank /\ at = 0 /\ up = TRUE
  /\ received = NoFrame /\ lent = {}

-----------------------------------------------------------------------------
(* Receiving.  The kernel takes the outer tag off a frame, and hands it    *)
(* over apart from it.                                                     *)
Tagged(data)   == Type(data) \in {ETHTYPE_DOT1Q, ETHTYPE_QINQ}
Untagged(data) == Read(data, 1, 6) \o SubSeq(data, 9, Len(data))
KernelTag(data)   == IF Tagged(data) THEN data[8] ELSE 0
KernelFrame(data) == IF Tagged(data) THEN Untagged(data) ELSE data

(* A tag of zeros is not put back.                                         *)
recvRaw(data) ==
  LET frame == KernelFrame(data)
      outer == IF Type(frame) = ETHTYPE_DOT1Q THEN ETHTYPE_QINQ ELSE ETHTYPE_DOT1Q
  IN  IF KernelTag(data) = 0 THEN frame
      ELSE Read(frame, 1, 6) \o <<outer, KernelTag(data)>> \o SubSeq(frame, 7, Len(frame))

(* The interface filters out (recv() returns 0), but the object is set.    *)
Filtered(i, o) == iftype[i] = "L3" /\ ~isARP(o) /\ ~isIPv4(o)

(* No program catches what validation throws.                              *)
recv(i, frame) ==
  /\ up
  /\ LET o == set(pkt, recvRaw(frame))
     IN  /\ pkt' = o
         /\ up' = ~Throws(o)
         /\ at' = IF Throws(o) \/ Filtered(i, o) THEN 0 ELSE i
         /\ received' = o.data
  /\ lent' = {} /\ wire' = NoFrame

-----------------------------------------------------------------------------
(* Sending *)
_send(j, o, vlan_id) ==
  CASE iftype[j] = "access" -> removeVlanTag(o)
    [] iftype[j] = "trunk"  -> setVlanTag(o, vlan_id)
    [] iftype[j] = "L3"     -> setSrc(o, Mac[j])

(* The parameter is a copy: its own buffer is what is written, and what is *)
(* written through its pointers stays in the caller's.                     *)
SendReference(j, o, vlan_id) ==   \* mutant: the caller's object is used itself
  LET packet == _send(j, o, vlan_id)
  IN  [wire |-> packet.data, kept |-> packet]

Send(j, o, vlan_id) ==
  LET copy == _send(j, Copy(o), vlan_id)
  IN  [wire |-> copy.data, kept |-> [o EXCEPT !.data = Eth(copy)]]

(* The parameter is misspelt in sendBroadcast(): the interface's own VLAN  *)
(* is used.                                                                *)
SendBroadcast(j, o) ==
  LET copy == _send(j, setDst(Copy(o), ETH_BROADCAST), vlan[j])
  IN  [wire |-> copy.data, kept |-> [o EXCEPT !.data = Eth(copy)]]

Lent(j) == IF iftype[j] = "L3" THEN {j} ELSE {}

Ready == up /\ at # 0

send(j, vlan_id) ==
  /\ Ready /\ UNCHANGED <<at, up, received>>
  /\ lent' = lent \cup Lent(j)
  /\ wire' = Send(j, pkt, vlan_id).wire /\ pkt' = Send(j, pkt, vlan_id).kept

sendBroadcast(j) ==
  /\ Ready /\ UNCHANGED <<at, up, received>>
  /\ lent' = lent \cup Lent(j) \cup {0}
  /\ wire' = SendBroadcast(j, pkt).wire /\ pkt' = SendBroadcast(j, pkt).kept

-----------------------------------------------------------------------------
(* What l3sw.cpp sends.  Its interfaces are all of layer 3, and it has one *)
(* Ethernet object of its own for each ARP frame it makes.                 *)
Routing == Ready /\ iftype[at] = "L3"

Made(o, j) ==
  /\ UNCHANGED <<pkt, at, up, received, lent>>
  /\ wire' = Send(j, o, 0).wire

(* mutant: the sender's address is left as it is in PKT_ARP *)
reply_arpUnsigned ==
  /\ Routing /\ isARP(pkt)
  /\ getOPCode(pkt) = ARP_REQUEST /\ getDstIP(pkt) = IP[at]
  /\ LET arp_reply == SetARP(set(Blank, PKT_ARP), ARP_REPLY, Read(PKT_ARP, 12, 3), IP[at],
                             getSrcMac(pkt), getSrcIP(pkt))
     IN  Made(setDst(arp_reply, getSrcMac(pkt)), at)

reply_arp ==
  /\ Routing /\ isARP(pkt)
  /\ getOPCode(pkt) = ARP_REQUEST /\ getDstIP(pkt) = IP[at]
  /\ LET arp_reply == SetARP(set(Blank, PKT_ARP), ARP_REPLY, Mac[at], IP[at],
                             getSrcMac(pkt), getSrcIP(pkt))
     IN  Made(setDst(arp_reply, getSrcMac(pkt)), at)

(* The destination as l3sw reads it: anything, if no header was ever set.  *)
Destination == IF pkt.ip = Wild THEN Garbage ELSE {getDst(pkt)}

request_arp(j) ==
  /\ Routing /\ isIPv4(pkt) /\ iftype[j] = "L3" /\ j # at
  /\ \E dst \in Destination :
       LET arp_request == SetARP(set(Blank, PKT_ARP), ARP_REQUEST, Mac[j], IP[j], <<0, 0, 0>>, dst)
       IN  Made(setSrc(setDst(arp_request, <<65535, 65535, 65535>>), Mac[j]), j)

(* Reading through the pointer that was never set may also end the program.*)
StrayRead ==
  /\ Routing /\ isIPv4(pkt) /\ pkt.ip = Wild
  /\ up' = FALSE
  /\ UNCHANGED <<wire, pkt, at, received, lent>>

(* The frame is for the station mac, last heard on the interface j.        *)
Forward(j, mac) ==
  /\ Routing /\ isIPv4(pkt) /\ iftype[j] = "L3"
  /\ LET o == setSrc(setDst(pkt, mac), Mac[j])
     IN  wire' = Send(j, o, 0).wire /\ pkt' = Send(j, o, 0).kept
  /\ at' = 0
  /\ UNCHANGED <<up, received, lent>>

-----------------------------------------------------------------------------
Next ==
  \/ \E i \in Netif, frame \in Frame \cup ({wire} \ {NoFrame}) : recv(i, frame)
  \/ \E j \in Netif, id \in VlanId : send(j, id)
  \/ \E j \in Netif : sendBroadcast(j)
  \/ reply_arp
  \/ \E j \in Netif : request_arp(j)
  \/ StrayRead
  \/ \E j \in Netif, mac \in Station : Forward(j, mac)

Spec == Init /\ [][Next]_vars

-----------------------------------------------------------------------------
(* Properties *)

(* Every variable keeps its shape: frames are words, headers stand where   *)
(* they may, and copies are gone.                                          *)
TypeOK ==
  /\ {wire, pkt.data, received} \subseteq Seq(Word)
  /\ pkt.eth = Own /\ pkt.arp \in {NoARP, 8, 10} /\ pkt.ip \in {Wild, 8, 10}
  /\ pkt.type \in {ETHTYPE_ARP, ETHTYPE_IPV4, ETHTYPE_DOT1Q, ETHTYPE_UNKNOWN}
  /\ pkt.ul \in {ETHTYPE_ARP, ETHTYPE_IPV4, ETHTYPE_UNKNOWN}
  /\ at \in Netif \cup {0} /\ up \in BOOLEAN
  /\ lent \subseteq Netif \cup {0}

(* However many hosts a frame passes, it keeps its body, and its VLAN from *)
(* the trunk that tags it to the access interface that takes the tag off.  *)
(* A frame with two tags counts as one in no VLAN.                         *)
InHost(data) ==
  IF data # NoFrame /\ Type(data) = ETHTYPE_DOT1Q
  THEN [tag |-> data[8], body |-> SubSeq(data, 9, Len(data))]
  ELSE [tag |-> 0, body |-> SubSeq(data, 7, Len(data))]

OnWire(data) ==
  LET frame == KernelFrame(data)
  IN  IF data = NoFrame THEN InHost(data)
      ELSE IF Tagged(data) /\ Type(frame) = ETHTYPE_DOT1Q
      THEN [tag |-> 0, body |-> <<ETHTYPE_QINQ>> \o SubSeq(data, 8, Len(data))]
      ELSE [tag |-> KernelTag(data), body |-> SubSeq(frame, 7, Len(frame))]

Entering == {OnWire(f) : f \in Frame}
Vlan     == VlanId \cup {vlan[i] : i \in Netif}

Link == INSTANCE VlanLink WITH
          wire <- OnWire(wire), held <- InHost(pkt.data), OwnType <- ETHTYPE_ARP

ImplementsLink == Link!Spec

(* A frame that is sent on again and again stays as it came, but for its   *)
(* MAC addresses, which the first send() of layer 3, or to all, changes    *)
(* for every later one: the copy it is given shares them (NetIf.cpp:166).  *)
CallersFrame ==
  at # 0 =>
    /\ SubSeq(pkt.data, 7, Len(pkt.data)) = SubSeq(received, 7, Len(received))
    /\ Src(pkt.data) \in {Src(received)} \cup {Mac[j] : j \in lent \ {0}}
    /\ Dst(pkt.data) \in {Dst(received)} \cup {ETH_BROADCAST : j \in lent \cap {0}}

(* What arp() returns is the header of the frame that was received last,   *)
(* behind a tag as well as without one.                                    *)
Header(data) == IF Type(data) = ETHTYPE_DOT1Q THEN 10 ELSE 8

ArpFound == at # 0 /\ isARP(pkt) => pkt.arp = Header(pkt.data)

(* ipv4() is right only for a frame without a tag.  Behind a tag it still  *)
(* stands where the last one without had its header, and l3sw asks for     *)
(* the source of the frame instead of its destination (Ethernet.cpp:51).   *)
AsksDestination ==
  [][\A j \in Netif : request_arp(j) /\ pkt.ip # Wild =>
        Read(wire', 20, 2) = Read(pkt.data, Header(pkt.data) +
                                  (IF Type(pkt.data) = ETHTYPE_DOT1Q THEN 6 ELSE 8), 2)]_vars

(* The addresses frames leave with.  What send() and sendBroadcast() set   *)
(* in their copy comes too late for it: it leaves with the addresses that  *)
(* the caller's frame had, a broadcast with its old destination, and the   *)
(* caller's frame is addressed to all instead (NetIf.cpp:166, 171).  l3sw  *)
(* sets those of an ARP request before; a reply leaves from the source in  *)
(* PKT_ARP, so who learns from it learns two MAC addresses (l3sw.cpp:99,   *)
(* 111).  Inside, ARP frames say who has the address of the interface they *)
(* leave from.                                                             *)
AddressesSent ==
  [][/\ \A j \in Netif : sendBroadcast(j) =>
          Read(wire', 1, 6) = Read(pkt.data, 1, 6) /\ Dst(pkt'.data) = ETH_BROADCAST
     /\ \A j \in Netif, id \in VlanId : send(j, id) => Read(wire', 1, 6) = Read(pkt.data, 1, 6)
     /\ reply_arp => /\ Read(wire', 12, 5) = Mac[at] \o IP[at]
                     /\ Read(wire', 17, 5) = getSrcMac(pkt) \o getSrcIP(pkt)
                     /\ Dst(wire') = getSrcMac(pkt) /\ Src(wire') = Src(PKT_ARP)
     /\ \A j \in Netif : request_arp(j) =>
          Read(wire', 12, 5) = Mac[j] \o IP[j] /\ Src(wire') = Mac[j]]_vars
=============================================================================
