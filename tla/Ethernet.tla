------------------------------ MODULE Ethernet ------------------------------
(***************************************************************************)
(* forwarder/src/Ethernet.cpp, ARP.cpp and IPv4.cpp: an Ethernet object,   *)
(* its VLAN tag, and the headers read and written through it.  A frame is  *)
(* its sequence of 16-bit words in network order: three words of           *)
(* destination, three of source, the type, and so on.                      *)
(*                                                                         *)
(* An object reaches its MAC addresses, its type and its headers through   *)
(* pointers.  They are not renewed when the object is copied: the copy's   *)
(* point into the buffer of the original.                                  *)
(***************************************************************************)
EXTENDS Integers, Sequences

Word == 0 .. 65535

ETHTYPE_ARP     == 2054    \* 0x0806
ETHTYPE_IPV4    == 2048    \* 0x0800
ETHTYPE_DOT1Q   == 33024   \* 0x8100
ETHTYPE_QINQ    == 34984   \* 0x88a8
ETHTYPE_UNKNOWN == 65535   \* 0xFFFF

ETH_BROADCAST == <<0, 65535, 65535>>  \* 0xFFFFFFFF, as six bytes

Read(data, at, n) == SubSeq(data, at, at + n - 1)
Put(data, at, words) ==
  [k \in DOMAIN data |->
     IF k - at + 1 \in DOMAIN words THEN words[k - at + 1] ELSE data[k]]

Dst(data)  == Read(data, 1, 3)
Src(data)  == Read(data, 4, 3)
Type(data) == data[7]

-----------------------------------------------------------------------------
(* Objects.  eth is Own, or what is in the original's buffer; arp and ip   *)
(* are where the headers stand.                                            *)
Own    == <<>>
NoARP  == 0
Wild   == -1   \* IPv4 has no constructor: its pointer is never initialised

Blank == [data |-> <<>>, eth |-> Own, arp |-> NoARP, ip |-> Wild,
          type |-> ETHTYPE_UNKNOWN, ul |-> ETHTYPE_UNKNOWN]

Eth(o)         == IF o.eth = Own THEN o.data ELSE o.eth
WriteEth(o, d) == IF o.eth = Own THEN [o EXCEPT !.data = d] ELSE [o EXCEPT !.eth = d]

Copy(o) == [o EXCEPT !.eth = o.data]

Known(type, types) == IF type \in types THEN type ELSE ETHTYPE_UNKNOWN

(* mutant: no header is set behind a tag *)
_updateOuter(o) ==
  LET type == Type(Eth(o))
      ul   == IF type = ETHTYPE_DOT1Q THEN Eth(o)[9] ELSE type
  IN  [o EXCEPT !.type = Known(type, {ETHTYPE_ARP, ETHTYPE_IPV4, ETHTYPE_DOT1Q}),
                !.ul   = Known(ul, {ETHTYPE_ARP, ETHTYPE_IPV4}),
                !.arp  = IF type = ETHTYPE_ARP THEN 8 ELSE @,
                !.ip   = IF type = ETHTYPE_IPV4 THEN 8 ELSE @]

(* mutant: a type that is none of the known ones is kept *)
_updateRaw(o) ==
  LET type == Type(Eth(o))
      ul   == IF type = ETHTYPE_DOT1Q THEN Eth(o)[9] ELSE type
      head == IF type = ETHTYPE_DOT1Q THEN 10 ELSE 8
  IN  [o EXCEPT !.type = type,
                !.ul   = Known(ul, {ETHTYPE_ARP, ETHTYPE_IPV4}),
                !.arp  = IF ul = ETHTYPE_ARP THEN head ELSE @,
                !.ip   = IF type = ETHTYPE_IPV4 THEN head ELSE @]

(* Behind a tag an ARP header is set, but an IPv4 header is not.           *)
_update(o) ==
  LET type == Type(Eth(o))
      ul   == IF type = ETHTYPE_DOT1Q THEN Eth(o)[9] ELSE type
      head == IF type = ETHTYPE_DOT1Q THEN 10 ELSE 8
  IN  [o EXCEPT !.type = Known(type, {ETHTYPE_ARP, ETHTYPE_IPV4, ETHTYPE_DOT1Q}),
                !.ul   = Known(ul, {ETHTYPE_ARP, ETHTYPE_IPV4}),
                !.arp  = IF ul = ETHTYPE_ARP THEN head ELSE @,
                !.ip   = IF type = ETHTYPE_IPV4 THEN head ELSE @]

(* The headers _update() sets are validated: it throws when they are not   *)
(* those of ARP for IPv4 on Ethernet, or of IP version 4.                  *)
ValidARP(data, at)  == at = NoARP \/ Read(data, at, 3) = <<1, ETHTYPE_IPV4, 6 * 256 + 4>>
ValidIPv4(data, at) == data[at] \div 4096 = 4

Throws(o) == \/ o.ul = ETHTYPE_ARP /\ ~ValidARP(Eth(o), o.arp)
             \/ o.type = ETHTYPE_IPV4 /\ ~ValidIPv4(Eth(o), o.ip)

set(o, data) == _update([o EXCEPT !.data = data, !.eth = Own])

isARP(o)  == o.ul = ETHTYPE_ARP
isIPv4(o) == o.ul = ETHTYPE_IPV4

setDst(o, mac) == WriteEth(o, Put(Eth(o), 1, mac))
setSrc(o, mac) == WriteEth(o, Put(Eth(o), 4, mac))

removeVlanTag(o) ==
  IF o.type # ETHTYPE_DOT1Q THEN o
  ELSE _update([o EXCEPT !.data = Read(@, 1, 6) \o SubSeq(@, 9, Len(@))])

(* mutant: a frame that has a tag is tagged again *)
setVlanTagAgain(o, vlan_id) ==
  _update([o EXCEPT !.data = Read(@, 1, 6) \o <<ETHTYPE_DOT1Q, vlan_id>> \o SubSeq(@, 7, Len(@))])

setVlanTag(o, vlan_id) ==
  IF o.type = ETHTYPE_DOT1Q THEN o
  ELSE _update([o EXCEPT !.data = Read(@, 1, 6) \o <<ETHTYPE_DOT1Q, vlan_id>> \o SubSeq(@, 7, Len(@))])

-----------------------------------------------------------------------------
(* ARP: each field is read and written where the header stands.            *)
ARP_REQUEST == 1
ARP_REPLY   == 2

getOPCode(o) == Eth(o)[o.arp + 3]
getSrcMac(o) == Read(Eth(o), o.arp + 4, 3)
getSrcIP(o)  == Read(Eth(o), o.arp + 7, 2)
getDstMac(o) == Read(Eth(o), o.arp + 9, 3)
getDstIP(o)  == Read(Eth(o), o.arp + 12, 2)

(* The setters, called one after the other for a packet.                   *)
SetARP(o, op, srcMac, srcIP, dstMac, dstIP) ==
  WriteEth(o, Put(Eth(o), o.arp + 3, <<op>> \o srcMac \o srcIP \o dstMac \o dstIP))

(* The packet l3sw fills in: from 11:22:33:44:55:66, for 172.18.0.1.       *)
PKT_ARP == <<65535, 65535, 65535, 4386, 13124, 21862, ETHTYPE_ARP,
             1, ETHTYPE_IPV4, 6 * 256 + 4, ARP_REQUEST,
             4386, 13124, 21862, 44050, 200, 0, 0, 0, 44050, 1>>

getDstFirst(o) == Read(Eth(o), o.ip + 6, 2)  \* mutant: that of the source
getDst(o) == Read(Eth(o), o.ip + 8, 2)       \* of IPv4
=============================================================================
