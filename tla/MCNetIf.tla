------------------------------ MODULE MCNetIf ------------------------------
(* NetIf.tla with an access interface, a trunk and two of layer 3.         *)
EXTENDS NetIf

Types == <<"access", "trunk", "L3", "L3">>
Vlans == <<10, 20, 0, 0>>
MACs  == <<(<<0, 0, 1>>), (<<0, 0, 2>>), (<<0, 0, 3>>), (<<0, 0, 4>>)>>
IPs   == <<(<<0, 0>>), (<<0, 0>>), (<<10, 1>>), (<<11, 1>>)>>

s1 == <<0, 1, 1>>
Strays == {<<0, 0>>}
Neighbours == {MACs[3]}

ToThree == MACs[3] \o s1

IPv4Packet(id)  == <<ETHTYPE_IPV4, 17664, 20, id, 0, 16385, 0, 10, 2, 11, 2>>
BadPacket       == <<ETHTYPE_IPV4, 24576, 20, 0, 0, 16385, 0, 10, 2, 11, 2>>
OtherPacket(id) == <<34525, id>>
ArpPacket       == <<ETHTYPE_ARP, 1, ETHTYPE_IPV4, 1540, ARP_REQUEST>> \o s1 \o <<10, 2>> \o <<0, 0, 0, 10, 1>>

(* Every frame has a body of its own.  8197 is priority 1 in VLAN 5.       *)
Traffic ==
  {ToThree \o frame : frame \in
     {IPv4Packet(1), BadPacket,
      <<ETHTYPE_DOT1Q, 8197>> \o IPv4Packet(2),
      <<ETHTYPE_DOT1Q, 5>> \o ArpPacket,
      <<ETHTYPE_QINQ, 7>> \o OtherPacket(1),
      <<ETHTYPE_DOT1Q, 7, ETHTYPE_DOT1Q, 5>> \o OtherPacket(2)}}
=============================================================================
