------------------------------- MODULE MCL3SW -------------------------------
(* L3SW.tla with two interfaces, two stations and addresses of three bits. *)
EXTENDS L3SW

CONSTANTS s1, s2, n1, n2

IPs  == <<(<<0, 1, 0>>), (<<1, 0, 0>>)>>
Lens == <<2, 2>>
MACs == <<n1, n2>>

Own == {[net |-> NetOf(i), type |-> CONNECTED, nexthop |-> <<0, 0, 0>>] : i \in Netif}

Host1 == <<0, 1, 1>>
Host2 == <<1, 0, 1>>
Nowhere == <<1, 1, 1>>

(* Each station asks for the switch and answers it; the first may also     *)
(* take over the address of the second.                                    *)
Requested == {[kind |-> "request", to |-> Broadcast, src |-> s1, sender |-> Host1, target |-> IPs[1]],
              [kind |-> "request", to |-> Broadcast, src |-> s1, sender |-> Host2, target |-> Host1]}
Replied   == {[kind |-> "reply", to |-> n2, src |-> s2, sender |-> Host2, target |-> IPs[2]]}
Data(from, to, dst) == [kind |-> "IPv4", to |-> to, src |-> from, dst |-> dst]

Traffic  == Requested \cup Replied \cup {Data(s1, n1, Host2), Data(s2, n2, Host1), Data(s1, n1, Nowhere)}
Foreign  == Requested \cup Replied \cup {Data(s1, s2, Host2)}
=============================================================================
