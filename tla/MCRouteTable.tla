--------------------------- MODULE MCRouteTable ----------------------------
(* RouteTable.tla with addresses of three bits.                            *)
EXTENDS RouteTable

LOCAL0 == 0
STATIC == 2

(* Networks of every length, nested ones, one of zeros and a host, and     *)
(* next hops that lead from one to another, or in a circle.                *)
Manual == [net     : {<<>>, <<0>>, <<1>>, <<1, 0>>, <<1, 0, 1>>},
           type    : {CONNECTED, STATIC},
           nexthop : {<<0, 0, 0>>, <<1, 0, 0>>, <<1, 1, 0>>}]
Local  == [net : {<<1>>}, type : {LOCAL0}, nexthop : {<<1, 0, 0>>}]

Some == Manual \cup Local
=============================================================================
