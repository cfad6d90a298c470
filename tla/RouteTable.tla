----------------------------- MODULE RouteTable -----------------------------
(***************************************************************************)
(* forwarder/src/RouteTable.cpp: the routing table of the layer 3 switch,  *)
(* a binary trie with one level per address bit, a Route at some of its    *)
(* nodes, and in a Route the next hops of each route type.                 *)
(*                                                                         *)
(* Addresses are W bits, highest bit first, and a network is the sequence  *)
(* of its leading bits.  A node of the trie is named by the bits that lead *)
(* to it, so n_pbit[b] of node p is Append(p, b), null unless in nodes.    *)
(***************************************************************************)
EXTENDS Naturals, FiniteSets, SequencesExt

CONSTANTS W,           \* bits of an address (32 in the code)
          Offer,       \* the addRoute() calls that may be made
          MaxRoutes    \* bound: addRoute() calls that add something

Bit     == {0, 1}
Address == [1 .. W -> Bit]
Network == BoundedSeq(Bit, W)

(* enum RouteType: the smaller the better.                                 *)
CONNECTED == 1
UNREACH   == 4
INVALID   == 5
RouteType == 0 .. INVALID - 1

ASSUME WidthAssumption == W \in Nat \ {0}
ASSUME OfferAssumption == /\ Offer \subseteq [net : Network, type : RouteType, nexthop : Address]
                          /\ MaxRoutes \in Nat

VARIABLES nodes,       \* the nodes of the trie
          routes,      \* the Route of the nodes that have one
          looking,     \* r_resolve() is in its loop
          asked,       \* the address it was called with
          at,          \* the network of the route `r` it is looking at
          answer       \* what the last call returned

rvars == <<nodes, routes, looking, asked, at, answer>>

-----------------------------------------------------------------------------
(* Route: next hops by type *)

IsRoute(r) == DOMAIN r \subseteq RouteType /\ r \in [DOMAIN r -> Seq(Address)]

NoNexthops          == [t \in {} |-> <<>>]
getNexthops(r, t)   == IF t \in DOMAIN r THEN r[t] ELSE <<>>
addNexthop(r, t, a) == [u \in DOMAIN r \cup {t} |->
                          IF u = t THEN Append(getNexthops(r, t), a) ELSE r[u]]

getBestRouteType(r) == IF DOMAIN r = {} THEN INVALID
                       ELSE CHOOSE t \in DOMAIN r : \A u \in DOMAIN r : t <= u
getBestNexthops(r)  == getNexthops(r, getBestRouteType(r))

-----------------------------------------------------------------------------
(* Walking the trie *)

Zero(net) == \A i \in DOMAIN net : net[i] = 0

(* The depths at which resolve() looks for a route: it stops where the     *)
(* next node is missing, and never gets to the node of the whole address.  *)
Visited(net) == {d \in 0 .. Len(net) - 1 :
                    \A m \in 0 .. d : SubSeq(net, 1, m) \in nodes}
Found(net)   == {d \in Visited(net) : SubSeq(net, 1, d) \in DOMAIN routes}

(* mutant: the first route found *)
Shallowest(net) == CHOOSE d \in Found(net) : \A e \in Found(net) : d <= e

Deepest(net) == CHOOSE d \in Found(net) : \A e \in Found(net) : e <= d

(* mutant: the node the walk ends at, whether it has a route or not *)
resolveToNode(net) ==
  SubSeq(net, 1, CHOOSE d \in Visited(net) \cup {0} : \A e \in Visited(net) : e <= d)

(* The network of the route resolve() returns.  If its bits are all 0 it   *)
(* is replaced by the root's.                                              *)
resolve(net) == LET last == SubSeq(net, 1, Deepest(net))
                IN  IF Found(net) = {} \/ Zero(last) THEN <<>> ELSE last

(* getRoute() walks all the way.  It returns the route of the network; if  *)
(* there is none, it dereferences a null pointer.                          *)
getRoute(net) == {p \in DOMAIN routes : p = net /\ \A m \in 0 .. Len(p) : SubSeq(p, 1, m) \in nodes}

-----------------------------------------------------------------------------
Root == [net |-> <<>>, type |-> UNREACH, nexthop |-> [i \in 1 .. W |-> 0]]

Init == /\ nodes = {<<>>}
        /\ routes = [p \in {<<>>} |-> addNexthop(NoNexthops, UNREACH, Root.nexthop)]
        /\ looking = FALSE
        /\ asked = Root.nexthop
        /\ at = <<>>
        /\ answer = <<"none">>

Has(net)  == IF net \in DOMAIN routes THEN routes[net] ELSE NoNexthops
Hops      == UNION {{<<p, t>> : t \in DOMAIN routes[p]} : p \in DOMAIN routes}
PutRoute(net, r) == routes' = [p \in DOMAIN routes \cup {net} |->
                                  IF p = net THEN r ELSE routes[p]]

(* mutant: the loop of addRoute() ends a bit too early *)
PathShort(net) == Prefixes(net) \ {net}

Path(net) == Prefixes(net)

(* mutant: without the provisional fix against a second next hop *)
RefusedNever(net, type) == FALSE

Refused(net, type) == getNexthops(Has(net), type) # <<>>

(* The nodes are made first; a second next hop of a type is refused.       *)
AddRoute(net, type, nexthop) ==
  /\ ~ looking
  /\ Cardinality(Hops) <= MaxRoutes
  /\ nodes' = nodes \cup Path(net)
  /\ IF Refused(net, type)
     THEN /\ PutRoute(net, Has(net))
          /\ answer' = <<"exception">>
     ELSE /\ PutRoute(net, addNexthop(Has(net), type, nexthop))
          /\ answer' = <<"added">>
  /\ UNCHANGED <<looking, asked, at>>

(* r_resolve(): follow the first of the best next hops until the best      *)
(* route is CONNECTED.                                                     *)
Ask(addr) ==
  /\ ~ looking
  /\ looking' = TRUE
  /\ asked' = addr
  /\ at' = resolve(addr)
  /\ answer' = <<"none">>
  /\ UNCHANGED <<nodes, routes>>

(* mutants: the next hop of the worst type is taken; the address is        *)
(* resolved again and not the next hop                                     *)
FollowWorst ==
  /\ looking
  /\ getBestRouteType(routes[at]) # CONNECTED
  /\ LET worst == CHOOSE t \in DOMAIN routes[at] : \A u \in DOMAIN routes[at] : u <= t
     IN  at' = resolve(Head(routes[at][worst]))
  /\ UNCHANGED <<nodes, routes, looking, asked, answer>>

FollowAsked ==
  /\ looking
  /\ getBestRouteType(routes[at]) # CONNECTED
  /\ at' = resolve(asked)
  /\ UNCHANGED <<nodes, routes, looking, asked, answer>>

Follow ==
  /\ looking
  /\ getBestRouteType(routes[at]) # CONNECTED
  /\ LET hops == getBestNexthops(routes[at])
     IN  IF hops = <<>>
         THEN /\ at' = resolve(<<>>)
              /\ looking' = FALSE
              /\ answer' = <<"route", at'>>
         ELSE /\ at' = resolve(Head(hops))
              /\ UNCHANGED <<looking, answer>>
  /\ UNCHANGED <<nodes, routes, asked>>

Return ==
  /\ looking
  /\ getBestRouteType(routes[at]) = CONNECTED
  /\ looking' = FALSE
  /\ answer' = <<"route", at>>
  /\ UNCHANGED <<nodes, routes, asked, at>>

Next == \/ \E o \in Offer : AddRoute(o.net, o.type, o.nexthop)
        \/ \E addr \in Address : Ask(addr)
        \/ Follow
        \/ Return

(* The loop of r_resolve() runs on.                                        *)
Fairness == WF_rvars(Follow \/ Return)

Spec == Init /\ [][Next]_rvars /\ Fairness

-----------------------------------------------------------------------------
(* Properties *)

(* Every variable keeps its shape, and r is always a route of the table.   *)
TypeOK == /\ nodes \subseteq Network
          /\ DOMAIN routes \subseteq Network
          /\ \A p \in DOMAIN routes : IsRoute(routes[p])
          /\ looking \in BOOLEAN
          /\ asked \in Address
          /\ at \in DOMAIN routes

(* A route that was added can be walked to, and the root has one.  The     *)
(* destructor, which walks the same pointers, then frees all of them.      *)
Reachable == /\ <<>> \in DOMAIN routes
             /\ \A net \in DOMAIN routes : getRoute(net) = {net}

(* Every route has exactly one next hop of each type it has, so the first  *)
(* of the best next hops, which r_resolve() takes, always exists and is    *)
(* the only one ("multipath given up", RouteTable.cpp:173).                *)
OneNexthop == \A p \in DOMAIN routes :
                 /\ DOMAIN routes[p] # {}
                 /\ \A t \in DOMAIN routes[p] : Len(routes[p][t]) = 1

(* resolve() is a longest prefix match, except that the route of a whole   *)
(* address never matches and a network of zeros only the root's route.     *)
Matches(addr) == {net \in DOMAIN routes : /\ IsPrefix(net, addr)
                                          /\ Len(net) < W
                                          /\ net = <<>> \/ ~ Zero(net)}
LongestMatch ==
  \A addr \in Address : /\ resolve(addr) \in Matches(addr)
                        /\ \A net \in Matches(addr) : Len(net) <= Len(resolve(addr))

(* r_resolve() returns a CONNECTED route or does not return: the cases for *)
(* other types in the layer 3 switch (l3sw.cpp:138-145) are never taken.   *)
AnswersConnected ==
  answer[1] = "route" => getBestRouteType(routes[answer[2]]) = CONNECTED

(* The routes from which the chain of best next hops gets to a CONNECTED   *)
(* one: the least set that has these and every route that leads into it.   *)
Connected == {p \in DOMAIN routes : getBestRouteType(routes[p]) = CONNECTED}
Via(p)    == resolve(Head(getBestNexthops(routes[p])))
Closed(S) == Connected \subseteq S /\ \A p \in DOMAIN routes : Via(p) \in S => p \in S
Grounded  == {p \in DOMAIN routes : \A S \in SUBSET DOMAIN routes : Closed(S) => p \in S}

(* The chain that begins at a route: the least set that has it, and with   *)
(* every route that is not CONNECTED the one its best next hop leads to.   *)
Led(S)   == \A p \in S \ Connected : Via(p) \in S
Chain(p) == {q \in DOMAIN routes : \A S \in SUBSET DOMAIN routes : p \in S /\ Led(S) => q \in S}

(* The loop looks only at routes on the chain of the address it was asked  *)
(* for, and what it returns is the end of this chain.                      *)
KeepsToChain ==
  /\ looking => at \in Chain(resolve(asked))
  /\ answer[1] = "route" => answer[2] \in Chain(resolve(asked)) \cap Connected

(* For these addresses r_resolve() does return.                            *)
GroundedReturns == (looking /\ resolve(asked) \in Grounded) ~> ~ looking

(* r_resolve() returns for every address, with an UNREACH route when there *)
(* is nothing better: the layer 3 switch has a case for it, "Drop: Network *)
(* Unreachable" (forwarder/test/L3SW/l3sw.cpp:138-139).                    *)
AlwaysReturns == looking ~> ~ looking
=============================================================================
