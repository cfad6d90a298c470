-------------------------- MODULE RouteTableProofs --------------------------
(***************************************************************************)
(* Proofs about RouteTable.tla, for addresses of any width and any routes. *)
(***************************************************************************)
EXTENDS RouteTable, ProofLemmas

-----------------------------------------------------------------------------
(* Sequences of bits *)

(* The networks are the sequences of at most W bits.                       *)
LEMMA NetworkIsSeq ==
  \A p : p \in Network <=> p \in Seq(Bit) /\ Len(p) <= W
<1>1. ASSUME NEW p \in Network
      PROVE  p \in Seq(Bit) /\ Len(p) <= W
  <2>1. PICK m \in 0 .. W : p \in [1 .. m -> Bit]
    BY DEF Network, BoundedSeq, SeqOf
  <2>2. m \in Nat /\ m <= W
    BY <2>1, WidthAssumption
  <2>3. p \in Seq(Bit) /\ Len(p) = m
    BY <2>1, <2>2, IsASeq, LenProperties
  <2> QED BY <2>2, <2>3
<1>2. ASSUME NEW p \in Seq(Bit), Len(p) <= W
      PROVE  p \in Network
  <2>1. Len(p) \in 0 .. W /\ p \in [1 .. Len(p) -> Bit]
    BY <1>2, LenProperties, WidthAssumption
  <2> QED BY <2>1 DEF Network, BoundedSeq, SeqOf
<1> QED BY <1>1, <1>2

(* An address is a sequence of W bits.                                     *)
LEMMA AddressIsSeq ==
  \A a \in Address : a \in Network /\ a \in Seq(Bit) /\ Len(a) = W
<1> SUFFICES ASSUME NEW a \in Address
             PROVE  a \in Network /\ a \in Seq(Bit) /\ Len(a) = W
  OBVIOUS
<1>1. a \in [1 .. W -> Bit] /\ W \in Nat
  BY WidthAssumption DEF Address
<1>2. a \in Seq(Bit) /\ Len(a) = W
  BY <1>1, IsASeq, LenProperties
<1> QED BY <1>1, <1>2, NetworkIsSeq

(* The leading m bits of a network.                                        *)
LEMMA Leading ==
  ASSUME NEW s \in Seq(Bit), NEW m \in 0 .. Len(s)
  PROVE  /\ SubSeq(s, 1, m) \in Seq(Bit)
         /\ Len(SubSeq(s, 1, m)) = m
         /\ \A i \in 1 .. m : SubSeq(s, 1, m)[i] = s[i]
         /\ \A k \in 0 .. m : SubSeq(SubSeq(s, 1, m), 1, k) = SubSeq(s, 1, k)
<1> DEFINE n == Len(s)
           L(k) == SubSeq(s, 1, k)
<1>0. n \in Nat /\ m \in Nat /\ m <= n /\ \A i \in 1 .. n : s[i] \in Bit
  BY LenProperties, ElementOfSeq
<1> HIDE DEF n
<1>1. ASSUME NEW r \in Seq(Bit), NEW k \in Nat, k <= Len(r)
      PROVE  /\ SubSeq(r, 1, k) \in Seq(Bit)
             /\ Len(SubSeq(r, 1, k)) = k
             /\ \A i \in 1 .. k : SubSeq(r, 1, k)[i] = r[i]
  <2>1. \A i \in 1 .. k : r[i] \in Bit
    <3>1. Len(r) \in Nat
      BY LenProperties
    <3>2. \A i \in 1 .. k : i \in 1 .. Len(r)
      BY <1>1, <3>1
    <3> QED BY <3>2, ElementOfSeq
  <2>2. /\ SubSeq(r, 1, k) \in Seq(Bit)
        /\ Len(SubSeq(r, 1, k)) = IF 1 <= k THEN k - 1 + 1 ELSE 0
        /\ \A i \in 1 .. k - 1 + 1 : SubSeq(r, 1, k)[i] = r[1 + i - 1]
    <3>1. 1 \in Int /\ k \in Int
      OBVIOUS
    <3> QED BY <2>1, <3>1, SubSeqProperties
  <2> QED BY <2>2
<1>2. /\ L(m) \in Seq(Bit)
      /\ Len(L(m)) = m
      /\ \A i \in 1 .. m : L(m)[i] = s[i]
  BY <1>0, <1>1 DEF n
<1>3. ASSUME NEW k \in 0 .. m
      PROVE  SubSeq(L(m), 1, k) = L(k)
  <2> DEFINE u == L(m)
             v == SubSeq(u, 1, k)
             w == L(k)
  <2>0. k \in Nat /\ k <= m /\ k <= n
    BY <1>0
  <2>1. u \in Seq(Bit) /\ Len(u) = m /\ \A i \in 1 .. m : u[i] = s[i]
    BY <1>2
  <2>2. w \in Seq(Bit) /\ Len(w) = k /\ \A i \in 1 .. k : w[i] = s[i]
    BY <1>1, <2>0 DEF n
  <2> HIDE DEF u
  <2>3. v \in Seq(Bit) /\ Len(v) = k /\ \A i \in 1 .. k : v[i] = u[i]
    BY <1>1, <2>0, <2>1
  <2> HIDE DEF v, w
  <2>4. v = w
    <3>1. \A i \in 1 .. k : v[i] = w[i]
      BY <2>0, <2>1, <2>2, <2>3
    <3> QED BY <3>1, <2>2, <2>3, SeqEqual
  <2> QED BY <2>4 DEF u, v, w
<1> QED BY <1>2, <1>3

-----------------------------------------------------------------------------
(* The invariant *)

(* Every node on the way to a route is there, the root has a route, and    *)
(* what r_resolve() returned last is a CONNECTED route.                    *)
Walkable == \A net \in DOMAIN routes : \A m \in 0 .. Len(net) : SubSeq(net, 1, m) \in nodes
Rooted   == <<>> \in DOMAIN routes
Answered == answer[1] = "route" =>
               /\ answer[2] \in DOMAIN routes
               /\ getBestRouteType(routes[answer[2]]) = CONNECTED

IInv == TypeOK /\ Walkable /\ Rooted /\ OneNexthop /\ Answered

(* The deepest route found is one of those found.                          *)
LEMMA DeepestFound ==
  ASSUME NEW net \in Seq(Bit), Found(net) # {}
  PROVE  /\ Deepest(net) \in Found(net)
         /\ \A e \in Found(net) : e <= Deepest(net)
<1>1. Len(net) \in Nat /\ Found(net) \in SUBSET (0 .. Len(net))
  BY LenProperties DEF Found, Visited
<1>2. \E d \in Found(net) : \A e \in Found(net) : e <= d
  BY <1>1, Greatest
<1> QED BY <1>2 DEF Deepest

(* resolve() returns a route of the table.                                 *)
LEMMA ResolveRouted ==
  ASSUME Rooted, NEW net \in Seq(Bit)
  PROVE  resolve(net) \in DOMAIN routes
<1>1. CASE Found(net) = {}
  BY <1>1 DEF resolve, Rooted
<1>2. CASE Found(net) # {}
  <2>1. SubSeq(net, 1, Deepest(net)) \in DOMAIN routes
    BY <1>2, DeepestFound DEF Found
  <2> QED BY <2>1 DEF resolve, Rooted
<1> QED BY <1>1, <1>2

(* A route with next hops has a best type.                                 *)
LEMMA BestType ==
  ASSUME NEW r, IsRoute(r), DOMAIN r # {}
  PROVE  getBestRouteType(r) \in DOMAIN r
<1>1. DOMAIN r \in SUBSET (0 .. 4)
  BY DEF IsRoute, RouteType, INVALID
<1>2. \E t \in DOMAIN r : \A u \in DOMAIN r : t <= u
  <2>1. CASE 0 \in DOMAIN r
    BY <1>1, <2>1
  <2>2. CASE 0 \notin DOMAIN r /\ 1 \in DOMAIN r
    BY <1>1, <2>2
  <2>3. CASE 0 \notin DOMAIN r /\ 1 \notin DOMAIN r /\ 2 \in DOMAIN r
    BY <1>1, <2>3
  <2>4. CASE 0 \notin DOMAIN r /\ 1 \notin DOMAIN r /\ 2 \notin DOMAIN r /\ 3 \in DOMAIN r
    BY <1>1, <2>4
  <2>5. CASE DOMAIN r = {4}
    BY <2>5
  <2>6. \A t \in DOMAIN r : t \in {0, 1, 2, 3, 4}
    BY <1>1
  <2> QED BY <2>1, <2>2, <2>3, <2>4, <2>5, <2>6
<1> QED BY <1>2 DEF getBestRouteType

(* The best type of a route of the table has one next hop.                 *)
LEMMA BestHop ==
  ASSUME TypeOK, OneNexthop, NEW p \in DOMAIN routes
  PROVE  /\ getBestNexthops(routes[p]) \in Seq(Address)
         /\ getBestNexthops(routes[p]) # <<>>
         /\ Head(getBestNexthops(routes[p])) \in Address
<1> DEFINE r == routes[p]
           t == getBestRouteType(r)
<1>1. IsRoute(r) /\ DOMAIN r # {} /\ \A u \in DOMAIN r : Len(r[u]) = 1
  BY DEF TypeOK, OneNexthop
<1> HIDE DEF r
<1>2. t \in DOMAIN r
  BY <1>1, BestType
<1> HIDE DEF t
<1>3. r[t] \in Seq(Address) /\ Len(r[t]) = 1
  BY <1>1, <1>2 DEF IsRoute
<1>4. r[t] # <<>>
  <2>1. <<>> \in Seq(Address) /\ Len(<<>>) = 0
    BY EmptySeq
  <2>2. Len(r[t]) # Len(<<>>)
    BY <1>3, <2>1
  <2> QED BY <2>2
<1>5. Head(r[t]) \in Address
  BY <1>3, <1>4, HeadTailProperties
<1>6. getBestNexthops(r) = r[t]
  BY <1>2 DEF getBestNexthops, getNexthops, t
<1> QED BY <1>3, <1>4, <1>5, <1>6 DEF r

(* The table the constructor makes.                                        *)
LEMMA InitInv == Init => IInv
<1> SUFFICES ASSUME Init PROVE IInv
  OBVIOUS
<1> DEFINE r == addNexthop(NoNexthops, UNREACH, Root.nexthop)
<1>1. Root.nexthop \in Address
  BY WidthAssumption DEF Root, Address, Bit
<1>2. <<>> \in Network /\ Len(<<>>) = 0 /\ SubSeq(<<>>, 1, 0) = <<>>
  <2>1. <<>> \in Seq(Bit) /\ Len(<<>>) = 0
    BY EmptySeq
  <2>2. SubSeq(<<>>, 1, 0) = <<>>
    BY SubSeqEmpty
  <2>3. Len(<<>>) <= W
    BY <2>1, WidthAssumption
  <2>4. <<>> \in Network
    BY <2>1, <2>3, NetworkIsSeq
  <2> QED BY <2>1, <2>2, <2>4
<1>3. getNexthops(NoNexthops, UNREACH) = <<>>
  BY DEF getNexthops, NoNexthops
<1>4. /\ Append(<<>>, Root.nexthop) \in Seq(Address)
      /\ Len(Append(<<>>, Root.nexthop)) = 1
  <2>1. <<>> \in Seq(Address) /\ Len(<<>>) = 0
    BY EmptySeq
  <2> QED BY <1>1, <2>1, AppendProperties
<1>5. DOMAIN r = {UNREACH} /\ r = [u \in {UNREACH} |-> Append(<<>>, Root.nexthop)]
  BY <1>3 DEF addNexthop, NoNexthops
<1> HIDE DEF r
<1>6. IsRoute(r) /\ \A t \in DOMAIN r : Len(r[t]) = 1
  BY <1>4, <1>5 DEF IsRoute, RouteType, UNREACH, INVALID
<1>7. nodes = {<<>>} /\ DOMAIN routes = {<<>>} /\ routes[<<>>] = r /\ answer = <<"none">>
  BY DEF Init, r
<1>8. TypeOK
  BY <1>1, <1>2, <1>6, <1>7 DEF Init, TypeOK
<1>9. Walkable /\ Rooted
  BY <1>2, <1>7 DEF Walkable, Rooted
<1>10. OneNexthop
  BY <1>5, <1>6, <1>7 DEF OneNexthop
<1>11. Answered
  BY <1>7 DEF Answered
<1> QED BY <1>8, <1>9, <1>10, <1>11 DEF IInv

(* A route with one more next hop of a type it did not have.               *)
LEMMA NexthopAdded ==
  ASSUME NEW r, IsRoute(r), NEW t \in RouteType, NEW a \in Address,
         \A u \in DOMAIN r : Len(r[u]) = 1,
         getNexthops(r, t) = <<>>
  PROVE  /\ IsRoute(addNexthop(r, t, a))
         /\ DOMAIN addNexthop(r, t, a) # {}
         /\ \A u \in DOMAIN addNexthop(r, t, a) : Len(addNexthop(r, t, a)[u]) = 1
<1> DEFINE s == addNexthop(r, t, a)
<1>1. Append(<<>>, a) \in Seq(Address) /\ Len(Append(<<>>, a)) = 1
  <2>1. <<>> \in Seq(Address) /\ Len(<<>>) = 0
    BY EmptySeq
  <2> QED BY <2>1, AppendProperties
<1>2. /\ DOMAIN s = DOMAIN r \cup {t}
      /\ s = [u \in DOMAIN r \cup {t} |-> IF u = t THEN Append(<<>>, a) ELSE r[u]]
  BY DEF addNexthop
<1> HIDE DEF s
<1>3. \A u \in DOMAIN s : s[u] \in Seq(Address) /\ Len(s[u]) = 1
  BY <1>1, <1>2 DEF IsRoute
<1>4. s \in [DOMAIN s -> Seq(Address)]
  BY <1>2, <1>3
<1> QED BY <1>2, <1>3, <1>4 DEF s, IsRoute

(* addRoute() makes the nodes on the way and one next hop.                 *)
LEMMA AddRouteInv ==
  ASSUME IInv, NEW net \in Network, NEW type \in RouteType, NEW nexthop \in Address,
         AddRoute(net, type, nexthop)
  PROVE  IInv'
<1> DEFINE old == Has(net)
           new == IF getNexthops(old, type) # <<>> THEN old
                  ELSE addNexthop(old, type, nexthop)
<1>2. IsRoute(old) /\ \A u \in DOMAIN old : Len(old[u]) = 1
  <2>1. CASE net \in DOMAIN routes
    BY <2>1 DEF IInv, TypeOK, OneNexthop, Has
  <2>2. CASE net \notin DOMAIN routes
    BY <2>2 DEF Has, NoNexthops, IsRoute
  <2> QED BY <2>1, <2>2
<1>3. IsRoute(new) /\ DOMAIN new # {} /\ \A u \in DOMAIN new : Len(new[u]) = 1
  <2>1. CASE getNexthops(old, type) # <<>>
    <3>1. DOMAIN old # {}
      BY <2>1 DEF getNexthops
    <3> QED BY <1>2, <2>1, <3>1
  <2>2. CASE getNexthops(old, type) = <<>>
    <3> HIDE DEF old
    <3> QED BY <1>2, <2>2, NexthopAdded
  <2> QED BY <2>1, <2>2
<1>4. routes' = [p \in DOMAIN routes \cup {net} |-> IF p = net THEN new ELSE routes[p]]
  BY DEF AddRoute, PutRoute, Refused
<1>5. /\ nodes' = nodes \cup Prefixes(net)
      /\ UNCHANGED <<looking, asked, at>>
      /\ answer'[1] # "route"
  <2>1. answer' = <<"exception">> \/ answer' = <<"added">>
    BY DEF AddRoute
  <2> QED BY <2>1 DEF AddRoute, Path
<1> HIDE DEF old, new
<1>6. net \in Seq(Bit) /\ Len(net) \in Nat /\ Len(net) <= W
  BY NetworkIsSeq, LenProperties
<1>7. Prefixes(net) \subseteq Network
  <2>1. ASSUME NEW m \in 0 .. Len(net)
        PROVE  SubSeq(net, 1, m) \in Network
    <3>1. SubSeq(net, 1, m) \in Seq(Bit) /\ Len(SubSeq(net, 1, m)) = m
      BY <1>6, Leading
    <3>2. m <= W
      BY <1>6, WidthAssumption
    <3> QED BY <3>1, <3>2, NetworkIsSeq
  <2> QED BY <2>1 DEF Prefixes
<1>8. TypeOK'
  BY <1>3, <1>4, <1>5, <1>7 DEF IInv, TypeOK
<1>9. Walkable'
  <2> SUFFICES ASSUME NEW p \in DOMAIN routes', NEW m \in 0 .. Len(p)
               PROVE  SubSeq(p, 1, m) \in nodes'
    BY DEF Walkable
  <2>1. CASE p = net
    BY <1>5, <2>1 DEF Prefixes
  <2>2. CASE p # net
    BY <1>4, <1>5, <2>2 DEF IInv, Walkable
  <2> QED BY <2>1, <2>2
<1>10. Rooted'
  BY <1>4 DEF IInv, Rooted
<1>11. OneNexthop'
  <2> SUFFICES ASSUME NEW p \in DOMAIN routes'
               PROVE  DOMAIN routes'[p] # {} /\ \A t \in DOMAIN routes'[p] : Len(routes'[p][t]) = 1
    BY DEF OneNexthop
  <2>1. CASE p = net
    BY <1>3, <1>4, <2>1
  <2>2. CASE p # net
    BY <1>4, <2>2 DEF IInv, OneNexthop
  <2> QED BY <2>1, <2>2
<1>12. Answered'
  BY <1>5 DEF Answered
<1> QED BY <1>8, <1>9, <1>10, <1>11, <1>12 DEF IInv

(* The next hop of every route leads to a route of the table.              *)
LEMMA ViaRouted ==
  ASSUME IInv, NEW p \in DOMAIN routes
  PROVE  Via(p) \in DOMAIN routes
<1>1. Head(getBestNexthops(routes[p])) \in Seq(Bit)
  BY BestHop, AddressIsSeq DEF IInv
<1> QED BY <1>1, ResolveRouted DEF IInv, Via

(* One round of the loop: there always is a next hop to follow.            *)
LEMMA FollowHop ==
  ASSUME IInv, Follow
  PROVE  /\ at' = Via(at)
         /\ Via(at) \in DOMAIN routes
         /\ UNCHANGED <<nodes, routes, looking, asked, answer>>
<1>1. at \in DOMAIN routes
  BY DEF IInv, TypeOK
<1>2. /\ getBestNexthops(routes[at]) # <<>>
      /\ Head(getBestNexthops(routes[at])) \in Seq(Bit)
  BY <1>1, BestHop, AddressIsSeq DEF IInv
<1>3. at' = Via(at) /\ UNCHANGED <<nodes, routes, looking, asked, answer>>
  BY <1>2 DEF Follow, Via
<1>4. Via(at) \in DOMAIN routes
  BY <1>1, ViaRouted
<1> QED BY <1>3, <1>4

(* Every step keeps the invariant.                                         *)
LEMMA NextInv == IInv /\ [Next]_rvars => IInv'
<1> SUFFICES ASSUME IInv, [Next]_rvars
             PROVE  IInv'
  OBVIOUS
<1>1. ASSUME NEW o \in Offer, AddRoute(o.net, o.type, o.nexthop)
      PROVE  IInv'
  BY <1>1, AddRouteInv, OfferAssumption
<1>2. ASSUME NEW addr \in Address, Ask(addr)
      PROVE  IInv'
  <2>1. resolve(addr) \in DOMAIN routes
    BY AddressIsSeq, ResolveRouted DEF IInv
  <2>2. answer'[1] # "route"
    BY <1>2 DEF Ask
  <2> QED BY <1>2, <2>1, <2>2
          DEF Ask, IInv, TypeOK, Walkable, Rooted, OneNexthop, Answered
<1>3. CASE Follow
  <2>1. /\ at' \in DOMAIN routes
        /\ UNCHANGED <<nodes, routes, looking, asked, answer>>
    BY <1>3, FollowHop
  <2> QED BY <2>1 DEF IInv, TypeOK, Walkable, Rooted, OneNexthop, Answered
<1>4. CASE Return
  <2>1. answer'[2] = at
    BY <1>4 DEF Return
  <2> QED BY <1>4, <2>1
          DEF Return, IInv, TypeOK, Walkable, Rooted, OneNexthop, Answered
<1>5. CASE UNCHANGED rvars
  BY <1>5 DEF rvars, IInv, TypeOK, Walkable, Rooted, OneNexthop, Answered
<1> QED BY <1>1, <1>2, <1>3, <1>4, <1>5 DEF Next

(* The invariant holds of every behaviour.                                 *)
THEOREM Invariant == Spec => []IInv
<1> QED BY InitInv, NextInv, PTL DEF Spec

(* Every variable keeps its type; the route the loop looks at is always    *)
(* one of the table.                                                       *)
THEOREM TypeCorrect == Spec => []TypeOK
<1>1. IInv => TypeOK
  BY DEF IInv
<1> QED BY Invariant, <1>1, PTL

(* Whatever was added, in any order, can be walked to.                     *)
THEOREM RoutesReachable == Spec => []Reachable
<1>1. IInv => Reachable
  BY DEF IInv, Rooted, Walkable, Reachable, getRoute
<1> QED BY Invariant, <1>1, PTL

(* No route ever has two next hops of a type, or none at all.              *)
THEOREM NexthopUnique == Spec => []OneNexthop
<1>1. IInv => OneNexthop
  BY DEF IInv
<1> QED BY Invariant, <1>1, PTL

(* r_resolve() returns nothing but CONNECTED routes.                       *)
THEOREM OnlyConnected == Spec => []AnswersConnected
<1>1. IInv => AnswersConnected
  BY DEF IInv, Answered, AnswersConnected
<1> QED BY Invariant, <1>1, PTL

-----------------------------------------------------------------------------
(* Longest prefix match *)

(* In a walkable table resolve() finds all routes on the way.              *)
LEMMA FoundAll ==
  ASSUME Walkable, NEW addr \in Address
  PROVE  Found(addr) = {d \in 0 .. W - 1 : SubSeq(addr, 1, d) \in DOMAIN routes}
<1>1. addr \in Seq(Bit) /\ Len(addr) = W /\ W \in Nat
  BY AddressIsSeq, WidthAssumption
<1>2. ASSUME NEW d \in 0 .. W - 1, SubSeq(addr, 1, d) \in DOMAIN routes
      PROVE  \A m \in 0 .. d : SubSeq(addr, 1, m) \in nodes
  <2>1. d \in 0 .. Len(addr)
    BY <1>1
  <2>2. /\ Len(SubSeq(addr, 1, d)) = d
        /\ \A m \in 0 .. d : SubSeq(SubSeq(addr, 1, d), 1, m) = SubSeq(addr, 1, m)
    BY <1>1, <2>1, Leading
  <2>3. \A m \in 0 .. d : SubSeq(SubSeq(addr, 1, d), 1, m) \in nodes
    BY <1>2, <2>2 DEF Walkable
  <2> QED BY <2>2, <2>3
<1> QED BY <1>1, <1>2 DEF Found, Visited

(* A network matches an address when it is what the address begins with.   *)
LEMMA PrefixIsLeading ==
  ASSUME NEW net \in Seq(Bit), NEW addr \in Address
  PROVE  IsPrefix(net, addr) <=> Len(net) <= W /\ net = SubSeq(addr, 1, Len(net))
<1>1. SubSeq(net, 1, Len(net)) = net
  BY SubSeqFull
<1>2. Len(addr) = W
  BY AddressIsSeq
<1> QED BY <1>1, <1>2 DEF IsPrefix

(* The deepest route found is the longest one that matches.                *)
LEMMA LongestOfTable ==
  ASSUME IInv
  PROVE  LongestMatch
<1> SUFFICES ASSUME NEW addr \in Address
             PROVE  /\ resolve(addr) \in Matches(addr)
                    /\ \A net \in Matches(addr) : Len(net) <= Len(resolve(addr))
  BY DEF LongestMatch
<1> DEFINE d == Deepest(addr)
           last == SubSeq(addr, 1, d)
<1>1. addr \in Seq(Bit) /\ Len(addr) = W /\ W \in Nat /\ 0 < W
  BY AddressIsSeq, WidthAssumption
<1>2. Found(addr) = {e \in 0 .. W - 1 : SubSeq(addr, 1, e) \in DOMAIN routes}
  BY FoundAll DEF IInv
<1>3. <<>> \in Seq(Bit) /\ Len(<<>>) = 0 /\ SubSeq(addr, 1, 0) = <<>>
  BY EmptySeq, SubSeqEmpty
<1>4. 0 \in Found(addr)
  <2>1. 0 \in 0 .. W - 1
    BY <1>1
  <2>2. SubSeq(addr, 1, 0) \in DOMAIN routes
    BY <1>3 DEF IInv, Rooted
  <2> QED BY <1>2, <2>1, <2>2
<1>5. d \in Found(addr) /\ \A e \in Found(addr) : e <= d
  BY <1>1, <1>4, DeepestFound
<1> HIDE DEF d
<1>6. /\ d \in 0 .. Len(addr) /\ d \in Nat /\ d < W
      /\ last \in DOMAIN routes
  BY <1>1, <1>2, <1>5
<1>7. /\ last \in Seq(Bit) /\ Len(last) = d
      /\ \A k \in 0 .. d : SubSeq(last, 1, k) = SubSeq(addr, 1, k)
  BY <1>1, <1>6, Leading
<1>8. resolve(addr) = IF Zero(last) THEN <<>> ELSE last
  BY <1>5 DEF resolve, d
<1> HIDE DEF last
<1>9. <<>> \in Matches(addr)
  <2>1. IsPrefix(<<>>, addr)
    <3> DEFINE none == <<>>
    <3>1. none \in Seq(Bit) /\ Len(none) = 0 /\ none = SubSeq(addr, 1, 0)
      BY <1>3
    <3> HIDE DEF none
    <3>2. Len(none) <= W /\ none = SubSeq(addr, 1, Len(none))
      BY <1>1, <3>1
    <3>3. IsPrefix(none, addr)
      BY <3>1, <3>2, PrefixIsLeading
    <3> QED BY <3>3 DEF none
  <2> QED BY <1>1, <1>3, <2>1 DEF Matches, IInv, Rooted
<1>10. ASSUME ~ Zero(last)
       PROVE  last \in Matches(addr)
  <2>1. IsPrefix(last, addr)
    <3>1. Len(last) <= W /\ last = SubSeq(addr, 1, Len(last))
      BY <1>1, <1>6, <1>7 DEF last
    <3> QED BY <1>7, <3>1, PrefixIsLeading
  <2> QED BY <1>6, <1>7, <1>10, <2>1 DEF Matches
<1>11. ASSUME NEW net \in Matches(addr)
       PROVE  Len(net) <= Len(resolve(addr))
  <2>1. /\ net \in Seq(Bit) /\ Len(net) \in Nat /\ Len(net) < W
        /\ net = SubSeq(addr, 1, Len(net)) /\ net \in DOMAIN routes
    <3>1. net \in DOMAIN routes /\ IsPrefix(net, addr) /\ Len(net) < W
      BY DEF Matches
    <3>2. net \in Seq(Bit)
      BY <3>1, NetworkIsSeq DEF IInv, TypeOK
    <3>3. Len(net) \in Nat
      BY <3>2, LenProperties
    <3> QED BY <3>1, <3>2, <3>3, PrefixIsLeading
  <2>2. Len(net) <= d
    <3>1. Len(net) \in 0 .. W - 1
      BY <1>1, <2>1
    <3>2. SubSeq(addr, 1, Len(net)) \in DOMAIN routes
      BY <2>1
    <3> QED BY <1>2, <1>5, <3>1, <3>2
  <2>3. CASE ~ Zero(last)
    BY <1>7, <1>8, <2>2, <2>3
  <2>4. CASE Zero(last)
    <3> DEFINE n == Len(net)
    <3>1. n \in 0 .. Len(last)
      BY <1>6, <1>7, <2>1, <2>2
    <3>2. net = SubSeq(last, 1, n)
      BY <1>6, <1>7, <2>1, <3>1
    <3>3. \A i \in 1 .. n : net[i] = last[i]
      <4> HIDE DEF n
      <4> QED BY <1>7, <3>1, <3>2, Leading
    <3>4. DOMAIN net = 1 .. n /\ DOMAIN last = 1 .. d
      BY <1>7, <2>1, LenProperties
    <3>5. \A i \in 1 .. n : i \in 1 .. d
      BY <1>6, <2>1, <2>2
    <3>6. Zero(net)
      <4> HIDE DEF n
      <4> QED BY <2>4, <3>3, <3>4, <3>5 DEF Zero
    <3>7. net = <<>>
      BY <3>6 DEF Matches
    <3> QED BY <1>8, <2>4, <3>7, <1>3
  <2> QED BY <2>3, <2>4
<1>12. resolve(addr) \in Matches(addr)
  BY <1>8, <1>9, <1>10
<1> QED BY <1>11, <1>12

(* resolve() is a longest prefix match, whatever routes were added.        *)
THEOREM ResolvesLongest == Spec => []LongestMatch
<1>1. IInv => LongestMatch
  BY LongestOfTable
<1> QED BY Invariant, <1>1, PTL

-----------------------------------------------------------------------------
(* The chain of next hops *)

(* Grounded is closed, and only grounded routes lead into it.              *)
LEMMA GroundedSteps ==
  /\ Connected \subseteq Grounded
  /\ \A p \in DOMAIN routes \ Connected : p \in Grounded <=> Via(p) \in Grounded
<1>1. Connected \subseteq Grounded
  BY DEF Grounded, Closed, Connected
<1>2. ASSUME NEW p \in DOMAIN routes, Via(p) \in Grounded
      PROVE  p \in Grounded
  <2>1. ASSUME NEW S \in SUBSET DOMAIN routes, Closed(S)
        PROVE  p \in S
    BY <1>2, <2>1 DEF Grounded, Closed
  <2> QED BY <2>1 DEF Grounded
<1>3. ASSUME NEW p \in DOMAIN routes \ Connected, p \in Grounded
      PROVE  Via(p) \in Grounded
  <2> SUFFICES ASSUME Via(p) \notin Grounded
               PROVE  FALSE
    OBVIOUS
  <2> DEFINE S == Grounded \ {p}
  <2>1. S \in SUBSET DOMAIN routes /\ Grounded \subseteq DOMAIN routes
    BY DEF Grounded
  <2>2. Connected \subseteq S
    BY <1>1
  <2>3. ASSUME NEW q \in DOMAIN routes, Via(q) \in S
        PROVE  q \in S
    <3>1. q \in Grounded
      BY <1>2, <2>3
    <3>2. q # p
      BY <2>3
    <3> QED BY <3>1, <3>2
  <2> HIDE DEF S
  <2>4. Closed(S)
    BY <2>2, <2>3 DEF Closed
  <2>5. p \in S
    BY <1>3, <2>1, <2>4 DEF Grounded
  <2> QED BY <2>5 DEF S
<1> QED BY <1>1, <1>2, <1>3

(* What depends on the table only stays when the table does.               *)
LEMMA TableStays ==
  ASSUME UNCHANGED <<nodes, routes>>
  PROVE  /\ Connected' = Connected /\ \A p : Chain(p)' = Chain(p)
         /\ \A a : resolve(a)' = resolve(a)
<1>1. \A a : resolve(a)' = resolve(a)
  BY DEF resolve, Deepest, Found, Visited
<1>2. \A p : Via(p)' = Via(p)
  BY <1>1 DEF Via
<1>3. Connected' = Connected
  BY DEF Connected
<1> QED BY <1>1, <1>2, <1>3 DEF Chain, Led

(* A chain has its first route, and goes on from what is not CONNECTED.    *)
LEMMA ChainGoesOn ==
  ASSUME NEW p \in DOMAIN routes
  PROVE  /\ p \in Chain(p)
         /\ \A q \in Chain(p) \ Connected : Via(q) \in DOMAIN routes => Via(q) \in Chain(p)
<1>1. p \in Chain(p)
  BY DEF Chain
<1>2. ASSUME NEW q \in Chain(p) \ Connected, Via(q) \in DOMAIN routes,
             NEW S \in SUBSET DOMAIN routes, p \in S, Led(S)
      PROVE  Via(q) \in S
  <2>1. q \in S
    BY <1>2 DEF Chain
  <2> QED BY <1>2, <2>1 DEF Led
<1>3. ASSUME NEW q \in Chain(p) \ Connected, Via(q) \in DOMAIN routes
      PROVE  Via(q) \in Chain(p)
  BY <1>2, <1>3 DEF Chain
<1> QED BY <1>1, <1>3

(* Every step keeps to the chain.                                          *)
LEMMA ChainStep == IInv /\ KeepsToChain /\ [Next]_rvars => KeepsToChain'
<1> SUFFICES ASSUME IInv, KeepsToChain, [Next]_rvars
             PROVE  KeepsToChain'
  OBVIOUS
<1>1. ASSUME NEW o \in Offer, AddRoute(o.net, o.type, o.nexthop)
      PROVE  KeepsToChain'
  <2>1. answer'[1] # "route"
    <3>1. answer' = <<"exception">> \/ answer' = <<"added">>
      BY <1>1 DEF AddRoute
    <3> QED BY <3>1
  <2>2. looking' = FALSE
    BY <1>1 DEF AddRoute, IInv, TypeOK
  <2> QED BY <2>1, <2>2 DEF KeepsToChain
<1>2. ASSUME NEW addr \in Address, Ask(addr)
      PROVE  KeepsToChain'
  <2>1. UNCHANGED <<nodes, routes>> /\ asked' = addr
    BY <1>2 DEF Ask
  <2>2. PICK p : p = resolve(addr)
    OBVIOUS
  <2>3. resolve(asked)' = p
    BY <2>1, <2>2 DEF resolve, Deepest, Found, Visited
  <2>4. at' = p /\ answer'[1] # "route"
    BY <1>2, <2>2 DEF Ask
  <2>5. p \in Chain(p)
    BY <2>2, ResolveRouted, AddressIsSeq, ChainGoesOn DEF IInv
  <2>6. Chain(resolve(asked))' = Chain(p)
    <3>1. Connected' = Connected /\ \A q : Via(q)' = Via(q)
      BY <2>1, TableStays DEF Via
    <3>2. routes' = routes
      BY <2>1
    <3> QED BY <2>3, <3>1, <3>2 DEF Chain, Led
  <2> QED BY <2>4, <2>5, <2>6 DEF KeepsToChain
<1>3. ASSUME UNCHANGED <<nodes, routes, asked>>
      PROVE  Connected' = Connected /\ Chain(resolve(asked))' = Chain(resolve(asked))
  <2>1. resolve(asked)' = resolve(asked)
    BY <1>3 DEF resolve, Deepest, Found, Visited
  <2>2. Connected' = Connected /\ \A q : Via(q)' = Via(q)
    BY <1>3, TableStays DEF Via
  <2>3. routes' = routes
    BY <1>3
  <2> QED BY <2>1, <2>2, <2>3 DEF Chain, Led
<1>4. CASE Follow
  <2>1. at' = Via(at) /\ Via(at) \in DOMAIN routes /\ UNCHANGED <<nodes, routes, looking, asked, answer>>
    BY <1>4, FollowHop
  <2>2. Connected' = Connected /\ Chain(resolve(asked))' = Chain(resolve(asked))
    BY <1>3, <2>1
  <2>3. at \notin Connected /\ looking
    BY <1>4 DEF Follow, Connected
  <2>4. at \in Chain(resolve(asked)) /\ resolve(asked) \in DOMAIN routes
    BY <2>3, ResolveRouted, AddressIsSeq DEF KeepsToChain, IInv, TypeOK
  <2>5. Via(at) \in Chain(resolve(asked))
    BY <2>1, <2>3, <2>4, ChainGoesOn
  <2> QED BY <2>1, <2>2, <2>5 DEF KeepsToChain
<1>5. CASE Return
  <2>1. /\ UNCHANGED <<nodes, routes, asked>>
        /\ looking /\ looking' = FALSE
        /\ answer' = <<"route", at>> /\ at \in Connected
    BY <1>5 DEF Return, IInv, TypeOK, Connected
  <2>2. Connected' = Connected /\ Chain(resolve(asked))' = Chain(resolve(asked))
    BY <1>3, <2>1
  <2>3. answer'[2] = at
    BY <2>1
  <2> QED BY <2>1, <2>2, <2>3 DEF KeepsToChain
<1>6. CASE UNCHANGED rvars
  <2>1. UNCHANGED <<nodes, routes, looking, asked, at, answer>>
    BY <1>6 DEF rvars
  <2>2. Connected' = Connected /\ Chain(resolve(asked))' = Chain(resolve(asked))
    BY <1>3, <2>1
  <2> QED BY <2>1, <2>2 DEF KeepsToChain
<1> QED BY <1>1, <1>2, <1>4, <1>5, <1>6 DEF Next

(* r_resolve() looks at no other routes than those on the chain of next    *)
(* hops of the address it was asked for, and returns the CONNECTED one     *)
(* that this chain ends in.                                                *)
THEOREM StaysOnChain == Spec => []KeepsToChain
<1>1. Init => KeepsToChain
  BY DEF Init, KeepsToChain
<1> QED BY Invariant, <1>1, ChainStep, PTL DEF Spec

(* So it returns only for addresses whose chain ends: the routes that are  *)
(* not grounded lead into each other, and none of them is CONNECTED.       *)
THEOREM ReturnsGrounded == Spec => [](answer[1] = "route" => resolve(asked) \in Grounded)
<1>1. IInv /\ KeepsToChain => (answer[1] = "route" => resolve(asked) \in Grounded)
  <2> SUFFICES ASSUME IInv, KeepsToChain, answer[1] = "route", resolve(asked) \notin Grounded
               PROVE  FALSE
    OBVIOUS
  <2>1. PICK p \in DOMAIN routes : p = resolve(asked)
    BY ResolveRouted, AddressIsSeq DEF IInv, TypeOK
  <2> DEFINE S == {q \in DOMAIN routes : q \notin Grounded}
  <2>2. Led(S)
    <3>1. ASSUME NEW q \in S \ Connected
          PROVE  Via(q) \in S
      <4>1. Via(q) \notin Grounded
        BY GroundedSteps
      <4>2. Via(q) \in DOMAIN routes
        BY ViaRouted
      <4> QED BY <4>1, <4>2
    <3> QED BY <3>1 DEF Led
  <2>3. answer[2] \in Chain(p) /\ answer[2] \in Connected
    BY <2>1 DEF KeepsToChain
  <2>4. p \in S /\ S \in SUBSET DOMAIN routes
    BY <2>1
  <2>5. answer[2] \in S
    <3> HIDE DEF S
    <3> QED BY <2>2, <2>3, <2>4 DEF Chain
  <2> QED BY <2>3, <2>5, GroundedSteps
<1> QED BY <1>1, Invariant, StaysOnChain, PTL
=============================================================================
