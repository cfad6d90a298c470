--------------------------- MODULE LibraryProofs ----------------------------
(***************************************************************************)
(* Theorems about the library classes: checksums, arrays, netmasks, and    *)
(* addresses in text.                                                      *)
(***************************************************************************)
EXTENDS MCLibrary, ProofLemmas

-----------------------------------------------------------------------------
(* Checksums *)

(* 0xFFFF is far above every difference of two lengths.                    *)
LEMMA AllOnesLarge == AllOnes \in Nat /\ AllOnes > 100
BY SMT DEF AllOnes

(* Folding the carry back in keeps a sum of two words in 16 bits.          *)
LEMMA FoldedIs ==
  ASSUME NEW s \in 0 .. 2 * AllOnes
  PROVE  Folded(s) = IF s <= AllOnes THEN s ELSE s - AllOnes
<1> DEFINE n == AllOnes + 1
<1>0. AllOnes \in Nat /\ AllOnes > 100 /\ n \in Nat \ {0} /\ s \in Int
  BY AllOnesLarge
<1>1. CASE s <= AllOnes
  <2>1. s = n * 0 + s /\ s \in 0 .. n - 1
    BY <1>0, <1>1
  <2> HIDE DEF n
  <2>2. s \div n = 0
    BY <1>0, <2>1, ModIs
  <2> QED BY <1>1, <2>2 DEF Folded, n
<1>2. CASE s > AllOnes
  <2>1. s = n * 1 + (s - n) /\ s - n \in 0 .. n - 1
    BY <1>0, <1>2
  <2> HIDE DEF n
  <2>2. s \div n = 1
    BY <1>0, <2>1, ModIs
  <2>3. s - (AllOnes + 1) + 1 = s - AllOnes
    BY <1>0
  <2> QED BY <1>0, <1>2, <2>2, <2>3 DEF Folded, n
<1> QED BY <1>0, <1>1, <1>2

(* The one's complement sum is n modulo 0xFFFF, and 0 for 0 alone.         *)
LEMMA OnesSumIs ==
  ASSUME NEW n \in Nat
  PROVE  /\ OnesSum(n) \in 0 .. AllOnes
         /\ \E q \in Nat : n = AllOnes * q + OnesSum(n)
<1>0. AllOnes \in Nat \ {0}
  BY AllOnesLarge
<1>1. CASE n = 0
  <2>1. OnesSum(n) = 0
    BY <1>1 DEF OnesSum
  <2>2. n = AllOnes * 0 + OnesSum(n)
    BY <1>0, <1>1, <2>1
  <2> QED BY <1>0, <2>1, <2>2
<1>2. CASE n # 0
  <2> DEFINE m == n - 1
             q == m \div AllOnes
             r == m % AllOnes
  <2>0. m \in Int /\ m = n - 1
    OBVIOUS
  <2> HIDE DEF m
  <2>1. q \in Int /\ r \in 0 .. AllOnes - 1 /\ m = AllOnes * q + r
    BY <1>0, <2>0, DivMod
  <2>2. OnesSum(n) = r + 1
    BY <1>2, <2>0 DEF OnesSum
  <2> HIDE DEF q, r
  <2>3. q >= 0
    <3>1. ASSUME q < 0 PROVE FALSE
      <4>1. AllOnes * q <= -AllOnes
        BY <1>0, <2>1, <3>1
      <4>2. n - 1 >= 0 /\ AllOnes * q \in Int
        BY <1>0, <1>2, <2>0, <2>1
      <4> QED BY <1>0, <2>0, <2>1, <4>1, <4>2
    <3> QED BY <2>1, <3>1
  <2>4. n = AllOnes * q + OnesSum(n)
    <3>1. AllOnes * q \in Int
      BY <1>0, <2>1
    <3> QED BY <2>0, <2>1, <2>2, <3>1
  <2>5. q \in Nat
    BY <2>1, <2>3
  <2>6. OnesSum(n) \in 0 .. AllOnes
    BY <1>0, <2>1, <2>2
  <2> QED BY <2>4, <2>5, <2>6
<1> QED BY <1>1, <1>2

(* No other number in its range is.                                        *)
LEMMA OnesSumOf ==
  ASSUME NEW q \in Int, NEW r \in 1 .. AllOnes, AllOnes * q + r > 0
  PROVE  OnesSum(AllOnes * q + r) = r
<1> DEFINE n == AllOnes * q + r
<1>0. AllOnes \in Nat \ {0} /\ AllOnes * q \in Int
  BY AllOnesLarge
<1>1. n \in Int /\ n - 1 \in Int /\ n - 1 = AllOnes * q + (r - 1) /\ r - 1 \in 0 .. AllOnes - 1
  BY <1>0
<1>2. (n - 1) % AllOnes = r - 1
  <2> HIDE DEF n
  <2> QED BY <1>0, <1>1, ModIs
<1>3. n # 0
  OBVIOUS
<1> HIDE DEF n
<1>4. OnesSum(n) = r
  BY <1>2, <1>3 DEF OnesSum
<1> QED BY <1>4 DEF n

(* Adding a word and folding the carry back is adding in one's complement. *)
LEMMA OneMore ==
  ASSUME NEW n \in Nat, NEW w \in 0 .. AllOnes
  PROVE  Folded(OnesSum(n) + w) = OnesSum(n + w)
<1>0. AllOnes \in Nat /\ AllOnes > 100
  BY AllOnesLarge
<1>1. SUFFICES ASSUME NEW s \in 0 .. AllOnes, s = OnesSum(n),
                      NEW t \in 0 .. 2 * AllOnes, t = s + w
               PROVE  Folded(t) = OnesSum(n + w)
  BY <1>0, OnesSumIs
<1>2. PICK q \in Nat : n = AllOnes * q + s
  BY <1>1, OnesSumIs
<1>3. n + w = AllOnes * q + t /\ AllOnes * q \in Nat
  BY <1>0, <1>1, <1>2
<1>4. Folded(t) = IF t <= AllOnes THEN t ELSE t - AllOnes
  BY FoldedIs
<1>5. CASE t = 0
  <2>1. w = 0 /\ s = 0
    BY <1>1, <1>5
  <2>2. n + w = n
    BY <2>1
  <2>3. OnesSum(n + w) = 0
    BY <1>1, <2>1, <2>2
  <2>4. Folded(t) = 0
    BY <1>0, <1>4, <1>5
  <2> QED BY <2>3, <2>4
<1>6. CASE t \in 1 .. AllOnes
  <2>1. AllOnes * q + t > 0
    BY <1>3, <1>6
  <2>2. OnesSum(n + w) = t
    BY <1>3, <1>6, <2>1, OnesSumOf
  <2> QED BY <1>4, <1>6, <2>2
<1>7. CASE t > AllOnes
  <2>1. AllOnes * q + t = AllOnes * (q + 1) + (t - AllOnes)
    BY <1>0, <1>3
  <2>2. t - AllOnes \in 1 .. AllOnes /\ q + 1 \in Int
    BY <1>0, <1>7
  <2>3. AllOnes * (q + 1) + (t - AllOnes) > 0
    BY <1>0, <1>3, <1>7, <2>1
  <2>4. OnesSum(n + w) = t - AllOnes
    BY <1>3, <2>1, <2>2, <2>3, OnesSumOf
  <2> QED BY <1>0, <1>4, <1>7, <2>4
<1> QED BY <1>0, <1>5, <1>6, <1>7

(* With its complement added, a sum comes to 0xFFFF unless it was off by   *)
(* what is no multiple of that.                                            *)
LEMMA Complement ==
  ASSUME NEW n \in Nat, NEW d \in Int, n + d + (AllOnes - OnesSum(n)) > 0
  PROVE  OnesSum(n + d + (AllOnes - OnesSum(n))) = AllOnes <=> d % AllOnes = 0
<1>0. AllOnes \in Nat \ {0} /\ AllOnes > 100
  BY AllOnesLarge
<1>1. PICK q \in Nat : n = AllOnes * q + OnesSum(n)
  BY OnesSumIs
<1>2. OnesSum(n) \in 0 .. AllOnes
  BY <1>0, OnesSumIs
<1> DEFINE e == d \div AllOnes
           r == d % AllOnes
           m == n + d + (AllOnes - OnesSum(n))
<1>3. e \in Int /\ r \in 0 .. AllOnes - 1 /\ d = AllOnes * e + r
  BY <1>0, DivMod
<1> HIDE DEF e, r
<1>4. m = AllOnes * q + AllOnes * e + r + AllOnes /\ m > 0
  BY <1>0, <1>1, <1>2, <1>3
<1> HIDE DEF m
<1>5. CASE r = 0
  <2> DEFINE k == q + e
  <2>1. m = AllOnes * k + AllOnes /\ k \in Int /\ AllOnes \in 1 .. AllOnes
    BY <1>0, <1>3, <1>4, <1>5
  <2> HIDE DEF k
  <2>2. OnesSum(m) = AllOnes
    BY <1>4, <2>1, OnesSumOf
  <2> QED BY <1>5, <2>2 DEF m, r
<1>6. CASE r # 0
  <2> DEFINE k == q + e + 1
  <2>1. m = AllOnes * k + r /\ k \in Int /\ r \in 1 .. AllOnes
    BY <1>0, <1>3, <1>4, <1>6
  <2> HIDE DEF k
  <2>2. OnesSum(m) = r
    BY <1>4, <2>1, OnesSumOf
  <2>3. OnesSum(m) # AllOnes
    BY <1>0, <1>3, <2>2
  <2> QED BY <1>6, <2>3 DEF m, r
<1> QED BY <1>5, <1>6

(* Off by all but 40.                                                      *)
LEMMA OffByForty ==
  ASSUME NEW s \in Nat
  PROVE  (s - 40) % AllOnes = 0 <=> s % AllOnes = 40
<1>0. AllOnes \in Nat \ {0} /\ AllOnes > 100
  BY AllOnesLarge
<1> HIDE DEF AllOnes
<1> DEFINE e == s \div AllOnes
           r == s % AllOnes
<1>1. e \in Int /\ r \in 0 .. AllOnes - 1 /\ s = AllOnes * e + r
  BY <1>0, DivMod
<1> HIDE DEF e, r
<1>2. CASE r >= 40
  <2> DEFINE t == s - 40
             g == r - 40
  <2>1. t = AllOnes * e + g /\ g \in 0 .. AllOnes - 1 /\ t \in Int
    BY <1>0, <1>1, <1>2
  <2> HIDE DEF t, g
  <2>2. t % AllOnes = g
    BY <1>0, <1>1, <2>1, ModIs
  <2>3. g = 0 <=> r = 40
    BY <1>1 DEF g
  <2> QED BY <2>2, <2>3 DEF t, r
<1>3. CASE r < 40
  <2> DEFINE t == s - 40
             g == AllOnes + r - 40
             f == e - 1
  <2>1. t = AllOnes * f + g /\ g \in 0 .. AllOnes - 1 /\ g # 0 /\ f \in Int /\ t \in Int
    BY <1>0, <1>1, <1>3
  <2> HIDE DEF t, g, f
  <2>2. t % AllOnes = g
    BY <1>0, <2>1, ModIs
  <2>3. r # 40
    BY <1>1, <1>3
  <2> QED BY <2>1, <2>2, <2>3 DEF t, r
<1> QED BY <1>1, <1>2, <1>3

(* What was summed up: of a TCP header 40 instead of the segment's length. *)
Summed == IF proto = "TCP" /\ i > 5 THEN total + 40 - SegmentLength ELSE total

(* The inductive invariant.                                                *)
ChecksumInv ==
  /\ proto \in {"none", "IP", "TCP"}
  /\ words \in Nat /\ i \in 0 .. words /\ total \in Nat
  /\ data \in [bytes : Nat, total : Nat]
  /\ proto = "IP" => data = NoData
  /\ proto = "TCP" => words \in 16 .. 36 /\ (i > 5 => total > 0)
  /\ sum \in 0 .. AllOnes
  /\ field \in {-1, AllOnes - sum}
  /\ proto # "none" =>
       /\ Summed \in Nat /\ sum = OnesSum(Summed)
       /\ field # -1 => i = words

(* Every step preserves it.                                                *)
LEMMA ChecksumStep ==
  ASSUME ChecksumInv, [ChecksumNext]_cvars
  PROVE  ChecksumInv'
<1> USE ChecksumAssumption, AllOnesLarge
<1>1. ASSUME NEW p \in {"IP", "TCP"}, NEW length \in HeaderLength, NEW d \in [bytes : Nat, total : Nat],
             Start(p, length, d), p = "IP" => d = NoData
      PROVE  ChecksumInv'
  <2>1. length \in 5 .. 15
    OBVIOUS
  <2> QED BY <1>1, <2>1 DEF Start, ChecksumInv, Summed, OnesSum
<1>2. ASSUME NEW w \in 0 .. AllOnes, NEW r \in Nat, Add(w, r), proto \in {"IP", "TCP"},
             Summed' = Summed + w, proto = "TCP" /\ i = 5 => r > 0
      PROVE  ChecksumInv'
  <2>0. field = -1
    BY <1>2 DEF ChecksumInv, Add
  <2>1. Summed \in Nat /\ sum = OnesSum(Summed)
    BY <1>2 DEF ChecksumInv
  <2>2. sum' = OnesSum(Summed')
    BY <1>2, <2>1, OneMore DEF Add
  <2>3. Summed' \in Nat
    BY <1>2, <2>1
  <2>4. sum' \in 0 .. AllOnes
    BY <2>2, <2>3, OnesSumIs
  <2>5. i' \in 0 .. words' /\ words' = words /\ total' \in Nat /\ proto' = proto /\ field' = -1
    BY <1>2, <2>0 DEF ChecksumInv, Add
  <2>6. data' = data /\ (proto' = "TCP" /\ i' > 5 => total' > 0)
    BY <1>2 DEF ChecksumInv, Add
  <2> QED BY <1>2, <2>2, <2>3, <2>4, <2>5, <2>6 DEF ChecksumInv
<1>3. ASSUME Skip, proto = "IP" \/ i # 5
      PROVE  ChecksumInv'
  BY <1>3 DEF ChecksumInv, Skip, Summed, SegmentLength
<1>4. CASE AddHeader
  <2>1. CASE i = 5
    BY <1>3, <1>4, <2>1 DEF AddHeader
  <2>2. CASE i # 5
    <3>1. PICK w \in Word : Add(w, w)
      BY <1>4, <2>2 DEF AddHeader
    <3>2. w \in 0 .. AllOnes /\ proto = "IP"
      BY <1>4 DEF AddHeader
    <3>3. Summed' = Summed + w
      BY <3>1, <3>2 DEF Summed, Add
    <3> QED BY <1>2, <3>1, <3>2, <3>3
  <2> QED BY <2>1, <2>2
<1>5. CASE AddTcp
  <2>0. proto = "TCP" /\ words \in 16 .. 36 /\ i \in Nat /\ total \in Nat /\ data.bytes \in Nat
    BY <1>5 DEF AddTcp, ChecksumInv
  <2>1. CASE i = 4
    <3>1. Add(6, 6)
      BY <1>5, <2>1 DEF AddTcp
    <3>2. Summed' = Summed + 6
      BY <2>0, <2>1, <3>1 DEF Summed, Add
    <3> QED BY <1>2, <2>0, <3>1, <3>2
  <2>2. CASE i = 5
    <3>1. Add(40, SegmentLength)
      BY <1>5, <2>2 DEF AddTcp
    <3>2. SegmentLength \in Nat /\ SegmentLength > 0
      BY <2>0 DEF SegmentLength
    <3>3. Summed' = Summed + 40
      BY <2>0, <2>2, <3>1 DEF Summed, Add, SegmentLength
    <3> QED BY <1>2, <2>0, <3>1, <3>2, <3>3
  <2>3. CASE i = 14
    BY <1>3, <1>5, <2>3 DEF AddTcp
  <2>4. CASE i \notin {4, 5, 14}
    <3>1. PICK w \in Word : Add(w, w)
      BY <1>5, <2>4 DEF AddTcp
    <3>2. w \in 0 .. AllOnes
      OBVIOUS
    <3>3. Summed' = Summed + w
      <4>1. i' = i + 1 /\ total' = total + w /\ proto' = proto /\ SegmentLength' = SegmentLength
        BY <3>1 DEF Add, SegmentLength
      <4>2. SegmentLength \in Int
        BY <2>0 DEF SegmentLength
      <4>3. i > 5 <=> i + 1 > 5
        BY <2>0, <2>4
      <4> QED BY <2>0, <3>2, <4>1, <4>2, <4>3 DEF Summed
    <3> QED BY <1>2, <2>0, <2>4, <3>1, <3>2, <3>3
  <2> QED BY <2>1, <2>2, <2>3, <2>4
<1>6. CASE Finish
  BY <1>6 DEF Finish, ChecksumInv, Summed, SegmentLength
<1>7. CASE Again
  BY <1>7 DEF Again, ChecksumInv
<1>8. CASE UNCHANGED cvars
  BY <1>8 DEF cvars, ChecksumInv, Summed, SegmentLength
<1>9. NoData \in [bytes : Nat, total : Nat]
  BY DEF NoData
<1> QED BY <1>1, <1>4, <1>5, <1>6, <1>7, <1>8, <1>9 DEF ChecksumNext

(* So it always holds.                                                     *)
THEOREM ChecksumInvariant == ChecksumSpec => []ChecksumInv
<1>1. ChecksumInit => ChecksumInv
  BY AllOnesLarge DEF ChecksumInit, ChecksumInv, NoData
<1>2. ChecksumInv /\ [ChecksumNext]_cvars => ChecksumInv'
  BY ChecksumStep
<1> QED BY <1>1, <1>2, PTL DEF ChecksumSpec

(* The sum of a header, whatever its length and its words, stays in 16     *)
(* bits and is the one's complement sum of what calcHeaderChecksum() read. *)
THEOREM SumsRight == ChecksumSpec => []SumRight
<1>1. ChecksumInv => SumRight
  BY DEF ChecksumInv, SumRight, Summed
<1> QED BY <1>1, ChecksumInvariant, PTL

(* Every IP header verifies at its receiver, and of the TCP segments those *)
(* whose length and data together make up for the 40 of the pseudo header. *)
THEOREM ReceiverVerifies == ChecksumSpec => []Verifies
<1>1. ASSUME ChecksumInv, field # -1, proto # "none"
      PROVE  OnesSum(Received) = AllOnes
               <=> proto = "IP" \/ (SegmentLength + data.total) % AllOnes = 40
  <2>1. Summed \in Nat /\ field = AllOnes - OnesSum(Summed) /\ total \in Nat /\ data.total \in Nat
    BY <1>1 DEF ChecksumInv
  <2>2. OnesSum(Summed) \in 0 .. AllOnes
    BY <2>1, OnesSumIs
  <2>3. CASE proto = "IP"
    <3>1. Received = Summed + 0 + (AllOnes - OnesSum(Summed))
      BY <1>1, <2>1, <2>2, <2>3 DEF Summed, Received, ChecksumInv, NoData
    <3>2. Received > 0
      <4>1. CASE OnesSum(Summed) # AllOnes
        <5>1. AllOnes - OnesSum(Summed) > 0 /\ AllOnes - OnesSum(Summed) \in Int
          BY <2>2, <4>1, AllOnesLarge
        <5> QED BY <2>1, <3>1, <5>1
      <4>2. CASE OnesSum(Summed) = AllOnes
        <5>1. Summed # 0
          BY <4>2, AllOnesLarge DEF OnesSum
        <5> QED BY <2>1, <3>1, <4>2, <5>1, AllOnesLarge
      <4> QED BY <4>1, <4>2
    <3>3. 0 % AllOnes = 0
      BY AllOnesLarge
    <3> QED BY <2>1, <2>3, <3>1, <3>2, <3>3, Complement
  <2>4. CASE proto = "TCP"
    <3> DEFINE s == SegmentLength + data.total
    <3>1. /\ words \in 16 .. 36 /\ i = words /\ total > 0
          /\ data.bytes \in Nat /\ SegmentLength \in Nat
      BY <1>1, <2>4 DEF ChecksumInv, SegmentLength
    <3>2. Received = Summed + (s - 40) + (AllOnes - OnesSum(Summed)) /\ s \in Nat
      BY <2>1, <2>2, <2>4, <3>1 DEF Summed, Received
    <3>3. Received > 0
      <4>1. field \in Nat
        BY <2>1, <2>2, AllOnesLarge
      <4> QED BY <2>1, <3>1, <4>1 DEF Received
    <3>4. OnesSum(Received) = AllOnes <=> (s - 40) % AllOnes = 0
      BY <2>1, <3>2, <3>3, Complement
    <3>5. (s - 40) % AllOnes = 0 <=> s % AllOnes = 40
      BY <3>2, OffByForty
    <3> QED BY <2>4, <3>4, <3>5
  <2> QED BY <1>1, <2>3, <2>4 DEF ChecksumInv
<1>2. ChecksumInv => Verifies
  BY <1>1 DEF Verifies
<1> QED BY <1>2, ChecksumInvariant, PTL

-----------------------------------------------------------------------------
(* Arrays *)

(* Following the next pointers gives the only sequence of nodes in which   *)
(* each is the next of the one before.                                     *)
LEMMA ReachedIs ==
  ASSUME NEW h, NEW first, NEW index \in Nat, NEW q,
         q[0] = first, \A k \in 1 .. index : q[k] = h[q[k - 1]].next
  PROVE  Reached(h, first, index) = q[index]
<1> DEFINE Steps(f) == [k \in 0 .. index |-> IF k = 0 THEN first ELSE h[f[k - 1]].next]
           reached == CHOOSE f : f = Steps(f)
           g == [k \in 0 .. index |-> q[k]]
           D == {k \in 0 .. index : reached[k] # q[k]}
<1>1. Reached(h, first, index) = reached[index]
  BY DEF Reached
<1>2. g = Steps(g)
  <2>1. ASSUME NEW k \in 0 .. index
        PROVE  q[k] = IF k = 0 THEN first ELSE h[g[k - 1]].next
    <3>1. CASE k = 0
      BY <3>1
    <3>2. CASE k # 0
      <4>1. k \in 1 .. index /\ k - 1 \in 0 .. index
        BY <3>2
      <4> QED BY <3>2, <4>1
    <3> QED BY <3>1, <3>2
  <2> QED BY <2>1
<1>3. reached = Steps(reached)
  <2> HIDE DEF g, Steps
  <2> QED BY <1>2
<1> HIDE DEF reached
<1>4. \A k \in 0 .. index : reached[k] = IF k = 0 THEN first ELSE h[reached[k - 1]].next
  BY <1>3
<1>5. D = {}
  <2>1. SUFFICES ASSUME D # {} PROVE FALSE
    OBVIOUS
  <2>2. PICK d \in D : \A e \in D : d <= e
    <3>1. D \in SUBSET (0 .. index)
      OBVIOUS
    <3> HIDE DEF D
    <3> QED BY <2>1, <3>1, Least
  <2>3. d # 0
    BY <1>4
  <2>4. d - 1 \in 0 .. index /\ d \in 1 .. index /\ d - 1 \notin D
    BY <2>2, <2>3
  <2>5. reached[d - 1] = q[d - 1]
    BY <2>4
  <2> QED BY <1>4, <2>3, <2>4, <2>5
<1> QED BY <1>1, <1>5

(* A cell, and the heap with, in p, the nodes of each array in order: they *)
(* are linked from the root to NULL, no node is listed twice, and every    *)
(* node of the heap is.                                                    *)
Cell == [item : Element, next : Node \cup {NULL}]

Listed(h, r, s, p) ==
  /\ h \in [DOMAIN h -> Cell] /\ DOMAIN h \subseteq Node
  /\ s \in [ArrayName -> Nat]
  /\ r = [x \in ArrayName |-> IF s[x] = 0 THEN NULL ELSE p[x][1]]
  /\ \A x \in ArrayName : \A k \in 1 .. s[x] :
       /\ p[x][k] \in DOMAIN h
       /\ h[p[x][k]].next = IF k = s[x] THEN NULL ELSE p[x][k + 1]
  /\ \A x, y \in ArrayName : \A j \in 1 .. s[x], k \in 1 .. s[y] :
       p[x][j] = p[y][k] => x = y /\ j = k
  /\ \A n \in DOMAIN h : \E x \in ArrayName : \E k \in 1 .. s[x] : n = p[x][k]

(* The items of the arrays, which are sequences.                           *)
Items(h, s, p) == [x \in ArrayName |-> [k \in 1 .. s[x] |-> h[p[x][k]].item]]

(* Walking along an array leads from one listed node to the next.          *)
LEMMA WalkListed ==
  ASSUME NEW h, NEW r, NEW s, NEW p, Listed(h, r, s, p),
         NEW x \in ArrayName, NEW index \in 0 .. s[x]
  PROVE  Reached(h, r[x], index) = IF index = s[x] THEN NULL ELSE p[x][index + 1]
<1> DEFINE q == [k \in 0 .. s[x] |-> IF k = s[x] THEN NULL ELSE p[x][k + 1]]
<1>0. s[x] \in Nat
  BY DEF Listed
<1>1. q[0] = r[x]
  BY <1>0 DEF Listed
<1>2. ASSUME NEW k \in 1 .. index
      PROVE  q[k] = h[q[k - 1]].next
  <2>1. k - 1 \in 0 .. s[x] /\ k - 1 # s[x] /\ k \in 1 .. s[x] /\ (k - 1) + 1 = k
    BY <1>0
  <2>2. q[k - 1] = p[x][k]
    BY <2>1
  <2>3. h[p[x][k]].next = IF k = s[x] THEN NULL ELSE p[x][k + 1]
    BY <2>1 DEF Listed
  <2> QED BY <1>0, <2>1, <2>2, <2>3
<1>3. index \in Nat /\ q[index] = IF index = s[x] THEN NULL ELSE p[x][index + 1]
  BY <1>0
<1> HIDE DEF q
<1> QED BY <1>1, <1>2, <1>3, ReachedIs

(* So what get() returns are the items.                                    *)
Shown(h, r, s) ==
  [x \in ArrayName |->
    [k \in 1 .. s[x] |-> h[IF k - 1 < s[x] THEN Reached(h, r[x], k - 1) ELSE NULL].item]]

(* They are the items of the listed nodes.                                 *)
LEMMA ShownIs ==
  ASSUME NEW h, NEW r, NEW s, NEW p, Listed(h, r, s, p)
  PROVE  Shown(h, r, s) = Items(h, s, p)
<1>1. ASSUME NEW x \in ArrayName, NEW k \in 1 .. s[x]
      PROVE  k - 1 < s[x] /\ Reached(h, r[x], k - 1) = p[x][k]
  <2>1. s[x] \in Nat
    BY DEF Listed
  <2>2. k - 1 \in 0 .. s[x] /\ k - 1 < s[x] /\ k - 1 # s[x] /\ (k - 1) + 1 = k
    BY <2>1
  <2>3. Reached(h, r[x], k - 1) = IF k - 1 = s[x] THEN NULL ELSE p[x][(k - 1) + 1]
    BY <2>2, WalkListed
  <2> QED BY <2>2, <2>3
<1> QED BY <1>1 DEF Shown, Items

(* The same of the operations of an array.                                 *)
LEMMA WalksAre ==
  ASSUME NEW p, Listed(heap, root, size, p), NEW x \in ArrayName
  PROVE  /\ \A k \in 0 .. size[x] : Walk(x, k) = IF k = size[x] THEN NULL ELSE p[x][k + 1]
         /\ \A k \in 0 .. size[x] : getArrayItem(x, k) = IF k = size[x] THEN NULL ELSE p[x][k + 1]
         /\ Nodes(x) = {p[x][k] : k \in 1 .. size[x]}
<1>0. size[x] \in Nat
  BY DEF Listed
<1>1. \A k \in 0 .. size[x] : Walk(x, k) = IF k = size[x] THEN NULL ELSE p[x][k + 1]
  BY WalkListed DEF Walk
<1>2. \A k \in 0 .. size[x] : getArrayItem(x, k) = IF k = size[x] THEN NULL ELSE p[x][k + 1]
  BY <1>0, <1>1 DEF getArrayItem
<1>3. ASSUME NEW k \in 0 .. size[x] - 1
      PROVE  k + 1 \in 1 .. size[x] /\ Walk(x, k) = p[x][k + 1]
  BY <1>0, <1>1
<1>4. ASSUME NEW k \in 1 .. size[x]
      PROVE  k - 1 \in 0 .. size[x] - 1 /\ Walk(x, k - 1) = p[x][k]
  BY <1>0, <1>1
<1>5. Nodes(x) = {p[x][k] : k \in 1 .. size[x]}
  BY <1>3, <1>4 DEF Nodes
<1> QED BY <1>1, <1>2, <1>5

(* What the helpers do to the cells.                                       *)
LEMMA LinkedCells ==
  ASSUME NEW h, h \in [DOMAIN h -> Cell], NULL \notin DOMAIN h,
         NEW c \in DOMAIN h \cup {NULL}, NEW to \in Node \cup {NULL}
  PROVE  /\ Linked(h, c, to) \in [DOMAIN h -> Cell]
         /\ \A n \in DOMAIN h : /\ Linked(h, c, to)[n].item = h[n].item
                                /\ Linked(h, c, to)[n].next = IF n = c THEN to ELSE h[n].next
<1>1. CASE c = NULL
  BY <1>1 DEF Linked
<1>2. CASE c # NULL
  <2>1. Linked(h, c, to) = [n \in DOMAIN h |-> IF n = c THEN [h[n] EXCEPT !.next = to] ELSE h[n]]
    BY <1>2 DEF Linked
  <2>2. ASSUME NEW n \in DOMAIN h
        PROVE  [h[n] EXCEPT !.next = to] = [item |-> h[n].item, next |-> to] /\ h[n] \in Cell
    BY DEF Cell
  <2>3. ASSUME NEW n \in DOMAIN h
        PROVE  [item |-> h[n].item, next |-> to] \in Cell
    BY <2>2 DEF Cell
  <2>4. Linked(h, c, to) =
          [n \in DOMAIN h |-> IF n = c THEN [item |-> h[n].item, next |-> to] ELSE h[n]]
    BY <2>1, <2>2
  <2>5. Linked(h, c, to) \in [DOMAIN h -> Cell]
    BY <2>2, <2>3, <2>4
  <2> QED BY <2>4, <2>5
<1> QED BY <1>1, <1>2

(* The root is NULL in an empty array only.                                *)
LEMMA RootIs ==
  ASSUME NEW p, Listed(heap, root, size, p), NEW x \in ArrayName
  PROVE  /\ size[x] \in Nat /\ NULL \notin DOMAIN heap
         /\ size[x] = 0 <=> root[x] = NULL
         /\ size[x] > 0 => root[x] = p[x][1] /\ p[x][1] \in DOMAIN heap
<1>1. size[x] \in Nat /\ NULL \notin DOMAIN heap
  BY ArrayAssumption DEF Listed
<1>2. root[x] = IF size[x] = 0 THEN NULL ELSE p[x][1]
  BY DEF Listed
<1>3. ASSUME size[x] > 0 PROVE p[x][1] \in DOMAIN heap
  <2>1. 1 \in 1 .. size[x]
    BY <1>1, <1>3
  <2> QED BY <2>1 DEF Listed
<1> QED BY <1>1, <1>2, <1>3

(* add() puts a new node behind the last.                                  *)
LEMMA AddListed ==
  ASSUME NEW p, Listed(heap, root, size, p),
         NEW x \in ArrayName, NEW v \in Element, add(x, v)
  PROVE  \E p2 : /\ Listed(heap', root', size', p2)
                 /\ \A z \in ArrayName \ {x} : Items(heap', size', p2)[z] = Items(heap, size, p)[z]
                 /\ Items(heap', size', p2)[x] =
                      [k \in 1 .. size[x] + 1 |->
                        IF k = size[x] + 1 THEN v ELSE Items(heap, size, p)[x][k]]
<1>1. PICK node \in Free :
        /\ heap' = With(Linked(heap, IF root[x] = NULL THEN NULL ELSE Walk(x, size[x] - 1), node), node, v)
        /\ root' = [root EXCEPT ![x] = IF @ = NULL THEN node ELSE @]
        /\ size' = [size EXCEPT ![x] = @ + 1]
  BY DEF add
<1> DEFINE last == IF size[x] = 0 THEN NULL ELSE p[x][size[x]]
           p2 == [z \in ArrayName |->
                    IF z = x THEN [k \in 1 .. size[x] + 1 |-> IF k = size[x] + 1 THEN node ELSE p[x][k]]
                    ELSE p[z]]
<1>2. size[x] \in Nat /\ NULL \notin DOMAIN heap /\ node \in Node /\ node \notin DOMAIN heap /\ node # NULL
  BY RootIs, ArrayAssumption DEF Free
<1>3. last \in DOMAIN heap \cup {NULL}
      /\ last = IF root[x] = NULL THEN NULL ELSE Walk(x, size[x] - 1)
  <2>1. CASE size[x] = 0
    BY <2>1, RootIs
  <2>2. CASE size[x] # 0
    <3>1. size[x] - 1 \in 0 .. size[x] /\ size[x] - 1 # size[x] /\ (size[x] - 1) + 1 = size[x]
          /\ size[x] \in 1 .. size[x]
      BY <1>2, <2>2
    <3>2. Walk(x, size[x] - 1) = IF size[x] - 1 = size[x] THEN NULL ELSE p[x][(size[x] - 1) + 1]
      BY <3>1, WalksAre
    <3>3. p[x][size[x]] \in DOMAIN heap
      BY <3>1 DEF Listed
    <3> QED BY <2>2, <3>1, <3>2, <3>3, RootIs
  <2> QED BY <2>1, <2>2
<1>4. /\ heap \in [DOMAIN heap -> Cell] /\ DOMAIN heap \subseteq Node /\ size \in [ArrayName -> Nat]
      /\ \A z \in ArrayName : size[z] \in Nat
  BY DEF Listed
<1> DEFINE h == Linked(heap, last, node)
<1>5. /\ h \in [DOMAIN heap -> Cell]
      /\ \A n \in DOMAIN heap : h[n].item = heap[n].item /\ h[n].next = IF n = last THEN node ELSE heap[n].next
  <2> HIDE DEF last
  <2> QED BY <1>2, <1>3, <1>4, LinkedCells
<1> HIDE DEF h
<1>6. heap' = [n \in DOMAIN heap \cup {node} |-> IF n = node THEN [item |-> v, next |-> NULL] ELSE h[n]]
  BY <1>1, <1>3, <1>5 DEF With, h
<1>7. /\ DOMAIN heap' = DOMAIN heap \cup {node} /\ heap' \in [DOMAIN heap' -> Cell]
      /\ heap'[node].item = v /\ heap'[node].next = NULL
      /\ \A n \in DOMAIN heap : heap'[n].item = heap[n].item
                                /\ heap'[n].next = IF n = last THEN node ELSE heap[n].next
  <2>1. [item |-> v, next |-> NULL] \in Cell
    BY DEF Cell
  <2>2. ASSUME NEW n \in DOMAIN heap PROVE heap'[n] = h[n]
    BY <1>2, <1>6
  <2>3. heap'[node] = [item |-> v, next |-> NULL]
    BY <1>6
  <2> QED BY <1>5, <1>6, <2>1, <2>2, <2>3
<1>8. /\ size' \in [ArrayName -> Nat]
      /\ size'[x] = size[x] + 1 /\ \A z \in ArrayName \ {x} : size'[z] = size[z]
  BY <1>1, <1>4
<1>9. /\ \A k \in 1 .. size[x] : p2[x][k] = p[x][k] /\ k \in 1 .. size'[x] /\ k # size'[x]
      /\ p2[x][size'[x]] = node /\ size'[x] \in 1 .. size'[x]
      /\ \A k \in 1 .. size'[x] : k \in 1 .. size[x] \/ k = size'[x]
      /\ \A z \in ArrayName \ {x} : p2[z] = p[z] /\ size'[z] = size[z]
  BY <1>2, <1>8
<1>10. root' = [z \in ArrayName |-> IF size'[z] = 0 THEN NULL ELSE p2[z][1]]
  <2>1. ASSUME NEW z \in ArrayName
        PROVE  root[z] = IF size[z] = 0 THEN NULL ELSE p[z][1]
    BY DEF Listed
  <2>2. root'[x] = p2[x][1] /\ size'[x] # 0
    <3>1. CASE size[x] = 0
      BY <1>1, <1>8, <1>9, <3>1, RootIs DEF Listed
    <3>2. CASE size[x] # 0
      <4>1. 1 \in 1 .. size[x] /\ root[x] # NULL
        BY <1>2, <3>2, RootIs
      <4>2. root'[x] = root[x]
        BY <1>1, <4>1 DEF Listed
      <4> QED BY <1>2, <1>8, <1>9, <2>1, <3>2, <4>1, <4>2
    <3> QED BY <3>1, <3>2
  <2>3. ASSUME NEW z \in ArrayName, z # x
        PROVE  root'[z] = IF size'[z] = 0 THEN NULL ELSE p2[z][1]
    <3>1. root'[z] = root[z]
      BY <1>1, <2>3 DEF Listed
    <3> QED BY <1>9, <2>1, <2>3, <3>1
  <2>4. root' = [z \in ArrayName |-> root'[z]]
    BY <1>1 DEF Listed
  <2> HIDE DEF p2
  <2> QED BY <2>2, <2>3, <2>4
<1> HIDE DEF p2
<1>11. ASSUME NEW z \in ArrayName, NEW k \in 1 .. size'[z]
       PROVE  p2[z][k] \in DOMAIN heap' /\ heap'[p2[z][k]].next = IF k = size'[z] THEN NULL ELSE p2[z][k + 1]
  <2>1. CASE z # x
    <3>1. k \in 1 .. size[z] /\ p2[z] = p[z]
      BY <1>9, <2>1
    <3>2. p[z][k] \in DOMAIN heap /\ heap[p[z][k]].next = IF k = size[z] THEN NULL ELSE p[z][k + 1]
      BY <3>1 DEF Listed
    <3>3. p[z][k] # last
      <4>1. CASE size[x] = 0
        BY <1>2, <3>2, <4>1
      <4>2. CASE size[x] # 0
        <5>1. size[x] \in 1 .. size[x]
          BY <1>2, <4>2
        <5> QED BY <2>1, <3>1, <4>2, <5>1 DEF Listed
      <4> QED BY <4>1, <4>2
    <3> QED BY <1>7, <1>9, <2>1, <3>1, <3>2, <3>3
  <2>2. CASE z = x /\ k = size'[x]
    BY <1>7, <1>9, <2>2
  <2>3. CASE z = x /\ k \in 1 .. size[x]
    <3>1. p[x][k] \in DOMAIN heap /\ heap[p[x][k]].next = IF k = size[x] THEN NULL ELSE p[x][k + 1]
      BY <2>3 DEF Listed
    <3>2. CASE k = size[x]
      <4>1. last = p[x][k] /\ k + 1 = size'[x]
        BY <1>2, <1>8, <2>3, <3>2
      <4> QED BY <1>2, <1>7, <1>9, <2>3, <3>1, <4>1
    <3>3. CASE k # size[x]
      <4>1. k + 1 \in 1 .. size[x] /\ size[x] \in 1 .. size[x] /\ size[x] # 0
        BY <1>2, <2>3, <3>3
      <4>2. p[x][k] # p[x][size[x]]
        BY <2>3, <3>3, <4>1 DEF Listed
      <4> QED BY <1>7, <1>9, <2>3, <3>1, <3>3, <4>1, <4>2
    <3> QED BY <3>2, <3>3
  <2> QED BY <1>9, <2>1, <2>2, <2>3
<1>12. ASSUME NEW y \in ArrayName, NEW z \in ArrayName, NEW j \in 1 .. size'[y], NEW k \in 1 .. size'[z],
              p2[y][j] = p2[z][k]
       PROVE  y = z /\ j = k
  <2>1. \A a \in ArrayName : \A b \in 1 .. size[a] : p[a][b] \in DOMAIN heap
    BY DEF Listed
  <2>2. \A a \in ArrayName : \A b \in 1 .. size'[a] :
          IF a = x /\ b = size'[x] THEN p2[a][b] = node ELSE b \in 1 .. size[a] /\ p2[a][b] = p[a][b]
    BY <1>9
  <2>3. \A a, b \in ArrayName : \A c \in 1 .. size[a], d \in 1 .. size[b] :
          p[a][c] = p[b][d] => a = b /\ c = d
    BY DEF Listed
  <2> QED BY <1>2, <1>12, <2>1, <2>2, <2>3
<1>13. ASSUME NEW n \in DOMAIN heap'
       PROVE  \E z \in ArrayName : \E k \in 1 .. size'[z] : n = p2[z][k]
  <2>1. CASE n = node
    BY <1>9, <2>1
  <2>2. CASE n # node
    <3>1. PICK z \in ArrayName : \E k \in 1 .. size[z] : n = p[z][k]
      BY <1>7, <2>2 DEF Listed
    <3> QED BY <1>9, <3>1
  <2> QED BY <2>1, <2>2
<1>14. Listed(heap', root', size', p2)
  BY <1>2, <1>4, <1>7, <1>8, <1>10, <1>11, <1>12, <1>13 DEF Listed
<1>15. \A z \in ArrayName : \A k \in 1 .. size[z] : p[z][k] \in DOMAIN heap
  BY DEF Listed
<1>16. \A z \in ArrayName \ {x} : Items(heap', size', p2)[z] = Items(heap, size, p)[z]
  BY <1>7, <1>9, <1>15 DEF Items
<1>17. Items(heap', size', p2)[x] =
         [k \in 1 .. size[x] + 1 |-> IF k = size[x] + 1 THEN v ELSE Items(heap, size, p)[x][k]]
  <2>1. ASSUME NEW k \in 1 .. size[x] + 1
        PROVE  heap'[p2[x][k]].item = IF k = size[x] + 1 THEN v ELSE Items(heap, size, p)[x][k]
    BY <1>7, <1>8, <1>9, <1>15 DEF Items
  <2> QED BY <1>8, <2>1 DEF Items
<1> QED BY <1>14, <1>16, <1>17

(* set() changes one item.                                                 *)
LEMMA SetListed ==
  ASSUME NEW p, Listed(heap, root, size, p),
         NEW x \in ArrayName, NEW index \in 0 .. size[x], NEW v \in Element, SetItem(x, index, v)
  PROVE  /\ index < size[x]
         /\ Listed(heap', root', size', p)
         /\ \A z \in ArrayName \ {x} : Items(heap', size', p)[z] = Items(heap, size, p)[z]
         /\ Items(heap', size', p)[x] = [Items(heap, size, p)[x] EXCEPT ![index + 1] = v]
<1>0. /\ size[x] \in Nat /\ heap \in [DOMAIN heap -> Cell]
      /\ \A z \in ArrayName : \A k \in 1 .. size[z] : p[z][k] \in DOMAIN heap
  BY DEF Listed
<1>1. getArrayItem(x, index) = IF index = size[x] THEN NULL ELSE p[x][index + 1]
  BY WalksAre
<1>2. index # size[x] /\ index < size[x] /\ index + 1 \in 1 .. size[x]
  BY <1>0, <1>1 DEF SetItem
<1> DEFINE c == p[x][index + 1]
<1>3. c \in DOMAIN heap /\ heap' = [heap EXCEPT ![c].item = v] /\ root' = root /\ size' = size
  BY <1>0, <1>1, <1>2 DEF SetItem
<1> HIDE DEF c
<1>4. \A n \in DOMAIN heap : heap[n] \in Cell
  BY <1>0
<1>5. heap' = [n \in DOMAIN heap |-> IF n = c THEN [item |-> v, next |-> heap[n].next] ELSE heap[n]]
  <2>1. heap' = [n \in DOMAIN heap |-> IF n = c THEN [heap[n] EXCEPT !.item = v] ELSE heap[n]]
    BY <1>0, <1>3
  <2>2. ASSUME NEW n \in DOMAIN heap
        PROVE  [heap[n] EXCEPT !.item = v] = [item |-> v, next |-> heap[n].next]
    BY <1>4 DEF Cell
  <2> QED BY <2>1, <2>2
<1>6. ASSUME NEW n \in DOMAIN heap
      PROVE  [item |-> v, next |-> heap[n].next] \in Cell
  BY <1>4 DEF Cell
<1>7. heap' \in [DOMAIN heap -> Cell] /\ DOMAIN heap' = DOMAIN heap
  BY <1>4, <1>5, <1>6
<1>8. \A n \in DOMAIN heap : heap'[n].next = heap[n].next /\ heap'[n].item = IF n = c THEN v ELSE heap[n].item
  BY <1>5
<1>9. Listed(heap', root', size', p)
  <2>1. \A z \in ArrayName : \A k \in 1 .. size'[z] :
          /\ p[z][k] \in DOMAIN heap'
          /\ heap'[p[z][k]].next = IF k = size'[z] THEN NULL ELSE p[z][k + 1]
    BY <1>0, <1>3, <1>7, <1>8 DEF Listed
  <2>2. heap' \in [DOMAIN heap' -> Cell] /\ DOMAIN heap' \subseteq Node
    BY <1>3, <1>7 DEF Listed
  <2>3. \A n \in DOMAIN heap' : \E z \in ArrayName : \E k \in 1 .. size'[z] : n = p[z][k]
    BY <1>3, <1>7 DEF Listed
  <2>4. /\ size' \in [ArrayName -> Nat]
        /\ root' = [z \in ArrayName |-> IF size'[z] = 0 THEN NULL ELSE p[z][1]]
        /\ \A y, z \in ArrayName : \A j \in 1 .. size'[y], k \in 1 .. size'[z] :
             p[y][j] = p[z][k] => y = z /\ j = k
    BY <1>3 DEF Listed
  <2> HIDE DEF c
  <2> QED BY <2>1, <2>2, <2>3, <2>4 DEF Listed
<1>10. \A z \in ArrayName : \A k \in 1 .. size[z] : p[z][k] = c => z = x /\ k = index + 1
  BY <1>2 DEF Listed, c
<1>11. \A z \in ArrayName \ {x} : Items(heap', size', p)[z] = Items(heap, size, p)[z]
  BY <1>0, <1>3, <1>8, <1>10 DEF Items
<1>12. Items(heap', size', p)[x] = [Items(heap, size, p)[x] EXCEPT ![index + 1] = v]
  <2>1. ASSUME NEW k \in 1 .. size[x]
        PROVE  heap'[p[x][k]].item = IF k = index + 1 THEN v ELSE heap[p[x][k]].item
    BY <1>0, <1>8, <1>10 DEF c
  <2> QED BY <1>2, <1>3, <2>1 DEF Items
<1> QED BY <1>2, <1>9, <1>11, <1>12

(* clear() frees all the nodes of the array and no others.                 *)
LEMMA ClearListed ==
  ASSUME NEW p, Listed(heap, root, size, p), NEW x \in ArrayName, clear(x)
  PROVE  /\ Listed(heap', root', size', p)
         /\ \A z \in ArrayName \ {x} : Items(heap', size', p)[z] = Items(heap, size, p)[z]
         /\ size'[x] = 0
<1>0. /\ \A z \in ArrayName : size[z] \in Nat
      /\ size \in [ArrayName -> Nat] /\ heap \in [DOMAIN heap -> Cell] /\ DOMAIN heap \subseteq Node
      /\ \A z \in ArrayName : \A k \in 1 .. size[z] :
           p[z][k] \in DOMAIN heap /\ heap[p[z][k]].next = IF k = size[z] THEN NULL ELSE p[z][k + 1]
      /\ \A y, z \in ArrayName : \A j \in 1 .. size[y], k \in 1 .. size[z] :
           p[y][j] = p[z][k] => y = z /\ j = k
  BY DEF Listed
<1> DEFINE mine == {p[x][k] : k \in 1 .. size[x]}
<1>1. Nodes(x) = mine
  BY WalksAre
<1> HIDE DEF mine
<1>2. heap' = [n \in DOMAIN heap \ mine |-> heap[n]]
  BY <1>1 DEF clear, Without
<1>3. DOMAIN heap' = DOMAIN heap \ mine /\ \A n \in DOMAIN heap' : heap'[n] = heap[n]
  BY <1>2
<1>4. /\ size' \in [ArrayName -> Nat] /\ size'[x] = 0
      /\ \A z \in ArrayName \ {x} : size'[z] = size[z]
  BY <1>0 DEF clear
<1>5. root' = [z \in ArrayName |-> IF size'[z] = 0 THEN NULL ELSE p[z][1]]
  <2>0. \A z \in ArrayName : root[z] = IF size[z] = 0 THEN NULL ELSE p[z][1]
    BY DEF Listed
  <2>1. root' = [z \in ArrayName |-> IF z = x THEN IF size[x] = 0 THEN root[x] ELSE Walk(x, size[x])
                                     ELSE root[z]]
    BY DEF clear, Listed
  <2>2. Walk(x, size[x]) = NULL
    BY <1>0, WalksAre
  <2> QED BY <1>4, <2>0, <2>1, <2>2
<1>6. ASSUME NEW z \in ArrayName, NEW k \in 1 .. size'[z]
      PROVE  z # x /\ k \in 1 .. size[z] /\ p[z][k] \in DOMAIN heap' /\ heap'[p[z][k]] = heap[p[z][k]]
  <2>1. z # x /\ k \in 1 .. size[z]
    BY <1>4
  <2>2. p[z][k] \in DOMAIN heap /\ p[z][k] \notin mine
    BY <1>0, <2>1 DEF mine
  <2> QED BY <1>3, <2>1, <2>2
<1>7. ASSUME NEW n \in DOMAIN heap'
      PROVE  \E z \in ArrayName : \E k \in 1 .. size'[z] : n = p[z][k]
  <2>1. n \in DOMAIN heap /\ n \notin mine
    BY <1>3
  <2>2. PICK z \in ArrayName : \E k \in 1 .. size[z] : n = p[z][k]
    BY <2>1 DEF Listed
  <2>3. z # x
    BY <2>1, <2>2 DEF mine
  <2> QED BY <1>4, <2>2, <2>3
<1>8. heap' \in [DOMAIN heap' -> Cell] /\ DOMAIN heap' \subseteq Node
  BY <1>0, <1>2, <1>3
<1>9. \A z \in ArrayName : \A k \in 1 .. size'[z] :
        p[z][k] \in DOMAIN heap' /\ heap'[p[z][k]].next = IF k = size'[z] THEN NULL ELSE p[z][k + 1]
  BY <1>0, <1>4, <1>6
<1>10. \A y, z \in ArrayName : \A j \in 1 .. size'[y], k \in 1 .. size'[z] :
         p[y][j] = p[z][k] => y = z /\ j = k
  BY <1>0, <1>6
<1>11. Listed(heap', root', size', p)
  BY <1>4, <1>5, <1>7, <1>8, <1>9, <1>10 DEF Listed
<1>12. \A z \in ArrayName \ {x} : Items(heap', size', p)[z] = Items(heap, size, p)[z]
  <2>1. ASSUME NEW z \in ArrayName \ {x}
        PROVE  size'[z] = size[z] /\ \A k \in 1 .. size[z] : heap'[p[z][k]].item = heap[p[z][k]].item
    BY <1>4, <1>6
  <2> QED BY <2>1 DEF Items
<1> QED BY <1>4, <1>11, <1>12

(* del() takes one node out, the first or a later one.                     *)
Taken(p, x, index, target) ==
  /\ index < size[x] /\ target \in DOMAIN heap
  /\ size' = [z \in ArrayName |-> IF z = x THEN size[z] - 1 ELSE size[z]]
  /\ root' = [z \in ArrayName |-> IF z = x /\ index = 0 THEN heap[target].next ELSE root[z]]
  /\ DOMAIN heap' = DOMAIN heap \ {target} /\ heap' \in [DOMAIN heap' -> Cell]
  /\ \A n \in DOMAIN heap' :
       /\ heap'[n].item = heap[n].item
       /\ heap'[n].next = IF index > 0 /\ n = p[x][index] THEN heap[target].next ELSE heap[n].next

(* The first node leaves through the root, another through the node before *)
(* it.                                                                     *)
LEMMA DelHeap ==
  ASSUME NEW p, Listed(heap, root, size, p),
         NEW x \in ArrayName, NEW index \in 0 .. size[x], del(x, index),
         NEW target, target = p[x][index + 1]
  PROVE  Taken(p, x, index, target)
<1>0. /\ size[x] \in Nat /\ index < size[x]
      /\ size' = [z \in ArrayName |-> IF z = x THEN size[z] - 1 ELSE size[z]]
      /\ root = [z \in ArrayName |-> root[z]]
      /\ heap \in [DOMAIN heap -> Cell] /\ NULL \notin DOMAIN heap
      /\ \A k \in 1 .. size[x] : p[x][k] \in DOMAIN heap
  <2>1. size \in [ArrayName -> Nat] /\ index < size[x] /\ size' = [size EXCEPT ![x] = @ - 1]
    BY DEF del, Listed
  <2>2. root = [z \in ArrayName |-> root[z]]
    BY DEF Listed
  <2>3. heap \in [DOMAIN heap -> Cell] /\ \A k \in 1 .. size[x] : p[x][k] \in DOMAIN heap
    BY DEF Listed
  <2> QED BY <2>1, <2>2, <2>3, RootIs
<1>1. index + 1 \in 1 .. size[x] /\ target \in DOMAIN heap
  BY <1>0
<1>2. heap[target].next \in Node \cup {NULL}
  <2>1. heap[target] \in Cell
    BY <1>0, <1>1
  <2> QED BY <2>1 DEF Cell
<1>3. CASE index = 0
  <2>1. root[x] = target
    BY <1>0, <1>3, RootIs
  <2>2. heap' = [n \in DOMAIN heap \ {target} |-> heap[n]] /\ root' = [root EXCEPT ![x] = heap[@].next]
    BY <1>3, <2>1 DEF del, Without
  <2>3. root' = [z \in ArrayName |-> IF z = x /\ index = 0 THEN heap[target].next ELSE root[z]]
    BY <1>0, <1>3, <2>1, <2>2
  <2>4. DOMAIN heap' = DOMAIN heap \ {target} /\ heap' \in [DOMAIN heap' -> Cell]
        /\ \A n \in DOMAIN heap' : heap'[n] = heap[n]
    BY <1>0, <2>2
  <2> QED BY <1>0, <1>1, <1>3, <2>3, <2>4 DEF Taken
<1>4. CASE index > 0
  <2> DEFINE prev == p[x][index]
             h == Linked(heap, prev, heap[target].next)
  <2>1. index - 1 \in 0 .. size[x] /\ index - 1 # size[x] /\ (index - 1) + 1 = index /\ index \in 1 .. size[x]
        /\ index # size[x]
    BY <1>0, <1>4
  <2>2. getArrayItem(x, index - 1) = prev /\ getArrayItem(x, index) = target
    BY <2>1, WalksAre
  <2>3. prev \in DOMAIN heap
    BY <1>0, <2>1
  <2>4. heap' = Without(h, {target}) /\ root' = root
    BY <1>4, <2>2 DEF del
  <2> HIDE DEF prev
  <2>5. /\ h \in [DOMAIN heap -> Cell]
        /\ \A n \in DOMAIN heap : /\ h[n].item = heap[n].item
                                  /\ h[n].next = IF n = prev THEN heap[target].next ELSE heap[n].next
    BY <1>0, <1>2, <2>3, LinkedCells
  <2> HIDE DEF h
  <2>6. heap' = [n \in DOMAIN heap \ {target} |-> h[n]]
    BY <2>4, <2>5 DEF Without
  <2>7. DOMAIN heap' = DOMAIN heap \ {target} /\ heap' \in [DOMAIN heap' -> Cell]
        /\ \A n \in DOMAIN heap' : heap'[n] = h[n]
    BY <2>5, <2>6
  <2>8. root' = [z \in ArrayName |-> IF z = x /\ index = 0 THEN heap[target].next ELSE root[z]]
    BY <1>0, <1>4, <2>4
  <2> QED BY <1>0, <1>1, <1>4, <2>5, <2>7, <2>8 DEF prev, Taken
<1> QED BY <1>3, <1>4

(* The later items move up.                                                *)
LEMMA DelListed ==
  ASSUME NEW p, Listed(heap, root, size, p),
         NEW x \in ArrayName, NEW index \in 0 .. size[x], del(x, index)
  PROVE  /\ index < size[x]
         /\ \E p2 : /\ Listed(heap', root', size', p2)
                    /\ \A z \in ArrayName \ {x} : Items(heap', size', p2)[z] = Items(heap, size, p)[z]
                    /\ Items(heap', size', p2)[x] =
                         [k \in 1 .. size[x] - 1 |->
                           IF k < index + 1 THEN Items(heap, size, p)[x][k] ELSE Items(heap, size, p)[x][k + 1]]
<1>a. PICK target : target = p[x][index + 1]
  OBVIOUS
<1> DEFINE p2 == [z \in ArrayName |->
                    IF z = x THEN [k \in 1 .. size[x] - 1 |-> IF k < index + 1 THEN p[x][k] ELSE p[x][k + 1]]
                    ELSE p[z]]
<1>0. /\ \A z \in ArrayName : size[z] \in Nat
      /\ size \in [ArrayName -> Nat] /\ heap \in [DOMAIN heap -> Cell] /\ DOMAIN heap \subseteq Node
      /\ \A z \in ArrayName : \A k \in 1 .. size[z] :
           p[z][k] \in DOMAIN heap /\ heap[p[z][k]].next = IF k = size[z] THEN NULL ELSE p[z][k + 1]
      /\ \A y, z \in ArrayName : \A j \in 1 .. size[y], k \in 1 .. size[z] :
           p[y][j] = p[z][k] => y = z /\ j = k
  BY DEF Listed
<1>1. Taken(p, x, index, target)
  BY <1>a, DelHeap
<1>2. /\ index \in Nat /\ size[x] \in Nat /\ index + 1 \in 1 .. size[x]
      /\ size' \in [ArrayName -> Nat] /\ size'[x] = size[x] - 1 /\ size'[x] \in Nat
      /\ \A z \in ArrayName \ {x} : size'[z] = size[z]
  BY <1>0, <1>1 DEF Taken
<1>3. heap[target].next = IF index + 1 = size[x] THEN NULL ELSE p[x][index + 2]
  BY <1>0, <1>2, <1>a
<1>4. /\ \A z \in ArrayName \ {x} : p2[z] = p[z]
      /\ \A k \in 1 .. size'[x] :
           p2[x][k] = IF k < index + 1 THEN p[x][k] ELSE p[x][k + 1]
  BY <1>2
<1> HIDE DEF p2
(* Where in the old list the new nodes are. *)
<1>5. ASSUME NEW z \in ArrayName, NEW k \in 1 .. size'[z]
      PROVE  LET j == IF z = x /\ k >= index + 1 THEN k + 1 ELSE k
             IN  j \in 1 .. size[z] /\ p2[z][k] = p[z][j] /\ (z = x => j # index + 1)
  BY <1>2, <1>4
<1>6. \A z \in ArrayName : \A k \in 1 .. size[z] : p[z][k] = target => z = x /\ k = index + 1
  BY <1>0, <1>2, <1>a
<1>7. \A z \in ArrayName : \A k \in 1 .. size'[z] : p2[z][k] \in DOMAIN heap'
  BY <1>0, <1>1, <1>5, <1>6 DEF Taken
<1>8. ASSUME NEW z \in ArrayName, NEW k \in 1 .. size'[z]
      PROVE  heap'[p2[z][k]].next = IF k = size'[z] THEN NULL ELSE p2[z][k + 1]
  <2>0. heap'[p2[z][k]].next =
          IF index > 0 /\ p2[z][k] = p[x][index] THEN heap[target].next ELSE heap[p2[z][k]].next
    BY <1>1, <1>7 DEF Taken
  <2>1. CASE z # x
    <3>1. k \in 1 .. size[z] /\ p2[z] = p[z] /\ size'[z] = size[z]
      BY <1>2, <1>4, <2>1
    <3>2. index > 0 => p[z][k] # p[x][index]
      <4>1. ASSUME index > 0 PROVE index \in 1 .. size[x]
        BY <1>2, <4>1
      <4> QED BY <1>0, <2>1, <3>1, <4>1
    <3> QED BY <1>0, <2>0, <3>1, <3>2
  <2>2. CASE z = x /\ k < index
    <3>1. /\ k \in 1 .. size[x] /\ index \in 1 .. size[x] /\ k # index /\ k # size[x] /\ k # size'[x]
          /\ k < index + 1 /\ k + 1 < index + 1 /\ k + 1 \in 1 .. size'[x]
      BY <1>2, <2>2
    <3>2. p2[x][k] = p[x][k] /\ p2[x][k + 1] = p[x][k + 1] /\ p[x][k] # p[x][index]
      BY <1>0, <1>4, <2>2, <3>1
    <3> QED BY <1>0, <2>0, <2>2, <3>1, <3>2
  <2>3. CASE z = x /\ k = index
    <3>1. p2[x][k] = p[x][index] /\ index > 0
      BY <1>2, <1>4, <2>3
    <3>2. heap'[p2[x][k]].next = heap[target].next
      BY <2>0, <2>3, <3>1
    <3>3. CASE index + 1 = size[x]
      BY <1>2, <1>3, <2>3, <3>2, <3>3
    <3>4. CASE index + 1 # size[x]
      <4>1. k + 1 \in 1 .. size'[x] /\ ~ (k + 1 < index + 1) /\ (k + 1) + 1 = index + 2 /\ k # size'[x]
        BY <1>2, <2>3, <3>4
      <4>2. p2[x][k + 1] = p[x][index + 2]
        BY <1>4, <4>1
      <4> QED BY <1>3, <2>3, <3>2, <3>4, <4>1, <4>2
    <3> QED BY <3>3, <3>4
  <2>4. CASE z = x /\ k > index
    <3>1. /\ k + 1 \in 1 .. size[x] /\ ~ (k < index + 1) /\ k + 1 # index
          /\ (k + 1 = size[x] <=> k = size'[x])
      BY <1>2, <2>4
    <3>2. p2[x][k] = p[x][k + 1]
      BY <1>4, <2>4, <3>1
    <3>3. index > 0 => p[x][k + 1] # p[x][index]
      <4>1. ASSUME index > 0 PROVE index \in 1 .. size[x]
        BY <1>2, <4>1
      <4> QED BY <1>0, <3>1, <4>1
    <3>4. heap'[p2[x][k]].next = IF k = size'[x] THEN NULL ELSE p[x][(k + 1) + 1]
      BY <1>0, <2>0, <2>4, <3>1, <3>2, <3>3
    <3>5. ASSUME k # size'[x]
          PROVE  p2[x][k + 1] = p[x][(k + 1) + 1]
      <4>1. k + 1 \in 1 .. size'[x] /\ ~ (k + 1 < index + 1)
        BY <1>2, <2>4, <3>5
      <4> QED BY <1>4, <4>1
    <3> QED BY <2>4, <3>4, <3>5
  <2>5. k \in Nat
    BY <1>2
  <2> QED BY <1>2, <2>1, <2>2, <2>3, <2>4, <2>5
<1>9. ASSUME NEW y \in ArrayName, NEW z \in ArrayName, NEW j \in 1 .. size'[y], NEW k \in 1 .. size'[z],
             p2[y][j] = p2[z][k]
      PROVE  y = z /\ j = k
  <2> DEFINE j0 == IF y = x /\ j >= index + 1 THEN j + 1 ELSE j
             k0 == IF z = x /\ k >= index + 1 THEN k + 1 ELSE k
  <2>1. j0 \in 1 .. size[y] /\ p2[y][j] = p[y][j0] /\ k0 \in 1 .. size[z] /\ p2[z][k] = p[z][k0]
    BY <1>5
  <2>2. y = z /\ j0 = k0
    <3> HIDE DEF j0, k0
    <3>1. p[y][j0] = p[z][k0]
      BY <1>9, <2>1
    <3>2. \A a, b \in ArrayName : \A c \in 1 .. size[a], d \in 1 .. size[b] :
            p[a][c] = p[b][d] => a = b /\ c = d
      BY <1>0
    <3> QED BY <2>1, <3>1, <3>2
  <2>3. j \in Int /\ k \in Int /\ index \in Int
    BY <1>2
  <2> QED BY <2>2, <2>3
<1>10. ASSUME NEW n \in DOMAIN heap'
       PROVE  \E z \in ArrayName : \E k \in 1 .. size'[z] : n = p2[z][k]
  <2>1. n \in DOMAIN heap /\ n # target
    BY <1>1 DEF Taken
  <2>2. PICK z \in ArrayName : \E k \in 1 .. size[z] : n = p[z][k]
    BY <2>1 DEF Listed
  <2>3. PICK k \in 1 .. size[z] : n = p[z][k]
    BY <2>2
  <2>4. CASE z # x
    BY <1>2, <1>4, <2>3, <2>4
  <2>5. CASE z = x
    <3>1. k # index + 1
      BY <1>a, <2>1, <2>3, <2>5
    <3>2. CASE k < index + 1
      <4>1. k \in 1 .. size'[x]
        BY <1>2, <2>5, <3>2
      <4> QED BY <1>4, <2>3, <2>5, <3>2, <4>1
    <3>3. CASE k > index + 1
      <4>1. k - 1 \in 1 .. size'[x] /\ ~ (k - 1 < index + 1) /\ (k - 1) + 1 = k
        BY <1>2, <2>5, <3>3
      <4>2. p2[x][k - 1] = n
        BY <1>4, <2>3, <2>5, <4>1
      <4> QED BY <2>5, <4>1, <4>2
    <3>4. k \in Nat
      BY <1>0
    <3> QED BY <1>2, <3>1, <3>2, <3>3, <3>4
  <2> QED BY <2>4, <2>5
<1>11. root' = [z \in ArrayName |-> IF size'[z] = 0 THEN NULL ELSE p2[z][1]]
  <2>0. \A z \in ArrayName : root[z] = IF size[z] = 0 THEN NULL ELSE p[z][1]
    BY DEF Listed
  <2>1. ASSUME NEW z \in ArrayName
        PROVE  root'[z] = IF size'[z] = 0 THEN NULL ELSE p2[z][1]
    <3>1. CASE z # x
      <4>1. root'[z] = root[z]
        BY <1>1, <3>1 DEF Listed, Taken
      <4> QED BY <1>2, <1>4, <2>0, <3>1, <4>1
    <3>2. CASE z = x /\ index = 0
      <4>1. root'[x] = heap[target].next
        BY <1>1, <3>2 DEF Listed, Taken
      <4>2. CASE size[x] = 1
        BY <1>2, <1>3, <3>2, <4>1, <4>2
      <4>3. CASE size[x] # 1
        <5>1. 1 \in 1 .. size'[x] /\ size'[x] # 0 /\ index + 1 # size[x] /\ ~ (1 < index + 1) /\ index + 2 = 1 + 1
          BY <1>2, <3>2, <4>3
        <5>2. p2[x][1] = p[x][index + 2]
          BY <1>4, <5>1
        <5> QED BY <1>3, <3>2, <4>1, <5>1, <5>2
      <4> QED BY <4>2, <4>3
    <3>3. CASE z = x /\ index # 0
      <4>1. root'[x] = root[x]
        BY <1>1, <3>3 DEF Listed, Taken
      <4>2. 1 \in 1 .. size'[x] /\ size'[x] # 0 /\ 1 < index + 1 /\ size[x] # 0
        BY <1>2, <3>3
      <4> QED BY <1>4, <2>0, <3>3, <4>1, <4>2
    <3> QED BY <3>1, <3>2, <3>3
  <2>2. root' = [z \in ArrayName |-> root'[z]]
    BY <1>1 DEF Listed, Taken
  <2> QED BY <2>1, <2>2
<1>12. Listed(heap', root', size', p2)
  <2>1. heap' \in [DOMAIN heap' -> Cell] /\ DOMAIN heap' \subseteq Node
    BY <1>0, <1>1 DEF Taken
  <2>2. \A z \in ArrayName : \A k \in 1 .. size'[z] :
          /\ p2[z][k] \in DOMAIN heap'
          /\ heap'[p2[z][k]].next = IF k = size'[z] THEN NULL ELSE p2[z][k + 1]
    BY <1>7, <1>8
  <2>3. \A y, z \in ArrayName : \A j \in 1 .. size'[y], k \in 1 .. size'[z] :
          p2[y][j] = p2[z][k] => y = z /\ j = k
    BY <1>9
  <2>4. \A n \in DOMAIN heap' : \E z \in ArrayName : \E k \in 1 .. size'[z] : n = p2[z][k]
    BY <1>10
  <2>5. size' \in [ArrayName -> Nat]
    BY <1>2
  <2> QED BY <1>11, <2>1, <2>2, <2>3, <2>4, <2>5 DEF Listed
<1>13. \A z \in ArrayName \ {x} : Items(heap', size', p2)[z] = Items(heap, size, p)[z]
  <2>1. ASSUME NEW z \in ArrayName \ {x}, NEW k \in 1 .. size[z]
        PROVE  heap'[p2[z][k]].item = heap[p[z][k]].item
    BY <1>1, <1>2, <1>4, <1>7 DEF Taken
  <2> QED BY <1>2, <2>1 DEF Items
<1>14. Items(heap', size', p2)[x] =
         [k \in 1 .. size[x] - 1 |->
           IF k < index + 1 THEN Items(heap, size, p)[x][k] ELSE Items(heap, size, p)[x][k + 1]]
  <2>1. ASSUME NEW k \in 1 .. size[x] - 1
        PROVE  heap'[p2[x][k]].item =
                 IF k < index + 1 THEN Items(heap, size, p)[x][k] ELSE Items(heap, size, p)[x][k + 1]
    <3>1. k \in 1 .. size'[x] /\ k \in 1 .. size[x] /\ k + 1 \in 1 .. size[x]
      BY <1>2
    <3>2. heap'[p2[x][k]].item = heap[p2[x][k]].item
      BY <1>1, <1>7, <3>1 DEF Taken
    <3>3. Items(heap, size, p)[x][k] = heap[p[x][k]].item
          /\ Items(heap, size, p)[x][k + 1] = heap[p[x][k + 1]].item
      BY <3>1 DEF Items
    <3> QED BY <1>4, <3>1, <3>2, <3>3
  <2> QED BY <1>2, <2>1 DEF Items
<1> QED BY <1>1, <1>12, <1>13, <1>14 DEF Taken

(* Copying frees the nodes of the array copied to, and makes new ones with *)
(* the items of the array copied from.                                     *)
Copied(p, x, y, new) ==
  LET kept == DOMAIN heap \ {p[x][k] : k \in 1 .. size[x]}
      n    == size[y]
  IN  /\ new \in [1 .. n -> Node \ kept]
      /\ \A j, k \in 1 .. n : j # k => new[j] # new[k]
      /\ DOMAIN heap' = kept \cup {new[k] : k \in 1 .. n}
      /\ heap' = [c \in DOMAIN heap' |-> heap'[c]]
      /\ \A c \in kept : heap'[c] = heap[c]
      /\ \A k \in 1 .. n : heap'[new[k]] = [item |-> heap[p[y][k]].item,
                                            next |-> IF k = n THEN NULL ELSE new[k + 1]]
      /\ root' = [root EXCEPT ![x] = IF n = 0 THEN NULL ELSE new[1]]
      /\ size' = [size EXCEPT ![x] = n]

(* The new nodes are free once the old ones are.                           *)
LEMMA CopyHeap ==
  ASSUME NEW p, Listed(heap, root, size, p),
         NEW x \in ArrayName, NEW y \in ArrayName \ {x}, _copy_from(x, y)
  PROVE  \E new : Copied(p, x, y, new)
<1> DEFINE n == size[y]
           kept == Without(heap, Nodes(x))
           mine == {p[x][k] : k \in 1 .. size[x]}
<1>0. n \in Nat /\ Nodes(x) = mine
  <2>1. n \in Nat
    BY DEF Listed
  <2>2. Nodes(x) = mine
    BY WalksAre
  <2> QED BY <2>1, <2>2
<1>1. DOMAIN kept = DOMAIN heap \ mine /\ \A c \in DOMAIN kept : kept[c] = heap[c]
  BY <1>0 DEF Without
<1> HIDE DEF mine
<1>2. PICK new \in [1 .. n -> Node \ DOMAIN kept] :
        /\ \A j, k \in 1 .. n : j # k => new[j] # new[k]
        /\ heap' = [c \in DOMAIN kept \cup {new[k] : k \in 1 .. n} |->
                      IF c \in DOMAIN kept THEN kept[c]
                      ELSE LET k == CHOOSE j \in 1 .. n : new[j] = c
                           IN  [item |-> heap[getArrayItem(y, k - 1)].item,
                                next |-> IF k = n THEN NULL ELSE new[k + 1]]]
        /\ root' = [root EXCEPT ![x] = IF n = 0 THEN NULL ELSE new[1]]
        /\ size' = [size EXCEPT ![x] = n]
  BY Zenon DEF _copy_from
<1> HIDE DEF kept
<1>3. DOMAIN heap' = DOMAIN kept \cup {new[k] : k \in 1 .. n} /\ heap' = [c \in DOMAIN heap' |-> heap'[c]]
  BY <1>2
<1>4. \A c \in DOMAIN kept : heap'[c] = heap[c]
  BY <1>1, <1>2
<1>5. ASSUME NEW k \in 1 .. n
      PROVE  heap'[new[k]] = [item |-> heap[p[y][k]].item, next |-> IF k = n THEN NULL ELSE new[k + 1]]
  <2>1. new[k] \notin DOMAIN kept
    BY <1>2
  <2>2. (CHOOSE j \in 1 .. n : new[j] = new[k]) = k
    BY <1>2
  <2>3. k - 1 \in 0 .. size[y] /\ k - 1 # size[y] /\ (k - 1) + 1 = k
    BY <1>0
  <2>4. getArrayItem(y, k - 1) = p[y][k]
    <3>1. getArrayItem(y, k - 1) = IF k - 1 = size[y] THEN NULL ELSE p[y][(k - 1) + 1]
      BY <2>3, WalksAre
    <3> QED BY <2>3, <3>1
  <2> QED BY <1>2, <2>1, <2>2, <2>4
<1>6. Copied(p, x, y, new)
  BY <1>1, <1>2, <1>3, <1>4, <1>5 DEF mine, Copied
<1> QED BY <1>6

(* Both arrays have the same items then, in nodes of their own.            *)
LEMMA CopyListed ==
  ASSUME NEW p, Listed(heap, root, size, p),
         NEW x \in ArrayName, NEW y \in ArrayName \ {x}, _copy_from(x, y)
  PROVE  \E p2 : /\ Listed(heap', root', size', p2)
                 /\ \A z \in ArrayName \ {x} : Items(heap', size', p2)[z] = Items(heap, size, p)[z]
                 /\ Items(heap', size', p2)[x] = Items(heap, size, p)[y]
<1> DEFINE n == size[y]
           mine == {p[x][k] : k \in 1 .. size[x]}
           kept == DOMAIN heap \ mine
<1>0. /\ \A z \in ArrayName : size[z] \in Nat
      /\ size \in [ArrayName -> Nat] /\ heap \in [DOMAIN heap -> Cell] /\ DOMAIN heap \subseteq Node
      /\ \A z \in ArrayName : \A k \in 1 .. size[z] :
           p[z][k] \in DOMAIN heap /\ heap[p[z][k]].next = IF k = size[z] THEN NULL ELSE p[z][k + 1]
      /\ \A a, b \in ArrayName : \A j \in 1 .. size[a], k \in 1 .. size[b] :
           p[a][j] = p[b][k] => a = b /\ j = k
  BY DEF Listed
<1>b. PICK new : Copied(p, x, y, new)
  BY CopyHeap
<1>1. /\ new \in [1 .. n -> Node \ kept]
      /\ \A j, k \in 1 .. n : j # k => new[j] # new[k]
      /\ DOMAIN heap' = kept \cup {new[k] : k \in 1 .. n}
      /\ heap' = [c \in DOMAIN heap' |-> heap'[c]]
      /\ \A c \in kept : heap'[c] = heap[c]
      /\ \A k \in 1 .. n : heap'[new[k]] = [item |-> heap[p[y][k]].item,
                                            next |-> IF k = n THEN NULL ELSE new[k + 1]]
      /\ root' = [root EXCEPT ![x] = IF n = 0 THEN NULL ELSE new[1]]
      /\ size' = [size EXCEPT ![x] = n]
  BY <1>b DEF Copied
<1> DEFINE p2 == [z \in ArrayName |-> IF z = x THEN new ELSE p[z]]
<1>2. p2[x] = new /\ \A z \in ArrayName \ {x} : p2[z] = p[z]
  OBVIOUS
<1> HIDE DEF p2
<1>c. ASSUME NEW k \in 1 .. n
      PROVE  /\ heap'[new[k]].item = heap[p[y][k]].item
             /\ heap'[new[k]].next = IF k = n THEN NULL ELSE new[k + 1]
  <2>1. heap'[new[k]] = [item |-> heap[p[y][k]].item, next |-> IF k = n THEN NULL ELSE new[k + 1]]
    BY <1>1
  <2> QED BY <2>1
<1>3. /\ size' \in [ArrayName -> Nat] /\ size'[x] = n
      /\ \A z \in ArrayName \ {x} : size'[z] = size[z]
  BY <1>0, <1>1
<1>4. ASSUME NEW z \in ArrayName \ {x}, NEW k \in 1 .. size[z]
      PROVE  p[z][k] \in kept
  BY <1>0
<1> HIDE DEF kept
<1>5. \A k \in 1 .. n : new[k] \in Node /\ new[k] \notin kept /\ new[k] \in DOMAIN heap'
  BY <1>1
<1>6. kept \subseteq DOMAIN heap
  BY DEF kept
<1>7. /\ DOMAIN heap' \subseteq Node
      /\ \A c \in DOMAIN heap' : heap'[c] \in Cell
  <2>1. ASSUME NEW k \in 1 .. n
        PROVE  heap'[new[k]] \in Cell
    <3>1. heap[p[y][k]] \in Cell
      BY <1>0
    <3>2. heap[p[y][k]].item \in Element
      BY <3>1 DEF Cell
    <3>3. k # n => new[k + 1] \in Node
      BY <1>0, <1>5
    <3>4. heap'[new[k]] = [item |-> heap[p[y][k]].item, next |-> IF k = n THEN NULL ELSE new[k + 1]]
      BY <1>1
    <3> QED BY <3>2, <3>3, <3>4 DEF Cell
  <2>2. \A c \in kept : heap'[c] \in Cell
    BY <1>0, <1>1, <1>6
  <2> QED BY <1>0, <1>1, <1>5, <1>6, <2>1, <2>2
<1>8. heap' \in [DOMAIN heap' -> Cell]
  <2>1. heap' = [c \in DOMAIN heap' |-> heap'[c]]
    BY <1>1
  <2> QED BY <1>7, <2>1
<1>9. ASSUME NEW z \in ArrayName, NEW k \in 1 .. size'[z]
      PROVE  /\ p2[z][k] \in DOMAIN heap'
             /\ heap'[p2[z][k]].next = IF k = size'[z] THEN NULL ELSE p2[z][k + 1]
  <2>1. CASE z = x
    BY <1>2, <1>3, <1>5, <1>c, <2>1
  <2>2. CASE z # x
    <3>1. k \in 1 .. size[z] /\ p2[z] = p[z] /\ size'[z] = size[z] /\ p[z][k] \in kept
      BY <1>2, <1>3, <1>4, <2>2
    <3> QED BY <1>0, <1>1, <3>1
  <2> QED BY <2>1, <2>2
<1>10. ASSUME NEW a \in ArrayName, NEW b \in ArrayName, NEW j \in 1 .. size'[a], NEW k \in 1 .. size'[b],
              p2[a][j] = p2[b][k]
       PROVE  a = b /\ j = k
  <2>1. \A c \in ArrayName \ {x} : \A d \in 1 .. size'[c] :
          d \in 1 .. size[c] /\ p2[c][d] = p[c][d] /\ p2[c][d] \in kept
    BY <1>2, <1>3, <1>4
  <2>2. \A d \in 1 .. size'[x] : d \in 1 .. n /\ p2[x][d] = new[d] /\ p2[x][d] \notin kept
    BY <1>2, <1>3, <1>5
  <2>3. CASE a = x /\ b = x
    BY <1>1, <1>10, <2>2, <2>3
  <2>4. CASE a = x /\ b # x
    BY <1>10, <2>1, <2>2, <2>4
  <2>5. CASE a # x /\ b = x
    BY <1>10, <2>1, <2>2, <2>5
  <2>6. CASE a # x /\ b # x
    BY <1>0, <1>10, <2>1, <2>6
  <2> QED BY <2>3, <2>4, <2>5, <2>6
<1>11. ASSUME NEW c \in DOMAIN heap'
       PROVE  \E z \in ArrayName : \E k \in 1 .. size'[z] : c = p2[z][k]
  <2>1. CASE c \in kept
    <3>1. c \in DOMAIN heap /\ c \notin mine
      BY <2>1 DEF kept
    <3>2. PICK z \in ArrayName : \E k \in 1 .. size[z] : c = p[z][k]
      BY <3>1 DEF Listed
    <3>3. z # x
      BY <3>1, <3>2
    <3> QED BY <1>2, <1>3, <3>2, <3>3
  <2>2. CASE c \notin kept
    <3>1. PICK k \in 1 .. n : c = new[k]
      BY <1>1, <2>2
    <3> QED BY <1>2, <1>3, <3>1
  <2> QED BY <2>1, <2>2
<1>12. root' = [z \in ArrayName |-> IF size'[z] = 0 THEN NULL ELSE p2[z][1]]
  <2>0. root = [z \in ArrayName |-> IF size[z] = 0 THEN NULL ELSE p[z][1]]
    BY DEF Listed
  <2>1. root' = [z \in ArrayName |-> IF z = x THEN IF n = 0 THEN NULL ELSE new[1] ELSE root[z]]
    BY <1>1, <2>0
  <2>2. \A z \in ArrayName : root[z] = IF size[z] = 0 THEN NULL ELSE p[z][1]
    BY <2>0
  <2> QED BY <1>2, <1>3, <2>1, <2>2
<1>13. Listed(heap', root', size', p2)
  <2>1. \A z \in ArrayName : \A k \in 1 .. size'[z] :
          /\ p2[z][k] \in DOMAIN heap'
          /\ heap'[p2[z][k]].next = IF k = size'[z] THEN NULL ELSE p2[z][k + 1]
    BY <1>9
  <2>2. \A a, b \in ArrayName : \A j \in 1 .. size'[a], k \in 1 .. size'[b] :
          p2[a][j] = p2[b][k] => a = b /\ j = k
    BY <1>10
  <2>3. \A c \in DOMAIN heap' : \E z \in ArrayName : \E k \in 1 .. size'[z] : c = p2[z][k]
    BY <1>11
  <2>4. size' \in [ArrayName -> Nat] /\ DOMAIN heap' \subseteq Node
    BY <1>3, <1>7
  <2> QED BY <1>8, <1>12, <2>1, <2>2, <2>3, <2>4 DEF Listed
<1>14. \A z \in ArrayName \ {x} : Items(heap', size', p2)[z] = Items(heap, size, p)[z]
  <2>1. ASSUME NEW z \in ArrayName \ {x}, NEW k \in 1 .. size[z]
        PROVE  heap'[p2[z][k]].item = heap[p[z][k]].item
    BY <1>1, <1>2, <1>4
  <2> QED BY <1>3, <2>1 DEF Items
<1>15. Items(heap', size', p2)[x] = Items(heap, size, p)[y]
  <2>1. ASSUME NEW k \in 1 .. n
        PROVE  heap'[p2[x][k]].item = heap[p[y][k]].item
    BY <1>2, <1>c
  <2> QED BY <1>3, <2>1 DEF Items
<1> QED BY <1>13, <1>14, <1>15

(* The inductive invariant.                                                *)
ArrayInv == \E p : Listed(heap, root, size, p)

(* The items of each array are a sequence as long as the array.            *)
LEMMA ItemsAre ==
  ASSUME NEW h, NEW r, NEW s, NEW p, Listed(h, r, s, p), NEW x \in ArrayName
  PROVE  /\ s[x] \in Nat /\ Items(h, s, p)[x] \in Seq(Element)
         /\ Len(Items(h, s, p)[x]) = s[x] /\ DOMAIN Items(h, s, p)[x] = 1 .. s[x]
<1>1. s[x] \in Nat
  BY DEF Listed
<1>2. ASSUME NEW k \in 1 .. s[x]
      PROVE  h[p[x][k]].item \in Element
  <2>1. h[p[x][k]] \in Cell
    BY DEF Listed
  <2> QED BY <2>1 DEF Cell
<1>3. Items(h, s, p)[x] = [k \in 1 .. s[x] |-> h[p[x][k]].item]
  BY DEF Items
<1>4. Items(h, s, p)[x] \in [1 .. s[x] -> Element]
  BY <1>2, <1>3
<1> HIDE DEF Items
<1>5. Items(h, s, p)[x] \in Seq(Element)
  BY <1>1, <1>4, IsASeq
<1>6. Len(Items(h, s, p)[x]) = s[x]
  BY <1>1, <1>4, <1>5, LenProperties
<1> QED BY <1>1, <1>4, <1>5, <1>6

(* What an operation may do to sequences, as ItemLists has it.             *)
ListStep(l, m) ==
  \E x \in ArrayName :
    \/ \E v \in Element : m = [l EXCEPT ![x] = Append(l[x], v)]
    \/ \E k \in DOMAIN l[x], v \in Element : m = [l EXCEPT ![x] = [l[x] EXCEPT ![k] = v]]
    \/ \E k \in DOMAIN l[x] : m = [l EXCEPT ![x] = RemoveAt(l[x], k)]
    \/ m = [l EXCEPT ![x] = <<>>]
    \/ \E y \in ArrayName : m = [l EXCEPT ![x] = l[y]]

(* Every step keeps the nodes in order and is one of those on sequences.   *)
LEMMA ArrayStep ==
  ASSUME NEW p, Listed(heap, root, size, p), ArrayNext
  PROVE  \E p2 : /\ Listed(heap', root', size', p2)
                 /\ ListStep(Items(heap, size, p), Items(heap', size', p2))
<1>1. PICK l : l = Items(heap, size, p)
  OBVIOUS
<1>2. l = [z \in ArrayName |-> l[z]]
  BY <1>1 DEF Items
<1>3. \A z \in ArrayName : /\ size[z] \in Nat /\ l[z] \in Seq(Element)
                           /\ Len(l[z]) = size[z] /\ DOMAIN l[z] = 1 .. size[z]
  BY <1>1, ItemsAre
<1>4. SUFFICES \E p2 : Listed(heap', root', size', p2) /\ ListStep(l, Items(heap', size', p2))
  BY <1>1
<1>5. ASSUME NEW p2, NEW x \in ArrayName, NEW e,
             \A z \in ArrayName \ {x} : Items(heap', size', p2)[z] = l[z],
             Items(heap', size', p2)[x] = e
      PROVE  Items(heap', size', p2) = [l EXCEPT ![x] = e]
  <2>1. PICK m : m = Items(heap', size', p2)
    OBVIOUS
  <2>2. m = [z \in ArrayName |-> m[z]]
    BY <2>1 DEF Items
  <2>3. (\A z \in ArrayName \ {x} : m[z] = l[z]) /\ m[x] = e
    BY <1>5, <2>1
  <2>4. m = [l EXCEPT ![x] = e]
    BY <1>2, <2>2, <2>3
  <2> QED BY <2>1, <2>4
<1>6. ASSUME NEW x \in ArrayName, NEW v \in Element, add(x, v)
      PROVE  \E p2 : Listed(heap', root', size', p2) /\ ListStep(l, Items(heap', size', p2))
  <2>1. PICK p2 : /\ Listed(heap', root', size', p2)
                  /\ \A z \in ArrayName \ {x} : Items(heap', size', p2)[z] = l[z]
                  /\ Items(heap', size', p2)[x] =
                       [k \in 1 .. size[x] + 1 |-> IF k = size[x] + 1 THEN v ELSE l[x][k]]
    BY <1>1, <1>6, AddListed
  <2>2. Append(l[x], v) = [k \in 1 .. size[x] + 1 |-> IF k = size[x] + 1 THEN v ELSE l[x][k]]
    BY <1>3
  <2>3. Items(heap', size', p2)[x] = Append(l[x], v)
    BY <2>1, <2>2
  <2>4. Items(heap', size', p2) = [l EXCEPT ![x] = Append(l[x], v)]
    BY <1>5, <2>1, <2>3
  <2>5. ListStep(l, Items(heap', size', p2))
    BY <2>4 DEF ListStep
  <2> QED BY <2>1, <2>5
<1>7. ASSUME NEW x \in ArrayName, NEW index \in 0 .. size[x], NEW v \in Element, SetItem(x, index, v)
      PROVE  \E p2 : Listed(heap', root', size', p2) /\ ListStep(l, Items(heap', size', p2))
  <2>1. /\ index < size[x]
        /\ Listed(heap', root', size', p)
        /\ \A z \in ArrayName \ {x} : Items(heap', size', p)[z] = l[z]
        /\ Items(heap', size', p)[x] = [l[x] EXCEPT ![index + 1] = v]
    BY <1>1, <1>7, SetListed
  <2>2. Items(heap', size', p) = [l EXCEPT ![x] = [l[x] EXCEPT ![index + 1] = v]]
    BY <1>5, <2>1
  <2>3. index + 1 \in DOMAIN l[x]
    BY <1>3, <2>1
  <2>4. ListStep(l, Items(heap', size', p))
    BY <2>2, <2>3 DEF ListStep
  <2> QED BY <2>1, <2>4
<1>8. ASSUME NEW x \in ArrayName, NEW index \in 0 .. size[x], del(x, index)
      PROVE  \E p2 : Listed(heap', root', size', p2) /\ ListStep(l, Items(heap', size', p2))
  <2>1. index < size[x]
        /\ \E p2 : /\ Listed(heap', root', size', p2)
                   /\ \A z \in ArrayName \ {x} : Items(heap', size', p2)[z] = l[z]
                   /\ Items(heap', size', p2)[x] =
                        [k \in 1 .. size[x] - 1 |-> IF k < index + 1 THEN l[x][k] ELSE l[x][k + 1]]
    BY <1>1, <1>8, DelListed
  <2>2. PICK p2 : /\ Listed(heap', root', size', p2)
                  /\ \A z \in ArrayName \ {x} : Items(heap', size', p2)[z] = l[z]
                  /\ Items(heap', size', p2)[x] =
                       [k \in 1 .. size[x] - 1 |-> IF k < index + 1 THEN l[x][k] ELSE l[x][k + 1]]
    BY <2>1
  <2>3. index + 1 \in 1 .. size[x] /\ index + 1 \in DOMAIN l[x]
    BY <1>3, <2>1
  <2>4. RemoveAt(l[x], index + 1) =
          [k \in 1 .. size[x] - 1 |-> IF k < index + 1 THEN l[x][k] ELSE l[x][k + 1]]
    <3>1. PICK s \in Seq(Element) : s = l[x] /\ index + 1 \in 1 .. Len(s) /\ Len(s) = size[x]
      BY <1>3, <2>3
    <3>2. PICK t : t = RemoveAt(s, index + 1)
      OBVIOUS
    <3>3. /\ t \in Seq(Element) /\ Len(t) = size[x] - 1
          /\ \A j \in 1 .. size[x] - 1 : t[j] = IF j < index + 1 THEN s[j] ELSE s[j + 1]
      BY <3>1, <3>2, RemoveAtElements
    <3>4. t = [k \in 1 .. size[x] - 1 |-> t[k]]
      BY <1>3, <3>3, LenProperties
    <3> QED BY <3>1, <3>2, <3>3, <3>4
  <2>5. Items(heap', size', p2)[x] = RemoveAt(l[x], index + 1)
    BY <2>2, <2>4
  <2>6. Items(heap', size', p2) = [l EXCEPT ![x] = RemoveAt(l[x], index + 1)]
    BY <1>5, <2>2, <2>5
  <2>7. ListStep(l, Items(heap', size', p2))
    BY <2>3, <2>6 DEF ListStep
  <2> QED BY <2>2, <2>7
<1>9. ASSUME NEW x \in ArrayName, clear(x)
      PROVE  \E p2 : Listed(heap', root', size', p2) /\ ListStep(l, Items(heap', size', p2))
  <2>1. /\ Listed(heap', root', size', p)
        /\ \A z \in ArrayName \ {x} : Items(heap', size', p)[z] = l[z]
        /\ size'[x] = 0
    BY <1>1, <1>9, ClearListed
  <2>2. Items(heap', size', p)[x] = <<>>
    BY <2>1 DEF Items
  <2>3. Items(heap', size', p) = [l EXCEPT ![x] = <<>>]
    BY <1>5, <2>1, <2>2
  <2>4. ListStep(l, Items(heap', size', p))
    BY <2>3 DEF ListStep
  <2> QED BY <2>1, <2>4
<1>10. ASSUME NEW x \in ArrayName, NEW y \in ArrayName \ {x}, _copy_from(x, y)
       PROVE  \E p2 : Listed(heap', root', size', p2) /\ ListStep(l, Items(heap', size', p2))
  <2>1. PICK p2 : /\ Listed(heap', root', size', p2)
                  /\ \A z \in ArrayName \ {x} : Items(heap', size', p2)[z] = l[z]
                  /\ Items(heap', size', p2)[x] = l[y]
    BY <1>1, <1>10, CopyListed
  <2>2. Items(heap', size', p2) = [l EXCEPT ![x] = l[y]]
    BY <1>5, <2>1
  <2>3. ListStep(l, Items(heap', size', p2))
    BY <2>2 DEF ListStep
  <2> QED BY <2>1, <2>3
<1> QED BY <1>6, <1>7, <1>8, <1>9, <1>10 DEF ArrayNext

(* It holds at the start.                                                  *)
LEMMA ArrayStart ==
  ASSUME ArrayInit
  PROVE  \E p : Listed(heap, root, size, p)
<1>1. \A x \in ArrayName : size[x] = 0
  BY DEF ArrayInit
<1>2. Listed(heap, root, size, [x \in ArrayName |-> <<>>])
  BY <1>1 DEF ArrayInit, Listed
<1> QED BY <1>2

(* And so always.                                                          *)
THEOREM ArrayInvariant == ArraySpec => []ArrayInv
<1>1. ArrayInit => ArrayInv
  BY ArrayStart DEF ArrayInv
<1>2. ASSUME ArrayInv, [ArrayNext]_avars
      PROVE  ArrayInv'
  <2>1. CASE ArrayNext
    <3>1. PICK p : Listed(heap, root, size, p)
      BY <1>2 DEF ArrayInv
    <3>2. \E p2 : Listed(heap', root', size', p2)
      BY <2>1, <3>1, ArrayStep
    <3> QED BY <3>2 DEF ArrayInv
  <2>2. CASE UNCHANGED avars
    BY <1>2, <2>2 DEF ArrayInv, avars
  <2> QED BY <1>2, <2>1, <2>2
<1> QED BY <1>1, <1>2, PTL DEF ArraySpec

(* No node of the heap belongs to two arrays or to none, and every array   *)
(* ends where its size says, whatever is added, deleted, copied, cleared.  *)
THEOREM NothingLeaks == ArraySpec => []NodesOwned
<1>1. ASSUME ArrayInv
      PROVE  NodesOwned
  <2>1. PICK p : Listed(heap, root, size, p)
    BY <1>1 DEF ArrayInv
  <2>2. \A x \in ArrayName : Nodes(x) = {p[x][k] : k \in 1 .. size[x]}
    BY <2>1, WalksAre
  <2>3. ASSUME NEW x \in ArrayName
        PROVE  Walk(x, size[x]) = NULL
    <3>1. size[x] \in 0 .. size[x]
      BY <2>1 DEF Listed
    <3> QED BY <2>1, <3>1, WalksAre
  <2>4. ASSUME NEW x \in ArrayName, NEW y \in ArrayName, x # y
        PROVE  Nodes(x) \cap Nodes(y) = {}
    <3>1. \A j \in 1 .. size[x], k \in 1 .. size[y] : p[x][j] # p[y][k]
      BY <2>1, <2>4 DEF Listed
    <3> QED BY <2>2, <3>1
  <2>5. DOMAIN heap = UNION {Nodes(x) : x \in ArrayName}
    <3>0. \A x \in ArrayName : \A k \in 1 .. size[x] : p[x][k] \in DOMAIN heap
      BY <2>1 DEF Listed
    <3>1. ASSUME NEW x \in ArrayName, NEW n \in Nodes(x)
          PROVE  n \in DOMAIN heap
      <4>1. n \in {p[x][k] : k \in 1 .. size[x]}
        BY <2>2
      <4> QED BY <3>0, <4>1
    <3>2. \A n \in DOMAIN heap : \E x \in ArrayName : n \in Nodes(x)
      BY <2>1, <2>2 DEF Listed
    <3> QED BY <3>1, <3>2
  <2> QED BY <2>3, <2>4, <2>5 DEF NodesOwned
<1> QED BY <1>1, ArrayInvariant, PTL

(* Array.hpp implements sequences: what get() returns is what was added,   *)
(* set and copied, in order, in each array whatever is done to the others. *)
THEOREM ArraysAreLists == ArraySpec => ImplementsLists
<1> DEFINE list == [x \in ArrayName |-> Contents(x)]
<1>0. list = Shown(heap, root, size) /\ list' = Shown(heap', root', size')
  BY DEF Contents, getArrayItem, Walk, Shown
<1>1. ArrayInit => Lists!Init
  <2>1. ASSUME ArrayInit
        PROVE  list = [x \in ArrayName |-> <<>>]
    <3>1. \A x \in ArrayName : size[x] = 0
      BY <2>1 DEF ArrayInit
    <3> QED BY <3>1 DEF Contents
  <2> QED BY <2>1 DEF Lists!Init
<1>2. ASSUME ArrayInv, [ArrayNext]_avars
      PROVE  [Lists!Next]_list
  <2>1. CASE ArrayNext
    <3>1. PICK p : Listed(heap, root, size, p)
      BY <1>2 DEF ArrayInv
    <3>2. PICK p2 : /\ Listed(heap', root', size', p2)
                    /\ ListStep(Items(heap, size, p), Items(heap', size', p2))
      BY <2>1, <3>1, ArrayStep
    <3>3. list = Items(heap, size, p) /\ list' = Items(heap', size', p2)
      BY <1>0, <3>1, <3>2, ShownIs
    <3> HIDE DEF list
    <3>4. ListStep(list, list')
      BY <3>2, <3>3
    <3>5. \A s, k : Lists!RemoveAt(s, k) = RemoveAt(s, k)
      BY DEF Lists!RemoveAt, RemoveAt
    <3>6. Lists!Next
      BY <3>4, <3>5 DEF ListStep, Lists!Next, list
    <3> QED BY <3>6
  <2>2. CASE UNCHANGED avars
    BY <1>0, <2>2 DEF avars
  <2> QED BY <1>2, <2>1, <2>2
<1> QED BY <1>1, <1>2, ArrayInvariant, PTL DEF ArraySpec, ImplementsLists, Lists!Spec

-----------------------------------------------------------------------------
(* Netmasks *)

(* The netmask's octets: as many 1s as f.                                  *)
Form(f)  == IF f = 0 THEN 0 ELSE IF f = 8 THEN 255 ELSE 256 - Weight[f]
Ones(o, r) == (o \div Weight[r]) % 2

(* The bits of such an octet.                                              *)
LEMMA FormBits ==
  \A f \in 0 .. 8, r \in 1 .. 8 : Ones(Form(f), r) = IF r <= f THEN 1 ELSE 0
<1> SUFFICES ASSUME NEW f \in 0 .. 8, NEW r \in 1 .. 8
             PROVE  Ones(Form(f), r) = IF r <= f THEN 1 ELSE 0
  OBVIOUS
<1>1. \/ f = 0 \/ f = 1 \/ f = 2 \/ f = 3 \/ f = 4 \/ f = 5 \/ f = 6 \/ f = 7 \/ f = 8
  OBVIOUS
<1>2. \/ r = 1 \/ r = 2 \/ r = 3 \/ r = 4 \/ r = 5 \/ r = 6 \/ r = 7 \/ r = 8
  OBVIOUS
<1>4. CASE f = 0
  BY <1>2, <1>4 DEF Form, Ones, Weight
<1>5. CASE f = 1
  BY <1>2, <1>5 DEF Form, Ones, Weight
<1>6. CASE f = 2
  BY <1>2, <1>6 DEF Form, Ones, Weight
<1>7. CASE f = 3
  BY <1>2, <1>7 DEF Form, Ones, Weight
<1>8. CASE f = 4
  BY <1>2, <1>8 DEF Form, Ones, Weight
<1>9. CASE f = 5
  BY <1>2, <1>9 DEF Form, Ones, Weight
<1>10. CASE f = 6
  BY <1>2, <1>10 DEF Form, Ones, Weight
<1>11. CASE f = 7
  BY <1>2, <1>11 DEF Form, Ones, Weight
<1>12. CASE f = 8
  BY <1>2, <1>12 DEF Form, Ones, Weight
<1> QED BY <1>1, <1>4, <1>5, <1>6, <1>7, <1>8, <1>9, <1>10, <1>11, <1>12

(* An octet in which no 1 comes after a 0 is one of them.                  *)
LEMMA OctetForms ==
  ASSUME NEW o \in 0 .. 255, \A r \in 1 .. 7 : Ones(o, r) = 0 => Ones(o, r + 1) = 0
  PROVE  \E f \in 0 .. 8 : o = Form(f)
<1> DEFINE b1 == (o \div 128) % 2
           b2 == (o \div 64) % 2
           b3 == (o \div 32) % 2
           b4 == (o \div 16) % 2
           b5 == (o \div 8) % 2
           b6 == (o \div 4) % 2
           b7 == (o \div 2) % 2
           b8 == o % 2
<1>1. o = 128 * b1 + 64 * b2 + 32 * b3 + 16 * b4 + 8 * b5 + 4 * b6 + 2 * b7 + b8
  OBVIOUS
<1>2. /\ b1 \in 0 .. 1 /\ b2 \in 0 .. 1 /\ b3 \in 0 .. 1 /\ b4 \in 0 .. 1
      /\ b5 \in 0 .. 1 /\ b6 \in 0 .. 1 /\ b7 \in 0 .. 1 /\ b8 \in 0 .. 1
  OBVIOUS
<1>3. /\ b1 = 0 => b2 = 0 
      /\ b2 = 0 => b3 = 0
      /\ b3 = 0 => b4 = 0 
      /\ b4 = 0 => b5 = 0
      /\ b5 = 0 => b6 = 0
      /\ b6 = 0 => b7 = 0
      /\ b7 = 0 => b8 = 0
  <2>1. /\ Ones(o, 1) = b1 /\ Ones(o, 2) = b2 /\ Ones(o, 3) = b3 /\ Ones(o, 4) = b4
        /\ Ones(o, 5) = b5 /\ Ones(o, 6) = b6 /\ Ones(o, 7) = b7 /\ Ones(o, 8) = b8
    BY DEF Ones, Weight
  <2> HIDE DEF b1, b2, b3, b4, b5, b6, b7, b8
  <2>2. /\ Ones(o, 1) = 0 => Ones(o, 1 + 1) = 0
        /\ Ones(o, 2) = 0 => Ones(o, 2 + 1) = 0
        /\ Ones(o, 3) = 0 => Ones(o, 3 + 1) = 0
        /\ Ones(o, 4) = 0 => Ones(o, 4 + 1) = 0
        /\ Ones(o, 5) = 0 => Ones(o, 5 + 1) = 0
        /\ Ones(o, 6) = 0 => Ones(o, 6 + 1) = 0
        /\ Ones(o, 7) = 0 => Ones(o, 7 + 1) = 0
    OBVIOUS
  <2> QED BY <2>1, <2>2
<1> HIDE DEF b1, b2, b3, b4, b5, b6, b7, b8
<1>4. o \in {0, 128, 192, 224, 240, 248, 252, 254, 255}
  BY <1>1, <1>2, <1>3
<1>5. /\ Form(0) = 0 /\ Form(1) = 128 /\ Form(2) = 192 /\ Form(3) = 224 /\ Form(4) = 240
      /\ Form(5) = 248 /\ Form(6) = 252 /\ Form(7) = 254 /\ Form(8) = 255
  BY DEF Form, Weight
<1> QED BY <1>4, <1>5

(* An octet of an address, and a bit of that octet.                        *)
LEMMA BitOf ==
  ASSUME NEW a, NEW ix \in 1 .. 32
  PROVE  \E k \in 1 .. 4, r \in 1 .. 8 : ix = 8 * (k - 1) + r /\ Bit(a, ix) = Ones(a[k], r)
<1>1. PICK k \in 1 .. 4, r \in 1 .. 8 : k = (ix + 7) \div 8 /\ r = 1 + ((ix - 1) % 8)
  <2>1. (ix + 7) \div 8 \in 1 .. 4 /\ 1 + ((ix - 1) % 8) \in 1 .. 8
    OBVIOUS
  <2> QED BY <2>1
<1>2. ix = 8 * (k - 1) + r
  BY <1>1
<1>3. Bit(a, ix) = Ones(a[k], r)
  BY <1>1 DEF Bit, Ones
<1> QED BY <1>2, <1>3

(* The other way round.                                                    *)
LEMMA BitAt ==
  ASSUME NEW a, NEW k \in 1 .. 4, NEW r \in 1 .. 8
  PROVE  8 * (k - 1) + r \in 1 .. 32 /\ Bit(a, 8 * (k - 1) + r) = Ones(a[k], r)
<1>1. PICK ix \in 1 .. 32 : ix = 8 * (k - 1) + r
  OBVIOUS
<1>2. (ix + 7) \div 8 = k /\ 1 + ((ix - 1) % 8) = r
  BY <1>1
<1> QED BY <1>1, <1>2 DEF Bit, Ones

(* How many of its first bits an octet has of a netmask.                   *)
Share(l, k) == IF l >= 8 * k THEN 8 ELSE IF l <= 8 * k - 8 THEN 0 ELSE l - 8 * k + 8

(* The octets of a netmask.                                                *)
LEMMA MaskOctets ==
  ASSUME NEW l \in 0 .. 32, NEW k \in 1 .. 4
  PROVE  Share(l, k) \in 0 .. 8 /\ Mask(l)[k] = Form(Share(l, k))
<1>1. Share(l, k) \in 0 .. 8
  BY DEF Share
<1>2. CASE l >= 8 * k
  <2>1. Mask(l)[k] = 255 /\ Share(l, k) = 8
    BY <1>2 DEF Mask, Share
  <2> QED BY <1>1, <2>1 DEF Form
<1>3. CASE ~ (l >= 8 * k) /\ l <= 8 * k - 8
  <2>1. Mask(l)[k] = 0 /\ Share(l, k) = 0
    BY <1>3 DEF Mask, Share
  <2> QED BY <1>1, <2>1 DEF Form
<1>4. CASE ~ (l >= 8 * k) /\ ~ (l <= 8 * k - 8)
  <2>1. Mask(l)[k] = 256 - Weight[l - 8 * k + 8] /\ Share(l, k) = l - 8 * k + 8
    BY <1>4 DEF Mask, Share
  <2>2. Share(l, k) # 0 /\ Share(l, k) # 8
    BY <1>4 DEF Share
  <2> QED BY <1>1, <2>1, <2>2 DEF Form
<1> QED BY <1>1, <1>2, <1>3, <1>4

(* The bits of a netmask: as many 1s as its length, and then 0s.           *)
LEMMA MaskBits ==
  ASSUME NEW l \in 0 .. 32, NEW ix \in 1 .. 32
  PROVE  Bit(Mask(l), ix) = IF ix <= l THEN 1 ELSE 0
<1>1. PICK k \in 1 .. 4, r \in 1 .. 8 : ix = 8 * (k - 1) + r /\ Bit(Mask(l), ix) = Ones(Mask(l)[k], r)
  BY BitOf
<1>2. Share(l, k) \in 0 .. 8 /\ Mask(l)[k] = Form(Share(l, k))
  BY MaskOctets
<1>3. Ones(Form(Share(l, k)), r) = IF r <= Share(l, k) THEN 1 ELSE 0
  BY <1>2, FormBits
<1>4. r <= Share(l, k) <=> ix <= l
  BY <1>1 DEF Share
<1> QED BY <1>1, <1>2, <1>3, <1>4

(* setLength() makes a netmask of that length.                             *)
LEMMA MaskOfLength ==
  ASSUME NEW l \in 0 .. 32
  PROVE  validIPNetmask(Mask(l)) /\ LeadingOnes(Mask(l)) = l
<1>1. validIPNetmask(Mask(l))
  <2>1. ASSUME NEW ix \in 1 .. 31, Bit(Mask(l), ix) = 0
        PROVE  Bit(Mask(l), ix + 1) = 0
    <3>1. ix \in 1 .. 32 /\ ix + 1 \in 1 .. 32
      OBVIOUS
    <3>2. ix > l
      BY <2>1, <3>1, MaskBits
    <3>3. ~ (ix + 1 <= l)
      BY <3>2
    <3> QED BY <3>1, <3>3, MaskBits
  <2> QED BY <2>1 DEF validIPNetmask
<1>2. {ix \in 1 .. 32 : \A j \in 1 .. ix : Bit(Mask(l), j) = 1} = 1 .. l
  <2>1. ASSUME NEW ix \in 1 .. 32, \A j \in 1 .. ix : Bit(Mask(l), j) = 1
        PROVE  ix \in 1 .. l
    <3>1. Bit(Mask(l), ix) = 1
      BY <2>1
    <3> QED BY <3>1, MaskBits
  <2>2. ASSUME NEW ix \in 1 .. l, NEW j \in 1 .. ix
        PROVE  Bit(Mask(l), j) = 1
    <3>1. j \in 1 .. 32 /\ j <= l
      OBVIOUS
    <3> QED BY <3>1, MaskBits
  <2>3. 1 .. l \subseteq 1 .. 32
    OBVIOUS
  <2> QED BY <2>1, <2>2, <2>3
<1>3. Cardinality(1 .. l) = l
  <2>1. Cardinality(1 .. l) = IF 1 > l THEN 0 ELSE l - 1 + 1
    BY FS_Interval
  <2> QED BY <2>1
<1> QED BY <1>1, <1>2, <1>3 DEF LeadingOnes

(* Whatever validIPNetmask() lets pass is the netmask of a length.         *)
LEMMA ValidIsMask ==
  ASSUME NEW m \in [1 .. 4 -> 0 .. 255], validIPNetmask(m)
  PROVE  \E l \in 0 .. 32 : m = Mask(l)
<1>1. ASSUME NEW k \in 1 .. 4
      PROVE  \E f \in 0 .. 8 : m[k] = Form(f)
  <2>1. ASSUME NEW r \in 1 .. 7, Ones(m[k], r) = 0
        PROVE  Ones(m[k], r + 1) = 0
    <3>1. PICK ix \in 1 .. 31 : ix = 8 * (k - 1) + r
      OBVIOUS
    <3>2. r \in 1 .. 8 /\ r + 1 \in 1 .. 8 /\ ix + 1 = 8 * (k - 1) + (r + 1)
      BY <3>1
    <3>3. Bit(m, ix) = Ones(m[k], r) /\ Bit(m, ix + 1) = Ones(m[k], r + 1)
      BY <3>1, <3>2, BitAt
    <3> QED BY <2>1, <3>3 DEF validIPNetmask
  <2> QED BY <2>1, OctetForms
<1>2. PICK f1 \in 0 .. 8 : m[1] = Form(f1)
  BY <1>1
<1>3. PICK f2 \in 0 .. 8 : m[2] = Form(f2)
  BY <1>1
<1>4. PICK f3 \in 0 .. 8 : m[3] = Form(f3)
  BY <1>1
<1>5. PICK f4 \in 0 .. 8 : m[4] = Form(f4)
  BY <1>1
<1>6. ASSUME NEW k \in 1 .. 3, NEW f \in 0 .. 8, NEW g \in 0 .. 8, m[k] = Form(f), m[k + 1] = Form(g), f < 8
      PROVE  g = 0
  <2>1. PICK ix \in 1 .. 31 : ix = 8 * (k - 1) + 8
    OBVIOUS
  <2>2. k \in 1 .. 4 /\ k + 1 \in 1 .. 4 /\ ix + 1 = 8 * ((k + 1) - 1) + 1 /\ 1 \in 1 .. 8 /\ 8 \in 1 .. 8
    BY <2>1
  <2>3. Bit(m, ix) = Ones(m[k], 8) /\ Bit(m, ix + 1) = Ones(m[k + 1], 1)
    BY <2>1, <2>2, BitAt
  <2>4. Ones(m[k], 8) = 0
    BY <1>6, <2>2, FormBits
  <2>5. Ones(m[k + 1], 1) = 0
    BY <2>3, <2>4 DEF validIPNetmask
  <2>6. Ones(Form(g), 1) = IF 1 <= g THEN 1 ELSE 0
    BY <2>2, FormBits
  <2> QED BY <1>6, <2>5, <2>6
<1>7. (f1 < 8 => f2 = 0) /\ (f2 < 8 => f3 = 0) /\ (f3 < 8 => f4 = 0)
  <2>1. 1 \in 1 .. 3 /\ 2 \in 1 .. 3 /\ 3 \in 1 .. 3 /\ 1 + 1 = 2 /\ 2 + 1 = 3 /\ 3 + 1 = 4
    OBVIOUS
  <2>2. f1 < 8 => f2 = 0
    BY <1>2, <1>3, <1>6, <2>1
  <2>3. f2 < 8 => f3 = 0
    BY <1>3, <1>4, <1>6, <2>1
  <2>4. f3 < 8 => f4 = 0
    BY <1>4, <1>5, <1>6, <2>1
  <2> QED BY <2>2, <2>3, <2>4
<1>8. PICK l \in 0 .. 32 : l = f1 + f2 + f3 + f4
  OBVIOUS
<1>9. Share(l, 1) = f1 /\ Share(l, 2) = f2 /\ Share(l, 3) = f3 /\ Share(l, 4) = f4
  BY <1>7, <1>8 DEF Share
<1>10. \A k \in 1 .. 4 : m[k] = Mask(l)[k]
  <2> SUFFICES ASSUME NEW k \in 1 .. 4 PROVE m[k] = Mask(l)[k]
    OBVIOUS
  <2>1. Mask(l)[k] = Form(Share(l, k))
    BY MaskOctets
  <2>2. k = 1 \/ k = 2 \/ k = 3 \/ k = 4
    OBVIOUS
  <2> QED BY <1>2, <1>3, <1>4, <1>5, <1>9, <2>1, <2>2
<1>11. m = Mask(l)
  BY <1>10 DEF Mask
<1> QED BY <1>11

-----------------------------------------------------------------------------
(* IP addresses in text *)

(* The number read from digits, one digit after the other.                 *)
LEMMA ValueIs ==
  ASSUME NEW d \in Seq(Digit)
  PROVE  \E v \in [0 .. Len(d) -> Nat] :
           /\ v[0] = 0 /\ \A n \in 1 .. Len(d) : v[n] = 10 * v[n - 1] + d[n]
           /\ Value(d) = v[Len(d)]
<1> DEFINE N == Len(d)
           Is(g) == g = [n \in 0 .. N |-> IF n = 0 THEN 0 ELSE 10 * g[n - 1] + d[n]]
           Reads(m, g) == g[0] = 0 /\ \A n \in 1 .. m : g[n] = 10 * g[n - 1] + d[n]
           v == CHOOSE g : Is(g)
           S == {m \in 0 .. N : \E g \in [0 .. m -> Nat] : Reads(m, g)}
           T == {m \in 0 .. N : v[m] \in Nat}
<1>1. N \in Nat /\ \A n \in 1 .. N : d[n] \in Nat
  BY DEF Digit
<1>2. N \in S
  <2>1. 0 \in S
    <3>1. [n \in 0 .. 0 |-> 0] \in [0 .. 0 -> Nat] /\ Reads(0, [n \in 0 .. 0 |-> 0])
      OBVIOUS
    <3>2. 0 \in 0 .. N
      BY <1>1
    <3> HIDE DEF Reads
    <3> QED BY <3>1, <3>2
  <2>2. ASSUME NEW m \in 0 .. N - 1, m \in S
        PROVE  m + 1 \in S
    <3>1. PICK g \in [0 .. m -> Nat] : Reads(m, g)
      BY <2>2
    <3> DEFINE h == [n \in 0 .. m + 1 |-> IF n <= m THEN g[n] ELSE 10 * g[m] + d[m + 1]]
    <3>2. h \in [0 .. m + 1 -> Nat]
      <4>1. \A n \in 0 .. m + 1 : h[n] \in Nat
        <5>1. m \in 0 .. m /\ m + 1 \in 1 .. N /\ g[m] \in Nat /\ d[m + 1] \in Nat
          BY <1>1
        <5> QED BY <5>1
      <4> QED BY <4>1
    <3>3. Reads(m + 1, h)
      <4>1. h[0] = 0
        BY <3>1
      <4>2. ASSUME NEW n \in 1 .. m + 1 PROVE h[n] = 10 * h[n - 1] + d[n]
        <5>1. CASE n <= m
          <6>1. n \in 1 .. m /\ n - 1 \in 0 .. m + 1 /\ n \in 0 .. m + 1 /\ n - 1 <= m
            BY <5>1
          <6> QED BY <3>1, <5>1, <6>1
        <5>2. CASE n = m + 1
          <6>1. h[n] = 10 * g[m] + d[m + 1] /\ h[n - 1] = g[m]
            BY <5>2
          <6> QED BY <5>2, <6>1
        <5> QED BY <5>1, <5>2
      <4> QED BY <4>1, <4>2
    <3>4. m + 1 \in 0 .. N
      BY <1>1
    <3> HIDE DEF h, Reads
    <3> QED BY <3>2, <3>3, <3>4
  <2> HIDE DEF S, N
  <2>3. \A m \in 0 .. N : m \in S
    BY <1>1, <2>1, <2>2, UpTo
  <2> QED BY <1>1, <2>3
<1>3. Is(v)
  <2>1. PICK g \in [0 .. N -> Nat] : Reads(N, g)
    BY <1>2
  <2>2. \A n \in 0 .. N : g[n] = IF n = 0 THEN 0 ELSE 10 * g[n - 1] + d[n]
    BY <1>1, <2>1
  <2>3. Is(g)
    BY <2>2
  <2> HIDE DEF Is
  <2> QED BY <2>3
<1>4. Value(d) = v[N]
  BY DEF Value
<1> HIDE DEF v
<1>5. Reads(N, v)
  BY <1>1, <1>3
<1>6. \A m \in 0 .. N : m \in T
  <2>1. 0 \in T
    BY <1>1, <1>5
  <2>2. ASSUME NEW m \in 0 .. N - 1, m \in T PROVE m + 1 \in T
    <3>1. m + 1 \in 1 .. N /\ m + 1 \in 0 .. N /\ v[m] \in Nat /\ d[m + 1] \in Nat
      BY <1>1, <2>2
    <3>2. v[m + 1] = 10 * v[m] + d[m + 1]
      BY <1>1, <1>5, <3>1
    <3> QED BY <3>1, <3>2
  <2> HIDE DEF T, N
  <2> QED BY <1>1, <2>1, <2>2, UpTo
<1>7. v \in [0 .. N -> Nat]
  BY <1>3, <1>6
<1> QED BY <1>4, <1>5, <1>7

(* A number of up to three digits, and of more if the first is not 0.      *)
LEMMA ValueOf ==
  ASSUME NEW d \in Seq(Digit)
  PROVE  /\ Value(d) \in Nat
         /\ Len(d) = 1 => Value(d) = d[1]
         /\ Len(d) = 2 => Value(d) = 10 * d[1] + d[2]
         /\ Len(d) = 3 => Value(d) = 100 * d[1] + 10 * d[2] + d[3]
         /\ Len(d) > 3 /\ d[1] # 0 => Value(d) > 255
<1> DEFINE N == Len(d)
<1>1. PICK v \in [0 .. N -> Nat] : /\ v[0] = 0 /\ \A n \in 1 .. N : v[n] = 10 * v[n - 1] + d[n]
                                   /\ Value(d) = v[N]
  BY ValueIs
<1>2. N \in Nat /\ \A n \in 1 .. N : d[n] \in Nat
  BY DEF Digit
<1>3. Value(d) \in Nat
  BY <1>1, <1>2
<1>4. ASSUME N >= 1 PROVE v[1] = d[1]
  <2>1. v[1] = 10 * v[1 - 1] + d[1] /\ d[1] \in Nat
    BY <1>1, <1>2, <1>4
  <2>2. v[1 - 1] = 0
    BY <1>1
  <2> QED BY <2>1, <2>2
<1>5. ASSUME N >= 2 PROVE v[2] = 10 * d[1] + d[2]
  <2>1. v[2] = 10 * v[2 - 1] + d[2]
    BY <1>1, <1>2, <1>5
  <2> QED BY <1>2, <1>4, <1>5, <2>1
<1>6. ASSUME N >= 3 PROVE v[3] = 100 * d[1] + 10 * d[2] + d[3]
  <2>1. v[3] = 10 * v[3 - 1] + d[3] /\ d[1] \in Nat /\ d[2] \in Nat /\ d[3] \in Nat
    BY <1>1, <1>2, <1>6
  <2> QED BY <1>2, <1>5, <1>6, <2>1
<1>7. ASSUME N > 3, d[1] # 0 PROVE Value(d) > 255
  <2> DEFINE S == {m \in 0 .. N - 4 : v[m + 4] >= 1000}
  <2>1. \A n \in 1 .. 4 : d[n] \in Nat /\ n \in 1 .. N
    BY <1>2, <1>7
  <2>2. v[4] = 10 * v[4 - 1] + d[4]
    BY <1>1, <2>1
  <2>3. v[3] = 100 * d[1] + 10 * d[2] + d[3]
    BY <1>2, <1>6, <1>7
  <2>4. 0 \in S
    <3>1. d[1] \in Nat /\ d[1] >= 1 /\ d[2] \in Nat /\ d[3] \in Nat /\ d[4] \in Nat
      BY <1>7, <2>1
    <3>2. v[4] >= 1000
      <4>1. PICK a \in Nat, b \in Nat, c \in Nat, e \in Nat :
              a = d[1] /\ b = d[2] /\ c = d[3] /\ e = d[4]
        BY <3>1
      <4>2. a >= 1 /\ v[3] = 100 * a + 10 * b + c
        BY <2>3, <3>1, <4>1
      <4>3. v[4] = 10 * v[3] + e
        BY <2>2, <4>1
      <4> HIDE DEF N, S
      <4> QED BY <4>2, <4>3
    <3>3. v[0 + 4] >= 1000 /\ 0 \in 0 .. N - 4
      BY <1>2, <1>7, <3>2
    <3> QED BY <3>3
  <2>5. ASSUME NEW m \in 0 .. N - 4 - 1, m \in S PROVE m + 1 \in S
    <3>1. m + 5 \in 1 .. N /\ m + 1 \in 0 .. N - 4 /\ m + 4 \in 0 .. N
      BY <1>2
    <3>2. /\ v[m + 5] = 10 * v[m + 5 - 1] + d[m + 5] /\ d[m + 5] \in Nat
          /\ v[m + 4] \in Nat
      <4> HIDE DEF N
      <4>1. d[m + 5] \in Nat
        BY <1>2, <3>1
      <4>2. v[m + 4] \in Nat
        BY <1>1, <3>1
      <4>3. v[m + 5] = 10 * v[(m + 5) - 1] + d[m + 5]
        BY <1>1, <3>1
      <4> QED BY <4>1, <4>2, <4>3
    <3>3. m + 5 - 1 = m + 4 /\ (m + 1) + 4 = m + 5
      OBVIOUS
    <3>4. v[m + 5] >= 1000
      BY <2>5, <3>2, <3>3
    <3> QED BY <3>1, <3>3, <3>4
  <2>6. N - 4 \in Nat
    BY <1>2, <1>7
  <2>7. N - 4 \in 0 .. N - 4
    BY <2>6
  <2> HIDE DEF S
  <2>8. N - 4 \in S
    BY <2>4, <2>5, <2>6, <2>7, UpTo
  <2>9. v[(N - 4) + 4] >= 1000 /\ (N - 4) + 4 = N
    BY <1>2, <2>8 DEF S
  <2> QED BY <1>1, <1>3, <2>9
<1>8. /\ N = 1 => v[N] = d[1]
      /\ N = 2 => v[N] = 10 * d[1] + d[2]
      /\ N = 3 => v[N] = 100 * d[1] + 10 * d[2] + d[3]
  <2> HIDE DEF N
  <2> QED BY <1>2, <1>4, <1>5, <1>6
<1> QED BY <1>1, <1>3, <1>7, <1>8

(* Sequences of two and three numbers, put together.                       *)
LEMMA Pair ==
  ASSUME NEW y \in Int, NEW z \in Int
  PROVE  <<y>> \o <<z>> = <<y, z>>
<1> DEFINE s == <<y>> \o <<z>>
<1>1. /\ <<y>> \in Seq(Int) /\ Len(<<y>>) = 1 /\ <<y>>[1] = y
      /\ <<z>> \in Seq(Int) /\ Len(<<z>>) = 1 /\ <<z>>[1] = z
  OBVIOUS
<1>2. s \in Seq(Int) /\ Len(s) = 2 /\ s[1] = y /\ s[2] = z
  BY <1>1, ConcatProperties
<1> HIDE DEF s
<1>3. s = <<y, z>>
  BY <1>2
<1> QED BY <1>3 DEF s

LEMMA Triple ==
  ASSUME NEW x \in Int, NEW y \in Int, NEW z \in Int
  PROVE  <<x>> \o <<y>> \o <<z>> = <<x, y, z>>
<1> DEFINE s == <<x, y>> \o <<z>>
<1>1. /\ <<x, y>> \in Seq(Int) /\ Len(<<x, y>>) = 2 /\ <<x, y>>[1] = x /\ <<x, y>>[2] = y
      /\ <<z>> \in Seq(Int) /\ Len(<<z>>) = 1 /\ <<z>>[1] = z
  OBVIOUS
<1>2. s \in Seq(Int) /\ Len(s) = 3 /\ s[1] = x /\ s[2] = y /\ s[3] = z
  BY <1>1, ConcatProperties
<1> HIDE DEF s
<1>3. s = <<x, y, z>>
  BY <1>2
<1> QED BY <1>3, Pair DEF s

(* uitoa() writes one, two or three digits.                                *)
LEMMA uitoaIs ==
  ASSUME NEW n \in 0 .. 255
  PROVE  /\ n >= 100 => uitoa(n) = <<n \div 100, (n \div 10) % 10, n % 10>>
         /\ n >= 10 /\ n < 100 => uitoa(n) = <<(n \div 10) % 10, n % 10>>
         /\ n < 10 => uitoa(n) = <<n % 10>>
<1>1. PICK x \in Int, y \in Int, z \in Int : x = n \div 100 /\ y = (n \div 10) % 10 /\ z = n % 10
  BY SMT
<1>2. /\ <<x>> \o <<y>> \o <<z>> = <<x, y, z>>
      /\ <<>> \o <<y>> \o <<z>> = <<y, z>>
      /\ <<>> \o <<>> \o <<z>> = <<z>>
  <2>1. <<y>> \in Seq(Int) /\ <<z>> \in Seq(Int) /\ <<>> \in Seq(Int)
    OBVIOUS
  <2> QED BY <2>1, Pair, Triple, ConcatEmptySeq
<1>3. uitoa(n) = (IF n >= 100 THEN <<x>> ELSE <<>>) \o (IF n >= 10 THEN <<y>> ELSE <<>>) \o <<z>>
  BY <1>1 DEF uitoa
<1>4. CASE n >= 100
  BY <1>1, <1>2, <1>3, <1>4
<1>5. CASE n >= 10 /\ n < 100
  <2>1. ~ (n >= 100) /\ n >= 10 /\ ~ (n < 10)
    BY <1>5
  <2>2. uitoa(n) = <<y, z>>
    BY <1>2, <1>3, <2>1, Zenon
  <2> QED BY <1>1, <2>1, <2>2, Zenon
<1>6. CASE n < 10
  <2>1. ~ (n >= 100) /\ ~ (n >= 10)
    BY <1>6
  <2>2. uitoa(n) = <<z>>
    BY <1>2, <1>3, <2>1, Zenon
  <2> QED BY <1>1, <2>1, <2>2, Zenon
<1> QED BY <1>4, <1>5, <1>6

(* What uitoa() writes are the digits of the number,                       *)
LEMMA OctetDigits ==
  ASSUME NEW n \in 0 .. 255
  PROVE  uitoa(n) \in Seq(Digit) /\ Len(uitoa(n)) \in 1 .. 3 /\ Value(uitoa(n)) = n
<1>1. n \in Nat /\ n % 10 \in Digit /\ n \div 100 \in Digit /\ (n \div 10) % 10 \in Digit
  BY SMT DEF Digit
<1>2. CASE n >= 100
  <2>1. uitoa(n) = <<n \div 100, (n \div 10) % 10, n % 10>>
    BY <1>2, uitoaIs
  <2>2. uitoa(n) \in Seq(Digit) /\ Len(uitoa(n)) = 3
    BY <1>1, <2>1
  <2>3. Value(uitoa(n)) = 100 * (n \div 100) + 10 * ((n \div 10) % 10) + (n % 10)
    BY <2>1, <2>2, ValueOf
  <2>4. 100 * (n \div 100) + 10 * ((n \div 10) % 10) + (n % 10) = n
    BY SMT
  <2> QED BY <2>2, <2>3, <2>4
<1>3. CASE n >= 10 /\ n < 100
  <2>1. uitoa(n) = <<(n \div 10) % 10, n % 10>>
    BY <1>3, uitoaIs
  <2>2. uitoa(n) \in Seq(Digit) /\ Len(uitoa(n)) = 2
    BY <1>1, <2>1
  <2>3. Value(uitoa(n)) = 10 * ((n \div 10) % 10) + (n % 10)
    BY <2>1, <2>2, ValueOf
  <2>4. 10 * ((n \div 10) % 10) + (n % 10) = n
    BY <1>3, SMT
  <2> QED BY <2>2, <2>3, <2>4
<1>4. CASE n < 10
  <2>1. uitoa(n) = <<n % 10>>
    BY <1>4, uitoaIs
  <2>2. uitoa(n) \in Seq(Digit) /\ Len(uitoa(n)) = 1
    BY <1>1, <2>1
  <2>3. Value(uitoa(n)) = n % 10
    BY <2>1, <2>2, ValueOf
  <2>4. n % 10 = n
    BY <1>4, SMT
  <2> QED BY <2>2, <2>3, <2>4
<1> QED BY <1>1, <1>2, <1>3, <1>4

(* and digits that make an octet, without zeros before it, are what it     *)
(* writes.                                                                 *)
LEMMA DigitsOctet ==
  ASSUME NEW d \in Seq(Digit), Len(d) > 0, Len(d) > 1 => d[1] # 0, Value(d) <= 255
  PROVE  d \in OctetText
<1>1. Value(d) \in 0 .. 255 /\ Len(d) \in 1 .. 3
  <2>1. Len(d) \in Nat /\ Len(d) >= 1
    OBVIOUS
  <2>2. ~ (Len(d) > 3)
    BY ValueOf
  <2>3. Value(d) \in Nat
    BY ValueOf
  <2>4. \A l, v \in Nat : l >= 1 /\ ~ (l > 3) /\ v <= 255 => v \in 0 .. 255 /\ l \in 1 .. 3
    OBVIOUS
  <2> QED BY <2>1, <2>2, <2>3, <2>4, Zenon
<1>2. \A m \in 1 .. Len(d) : d[m] \in 0 .. 9
  BY DEF Digit
<1>3. d = uitoa(Value(d))
  <2>1. CASE Len(d) = 1
    <3>1. PICK a \in 0 .. 9 : a = d[1]
      BY <1>2, <2>1
    <3>2. Value(d) = a /\ d = <<a>>
      BY <2>1, <3>1, ValueOf
    <3>3. uitoa(a) = <<a>>
      <4>1. a \in 0 .. 255 /\ a < 10 /\ a % 10 = a
        OBVIOUS
      <4> QED BY <4>1, uitoaIs
    <3> QED BY <3>2, <3>3
  <2>2. CASE Len(d) = 2
    <3>1. PICK a \in 0 .. 9, b \in 0 .. 9 : a = d[1] /\ b = d[2]
      BY <1>2, <2>2
    <3>2. PICK n \in 0 .. 255 : n = 10 * a + b
      OBVIOUS
    <3>3. Value(d) = n /\ d = <<a, b>> /\ a # 0
      BY <2>2, <3>1, <3>2, ValueOf
    <3>4. n < 100 /\ n >= 10 /\ (n \div 10) % 10 = a /\ n % 10 = b
      BY <3>2, <3>3
    <3>5. uitoa(n) = <<a, b>>
      BY <3>4, uitoaIs
    <3> QED BY <3>3, <3>5
  <2>3. CASE Len(d) = 3
    <3>1. PICK a \in 0 .. 9, b \in 0 .. 9, c \in 0 .. 9 : a = d[1] /\ b = d[2] /\ c = d[3]
      BY <1>2, <2>3
    <3>2. Value(d) = 100 * a + 10 * b + c
      BY <2>3, <3>1, ValueOf
    <3>3. PICK n \in 0 .. 255 : n = 100 * a + 10 * b + c
      BY <1>1, <3>2
    <3>4. d = <<a, b, c>> /\ a # 0
      BY <2>3, <3>1
    <3>5. n >= 100 /\ n \div 100 = a /\ (n \div 10) % 10 = b /\ n % 10 = c
      BY <3>3, <3>4
    <3>6. uitoa(n) = <<a, b, c>>
      BY <3>5, uitoaIs
    <3> QED BY <3>2, <3>3, <3>4, <3>6
  <2> QED BY <1>1, <2>1, <2>2, <2>3
<1> QED BY <1>1, <1>3 DEF OctetText

(* A text without its middle: the parts of it before and behind a dot.     *)
LEMMA PartIs ==
  ASSUME NEW S, NEW str \in Seq(S), NEW a \in 1 .. Len(str) + 1, NEW b \in a - 1 .. Len(str)
  PROVE  /\ SubSeq(str, a, b) \in Seq(S) /\ Len(SubSeq(str, a, b)) = b - a + 1
         /\ \A m \in 1 .. b - a + 1 : SubSeq(str, a, b)[m] = str[a + m - 1]
<1>1. Len(str) \in Nat
  OBVIOUS
<1>2. SubSeq(str, a, b) = [m \in 1 .. b - a + 1 |-> str[a + m - 1]]
  OBVIOUS
<1>3. \A m \in 1 .. b - a + 1 : str[a + m - 1] \in S
  <2> TAKE m \in 1 .. b - a + 1
  <2>1. a + m - 1 \in 1 .. Len(str)
    BY <1>1
  <2> QED BY <2>1
<1>4. b - a + 1 \in Nat
  BY <1>1
<1> DEFINE part == [m \in 1 .. b - a + 1 |-> str[a + m - 1]]
<1>5. part \in Seq(S) /\ Len(part) = b - a + 1
  BY <1>3, <1>4
<1> QED BY <1>2, <1>5

(* atoi() takes the digits up to the next character that is none.          *)
LEMMA atoiIs ==
  ASSUME NEW str \in Seq(Char), NEW p \in 1 .. Len(str), NEW q \in p .. Len(str),
         \A r \in p .. q : str[r] \in Digit, q = Len(str) \/ str[q + 1] \notin Digit
  PROVE  atoi(str, p) = Value(SubSeq(str, p, q)) /\ SubSeq(str, p, q) \in Seq(Digit)
<1>1. str[p] # Minus /\ p \in DOMAIN str /\ Len(str) \in Nat
  <2>1. Len(str) \in Nat /\ p \in p .. q /\ DOMAIN str = 1 .. Len(str)
    OBVIOUS
  <2>2. str[p] \in 0 .. 9
    BY <2>1 DEF Digit
  <2>3. \A c \in 0 .. 9 : c # 18
    OBVIOUS
  <2> QED BY <2>1, <2>2, <2>3 DEF Minus
<1> DEFINE digits == {x \in p .. Len(str) : \A r \in p .. x : str[r] \in Digit}
<1>2. digits = p .. q
  <2>1. ASSUME NEW x \in digits, x > q PROVE FALSE
    <3>1. q + 1 \in p .. x /\ q # Len(str)
      BY <1>1, <2>1
    <3> QED BY <2>1, <3>1
  <2>2. ASSUME NEW x \in p .. q PROVE x \in digits
    BY <1>1
  <2>3. digits \subseteq p .. q
    BY <1>1, <2>1
  <2> HIDE DEF digits
  <2> QED BY <2>2, <2>3
<1>3. p + Cardinality(digits) - 1 = q
  <2>1. Cardinality(p .. q) = q - p + 1
    BY <1>1, FS_Interval
  <2> HIDE DEF digits
  <2>2. Cardinality(digits) = q - p + 1
    BY <1>2, <2>1
  <2>3. p \in Int /\ q \in Int
    BY <1>1
  <2> QED BY <2>2, <2>3
<1>4. atoi(str, p) = Value(SubSeq(str, p, p + Cardinality(digits) - 1))
  BY <1>1 DEF atoi
<1>5. SubSeq(str, p, q) \in Seq(Digit)
  <2> DEFINE part == SubSeq(str, p, q)
  <2>1. part \in Seq(Char) /\ Len(part) = q - p + 1 /\ \A m \in 1 .. q - p + 1 : part[m] = str[p + m - 1]
    BY <1>1, PartIs
  <2> HIDE DEF part
  <2>2. \A m \in 1 .. Len(part) : part[m] \in Digit
    BY <1>1, <2>1
  <2>3. part \in Seq(Digit)
    BY <2>1, <2>2
  <2> QED BY <2>3 DEF part
<1> QED BY <1>3, <1>4, <1>5

(* Four octets of digits, with dots at x, y and z between them.            *)
Laid(str, x, y, z) ==
  /\ x \in Nat /\ y \in Nat /\ z \in Nat
  /\ 1 < x /\ x + 1 < y /\ y + 1 < z /\ z < Len(str)
  /\ \A p \in 1 .. Len(str) : IF p \in {x, y, z} THEN str[p] = Dot ELSE str[p] \in Digit

(* They are counted from their first characters, and read one by one.      *)
LEMMA OctetsLaid ==
  ASSUME NEW str \in Seq(Char), NEW x, NEW y, NEW z, Laid(str, x, y, z)
  PROVE  /\ Cardinality(Starts(str)) = 4
         /\ DOMAIN Octets(str) = 1 .. 4 /\ Len(Octets(str)) = 4
         /\ Octets(str)[1] = Value(SubSeq(str, 1, x - 1))
         /\ Octets(str)[2] = Value(SubSeq(str, x + 1, y - 1))
         /\ Octets(str)[3] = Value(SubSeq(str, y + 1, z - 1))
         /\ Octets(str)[4] = Value(SubSeq(str, z + 1, Len(str)))
<1>1. /\ x \in Nat /\ y \in Nat /\ z \in Nat /\ Len(str) \in Nat
      /\ 1 < x /\ x + 1 < y /\ y + 1 < z /\ z < Len(str)
  BY DEF Laid
<1>2. \A p \in 1 .. Len(str) : str[p] = Dot <=> p \in {x, y, z}
  BY DEF Laid, Dot, Digit
<1>3. Starts(str) = {1, x + 1, y + 1, z + 1}
  <2>1. DOMAIN str = 1 .. Len(str)
    OBVIOUS
  <2>2. ASSUME NEW p \in Starts(str) PROVE p \in {1, x + 1, y + 1, z + 1}
    <3>1. p \in 1 .. Len(str) /\ (p = 1 \/ str[p - 1] = Dot)
      BY <2>1 DEF Starts
    <3>2. p # 1 => p - 1 \in 1 .. Len(str)
      BY <3>1
    <3>3. p # 1 => p - 1 \in {x, y, z}
      BY <1>2, <3>1, <3>2
    <3> QED BY <1>1, <3>1, <3>3
  <2>3. ASSUME NEW p \in {1, x + 1, y + 1, z + 1} PROVE p \in Starts(str)
    <3>1. p \in 1 .. Len(str) /\ (p = 1 \/ p - 1 \in {x, y, z})
      BY <1>1
    <3>2. p # 1 => p - 1 \in 1 .. Len(str)
      BY <3>1
    <3> QED BY <1>2, <2>1, <3>1, <3>2 DEF Starts
  <2> QED BY <2>2, <2>3
<1> DEFINE S == {1, x + 1, y + 1, z + 1}
           C(p) == Cardinality({q \in S : q <= p})
<1>4. C(1) = 1 /\ C(x + 1) = 2 /\ C(y + 1) = 3 /\ C(z + 1) = 4 /\ Cardinality(S) = 4
  <2>1. /\ {q \in S : q <= 1} = {1}
        /\ {q \in S : q <= x + 1} = {1} \cup {x + 1}
        /\ {q \in S : q <= y + 1} = ({1} \cup {x + 1}) \cup {y + 1}
        /\ {q \in S : q <= z + 1} = S
        /\ S = (({1} \cup {x + 1}) \cup {y + 1}) \cup {z + 1}
    BY <1>1
  <2>2. x + 1 \notin {1} /\ y + 1 \notin {1} \cup {x + 1} /\ z + 1 \notin ({1} \cup {x + 1}) \cup {y + 1}
    BY <1>1
  <2> DEFINE A == {1}
             B == A \cup {x + 1}
             D == B \cup {y + 1}
             E == D \cup {z + 1}
  <2>3. IsFiniteSet(A) /\ Cardinality(A) = 1
    BY FS_Singleton
  <2>4. IsFiniteSet(B) /\ Cardinality(B) = 2
    <3>1. x + 1 \notin A
      BY <2>2
    <3> HIDE DEF A
    <3>2. IsFiniteSet(B) /\ Cardinality(B) = Cardinality(A) + 1
      BY <2>3, <3>1, FS_AddElement, Zenon
    <3> QED BY <2>3, <3>2
  <2>5. IsFiniteSet(D) /\ Cardinality(D) = 3
    <3>1. y + 1 \notin B
      BY <2>2
    <3> HIDE DEF B
    <3>2. IsFiniteSet(D) /\ Cardinality(D) = Cardinality(B) + 1
      BY <2>4, <3>1, FS_AddElement, Zenon
    <3> QED BY <2>4, <3>2
  <2>6. IsFiniteSet(E) /\ Cardinality(E) = 4
    <3>1. z + 1 \notin D
      BY <2>2
    <3> HIDE DEF D
    <3>2. IsFiniteSet(E) /\ Cardinality(E) = Cardinality(D) + 1
      BY <2>5, <3>1, FS_AddElement, Zenon
    <3> QED BY <2>5, <3>2
  <2> HIDE DEF S
  <2> QED BY <2>1, <2>3, <2>4, <2>5, <2>6
<1> DEFINE at(k) == CHOOSE p \in Starts(str) : Cardinality({q \in Starts(str) : q <= p}) = k
<1>5. at(1) = 1 /\ at(2) = x + 1 /\ at(3) = y + 1 /\ at(4) = z + 1
  <2>1. S = {1, x + 1, y + 1, z + 1}
    OBVIOUS
  <2>2. \A k : at(k) = CHOOSE p \in S : C(p) = k
    BY <1>3, Zenon
  <2> HIDE DEF S, C, at
  <2> QED BY <1>4, <2>1, <2>2
<1>6. Octets(str) = [k \in 1 .. 4 |-> atoi(str, at(k))]
  <2>1. Octets(str) = [k \in 1 .. Cardinality(Starts(str)) |-> atoi(str, at(k))]
    BY DEF Octets
  <2> HIDE DEF S, at
  <2> QED BY <1>3, <1>4, <2>1 DEF S
<1>7. /\ DOMAIN Octets(str) = 1 .. 4 /\ Len(Octets(str)) = 4
      /\ Octets(str)[1] = atoi(str, 1) /\ Octets(str)[2] = atoi(str, x + 1)
      /\ Octets(str)[3] = atoi(str, y + 1) /\ Octets(str)[4] = atoi(str, z + 1)
  <2> HIDE DEF at
  <2> QED BY <1>5, <1>6
<1>8. ASSUME NEW p \in 1 .. Len(str), NEW q \in p .. Len(str),
             \A r \in p .. q : r \notin {x, y, z}, q = Len(str) \/ q + 1 \in {x, y, z}
      PROVE  atoi(str, p) = Value(SubSeq(str, p, q))
  <2>1. \A r \in p .. q : str[r] \in Digit
    <3>1. ASSUME NEW r \in p .. q PROVE r \in 1 .. Len(str) /\ r \notin {x, y, z}
      <4>1. r \in 1 .. Len(str)
        BY <1>1
      <4> QED BY <1>8, <4>1, Zenon
    <3> QED BY <3>1 DEF Laid
  <2>2. q # Len(str) => str[q + 1] \notin Digit
    <3>1. q # Len(str) => q + 1 \in {x, y, z} /\ q + 1 \in 1 .. Len(str)
      BY <1>1, <1>8
    <3> QED BY <1>2, <3>1 DEF Dot, Digit
  <2> QED BY <2>1, <2>2, atoiIs
<1>9. /\ atoi(str, 1) = Value(SubSeq(str, 1, x - 1))
      /\ atoi(str, x + 1) = Value(SubSeq(str, x + 1, y - 1))
      /\ atoi(str, y + 1) = Value(SubSeq(str, y + 1, z - 1))
      /\ atoi(str, z + 1) = Value(SubSeq(str, z + 1, Len(str)))
  <2>1. atoi(str, 1) = Value(SubSeq(str, 1, x - 1))
    <3>1. /\ 1 \in 1 .. Len(str) /\ x - 1 \in 1 .. Len(str)
          /\ \A r \in 1 .. x - 1 : r \notin {x, y, z}
          /\ x - 1 + 1 \in {x, y, z}
      BY <1>1
    <3> QED BY <1>8, <3>1
  <2>2. atoi(str, x + 1) = Value(SubSeq(str, x + 1, y - 1))
    <3>1. /\ x + 1 \in 1 .. Len(str) /\ y - 1 \in x + 1 .. Len(str)
          /\ \A r \in x + 1 .. y - 1 : r \notin {x, y, z}
          /\ y - 1 + 1 \in {x, y, z}
      BY <1>1
    <3> QED BY <1>8, <3>1
  <2>3. atoi(str, y + 1) = Value(SubSeq(str, y + 1, z - 1))
    <3>1. /\ y + 1 \in 1 .. Len(str) /\ z - 1 \in y + 1 .. Len(str)
          /\ \A r \in y + 1 .. z - 1 : r \notin {x, y, z}
          /\ z - 1 + 1 \in {x, y, z}
      BY <1>1
    <3> QED BY <1>8, <3>1
  <2>4. atoi(str, z + 1) = Value(SubSeq(str, z + 1, Len(str)))
    <3>1. /\ z + 1 \in 1 .. Len(str) /\ Len(str) \in z + 1 .. Len(str)
          /\ \A r \in z + 1 .. Len(str) : r \notin {x, y, z}
      BY <1>1
    <3> QED BY <1>8, <3>1
  <2> QED BY <2>1, <2>2, <2>3, <2>4
<1> QED BY <1>3, <1>4, <1>7, <1>9
(* What is between two dots is an octet, so there are no others.           *)
LEMMA PartsLaid ==
  ASSUME NEW str \in Seq(Char), NEW x \in 1 .. Len(str), NEW y \in 1 .. Len(str), NEW z \in 1 .. Len(str),
         str[x] = Dot, str[y] = Dot, str[z] = Dot, x < y, y < z,
         SubSeq(str, 1, x - 1) \in OctetText, SubSeq(str, x + 1, y - 1) \in OctetText,
         SubSeq(str, y + 1, z - 1) \in OctetText, SubSeq(str, z + 1, Len(str)) \in OctetText
  PROVE  Laid(str, x, y, z)
<1>1. Len(str) \in Nat /\ x \in Nat /\ y \in Nat /\ z \in Nat
  OBVIOUS
<1>2. ASSUME NEW a \in 1 .. Len(str) + 1, NEW b \in a - 1 .. Len(str), SubSeq(str, a, b) \in OctetText
      PROVE  a <= b /\ \A p \in a .. b : str[p] \in Digit
  <2> DEFINE part == SubSeq(str, a, b)
  <2>1. PICK n \in 0 .. 255 : part = uitoa(n)
    BY <1>2 DEF OctetText
  <2>2. part \in Seq(Digit) /\ Len(part) \in 1 .. 3
    BY <2>1, OctetDigits
  <2>3. Len(part) = b - a + 1 /\ \A m \in 1 .. b - a + 1 : part[m] = str[a + m - 1]
    BY PartIs
  <2> HIDE DEF part
  <2>4. \A m \in 1 .. b - a + 1 : part[m] \in Digit
    BY <2>2, <2>3
  <2>5. ASSUME NEW p \in a .. b PROVE str[p] \in Digit
    <3>1. p - a + 1 \in 1 .. b - a + 1 /\ a + (p - a + 1) - 1 = p
      BY <1>1
    <3> QED BY <2>3, <2>4, <3>1
  <2> QED BY <1>1, <2>2, <2>3, <2>5
<1>3. 1 <= x - 1 /\ \A p \in 1 .. x - 1 : str[p] \in Digit
  <2>1. 1 \in 1 .. Len(str) + 1 /\ x - 1 \in 1 - 1 .. Len(str)
    BY <1>1
  <2> QED BY <1>2, <2>1
<1>4. x + 1 <= y - 1 /\ \A p \in x + 1 .. y - 1 : str[p] \in Digit
  <2>1. x + 1 \in 1 .. Len(str) + 1 /\ y - 1 \in x + 1 - 1 .. Len(str)
    BY <1>1
  <2> QED BY <1>2, <2>1
<1>5. y + 1 <= z - 1 /\ \A p \in y + 1 .. z - 1 : str[p] \in Digit
  <2>1. y + 1 \in 1 .. Len(str) + 1 /\ z - 1 \in y + 1 - 1 .. Len(str)
    BY <1>1
  <2> QED BY <1>2, <2>1
<1>6. z + 1 <= Len(str) /\ \A p \in z + 1 .. Len(str) : str[p] \in Digit
  <2>1. z + 1 \in 1 .. Len(str) + 1 /\ Len(str) \in z + 1 - 1 .. Len(str)
    BY <1>1
  <2> QED BY <1>2, <2>1
<1>7. ASSUME NEW p \in 1 .. Len(str), p \notin {x, y, z}
      PROVE  str[p] \in Digit
  <2>1. p \in 1 .. x - 1 \/ p \in x + 1 .. y - 1 \/ p \in y + 1 .. z - 1 \/ p \in z + 1 .. Len(str)
    BY <1>1, <1>7
  <2> QED BY <1>3, <1>4, <1>5, <1>6, <2>1
<1>8. 1 < x /\ x + 1 < y /\ y + 1 < z /\ z < Len(str)
  BY <1>1, <1>3, <1>4, <1>5, <1>6
<1> QED BY <1>1, <1>7, <1>8 DEF Laid

(* Two texts put together, and two with a dot between them.                *)
LEMMA ConcatIs ==
  ASSUME NEW S, NEW u \in Seq(S), NEW w \in Seq(S)
  PROVE  /\ u \o w \in Seq(S) /\ Len(u \o w) = Len(u) + Len(w)
         /\ \A m \in 1 .. Len(u) : (u \o w)[m] = u[m]
         /\ \A m \in 1 .. Len(w) : (u \o w)[Len(u) + m] = w[m]
<1>1. Len(u) \in Nat /\ Len(w) \in Nat
  OBVIOUS
<1>2. /\ u \o w \in Seq(S) /\ Len(u \o w) = Len(u) + Len(w)
      /\ \A m \in 1 .. Len(u) + Len(w) : (u \o w)[m] = IF m <= Len(u) THEN u[m] ELSE w[m - Len(u)]
  BY ConcatProperties
<1>3. ASSUME NEW m \in 1 .. Len(u) PROVE (u \o w)[m] = u[m]
  <2>1. m \in 1 .. Len(u) + Len(w) /\ m <= Len(u)
    BY <1>1
  <2> QED BY <1>2, <2>1
<1>4. ASSUME NEW m \in 1 .. Len(w) PROVE (u \o w)[Len(u) + m] = w[m]
  <2>1. Len(u) + m \in 1 .. Len(u) + Len(w) /\ ~ (Len(u) + m <= Len(u)) /\ Len(u) + m - Len(u) = m
    BY <1>1
  <2> QED BY <1>2, <2>1
<1> QED BY <1>2, <1>3, <1>4

(* Two texts with a character between them.                                *)
LEMMA Between ==
  ASSUME NEW u \in Seq(Char), NEW w \in Seq(Char), NEW c \in Char
  PROVE  /\ u \o <<c>> \o w \in Seq(Char) /\ Len(u \o <<c>> \o w) = Len(u) + 1 + Len(w)
         /\ \A m \in 1 .. Len(u) : (u \o <<c>> \o w)[m] = u[m]
         /\ (u \o <<c>> \o w)[Len(u) + 1] = c
         /\ \A m \in 1 .. Len(w) : (u \o <<c>> \o w)[Len(u) + 1 + m] = w[m]
<1>1. Len(u) \in Nat /\ Len(w) \in Nat
  OBVIOUS
<1>2. <<c>> \in Seq(Char) /\ Len(<<c>>) = 1 /\ <<c>>[1] = c
  OBVIOUS
<1> DEFINE v == u \o <<c>>
<1>3. /\ v \in Seq(Char) /\ Len(v) = Len(u) + 1
      /\ \A m \in 1 .. Len(u) : v[m] = u[m]
      /\ v[Len(u) + 1] = c
  <2>1. /\ v \in Seq(Char) /\ Len(v) = Len(u) + Len(<<c>>)
        /\ \A m \in 1 .. Len(u) : v[m] = u[m]
        /\ \A m \in 1 .. Len(<<c>>) : v[Len(u) + m] = <<c>>[m]
    BY <1>2, ConcatIs
  <2>2. 1 \in 1 .. Len(<<c>>)
    BY <1>2
  <2> HIDE DEF v
  <2> QED BY <1>2, <2>1, <2>2
<1> HIDE DEF v
<1>4. /\ v \o w \in Seq(Char) /\ Len(v \o w) = Len(v) + Len(w)
      /\ \A m \in 1 .. Len(v) : (v \o w)[m] = v[m]
      /\ \A m \in 1 .. Len(w) : (v \o w)[Len(v) + m] = w[m]
  <2>1. v \in Seq(Char) /\ w \in Seq(Char)
    BY <1>3
  <2>2. \A s, t \in Seq(Char) :
          /\ s \o t \in Seq(Char) /\ Len(s \o t) = Len(s) + Len(t)
          /\ \A m \in 1 .. Len(s) : (s \o t)[m] = s[m]
          /\ \A m \in 1 .. Len(t) : (s \o t)[Len(s) + m] = t[m]
    BY ConcatIs
  <2> QED BY <2>1, <2>2, Zenon
<1>5. /\ \A m \in 1 .. Len(u) : m \in 1 .. Len(v)
      /\ Len(u) + 1 \in 1 .. Len(v)
  BY <1>1, <1>3
<1> QED BY <1>3, <1>4, <1>5 DEF v

LEMMA JoinIs ==
  ASSUME NEW u \in Seq(Char), NEW w \in Seq(Char)
  PROVE  /\ Join(u, w) \in Seq(Char) /\ Len(Join(u, w)) = Len(u) + 1 + Len(w)
         /\ \A m \in 1 .. Len(u) : Join(u, w)[m] = u[m]
         /\ Join(u, w)[Len(u) + 1] = Dot
         /\ \A m \in 1 .. Len(w) : Join(u, w)[Len(u) + 1 + m] = w[m]
<1>1. Dot \in Char
  BY DEF Dot, Char
<1> QED BY <1>1, Between, Zenon DEF Join

(* A text is what is before a dot, and behind it.                          *)
LEMMA JoinAt ==
  ASSUME NEW str \in Seq(Char), NEW a \in 1 .. Len(str), NEW b \in a .. Len(str),
         NEW x \in a .. b, str[x] = Dot
  PROVE  SubSeq(str, a, b) = Join(SubSeq(str, a, x - 1), SubSeq(str, x + 1, b))
<1> DEFINE u == SubSeq(str, a, x - 1)
           w == SubSeq(str, x + 1, b)
           t == SubSeq(str, a, b)
           j == Join(u, w)
<1>1. Len(str) \in Nat /\ a \in Nat /\ b \in Nat /\ x \in Nat
  OBVIOUS
<1>2. /\ u \in Seq(Char) /\ Len(u) = x - a
      /\ \A m \in 1 .. x - a : u[m] = str[a + m - 1]
  <2>1. a \in 1 .. Len(str) + 1 /\ x - 1 \in a - 1 .. Len(str) /\ x - 1 - a + 1 = x - a
    BY <1>1
  <2> QED BY <2>1, PartIs
<1>3. /\ w \in Seq(Char) /\ Len(w) = b - x
      /\ \A m \in 1 .. b - x : w[m] = str[x + m]
  <2>1. x + 1 \in 1 .. Len(str) + 1 /\ b \in x + 1 - 1 .. Len(str) /\ b - (x + 1) + 1 = b - x
    BY <1>1
  <2>2. \A m \in 1 .. b - x : x + 1 + m - 1 = x + m
    BY <1>1
  <2> QED BY <2>1, <2>2, PartIs
<1>4. /\ t \in Seq(Char) /\ Len(t) = b - a + 1
      /\ \A m \in 1 .. b - a + 1 : t[m] = str[a + m - 1]
  <2>1. a \in 1 .. Len(str) + 1 /\ b \in a - 1 .. Len(str)
    BY <1>1
  <2> QED BY <2>1, PartIs
<1> HIDE DEF u, w, t
<1>5. /\ j \in Seq(Char) /\ Len(j) = (x - a) + 1 + (b - x)
      /\ \A m \in 1 .. x - a : j[m] = u[m]
      /\ j[x - a + 1] = Dot
      /\ \A m \in 1 .. b - x : j[x - a + 1 + m] = w[m]
  <2>1. u \in Seq(Char) /\ w \in Seq(Char)
    BY <1>2, <1>3
  <2>2. /\ j \in Seq(Char) /\ Len(j) = Len(u) + 1 + Len(w)
        /\ \A m \in 1 .. Len(u) : j[m] = u[m]
        /\ j[Len(u) + 1] = Dot
        /\ \A m \in 1 .. Len(w) : j[Len(u) + 1 + m] = w[m]
    BY <2>1, JoinIs, Zenon
  <2>3. Len(u) = x - a /\ Len(w) = b - x
    BY <1>2, <1>3
  <2> QED BY <2>2, <2>3, Zenon
<1>7. /\ j \in Seq(Char) /\ Len(j) = b - a + 1
      /\ \A m \in 1 .. b - a + 1 : j[m] = str[a + m - 1]
  <2>1. (x - a) + 1 + (b - x) = b - a + 1
    BY <1>1
  <2>2. ASSUME NEW m \in 1 .. b - a + 1 PROVE j[m] = str[a + m - 1]
    <3>1. CASE m \in 1 .. x - a
      BY <1>2, <1>5, <3>1
    <3>2. CASE m = x - a + 1
      <4>1. a + m - 1 = x
        BY <1>1, <3>2
      <4> QED BY <1>5, <3>2, <4>1
    <3>3. CASE m - (x - a + 1) \in 1 .. b - x
      <4>1. (x - a + 1) + (m - (x - a + 1)) = m /\ x + (m - (x - a + 1)) = a + m - 1
        BY <1>1
      <4>2. j[(x - a + 1) + (m - (x - a + 1))] = str[x + (m - (x - a + 1))]
        BY <1>3, <1>5, <3>3
      <4> QED BY <4>1, <4>2
    <3>4. m \in 1 .. x - a \/ m = x - a + 1 \/ m - (x - a + 1) \in 1 .. b - x
      BY <1>1
    <3> QED BY <3>1, <3>2, <3>3, <3>4
  <2> QED BY <1>5, <2>1, <2>2
<1> HIDE DEF j
<1>8. t = j
  <2>1. t \in Seq(Char) /\ j \in Seq(Char) /\ Len(t) = Len(j)
    BY <1>4, <1>7
  <2>2. \A m \in 1 .. Len(t) : t[m] = j[m]
    BY <1>4, <1>7
  <2> QED BY <2>1, <2>2, SeqEqual
<1> QED BY <1>8 DEF t, j, u, w

(* The octets n[1] to n[4], written with dots at x, y and z.               *)
Writes(str, x, y, z, n) ==
  /\ Laid(str, x, y, z)
  /\ SubSeq(str, 1, x - 1) = uitoa(n[1]) /\ SubSeq(str, x + 1, y - 1) = uitoa(n[2])
  /\ SubSeq(str, y + 1, z - 1) = uitoa(n[3]) /\ SubSeq(str, z + 1, Len(str)) = uitoa(n[4])

(* iptoui() and iptoi() read them, and uitoip() writes them so.            *)
LEMMA WrittenRead ==
  ASSUME NEW str \in Seq(Char), NEW x, NEW y, NEW z, NEW n \in [1 .. 4 -> 0 .. 255],
         Writes(str, x, y, z, n)
  PROVE  iptoui(str) = n /\ iptoi(str) = n /\ uitoip(n) = str
<1>1. /\ x \in Nat /\ y \in Nat /\ z \in Nat /\ Len(str) \in Nat
      /\ 1 < x /\ x + 1 < y /\ y + 1 < z /\ z < Len(str)
  BY DEF Writes, Laid
<1>2. PICK octets : octets = Octets(str)
  OBVIOUS
<1>3. /\ DOMAIN octets = 1 .. 4 /\ Len(octets) = 4
      /\ octets[1] = Value(uitoa(n[1])) /\ octets[2] = Value(uitoa(n[2]))
      /\ octets[3] = Value(uitoa(n[3])) /\ octets[4] = Value(uitoa(n[4]))
  <2>1. Laid(str, x, y, z)
    BY DEF Writes
  <2>2. /\ DOMAIN octets = 1 .. 4 /\ Len(octets) = 4
        /\ octets[1] = Value(SubSeq(str, 1, x - 1))
        /\ octets[2] = Value(SubSeq(str, x + 1, y - 1))
        /\ octets[3] = Value(SubSeq(str, y + 1, z - 1))
        /\ octets[4] = Value(SubSeq(str, z + 1, Len(str)))
    BY <1>2, <2>1, OctetsLaid
  <2> QED BY <2>2, Zenon DEF Writes
<1>4. n[1] \in 0 .. 255 /\ n[2] \in 0 .. 255 /\ n[3] \in 0 .. 255 /\ n[4] \in 0 .. 255
  OBVIOUS
<1>5. octets[1] = n[1] /\ octets[2] = n[2] /\ octets[3] = n[3] /\ octets[4] = n[4]
  BY <1>3, <1>4, OctetDigits, Zenon
<1>6. \A k \in 1 .. 4 : octets[k] = n[k]
  <2> TAKE k \in 1 .. 4
  <2>1. k = 1 \/ k = 2 \/ k = 3 \/ k = 4
    OBVIOUS
  <2> QED BY <1>5, <2>1, Zenon
<1>7. iptoui(str) = n
  <2>1. ASSUME NEW p \in 2 .. Len(str) PROVE str[p] \in Digit \cup {Dot}
    <3>1. p \in 1 .. Len(str)
      BY <1>1
    <3> QED BY <3>1 DEF Writes, Laid
  <2>2. \A k \in DOMAIN octets : octets[k] \in 0 .. 255
    <3>1. \A k \in 1 .. 4 : n[k] \in 0 .. 255
      OBVIOUS
    <3> QED BY <1>3, <1>6, <3>1, Zenon
  <2>3. Len(octets) % 256 = 4
    BY <1>3
  <2>4. iptoui(str) = [k \in 1 .. 4 |-> octets[Len(octets) - 4 + k]]
    <3>1. ~ (\/ \E p \in 2 .. Len(str) : str[p] \notin Digit \cup {Dot}
             \/ \E k \in DOMAIN octets : octets[k] \notin 0 .. 255
             \/ Len(octets) % 256 # 4)
      BY <2>1, <2>2, <2>3
    <3> QED BY <1>2, <3>1, Zenon DEF iptoui
  <2>5. \A k \in 1 .. 4 : octets[Len(octets) - 4 + k] = n[k]
    <3> TAKE k \in 1 .. 4
    <3>1. Len(octets) - 4 + k = k
      BY <1>3
    <3> QED BY <1>6, <3>1
  <2>6. iptoui(str) = [k \in 1 .. 4 |-> n[k]]
    BY <2>4, <2>5
  <2> QED BY <2>6
<1>8. iptoi(str) = n
  <2>1. iptoi(str) = [k \in 1 .. 4 |-> IF k \in DOMAIN octets THEN octets[k] ELSE 0]
    BY <1>2 DEF iptoi
  <2>2. iptoi(str) = [k \in 1 .. 4 |-> n[k]]
    BY <1>3, <1>6, <2>1
  <2> QED BY <2>2
<1>9. uitoip(n) = str
  <2>1. str[x] = Dot /\ str[y] = Dot /\ str[z] = Dot
    <3>1. x \in 1 .. Len(str) /\ y \in 1 .. Len(str) /\ z \in 1 .. Len(str)
      BY <1>1
    <3> QED BY <3>1 DEF Writes, Laid
  <2>2. SubSeq(str, 1, y - 1) = Join(uitoa(n[1]), uitoa(n[2]))
    <3>1. 1 \in 1 .. Len(str) /\ y - 1 \in 1 .. Len(str) /\ x \in 1 .. y - 1
      BY <1>1
    <3>2. SubSeq(str, 1, y - 1) = Join(SubSeq(str, 1, x - 1), SubSeq(str, x + 1, y - 1))
      BY <2>1, <3>1, JoinAt
    <3> QED BY <3>2, Zenon DEF Writes
  <2>3. SubSeq(str, y + 1, Len(str)) = Join(uitoa(n[3]), uitoa(n[4]))
    <3>1. y + 1 \in 1 .. Len(str) /\ Len(str) \in y + 1 .. Len(str) /\ z \in y + 1 .. Len(str)
      BY <1>1
    <3>2. SubSeq(str, y + 1, Len(str)) = Join(SubSeq(str, y + 1, z - 1), SubSeq(str, z + 1, Len(str)))
      BY <2>1, <3>1, JoinAt
    <3> QED BY <3>2, Zenon DEF Writes
  <2>4. SubSeq(str, 1, Len(str)) = Join(SubSeq(str, 1, y - 1), SubSeq(str, y + 1, Len(str)))
    <3>1. 1 \in 1 .. Len(str) /\ Len(str) \in 1 .. Len(str) /\ y \in 1 .. Len(str)
      BY <1>1
    <3> QED BY <2>1, <3>1, JoinAt
  <2>5. SubSeq(str, 1, Len(str)) = str
    OBVIOUS
  <2> QED BY <2>2, <2>3, <2>4, <2>5, Zenon DEF uitoip
<1> QED BY <1>7, <1>8, <1>9

(* A text that is read although it is no mistaken address is one.          *)
LEMMA ReadIsAddress ==
  ASSUME NEW str \in Seq(Char), str # <<>>, iptoui(str) # Bad, str[1] \in Digit \cup {Dot}, ~ Mistaken(str)
  PROVE  Address(str)
<1> DEFINE N == Len(str)
           octets == Octets(str)
           dots == {p \in DOMAIN str : str[p] = Dot}
<1>1. /\ N \in Nat /\ N >= 1 /\ DOMAIN str = 1 .. N
      /\ \A p \in 1 .. N : str[p] \in Char
  OBVIOUS
<1>2. /\ \A p \in 2 .. N : str[p] \in Digit \cup {Dot}
      /\ \A k \in DOMAIN octets : octets[k] \in 0 .. 255
      /\ Len(octets) % 256 = 4
  <2>1. ~ (\/ \E p \in 2 .. Len(str) : str[p] \notin Digit \cup {Dot}
           \/ \E k \in DOMAIN octets : octets[k] \notin 0 .. 255
           \/ Len(octets) % 256 # 4)
    BY Zenon DEF iptoui
  <2> QED BY <2>1
<1>3. /\ str[1] \in Digit /\ str[N] # Dot
      /\ \A p \in 1 .. N - 1 : ~ (str[p] = Dot /\ str[p + 1] = Dot)
      /\ \A p \in Starts(str) : ~ (p < N /\ str[p] = 0 /\ str[p + 1] \in Digit)
      /\ ~ (Cardinality(Starts(str)) > 255)
  BY DEF Mistaken, Last
<1>4. IsFiniteSet(dots) /\ Cardinality(dots) = 3
  <2>1. Starts(str) = {p + 1 : p \in dots} \cup {1}
    <3>1. ASSUME NEW p \in Starts(str) PROVE p \in {q + 1 : q \in dots} \cup {1}
      <4>1. p \in 1 .. N /\ (p = 1 \/ str[p - 1] = Dot)
        BY <1>1 DEF Starts
      <4>2. CASE p # 1
        <5>1. p - 1 \in 1 .. N /\ (p - 1) + 1 = p
          BY <4>1, <4>2
        <5>2. p - 1 \in dots
          BY <1>1, <4>1, <4>2, <5>1
        <5> HIDE DEF dots
        <5> QED BY <5>1, <5>2
      <4> QED BY <4>2
    <3>2. ASSUME NEW q \in dots PROVE q + 1 \in Starts(str)
      <4>1. q \in 1 .. N /\ str[q] = Dot /\ q # N
        BY <1>1, <1>3
      <4>2. q + 1 \in DOMAIN str /\ (q + 1) - 1 = q
        BY <1>1, <4>1
      <4> QED BY <4>1, <4>2 DEF Starts
    <3>3. 1 \in Starts(str)
      BY <1>1 DEF Starts
    <3> HIDE DEF dots
    <3> QED BY <3>1, <3>2, <3>3
  <2>2. IsFiniteSet(Starts(str)) /\ Cardinality(Starts(str)) \in Nat
    <3>1. IsFiniteSet(1 .. N)
      BY <1>1, FS_Interval
    <3>2. Starts(str) \in SUBSET (1 .. N)
      BY <1>1 DEF Starts
    <3> QED BY <3>1, <3>2, FS_Subset, FS_CardinalityType
  <2>3. Cardinality(Starts(str)) = 4
    <3>1. PICK c \in Nat : c = Cardinality(Starts(str))
      BY <2>2
    <3>2. Len(octets) = c
      BY <3>1 DEF Octets
    <3>3. c % 256 = 4 /\ c <= 255
      BY <1>2, <1>3, <3>1, <3>2
    <3> QED BY <3>1, <3>3
  <2> DEFINE R == Starts(str) \ {1}
             f == [q \in R |-> q - 1]
  <2>4. IsFiniteSet(R) /\ Cardinality(R) = 3
    <3>1. 1 \in Starts(str)
      BY <2>1
    <3>2. /\ IsFiniteSet(Starts(str) \ {1})
          /\ Cardinality(Starts(str) \ {1}) = Cardinality(Starts(str)) - 1
      BY <2>2, <3>1, FS_RemoveElement
    <3> QED BY <2>3, <3>2
  <2>5. f \in Bijection(R, dots)
    <3>1. \A q \in dots : q \in Nat /\ q >= 1
      BY <1>1
    <3>2. R = {p + 1 : p \in dots}
      BY <2>1, <3>1
    <3> HIDE DEF R, dots
    <3>3. f \in [R -> dots] /\ \A a, b \in R : f[a] = f[b] => a = b
      BY <3>1, <3>2
    <3>4. ASSUME NEW q \in dots PROVE \E r \in R : f[r] = q
      <4>1. q + 1 \in R /\ (q + 1) - 1 = q
        BY <3>1, <3>2
      <4>2. f[q + 1] = (q + 1) - 1
        BY <4>1
      <4> HIDE DEF f
      <4> QED BY <4>1, <4>2
    <3> HIDE DEF f
    <3>5. DOMAIN f = R
      BY <3>3
    <3>6. f \in Injection(R, dots) /\ f \in Surjection(R, dots)
      BY <3>3, <3>4, <3>5, Zenon DEF Injection, Surjection, IsInjective
    <3> QED BY <3>6 DEF Bijection
  <2>6. ExistsBijection(R, dots)
    BY <2>5 DEF ExistsBijection
  <2> HIDE DEF R, dots
  <2> QED BY <2>4, <2>6, FS_Bijection
<1>5. PICK x \in dots, y \in dots, z \in dots : x < y /\ y < z /\ dots = {x, y, z}
  <2>1. PICK f \in Bijection(1 .. 3, dots) : TRUE
    BY <1>4, FS_CardinalityType DEF ExistsBijection
  <2>2. /\ f \in [1 .. 3 -> dots]
        /\ \A a, b \in 1 .. 3 : f[a] = f[b] => a = b
        /\ \A p \in dots : \E k \in 1 .. 3 : f[k] = p
    BY <2>1 DEF Bijection, Injection, Surjection, IsInjective
  <2>3. \A p \in dots : p \in Nat
    BY <1>1
  <2> HIDE DEF dots
  <2>4. PICK a \in dots, b \in dots, c \in dots : a = f[1] /\ b = f[2] /\ c = f[3]
    BY <2>2
  <2>5. a # b /\ a # c /\ b # c /\ a \in Nat /\ b \in Nat /\ c \in Nat
    BY <2>2, <2>3, <2>4
  <2>6. dots = {a, b, c}
    <3>1. ASSUME NEW p \in dots PROVE p \in {a, b, c}
      <4>1. PICK k \in 1 .. 3 : f[k] = p
        BY <2>2
      <4>2. k = 1 \/ k = 2 \/ k = 3
        OBVIOUS
      <4> QED BY <2>4, <4>1, <4>2, Zenon
    <3> QED BY <3>1
  <2>7. \/ (a < b /\ b < c) \/ (a < c /\ c < b) \/ (b < a /\ a < c)
        \/ (b < c /\ c < a) \/ (c < a /\ a < b) \/ (c < b /\ b < a)
    BY <2>5
  <2> QED BY <2>6, <2>7
<1>6. /\ x \in 1 .. N /\ y \in 1 .. N /\ z \in 1 .. N
      /\ str[x] = Dot /\ str[y] = Dot /\ str[z] = Dot
      /\ \A p \in 1 .. N : p \notin {x, y, z} => str[p] # Dot
  BY <1>1, <1>5
<1> HIDE DEF dots
<1>7. Laid(str, x, y, z)
  <2>1. x # 1 /\ z # N
    BY <1>3, <1>6 DEF Dot, Digit
  <2>2. x + 1 # y
    <3>1. x \in 1 .. N - 1
      BY <1>1, <1>5, <1>6
    <3> QED BY <1>3, <1>6, <3>1
  <2>3. y + 1 # z
    <3>1. y \in 1 .. N - 1
      BY <1>1, <1>5, <1>6
    <3> QED BY <1>3, <1>6, <3>1
  <2>4. /\ x \in Nat /\ y \in Nat /\ z \in Nat
        /\ 1 < x /\ x + 1 < y /\ y + 1 < z /\ z < N
    <3>1. x \in 1 .. N /\ y \in 1 .. N /\ z \in 1 .. N /\ x < y /\ y < z
      BY <1>5, <1>6
    <3> HIDE DEF N
    <3> QED BY <1>1, <2>1, <2>2, <2>3, <3>1
  <2>5. ASSUME NEW p \in 1 .. N, p \notin {x, y, z} PROVE str[p] \in Digit
    <3>1. p = 1 \/ p \in 2 .. N
      BY <1>1
    <3>2. str[p] # Dot
      BY <1>6, <2>5, Zenon
    <3> QED BY <1>2, <1>3, <3>1, <3>2
  <2> QED BY <1>6, <2>4, <2>5 DEF Laid
<1>8. /\ x \in Nat /\ y \in Nat /\ z \in Nat
      /\ 1 < x /\ x + 1 < y /\ y + 1 < z /\ z < N
  BY <1>7 DEF Laid
<1>9. /\ Value(SubSeq(str, 1, x - 1)) <= 255 /\ Value(SubSeq(str, x + 1, y - 1)) <= 255
      /\ Value(SubSeq(str, y + 1, z - 1)) <= 255 /\ Value(SubSeq(str, z + 1, N)) <= 255
  <2>1. /\ DOMAIN octets = 1 .. 4
        /\ octets[1] = Value(SubSeq(str, 1, x - 1)) /\ octets[2] = Value(SubSeq(str, x + 1, y - 1))
        /\ octets[3] = Value(SubSeq(str, y + 1, z - 1)) /\ octets[4] = Value(SubSeq(str, z + 1, N))
    BY <1>7, OctetsLaid
  <2> HIDE DEF octets
  <2>2. octets[1] \in 0 .. 255 /\ octets[2] \in 0 .. 255 /\ octets[3] \in 0 .. 255 /\ octets[4] \in 0 .. 255
    BY <1>2, <2>1
  <2>3. octets[1] <= 255 /\ octets[2] <= 255 /\ octets[3] <= 255 /\ octets[4] <= 255
    <3>1. \A v \in 0 .. 255 : v <= 255
      OBVIOUS
    <3> QED BY <2>2, <3>1, Zenon
  <2> QED BY <2>1, <2>3, Zenon
<1>10. ASSUME NEW p \in 1 .. N, NEW q \in p .. N, p \in {1, x + 1, y + 1, z + 1},
              \A r \in p .. q : r \notin {x, y, z}, Value(SubSeq(str, p, q)) <= 255
       PROVE  SubSeq(str, p, q) \in OctetText
  <2> DEFINE d == SubSeq(str, p, q)
  <2>1. p \in 1 .. N + 1 /\ q \in p - 1 .. N
    BY <1>1
  <2>2. /\ d \in Seq(Char) /\ Len(d) = q - p + 1
        /\ \A m \in 1 .. q - p + 1 : d[m] = str[p + m - 1]
    BY <2>1, PartIs
  <2>3. \A r \in p .. q : str[r] \in Digit
    <3>1. ASSUME NEW r \in p .. q PROVE r \in 1 .. N /\ r \notin {x, y, z}
      <4>1. r \in 1 .. N
        BY <1>1
      <4> QED BY <1>10, <4>1, Zenon
    <3> QED BY <1>7, <3>1 DEF Laid
  <2> HIDE DEF d
  <2>4. \A m \in 1 .. Len(d) : d[m] \in Digit
    BY <1>1, <2>2, <2>3
  <2>5. d \in Seq(Digit)
    BY <2>2, <2>4
  <2>6. ASSUME Len(d) > 1 PROVE d[1] # 0
    <3>1. p < N /\ p + 1 \in p .. q /\ 1 \in 1 .. q - p + 1 /\ p + 1 - 1 = p
      BY <1>1, <2>2, <2>6
    <3>2. d[1] = str[p] /\ str[p + 1] \in Digit
      BY <2>2, <2>3, <3>1
    <3>3. p \in Starts(str)
      <4>1. p = 1 \/ p - 1 \in {x, y, z}
        BY <1>8, <1>10
      <4>2. p = 1 \/ str[p - 1] = Dot
        BY <1>6, <4>1
      <4> QED BY <1>1, <4>2 DEF Starts
    <3> QED BY <1>3, <3>1, <3>2, <3>3, Zenon
  <2>7. Len(d) > 0
    BY <1>1, <2>2
  <2>8. Value(d) <= 255
    BY <1>10 DEF d
  <2> QED BY <2>5, <2>6, <2>7, <2>8, DigitsOctet DEF d
<1>11. /\ SubSeq(str, 1, x - 1) \in OctetText /\ SubSeq(str, x + 1, y - 1) \in OctetText
       /\ SubSeq(str, y + 1, z - 1) \in OctetText /\ SubSeq(str, z + 1, N) \in OctetText
  <2>1. SubSeq(str, 1, x - 1) \in OctetText
    <3>1. 1 \in 1 .. N /\ x - 1 \in 1 .. N /\ \A r \in 1 .. x - 1 : r \notin {x, y, z}
      BY <1>1, <1>8
    <3> QED BY <1>9, <1>10, <3>1
  <2>2. SubSeq(str, x + 1, y - 1) \in OctetText
    <3>1. x + 1 \in 1 .. N /\ y - 1 \in x + 1 .. N /\ \A r \in x + 1 .. y - 1 : r \notin {x, y, z}
      BY <1>1, <1>8
    <3> QED BY <1>9, <1>10, <3>1
  <2>3. SubSeq(str, y + 1, z - 1) \in OctetText
    <3>1. y + 1 \in 1 .. N /\ z - 1 \in y + 1 .. N /\ \A r \in y + 1 .. z - 1 : r \notin {x, y, z}
      BY <1>1, <1>8
    <3> QED BY <1>9, <1>10, <3>1
  <2>4. SubSeq(str, z + 1, N) \in OctetText
    <3>1. z + 1 \in 1 .. N /\ N \in z + 1 .. N /\ \A r \in z + 1 .. N : r \notin {x, y, z}
      BY <1>1, <1>8
    <3> QED BY <1>9, <1>10, <3>1
  <2> QED BY <2>1, <2>2, <2>3, <2>4
<1>12. x \in dots /\ y \in dots /\ z \in dots /\ x < y /\ y < z
  BY <1>5
<1> HIDE DEF N
<1>13. \E i1, i2, i3 \in dots :
         /\ i1 < i2 /\ i2 < i3
         /\ {SubSeq(str, 1, i1 - 1), SubSeq(str, i1 + 1, i2 - 1),
             SubSeq(str, i2 + 1, i3 - 1), SubSeq(str, i3 + 1, Len(str))} \subseteq OctetText
  <2>1. {SubSeq(str, 1, x - 1), SubSeq(str, x + 1, y - 1),
         SubSeq(str, y + 1, z - 1), SubSeq(str, z + 1, Len(str))} \subseteq OctetText
    BY <1>11, Zenon DEF N
  <2> QED BY <1>12, <2>1
<1> QED BY <1>13, Zenon DEF Address, dots
(* Any text is read as it should be.                                       *)
LEMMA TextReads ==
  ASSUME NEW str \in Seq(Char), str # <<>>
  PROVE  ReadsAddress(str)
<1> DEFINE dots == {p \in DOMAIN str : str[p] = Dot}
<1>1. ASSUME Address(str)
      PROVE  iptoui(str) = iptoi(str) /\ uitoip(iptoui(str)) = str
  <2>1. PICK x \in dots, y \in dots, z \in dots :
          /\ x < y /\ y < z
          /\ {SubSeq(str, 1, x - 1), SubSeq(str, x + 1, y - 1),
              SubSeq(str, y + 1, z - 1), SubSeq(str, z + 1, Len(str))} \subseteq OctetText
    BY <1>1, Zenon DEF Address
  <2>2. /\ SubSeq(str, 1, x - 1) \in OctetText /\ SubSeq(str, x + 1, y - 1) \in OctetText
        /\ SubSeq(str, y + 1, z - 1) \in OctetText /\ SubSeq(str, z + 1, Len(str)) \in OctetText
    BY <2>1, Zenon
  <2>3. /\ x \in 1 .. Len(str) /\ y \in 1 .. Len(str) /\ z \in 1 .. Len(str)
        /\ str[x] = Dot /\ str[y] = Dot /\ str[z] = Dot
    OBVIOUS
  <2>4. Laid(str, x, y, z)
    <3> HIDE DEF dots
    <3> QED BY <2>1, <2>2, <2>3, PartsLaid
  <2>5. /\ \E o \in 0 .. 255 : SubSeq(str, 1, x - 1) = uitoa(o)
        /\ \E o \in 0 .. 255 : SubSeq(str, x + 1, y - 1) = uitoa(o)
        /\ \E o \in 0 .. 255 : SubSeq(str, y + 1, z - 1) = uitoa(o)
        /\ \E o \in 0 .. 255 : SubSeq(str, z + 1, Len(str)) = uitoa(o)
    <3>1. \A d \in OctetText : \E o \in 0 .. 255 : d = uitoa(o)
      BY DEF OctetText
    <3> QED BY <2>2, <3>1, Zenon
  <2>6. PICK n \in [1 .. 4 -> 0 .. 255] :
          /\ SubSeq(str, 1, x - 1) = uitoa(n[1]) /\ SubSeq(str, x + 1, y - 1) = uitoa(n[2])
          /\ SubSeq(str, y + 1, z - 1) = uitoa(n[3]) /\ SubSeq(str, z + 1, Len(str)) = uitoa(n[4])
    <3>1. PICK n1 \in 0 .. 255 : SubSeq(str, 1, x - 1) = uitoa(n1)
      BY <2>5, Zenon
    <3>2. PICK n2 \in 0 .. 255 : SubSeq(str, x + 1, y - 1) = uitoa(n2)
      BY <2>5, Zenon
    <3>3. PICK n3 \in 0 .. 255 : SubSeq(str, y + 1, z - 1) = uitoa(n3)
      BY <2>5, Zenon
    <3>4. PICK n4 \in 0 .. 255 : SubSeq(str, z + 1, Len(str)) = uitoa(n4)
      BY <2>5, Zenon
    <3> DEFINE n == [k \in 1 .. 4 |-> IF k = 1 THEN n1 ELSE IF k = 2 THEN n2 ELSE IF k = 3 THEN n3 ELSE n4]
    <3>5. n \in [1 .. 4 -> 0 .. 255] /\ n[1] = n1 /\ n[2] = n2 /\ n[3] = n3 /\ n[4] = n4
      OBVIOUS
    <3> HIDE DEF n
    <3> QED BY <3>1, <3>2, <3>3, <3>4, <3>5, Zenon
  <2>7. Writes(str, x, y, z, n)
    BY <2>4, <2>6, Zenon DEF Writes
  <2> QED BY <2>7, WrittenRead
<1>2. ASSUME iptoui(str) # Bad, str[1] \in Digit \cup {Dot}
      PROVE  Address(str) \/ Mistaken(str)
  BY <1>2, ReadIsAddress
<1> QED BY <1>1, <1>2, Zenon DEF ReadsAddress

(* A part of a text is known by its length and its characters.             *)
LEMMA PartEq ==
  ASSUME NEW t \in Seq(Char), NEW u \in Seq(Char), NEW a \in Nat, a + Len(u) <= Len(t),
         \A m \in 1 .. Len(u) : t[a + m] = u[m]
  PROVE  SubSeq(t, a + 1, a + Len(u)) = u
<1>1. Len(t) \in Nat /\ Len(u) \in Nat
  OBVIOUS
<1> DEFINE part == SubSeq(t, a + 1, a + Len(u))
<1>2. part \in Seq(Char) /\ Len(part) = Len(u) /\ \A m \in 1 .. Len(u) : part[m] = t[a + m]
  <2>1. /\ a + 1 \in 1 .. Len(t) + 1 /\ a + Len(u) \in (a + 1) - 1 .. Len(t)
        /\ (a + Len(u)) - (a + 1) + 1 = Len(u)
        /\ \A m \in 1 .. Len(u) : (a + 1) + m - 1 = a + m
    BY <1>1
  <2> QED BY <2>1, PartIs
<1> HIDE DEF part
<1>3. part = u
  <2>1. \A m \in 1 .. Len(part) : part[m] = u[m]
    BY <1>2
  <2> QED BY <1>2, <2>1, SeqEqual
<1> QED BY <1>3 DEF part

(* What uitoip() writes.                                                   *)
LEMMA uitoipWrites ==
  ASSUME NEW n \in [1 .. 4 -> 0 .. 255]
  PROVE  /\ uitoip(n) \in Seq(Char) /\ \A m \in 1 .. Len(uitoip(n)) : uitoip(n)[m] # Slash
         /\ \E x, y, z : Writes(uitoip(n), x, y, z, n)
<1>1. n[1] \in 0 .. 255 /\ n[2] \in 0 .. 255 /\ n[3] \in 0 .. 255 /\ n[4] \in 0 .. 255
  OBVIOUS
<1>2. PICK u1, u2, u3, u4 : u1 = uitoa(n[1]) /\ u2 = uitoa(n[2]) /\ u3 = uitoa(n[3]) /\ u4 = uitoa(n[4])
  OBVIOUS
<1>3. /\ u1 \in Seq(Digit) /\ Len(u1) \in 1 .. 3 /\ u2 \in Seq(Digit) /\ Len(u2) \in 1 .. 3
      /\ u3 \in Seq(Digit) /\ Len(u3) \in 1 .. 3 /\ u4 \in Seq(Digit) /\ Len(u4) \in 1 .. 3
  BY <1>1, <1>2, OctetDigits, Zenon
<1>4. u1 \in Seq(Char) /\ u2 \in Seq(Char) /\ u3 \in Seq(Char) /\ u4 \in Seq(Char)
  <2>1. \A d \in Digit : d \in Char
    BY DEF Digit, Char
  <2>2. ASSUME NEW d \in Seq(Digit) PROVE d \in Seq(Char)
    <3>1. \A m \in 1 .. Len(d) : d[m] \in Char
      BY <2>1
    <3> QED BY <3>1
  <2> QED BY <1>3, <2>2
<1> DEFINE v == Join(u1, u2)
           w == Join(u3, u4)
           t == Join(v, w)
<1>5. /\ v \in Seq(Char) /\ Len(v) = Len(u1) + 1 + Len(u2)
      /\ \A m \in 1 .. Len(u1) : v[m] = u1[m]
      /\ v[Len(u1) + 1] = Dot
      /\ \A m \in 1 .. Len(u2) : v[Len(u1) + 1 + m] = u2[m]
  BY <1>4, JoinIs, Zenon
<1>6. /\ w \in Seq(Char) /\ Len(w) = Len(u3) + 1 + Len(u4)
      /\ \A m \in 1 .. Len(u3) : w[m] = u3[m]
      /\ w[Len(u3) + 1] = Dot
      /\ \A m \in 1 .. Len(u4) : w[Len(u3) + 1 + m] = u4[m]
  BY <1>4, JoinIs, Zenon
<1> HIDE DEF v, w
<1>7. /\ t \in Seq(Char) /\ Len(t) = Len(v) + 1 + Len(w)
      /\ \A m \in 1 .. Len(v) : t[m] = v[m]
      /\ t[Len(v) + 1] = Dot
      /\ \A m \in 1 .. Len(w) : t[Len(v) + 1 + m] = w[m]
  BY <1>5, <1>6, JoinIs, Zenon
<1>8. t = uitoip(n)
  BY <1>2 DEF uitoip, v, w
<1> HIDE DEF t
<1>9. PICK x \in Nat, y \in Nat, z \in Nat :
        x = Len(u1) + 1 /\ y = x + Len(u2) + 1 /\ z = y + Len(u3) + 1
  BY <1>3
<1>10. Len(t) = z + Len(u4) /\ Len(v) + 1 = y /\ Len(u1) + 1 = x
  BY <1>3, <1>5, <1>6, <1>7, <1>9
<1>11. /\ \A m \in 1 .. Len(u1) : t[0 + m] = u1[m]
       /\ \A m \in 1 .. Len(u2) : t[x + m] = u2[m]
       /\ \A m \in 1 .. Len(u3) : t[y + m] = u3[m]
       /\ \A m \in 1 .. Len(u4) : t[z + m] = u4[m]
       /\ t[x] = Dot /\ t[y] = Dot /\ t[z] = Dot
  <2>1. ASSUME NEW m \in 1 .. Len(u1) PROVE t[0 + m] = u1[m]
    <3>1. m \in 1 .. Len(v) /\ 0 + m = m
      BY <1>3, <1>5
    <3> QED BY <1>5, <1>7, <3>1
  <2>2. ASSUME NEW m \in 1 .. Len(u2) PROVE t[x + m] = u2[m]
    <3>1. x + m \in 1 .. Len(v)
      BY <1>3, <1>5, <1>9
    <3> QED BY <1>5, <1>7, <1>10, <3>1
  <2>3. ASSUME NEW m \in 1 .. Len(u3) PROVE t[y + m] = u3[m]
    <3>1. m \in 1 .. Len(w)
      BY <1>3, <1>6
    <3> QED BY <1>6, <1>7, <1>10, <3>1
  <2>4. ASSUME NEW m \in 1 .. Len(u4) PROVE t[z + m] = u4[m]
    <3>1. Len(u3) + 1 + m \in 1 .. Len(w) /\ y + (Len(u3) + 1 + m) = z + m
      BY <1>3, <1>6, <1>9
    <3>2. t[y + (Len(u3) + 1 + m)] = w[Len(u3) + 1 + m]
      BY <1>7, <1>10, <3>1
    <3> QED BY <1>6, <3>1, <3>2
  <2>5. t[x] = Dot /\ t[y] = Dot
    <3>1. x \in 1 .. Len(v)
      BY <1>3, <1>5, <1>9
    <3> QED BY <1>5, <1>7, <1>10, <3>1
  <2>6. t[z] = Dot
    <3>1. Len(u3) + 1 \in 1 .. Len(w) /\ y + (Len(u3) + 1) = z
      BY <1>3, <1>6, <1>9
    <3>2. t[y + (Len(u3) + 1)] = w[Len(u3) + 1]
      BY <1>7, <1>10, <3>1
    <3> QED BY <1>6, <3>1, <3>2
  <2> QED BY <2>1, <2>2, <2>3, <2>4, <2>5, <2>6
<1>12. 1 < x /\ x + 1 < y /\ y + 1 < z /\ z < Len(t) /\ Len(t) \in Nat
  <2>1. PICK l1 \in 1 .. 3, l2 \in 1 .. 3, l3 \in 1 .. 3, l4 \in 1 .. 3 :
          l1 = Len(u1) /\ l2 = Len(u2) /\ l3 = Len(u3) /\ l4 = Len(u4)
    BY <1>3, Zenon
  <2>2. x = l1 + 1 /\ y = x + l2 + 1 /\ z = y + l3 + 1 /\ Len(t) = z + l4
    BY <1>9, <1>10, <2>1, Zenon
  <2>3. \A c \in Nat : c = z + l4 =>
          /\ 1 < x /\ x + 1 < y /\ y + 1 < z /\ z < c
    BY <2>2
  <2> QED BY <1>7, <2>2, <2>3
<1>13. Laid(t, x, y, z)
  <2>1. ASSUME NEW p \in 1 .. Len(t), p \notin {x, y, z} PROVE t[p] \in Digit
    <3>1. \/ p \in 1 .. Len(u1)
          \/ p - x \in 1 .. Len(u2) /\ x + (p - x) = p
          \/ p - y \in 1 .. Len(u3) /\ y + (p - y) = p
          \/ p - z \in 1 .. Len(u4) /\ z + (p - z) = p
      BY <1>3, <1>9, <1>10, <2>1
    <3>2. /\ \A m \in 1 .. Len(u1) : u1[m] \in Digit /\ 0 + m = m
          /\ \A m \in 1 .. Len(u2) : u2[m] \in Digit
          /\ \A m \in 1 .. Len(u3) : u3[m] \in Digit
          /\ \A m \in 1 .. Len(u4) : u4[m] \in Digit
      BY <1>3
    <3>3. CASE p \in 1 .. Len(u1)
      <4>1. t[0 + p] \in Digit /\ 0 + p = p
        BY <1>11, <3>2, <3>3, Zenon
      <4> QED BY <4>1, Zenon
    <3>4. CASE p - x \in 1 .. Len(u2) /\ x + (p - x) = p
      <4>1. t[x + (p - x)] \in Digit
        BY <1>11, <3>2, <3>4, Zenon
      <4> QED BY <3>4, <4>1, Zenon
    <3>5. CASE p - y \in 1 .. Len(u3) /\ y + (p - y) = p
      <4>1. t[y + (p - y)] \in Digit
        BY <1>11, <3>2, <3>5, Zenon
      <4> QED BY <3>5, <4>1, Zenon
    <3>6. CASE p - z \in 1 .. Len(u4) /\ z + (p - z) = p
      <4>1. t[z + (p - z)] \in Digit
        BY <1>11, <3>2, <3>6, Zenon
      <4> QED BY <3>6, <4>1, Zenon
    <3> QED BY <3>1, <3>3, <3>4, <3>5, <3>6, Zenon
  <2> QED BY <1>11, <1>12, <2>1 DEF Laid
<1>14. /\ SubSeq(t, 1, x - 1) = u1 /\ SubSeq(t, x + 1, y - 1) = u2
       /\ SubSeq(t, y + 1, z - 1) = u3 /\ SubSeq(t, z + 1, Len(t)) = u4
  <2>1. /\ 0 + Len(u1) <= Len(t) /\ x + Len(u2) <= Len(t) /\ y + Len(u3) <= Len(t) /\ z + Len(u4) <= Len(t)
        /\ 0 + 1 = 1 /\ 0 + Len(u1) = x - 1 /\ x + Len(u2) = y - 1
        /\ y + Len(u3) = z - 1 /\ z + Len(u4) = Len(t)
    BY <1>3, <1>9, <1>10
  <2>2. SubSeq(t, 0 + 1, 0 + Len(u1)) = u1
    BY <1>4, <1>7, <1>11, <2>1, PartEq
  <2>3. SubSeq(t, x + 1, x + Len(u2)) = u2
    BY <1>4, <1>7, <1>11, <2>1, PartEq
  <2>4. SubSeq(t, y + 1, y + Len(u3)) = u3
    BY <1>4, <1>7, <1>11, <2>1, PartEq
  <2>5. SubSeq(t, z + 1, z + Len(u4)) = u4
    BY <1>4, <1>7, <1>11, <2>1, PartEq
  <2> QED BY <2>1, <2>2, <2>3, <2>4, <2>5, Zenon
<1>15. Writes(t, x, y, z, n)
  BY <1>2, <1>13, <1>14 DEF Writes
<1>16. \A m \in 1 .. Len(t) : t[m] # Slash
  <2>1. \A m \in 1 .. Len(t) : t[m] = Dot \/ t[m] \in Digit
    BY <1>13, Zenon DEF Laid
  <2>2. Dot # Slash /\ Slash \notin Digit
    BY DEF Dot, Slash, Digit
  <2> QED BY <2>1, <2>2, Zenon
<1> QED BY <1>7, <1>8, <1>15, <1>16

(* A text that is read as an address is four octets.                       *)
LEMMA TextOctets ==
  ASSUME NEW str \in Seq(Char), iptoui(str) # Bad
  PROVE  iptoui(str) \in [1 .. 4 -> 0 .. 255]
<1>1. PICK n : n = Cardinality(Starts(str))
  OBVIOUS
<1>2. n \in Nat
  <2>1. IsFiniteSet(DOMAIN str)
    BY FS_Interval
  <2>2. Starts(str) \subseteq DOMAIN str
    BY DEF Starts
  <2>3. IsFiniteSet(Starts(str))
    BY <2>1, <2>2, FS_Subset
  <2> QED BY <1>1, <2>3, FS_CardinalityType
<1>3. PICK octets : octets = Octets(str)
  OBVIOUS
<1>4. DOMAIN octets = 1 .. n /\ Len(octets) = n
  BY <1>1, <1>2, <1>3 DEF Octets
<1>5. /\ \A k \in DOMAIN octets : octets[k] \in 0 .. 255
      /\ Len(octets) % 256 = 4
      /\ iptoui(str) = [k \in 1 .. 4 |-> octets[Len(octets) - 4 + k]]
  BY <1>3 DEF iptoui
<1>6. n >= 4
  <2>1. n % 256 = 4
    BY <1>4, <1>5
  <2> QED BY <1>2, <2>1
<1>7. \A k \in 1 .. 4 : octets[Len(octets) - 4 + k] \in 0 .. 255
  <2> TAKE k \in 1 .. 4
  <2>1. n - 4 + k \in 1 .. n
    BY <1>2, <1>6
  <2>2. n - 4 + k \in DOMAIN octets /\ Len(octets) = n
    BY <2>1, <1>4
  <2> QED BY <2>2, <1>5
<1> QED BY <1>5, <1>7

-----------------------------------------------------------------------------
(* Address objects *)

Addresses    == [1 .. 4 -> 0 .. 255]
IsNetmask(m) == \E l \in 0 .. 32 : m = [addr |-> Mask(l), length |-> l]
IsNetwork(n) == \E a \in Addresses, l \in 0 .. 32 : validIPNetwork(a, l) /\ n = Network(a, l)

(* IPNetmask::set() of a valid netmask.                                    *)
LEMMA NetmaskSet ==
  ASSUME NEW m \in [1 .. 4 -> 0 .. 255], validIPNetmask(m)
  PROVE  IsNetmask(Netmask(m)) /\ Netmask(m).addr = m
<1>1. PICK l \in 0 .. 32 : m = Mask(l)
  BY ValidIsMask
<1>2. LeadingOnes(m) = l
  BY <1>1, MaskOfLength
<1> QED BY <1>1, <1>2 DEF Netmask, IsNetmask

(* That of a length is one.                                                *)
LEMMA NetmaskOfLength ==
  ASSUME NEW l \in 0 .. 32
  PROVE  /\ Mask(l) \in [1 .. 4 -> 0 .. 255] /\ validIPNetmask(Mask(l))
         /\ Netmask(Mask(l)) = [addr |-> Mask(l), length |-> l]
<1>1. \A k \in 1 .. 4 : Mask(l)[k] \in 0 .. 255
  <2> TAKE k \in 1 .. 4
  <2>1. Share(l, k) \in 0 .. 8 /\ Mask(l)[k] = Form(Share(l, k))
    BY MaskOctets
  <2>2. \A f \in 0 .. 8 : Form(f) \in 0 .. 255
    BY DEF Form, Weight
  <2> QED BY <2>1, <2>2
<1>2. Mask(l) \in [1 .. 4 -> 0 .. 255]
  BY <1>1 DEF Mask
<1> QED BY <1>2, MaskOfLength DEF Netmask

(* An address is read back from its text.                                  *)
LEMMA AddressReads ==
  ASSUME NEW a \in Addresses
  PROVE  /\ uitoip(a) \in Seq(Char) /\ \A m \in 1 .. Len(uitoip(a)) : uitoip(a)[m] # Slash
         /\ iptoui(uitoip(a)) = a
<1>1. a \in [1 .. 4 -> 0 .. 255]
  BY DEF Addresses
<1>2. /\ uitoip(a) \in Seq(Char) /\ \A m \in 1 .. Len(uitoip(a)) : uitoip(a)[m] # Slash
      /\ \E x, y, z : Writes(uitoip(a), x, y, z, a)
  BY <1>1, uitoipWrites, Zenon
<1>3. PICK x, y, z : Writes(uitoip(a), x, y, z, a)
  BY <1>2, Zenon
<1>4. iptoui(uitoip(a)) = a
  BY <1>1, <1>2, <1>3, WrittenRead, Zenon
<1> QED BY <1>2, <1>4, Zenon

(* So is a network.                                                        *)
LEMMA NetworkReads ==
  ASSUME NEW n, IsNetwork(n)
  PROVE  NetworkOf(toStr(n)) = n
<1>1. PICK a \in Addresses, l \in 0 .. 32 : validIPNetwork(a, l) /\ n = Network(a, l)
  BY DEF IsNetwork
<1>2. toStr(n) = uitoip(a) \o <<Slash>> \o uitoa(l)
  <2>1. n = [netaddr |-> a, netmask |-> [addr |-> Mask(l), length |-> l]]
    BY <1>1, NetmaskOfLength DEF Network
  <2>2. n.netaddr = a /\ n.netmask.length = l
    BY <2>1
  <2> QED BY <2>2 DEF toStr
<1>3. PICK u, w : u = uitoip(a) /\ w = uitoa(l)
  OBVIOUS
<1>4. /\ u \in Seq(Char) /\ \A m \in 1 .. Len(u) : u[m] # Slash
      /\ iptoui(u) = a
  BY <1>3, AddressReads, Zenon
<1>5. w \in Seq(Digit) /\ Len(w) \in 1 .. 3 /\ Value(w) = l
  <2>1. l \in 0 .. 255
    OBVIOUS
  <2> QED BY <1>3, <2>1, OctetDigits, Zenon
<1>6. w \in Seq(Char) /\ Slash \in Char /\ \A m \in 1 .. Len(w) : w[m] \in Digit /\ w[m] # Slash
  <2>1. \A d \in Digit : d \in Char /\ d # Slash
    BY DEF Digit, Char, Slash
  <2>2. Slash \in Char
    BY DEF Slash, Char
  <2>3. \A m \in 1 .. Len(w) : w[m] \in Digit
    BY <1>5
  <2>4. \A m \in 1 .. Len(w) : w[m] \in Char /\ w[m] # Slash
    BY <2>1, <2>3
  <2> QED BY <1>5, <2>2, <2>3, <2>4
<1> DEFINE s == u \o <<Slash>> \o w
<1>7. /\ s \in Seq(Char) /\ Len(s) = Len(u) + 1 + Len(w)
      /\ \A m \in 1 .. Len(u) : s[m] = u[m]
      /\ s[Len(u) + 1] = Slash
      /\ \A m \in 1 .. Len(w) : s[Len(u) + 1 + m] = w[m]
  BY <1>4, <1>6, Between, Zenon
<1>8. toStr(n) = s
  BY <1>2, <1>3, Zenon
<1> HIDE DEF s
<1>9. PICK k \in Nat : k = Len(u) + 1 /\ Len(s) = k + Len(w) /\ k - 1 = Len(u) /\ k \in 1 .. Len(s)
  <2>1. Len(u) \in Nat
    BY <1>4
  <2>2. Len(w) \in Nat
    BY <1>5
  <2> QED BY <1>7, <2>1, <2>2
<1>10. {p \in DOMAIN s : s[p] = Slash} = {k}
  <2>1. ASSUME NEW p \in DOMAIN s, p # k PROVE s[p] # Slash
    <3>1. p \in 1 .. Len(s)
      BY <1>7
    <3>2. p \in 1 .. Len(u) \/ (p - k \in 1 .. Len(w) /\ k + (p - k) = p)
      <4>1. Len(u) \in Nat /\ Len(w) \in Nat
        BY <1>4, <1>5
      <4> QED BY <1>9, <2>1, <3>1, <4>1
    <3>3. CASE p \in 1 .. Len(u)
      BY <1>4, <1>7, <3>3, Zenon
    <3>4. CASE p - k \in 1 .. Len(w) /\ k + (p - k) = p
      <4>1. s[k + (p - k)] = w[p - k]
        BY <1>7, <1>9, <3>4, Zenon
      <4> QED BY <1>6, <3>4, <4>1, Zenon
    <3> QED BY <3>2, <3>3, <3>4
  <2>2. k \in DOMAIN s /\ s[k] = Slash
    BY <1>7, <1>9
  <2> QED BY <2>1, <2>2
<1>11. SubSeq(s, 1, k - 1) = u
  <2>1. 0 + Len(u) <= Len(s) /\ 0 + 1 = 1 /\ 0 + Len(u) = k - 1 /\ \A m \in 1 .. Len(u) : 0 + m = m
    BY <1>4, <1>5, <1>9
  <2>2. \A m \in 1 .. Len(u) : s[0 + m] = u[m]
    BY <1>7, <2>1, Zenon
  <2>3. SubSeq(s, 0 + 1, 0 + Len(u)) = u
    BY <1>4, <1>7, <2>1, <2>2, PartEq
  <2> QED BY <2>1, <2>3, Zenon
<1>12. SubSeq(s, k + 1, Len(s)) = w
  <2>1. k + Len(w) <= Len(s)
    BY <1>5, <1>9
  <2>2. \A m \in 1 .. Len(w) : s[k + m] = w[m]
    BY <1>7, <1>9, Zenon
  <2>3. SubSeq(s, k + 1, k + Len(w)) = w
    BY <1>6, <1>7, <2>1, <2>2, PartEq
  <2> QED BY <1>9, <2>3, Zenon
<1>13. atoi(s, k + 1) = l
  <2>1. k + 1 \in 1 .. Len(s) /\ Len(s) \in k + 1 .. Len(s)
    <3>1. PICK c \in 1 .. 3 : c = Len(w)
      BY <1>5
    <3>2. Len(s) = k + c
      BY <1>9, <3>1
    <3> QED BY <3>2
  <2>2. ASSUME NEW r \in k + 1 .. Len(s) PROVE s[r] \in Digit
    <3>1. r - k \in 1 .. Len(w) /\ k + (r - k) = r
      BY <1>5, <1>9
    <3>2. s[k + (r - k)] = w[r - k]
      BY <1>7, <1>9, <3>1, Zenon
    <3> QED BY <1>6, <3>1, <3>2, Zenon
  <2>3. atoi(s, k + 1) = Value(SubSeq(s, k + 1, Len(s)))
    BY <1>7, <2>1, <2>2, atoiIs
  <2> QED BY <1>5, <1>12, <2>3, Zenon
<1>14. Len(s) - k = Len(uitoa(l))
  BY <1>3, <1>5, <1>9
<1>15. a # Bad
  BY DEF Addresses, Bad
<1>16. NetworkOf(s) = Network(a, l)
  <2> DEFINE slashes == {p \in DOMAIN s : s[p] = Slash}
             slash   == CHOOSE p \in slashes : \A q \in slashes : p <= q
  <2>1. slashes = {k}
    BY <1>10
  <2>2. slash = k /\ slashes # {}
    BY <2>1
  <2> HIDE DEF slashes, slash
  <2>3. iptoui(SubSeq(s, 1, slash - 1)) = a /\ atoi(s, slash + 1) = l /\ Len(s) - slash = Len(uitoa(l))
    BY <1>4, <1>11, <1>13, <1>14, <2>2, Zenon
  <2>4. NetworkOf(s) =
          IF slashes # {} /\ iptoui(SubSeq(s, 1, slash - 1)) # Bad /\ atoi(s, slash + 1) \in 0 .. 32
          THEN IF Len(s) - slash = Len(uitoa(atoi(s, slash + 1)))
                    /\ validIPNetwork(iptoui(SubSeq(s, 1, slash - 1)), atoi(s, slash + 1))
               THEN Network(iptoui(SubSeq(s, 1, slash - 1)), atoi(s, slash + 1)) ELSE Bad
          ELSE Bad
    BY Zenon DEF NetworkOf, slashes, slash
  <2> QED BY <1>1, <1>15, <2>2, <2>3, <2>4, Zenon
<1> QED BY <1>1, <1>8, <1>16, Zenon
(* The network of an address, from which the bits outside the netmask are  *)
(* taken away.                                                             *)
LEMMA OwnWithin ==
  ASSUME NEW a \in Addresses, NEW m \in Addresses
  PROVE  [k \in 1 .. 4 |-> a[k] - Outside(a, m)[k]] \in Addresses
<1>1. \A k \in 1 .. 4 : a[k] \in 0 .. 255 /\ m[k] \in 0 .. 255
  BY DEF Addresses
<1>2. ASSUME NEW o \in 0 .. 255, NEW n \in 1 .. 256
      PROVE  o - (o % n) \in 0 .. 255
  <2>1. n \in Nat \ {0} /\ o \in Int
    OBVIOUS
  <2>2. o % n \in 0 .. n - 1
    BY <2>1, ModInRange
  <2>3. CASE o < n
    <3>1. o \in 0 .. n - 1
      BY <2>3
    <3>2. o % n = o
      BY <2>1, <3>1, ModBelow
    <3> QED BY <2>1, <3>2
  <2>4. CASE n <= o
    <3>1. PICK r \in 0 .. n - 1 : r = o % n
      BY <2>2
    <3>2. o - r \in 0 .. 255
      BY <2>4
    <3> QED BY <3>1, <3>2
  <2> QED BY <2>3, <2>4
<1>3. ASSUME NEW k \in 1 .. 4 PROVE a[k] - Outside(a, m)[k] \in 0 .. 255
  <2>1. PICK e \in 0 .. 255, o \in 0 .. 255 : e = m[k] /\ o = a[k]
    BY <1>1
  <2>2. PICK n \in 1 .. 256 : n = 256 - e
    OBVIOUS
  <2>3. Outside(a, m)[k] = o % n
    BY <2>1, <2>2 DEF Outside
  <2> QED BY <1>2, <2>1, <2>3, Zenon
<1> QED BY <1>3 DEF Addresses

(* Every address is four octets, every netmask is that of its length, and  *)
(* no network has a bit outside its netmask.                               *)
NetmaskInv ==
  /\ addr \in Addresses /\ IsNetmask(mask) /\ DOMAIN nets = NetworkName
  /\ \A x \in NetworkName : IsNetwork(nets[x])

(* What a network is, by its parts.                                        *)
LEMMA NetworkParts ==
  ASSUME NEW n, IsNetwork(n)
  PROVE  \E l \in 0 .. 32 :
           /\ n.netaddr \in Addresses /\ n.netmask = [addr |-> Mask(l), length |-> l]
           /\ Within(n.netaddr, n.netmask.addr) /\ n = [netaddr |-> n.netaddr, netmask |-> n.netmask]
<1>1. PICK a \in Addresses, l \in 0 .. 32 : validIPNetwork(a, l) /\ n = Network(a, l)
  BY DEF IsNetwork
<1>2. n = [netaddr |-> a, netmask |-> [addr |-> Mask(l), length |-> l]]
  BY <1>1, NetmaskOfLength DEF Network
<1>3. Within(a, Mask(l))
  BY <1>1 DEF validIPNetwork
<1> QED BY <1>2, <1>3

(* The network that text is read as.                                       *)
LEMMA NetworkOfText ==
  ASSUME NEW str \in Seq(Char), NetworkOf(str) # Bad
  PROVE  IsNetwork(NetworkOf(str))
<1> DEFINE slashes == {p \in DOMAIN str : str[p] = Slash}
           slash   == CHOOSE p \in slashes : \A q \in slashes : p <= q
           a       == iptoui(SubSeq(str, 1, slash - 1))
           plen    == atoi(str, slash + 1)
<1>1. slashes # {} /\ a # Bad /\ plen \in 0 .. 32 /\ validIPNetwork(a, plen) /\ NetworkOf(str) = Network(a, plen)
  BY Zenon DEF NetworkOf
<1>2. slash \in 1 .. Len(str) /\ Len(str) \in Nat
  <2>1. Len(str) \in Nat /\ slashes \in SUBSET (0 .. Len(str))
    OBVIOUS
  <2>2. \E p \in slashes : \A q \in slashes : p <= q
    <3> HIDE DEF slashes
    <3> QED BY <1>1, <2>1, Least
  <2>3. slash \in slashes
    BY <2>2, Zenon
  <2> HIDE DEF slash
  <2> QED BY <2>1, <2>3
<1> HIDE DEF slash
<1>3. SubSeq(str, 1, slash - 1) \in Seq(Char)
  BY <1>2, PartIs
<1>4. a \in Addresses
  BY <1>1, <1>3, TextOctets DEF Addresses
<1> HIDE DEF a, plen
<1> QED BY <1>1, <1>4, Zenon DEF IsNetwork

(* A network that is set, or not set, leaves all of them valid.            *)
LEMMA NetworkStep ==
  ASSUME NetmaskInv, NEW x \in NetworkName, NEW network, SetNetwork(x, network),
         network # Bad => IsNetwork(network)
  PROVE  NetmaskInv'
<1>1. CASE network = Bad
  BY <1>1 DEF SetNetwork, Fail, NetmaskInv
<1>2. CASE network # Bad
  <2>1. nets' = [nets EXCEPT ![x] = network] /\ mask' = mask /\ addr' = addr
    BY <1>2 DEF SetNetwork
  <2> QED BY <1>2, <2>1 DEF NetmaskInv
<1> QED BY <1>1, <1>2

(* So does a network of an address and a length,                           *)
LEMMA NetworkOrBad ==
  ASSUME NetmaskInv, NEW x \in NetworkName, NEW a \in Addresses, NEW l,
         SetNetwork(x, IF validIPNetwork(a, l) THEN Network(a, l) ELSE Bad)
  PROVE  NetmaskInv'
<1>1. CASE validIPNetwork(a, l)
  <2>1. SetNetwork(x, Network(a, l)) /\ l \in 0 .. 32
    BY <1>1 DEF validIPNetwork
  <2>2. IsNetwork(Network(a, l))
    BY <1>1, <2>1 DEF IsNetwork
  <2> QED BY <2>1, <2>2, NetworkStep
<1>2. CASE ~ validIPNetwork(a, l)
  <2>1. SetNetwork(x, Bad)
    BY <1>2
  <2> QED BY <2>1, NetworkStep
<1> QED BY <1>1, <1>2

(* a netmask,                                                              *)
LEMMA MaskStep ==
  ASSUME NetmaskInv, NEW m \in Addresses, SetMask(m)
  PROVE  NetmaskInv'
<1>1. CASE validIPNetmask(m)
  <2>1. mask' = Netmask(m) /\ nets' = nets /\ addr' = addr
    BY <1>1 DEF SetMask
  <2>2. IsNetmask(Netmask(m))
    BY <1>1, NetmaskSet DEF Addresses
  <2> QED BY <2>1, <2>2 DEF NetmaskInv
<1>2. CASE ~ validIPNetmask(m)
  BY <1>2 DEF SetMask, NetmaskInv
<1> QED BY <1>1, <1>2

(* and a call with a text.                                                 *)
LEMMA TextStep ==
  ASSUME NetmaskInv, NEW str \in Seq(Char), SetAddressText(str) \/ SetMaskText(str)
  PROVE  NetmaskInv'
<1>1. Zero \in Addresses
  <2>1. Zero = [k \in 1 .. 4 |-> 0]
    BY DEF Zero
  <2> QED BY <2>1 DEF Addresses
<1>2. iptoui(str) # Bad => iptoui(str) \in Addresses
  BY TextOctets DEF Addresses
<1>3. CASE SetAddressText(str)
  <2>1. addr' = (IF iptoui(str) = Bad THEN Zero ELSE iptoui(str)) /\ mask' = mask /\ nets' = nets
    BY <1>3 DEF SetAddressText
  <2>2. addr' \in Addresses
    BY <1>1, <1>2, <2>1
  <2> QED BY <2>1, <2>2 DEF NetmaskInv
<1>4. CASE SetMaskText(str) /\ iptoui(str) = Bad
  BY <1>4 DEF SetMaskText, Fail, NetmaskInv
<1>5. CASE SetMaskText(str) /\ iptoui(str) # Bad
  <2>1. SetMask(iptoui(str))
    BY <1>5 DEF SetMaskText
  <2> QED BY <1>2, <1>5, <2>1, MaskStep
<1> QED BY <1>3, <1>4, <1>5

(* Every call preserves it.                                                *)
LEMMA NetmaskSteps ==
  ASSUME NetmaskInv, [IPNext]_ivars
  PROVE  NetmaskInv'
<1>1. ASSUME NEW a \in Addresses, SetAddress(a) \/ SetMask(a)
      PROVE  NetmaskInv'
  <2>1. CASE SetAddress(a)
    BY <2>1 DEF SetAddress, NetmaskInv
  <2>2. CASE SetMask(a)
    BY <2>2, MaskStep
  <2> QED BY <1>1, <2>1, <2>2
<1>2. ASSUME NEW a \in Number, SetAddress(a) \/ SetMask(a)
      PROVE  NetmaskInv'
  <2>1. a \in Addresses
    BY AddressAssumption DEF Addresses
  <2> QED BY <1>1, <1>2, <2>1
<1>3. ASSUME CopyAddress
      PROVE  NetmaskInv'
  <2>1. PICK x \in NetworkName : SetAddress(nets[x].netaddr)
    BY <1>3 DEF CopyAddress
  <2>2. IsNetwork(nets[x])
    BY DEF NetmaskInv
  <2>3. nets[x].netaddr \in Addresses
    BY <2>2, NetworkParts
  <2> QED BY <1>1, <2>1, <2>3
<1>4. ASSUME NEW length \in Length, setLength(length)
      PROVE  NetmaskInv'
  <2>1. CASE length \in 0 .. 32
    <3>1. Mask(length) \in Addresses /\ SetMask(Mask(length))
      BY <1>4, <2>1, NetmaskOfLength DEF setLength, Addresses
    <3> QED BY <3>1, MaskStep
  <2>2. CASE length \notin 0 .. 32
    BY <1>4, <2>2 DEF setLength, Fail, NetmaskInv
  <2> QED BY <2>1, <2>2
<1>5. ASSUME NEW str \in Text PROVE str \in Seq(Char)
  BY <1>5, AddressAssumption
<1>6. ASSUME NEW str \in Text, SetAddressText(str) \/ SetMaskText(str)
      PROVE  NetmaskInv'
  BY <1>5, <1>6, TextStep
<1>7. ASSUME NEW x \in NetworkName, NEW str \in Text, SetNetworkText(x, str)
      PROVE  NetmaskInv'
  <2>1. NetworkOf(str) # Bad => IsNetwork(NetworkOf(str))
    BY <1>5, NetworkOfText
  <2>2. SetNetwork(x, NetworkOf(str))
    BY <1>7 DEF SetNetworkText
  <2> QED BY <2>1, <2>2, NetworkStep
<1>8. ASSUME NEW x \in NetworkName, NEW length \in Length, SetNetworkLength(x, length)
      PROVE  NetmaskInv'
  <2>1. SetNetwork(x, IF validIPNetwork(addr, length) THEN Network(addr, length) ELSE Bad)
    BY <1>8 DEF SetNetworkLength
  <2>2. addr \in Addresses
    BY DEF NetmaskInv
  <2> QED BY <2>1, <2>2, NetworkOrBad
<1>9. ASSUME NEW x \in NetworkName, OwnNetwork(x)
      PROVE  NetmaskInv'
  <2> DEFINE a == [k \in 1 .. 4 |-> addr[k] - Outside(addr, mask.addr)[k]]
  <2>1. PICK l \in 0 .. 32 : mask = [addr |-> Mask(l), length |-> l]
    BY DEF NetmaskInv, IsNetmask
  <2>2. mask.addr \in Addresses /\ addr \in Addresses
    BY <2>1, NetmaskOfLength DEF NetmaskInv, Addresses
  <2>3. a \in Addresses
    BY <2>2, OwnWithin
  <2>4. SetNetwork(x, IF validIPNetwork(a, mask.length) THEN Network(a, mask.length) ELSE Bad)
    BY <1>9 DEF OwnNetwork
  <2> HIDE DEF a
  <2> QED BY <2>3, <2>4, NetworkOrBad
<1>10. ASSUME NEW x \in NetworkName, NEW y \in NetworkName \ {x}, CopyNetwork(x, y)
       PROVE  NetmaskInv'
  <2>1. IsNetwork(nets[y])
    BY DEF NetmaskInv
  <2>2. PICK l \in 0 .. 32 : /\ nets[y].netmask = [addr |-> Mask(l), length |-> l]
                             /\ nets[y] = [netaddr |-> nets[y].netaddr, netmask |-> nets[y].netmask]
    BY <2>1, NetworkParts, Zenon
  <2>3. Netmask(nets[y].netmask.addr) = nets[y].netmask
    <3>1. PICK m : m = nets[y].netmask
      OBVIOUS
    <3>2. m = [addr |-> Mask(l), length |-> l] /\ m.addr = Mask(l)
      BY <2>2, <3>1
    <3>3. Netmask(Mask(l)) = m
      BY <3>2, NetmaskOfLength
    <3> QED BY <3>1, <3>2, <3>3
  <2>4. SetNetwork(x, nets[y])
    BY <1>10, <2>2, <2>3 DEF CopyNetwork
  <2> QED BY <2>1, <2>4, NetworkStep
<1>11. CASE UNCHANGED ivars
  BY <1>11 DEF ivars, NetmaskInv
<1> QED BY <1>2, <1>3, <1>4, <1>6, <1>7, <1>8, <1>9, <1>10, <1>11 DEF IPNext

(* It is so at first: all is 0.                                            *)
LEMMA NetmaskStart == IPInit => NetmaskInv
<1> SUFFICES ASSUME IPInit PROVE NetmaskInv
  OBVIOUS
<1>1. Zero = [k \in 1 .. 4 |-> 0]
  BY DEF Zero
<1>2. Mask(0) = Zero
  <2>1. \A k \in 1 .. 4 : Mask(0)[k] = 0
    BY DEF Mask
  <2>2. Mask(0) = [k \in 1 .. 4 |-> 0]
    BY <2>1 DEF Mask
  <2> QED BY <1>1, <2>2
<1>3. Zero \in Addresses /\ IsNetmask([addr |-> Zero, length |-> 0])
  BY <1>1, <1>2 DEF Addresses, IsNetmask
<1>4. Within(Zero, Zero)
  <2>1. \A k \in 1 .. 4 : Zero[k] = 0
    BY DEF Zero
  <2>2. Outside(Zero, Zero) = [k \in 1 .. 4 |-> 0]
    BY <2>1 DEF Outside
  <2> QED BY <1>1, <2>2 DEF Within
<1>5. IsNetwork([netaddr |-> Zero, netmask |-> [addr |-> Zero, length |-> 0]])
  <2>1. validIPNetwork(Zero, 0)
    BY <1>2, <1>4 DEF validIPNetwork
  <2>2. 0 \in 0 .. 32
    OBVIOUS
  <2>3. Network(Zero, 0) = [netaddr |-> Zero, netmask |-> [addr |-> Zero, length |-> 0]]
    <3>1. Netmask(Mask(0)) = [addr |-> Mask(0), length |-> 0]
      BY <2>2, NetmaskOfLength, Zenon
    <3> QED BY <1>2, <3>1, Zenon DEF Network
  <2> QED BY <1>3, <2>1, <2>2, <2>3, Zenon DEF IsNetwork
<1> QED BY <1>3, <1>5 DEF IPInit, NetmaskInv

THEOREM NetmaskInvariant == IPSpec => []NetmaskInv
BY NetmaskStart, NetmaskSteps, PTL DEF IPSpec

(* After any calls, whatever they are given, every netmask is the one of   *)
(* its length, and no network has a bit outside its netmask.               *)
THEOREM MasksAlwaysFit == IPSpec => []MasksFit
<1>1. NetmaskInv => MasksFit
  <2> SUFFICES ASSUME NetmaskInv PROVE MasksFit
    OBVIOUS
  <2>1. ASSUME NEW m, IsNetmask(m)
        PROVE  m.addr = Mask(m.length)
    BY <2>1 DEF IsNetmask
  <2>2. ASSUME NEW x \in NetworkName
        PROVE  IsNetmask(nets[x].netmask) /\ Within(nets[x].netaddr, nets[x].netmask.addr)
    <3>1. IsNetwork(nets[x])
      BY DEF NetmaskInv
    <3> QED BY <3>1, NetworkParts, Zenon DEF IsNetmask
  <2>3. \A m \in Masks : IsNetmask(m)
    BY <2>2 DEF NetmaskInv, Masks
  <2> QED BY <2>1, <2>2, <2>3 DEF MasksFit
<1> QED BY <1>1, NetmaskInvariant, PTL

(* After any calls, the text of the address and of every network can be    *)
(* read back, to the same address and network.                             *)
THEOREM TextsReadBackAlways == IPSpec => []TextsReadBack
<1>1. NetmaskInv => TextsReadBack
  BY AddressReads, NetworkReads, Zenon DEF NetmaskInv, TextsReadBack
<1> QED BY <1>1, NetmaskInvariant, PTL

-----------------------------------------------------------------------------
(* MAC addresses in text *)

(* A MAC address: twelve hexadecimal digits.                               *)
IsMac(mac) == mac \in [Hex -> Hex] /\ \A j \in 12 .. 15 : mac[j] = 0

LEMMA BytesMac ==
  ASSUME NEW bs \in Seq(0 .. 255), Len(bs) = 6
  PROVE  IsMac(mactol_bin(bs))
<1>1. ASSUME NEW j \in 0 .. 11
      PROVE  (bs[6 - j \div 2] \div (IF j % 2 = 0 THEN 1 ELSE 16)) % 16 \in Hex
  <2>1. 6 - j \div 2 \in 1 .. 6
    BY SMT
  <2>2. PICK b \in 0 .. 255 : b = bs[6 - j \div 2]
    <3>1. \A k \in 1 .. Len(bs) : bs[k] \in 0 .. 255
      BY ElementOfSeq, Zenon
    <3> QED BY <2>1, <3>1, Zenon
  <2>3. (b \div 1) % 16 \in 0 .. 15 /\ (b \div 16) % 16 \in 0 .. 15
    BY SMT
  <2> QED BY <2>2, <2>3 DEF Hex
<1>2. ASSUME NEW j \in Hex
      PROVE  mactol_bin(bs)[j] \in Hex /\ (j \in 12 .. 15 => mactol_bin(bs)[j] = 0)
  <2>1. CASE j > 11
    BY <2>1 DEF mactol_bin, Hex
  <2>2. CASE ~ (j > 11)
    <3>1. j \in 0 .. 11 /\ j \notin 12 .. 15
      BY <2>2 DEF Hex
    <3>2. mactol_bin(bs)[j] = (bs[6 - j \div 2] \div (IF j % 2 = 0 THEN 1 ELSE 16)) % 16
      BY <2>2, Zenon DEF mactol_bin
    <3> QED BY <1>1, <3>1, <3>2
  <2> QED BY <2>1, <2>2
<1>3. mactol_bin(bs) = [j \in Hex |-> mactol_bin(bs)[j]]
  BY DEF mactol_bin
<1>4. mactol_bin(bs) \in [Hex -> Hex]
  BY <1>2, <1>3
<1>5. \A j \in 12 .. 15 : j \in Hex
  BY DEF Hex
<1> QED BY <1>2, <1>4, <1>5 DEF IsMac

(* Digits that each are the one of the number they are placed at, for all  *)
(* twelve numbers, make the address.                                       *)
LEMMA PlacedMac ==
  ASSUME NEW mac, IsMac(mac), NEW str, NEW at,
         \A p \in DOMAIN at : at[p] \in 0 .. 11 /\ str[p] = mac[at[p]],
         \A j \in 0 .. 11 : \E p \in DOMAIN at : at[p] = j
  PROVE  Placed(str, at) = mac
<1>1. ASSUME NEW j \in Hex
      PROVE  (IF \E p \in DOMAIN at : at[p] = j THEN str[CHOOSE p \in DOMAIN at : at[p] = j] ELSE 0) = mac[j]
  <2>1. CASE \E p \in DOMAIN at : at[p] = j
    <3> DEFINE d == CHOOSE p \in DOMAIN at : at[p] = j
    <3>1. d \in DOMAIN at /\ at[d] = j
      BY <2>1, Zenon
    <3>2. str[d] = mac[j]
      BY <3>1, Zenon
    <3> QED BY <2>1, <3>2, Zenon
  <2>2. CASE ~ \E p \in DOMAIN at : at[p] = j
    <3>1. j \notin 0 .. 11
      BY <2>2, Zenon
    <3>2. j \in 12 .. 15
      BY <3>1 DEF Hex
    <3>3. mac[j] = 0
      BY <3>2 DEF IsMac
    <3> QED BY <2>2, <3>3, Zenon
  <2> QED BY <2>1, <2>2, Zenon
<1>2. Placed(str, at) = [j \in Hex |-> mac[j]]
  BY <1>1, Zenon DEF Placed
<1>3. mac = [j \in Hex |-> mac[j]]
  BY DEF IsMac
<1> QED BY <1>2, <1>3, Zenon

(* Two digits, then a separator: the digits of the text up to m.           *)
Pairs == {q \in 1 .. 17 : q % 3 # 0}

LEMMA PairsCount ==
  \A m \in 0 .. 16 : Cardinality({q \in 1 .. m : q \in Pairs}) = m - m \div 3
<1> DEFINE S == {m \in 0 .. 16 : Cardinality({q \in 1 .. m : q \in Pairs}) = m - m \div 3}
<1>1. 0 \in S
  <2>1. {q \in 1 .. 0 : q \in Pairs} = {}
    OBVIOUS
  <2>2. Cardinality({q \in 1 .. 0 : q \in Pairs}) = 0
    BY <2>1, FS_EmptySet
  <2>3. 0 - 0 \div 3 = 0 /\ 0 \in 0 .. 16
    BY SMT
  <2> QED BY <2>2, <2>3
<1>2. ASSUME NEW m \in 0 .. 15, m \in S PROVE m + 1 \in S
  <2>1. /\ Cardinality({q \in 1 .. m + 1 : q \in Pairs})
             = Cardinality({q \in 1 .. m : q \in Pairs}) + (IF m + 1 \in Pairs THEN 1 ELSE 0)
        /\ Cardinality({q \in 1 .. m : q \in Pairs}) = m - m \div 3
    <3>1. m \in Nat
      OBVIOUS
    <3> QED BY <1>2, <3>1, CountNext, Zenon
  <2>2. m + 1 \in Pairs <=> (m + 1) % 3 # 0
    BY DEF Pairs
  <2>3. (m - m \div 3) + (IF (m + 1) % 3 # 0 THEN 1 ELSE 0) = (m + 1) - (m + 1) \div 3
    BY SMT
  <2>4. m + 1 \in 0 .. 16
    OBVIOUS
  <2>5. Cardinality({q \in 1 .. m + 1 : q \in Pairs}) = (m + 1) - (m + 1) \div 3
    BY <2>1, <2>2, <2>3, Zenon
  <2> QED BY <2>4, <2>5
<1> HIDE DEF S
<1>3. \A m \in 0 .. 16 - 1 : m \in S => m + 1 \in S
  BY <1>2
<1>4. \A m \in 0 .. 16 : m \in S
  BY <1>1, <1>3, UpTo
<1> QED BY <1>4 DEF S

(* The text of an address, with any separator.                             *)
LEMMA SeparatedIs ==
  ASSUME NEW mac, IsMac(mac), NEW c \in {Colon, Minus, Dot}
  PROVE  /\ ltomac(mac) = Separated(ltomac(mac), Colon)
         /\ DOMAIN Separated(ltomac(mac), c) = 1 .. 17 /\ Len(Separated(ltomac(mac), c)) = 17
         /\ \A p \in 1 .. 17 :
              IF p \in Pairs
              THEN /\ 12 - 2 * (p \div 3) - (p % 3) \in 0 .. 11
                   /\ Separated(ltomac(mac), c)[p] = mac[12 - 2 * (p \div 3) - (p % 3)]
                   /\ Separated(ltomac(mac), c)[p] \in Hex
              ELSE Separated(ltomac(mac), c)[p] = c
<1>1. ASSUME NEW p \in Pairs
      PROVE  12 - 2 * (p \div 3) - (p % 3) \in 0 .. 11
  BY SMT DEF Pairs
<1>2. \A p \in 1 .. 17 : p \in Pairs <=> p % 3 # 0
  BY DEF Pairs
<1>3. \A j \in 0 .. 11 : mac[j] \in Hex /\ mac[j] # Colon
  <2>1. \A h \in Hex : h # Colon
    BY DEF Hex, Colon
  <2>2. \A j \in 0 .. 11 : j \in Hex
    BY DEF Hex
  <2> QED BY <2>1, <2>2 DEF IsMac
<1>4. ltomac(mac) = [p \in 1 .. 17 |-> IF p % 3 = 0 THEN Colon ELSE mac[12 - 2 * (p \div 3) - (p % 3)]]
  BY DEF ltomac
<1> DEFINE t == ltomac(mac)
<1>5. /\ DOMAIN t = 1 .. 17
      /\ \A p \in 1 .. 17 : t[p] = IF p % 3 = 0 THEN Colon ELSE mac[12 - 2 * (p \div 3) - (p % 3)]
  BY <1>4, Zenon
<1>6. t = [p \in 1 .. 17 |-> t[p]]
  BY <1>4
<1> HIDE DEF t
<1>7. \A p \in 1 .. 17 : IF p \in Pairs THEN t[p] = mac[12 - 2 * (p \div 3) - (p % 3)] /\ t[p] # Colon /\ t[p] \in Hex
                         ELSE t[p] = Colon
  BY <1>1, <1>2, <1>3, <1>5, Zenon
<1>8. \A e : Separated(t, e) = [p \in 1 .. 17 |-> IF t[p] = Colon THEN e ELSE t[p]]
  BY <1>5, Zenon DEF Separated
<1>9. Separated(t, Colon) = t
  <2>1. \A p \in 1 .. 17 : (IF t[p] = Colon THEN Colon ELSE t[p]) = t[p]
    OBVIOUS
  <2>2. Separated(t, Colon) = [p \in 1 .. 17 |-> t[p]]
    BY <1>8, <2>1, Zenon
  <2> QED BY <1>6, <2>2, Zenon
<1>10. DOMAIN Separated(t, c) = 1 .. 17 /\ Len(Separated(t, c)) = 17
  BY <1>8
<1>11. \A p \in 1 .. 17 : Separated(t, c)[p] = IF t[p] = Colon THEN c ELSE t[p]
  BY <1>8, Zenon
<1> QED BY <1>1, <1>7, <1>9, <1>10, <1>11, Zenon DEF t

(* The number a digit is placed at.                                        *)
LEMMA PairsPlaces ==
  /\ \A p \in Pairs : 11 - Cardinality({q \in 1 .. p - 1 : q \in Pairs}) = 12 - 2 * (p \div 3) - (p % 3)
  /\ \A j \in 0 .. 11 : \E p \in Pairs : 12 - 2 * (p \div 3) - (p % 3) = j
  /\ Cardinality({q \in 1 .. 16 : q \in Pairs}) = 11
<1>1. ASSUME NEW p \in Pairs
      PROVE  11 - Cardinality({q \in 1 .. p - 1 : q \in Pairs}) = 12 - 2 * (p \div 3) - (p % 3)
  <2>1. p - 1 \in 0 .. 16 /\ p \in 1 .. 17 /\ p % 3 # 0
    BY DEF Pairs
  <2>2. Cardinality({q \in 1 .. p - 1 : q \in Pairs}) = (p - 1) - (p - 1) \div 3
    BY <2>1, PairsCount
  <2>3. 11 - ((p - 1) - (p - 1) \div 3) = 12 - 2 * (p \div 3) - (p % 3)
    BY <2>1, SMT
  <2> QED BY <2>2, <2>3
<1>2. ASSUME NEW j \in 0 .. 11
      PROVE  \E p \in Pairs : 12 - 2 * (p \div 3) - (p % 3) = j
  <2>1. PICK h \in 0 .. 5, r \in 1 .. 2 : 12 - 2 * h - r = j
    <3>1. (11 - j) \div 2 \in 0 .. 5 /\ 12 - 2 * ((11 - j) \div 2) - j \in 1 .. 2
      BY SMT
    <3>2. 12 - 2 * ((11 - j) \div 2) - (12 - 2 * ((11 - j) \div 2) - j) = j
      BY <3>1
    <3> QED BY <3>1, <3>2
  <2>2. 3 * h + r \in 1 .. 17 /\ (3 * h + r) \div 3 = h /\ (3 * h + r) % 3 = r
    BY SMT
  <2>3. 3 * h + r \in Pairs
    BY <2>2 DEF Pairs
  <2> QED BY <2>1, <2>2, <2>3
<1>3. Cardinality({q \in 1 .. 16 : q \in Pairs}) = 11
  <2>1. 16 \in 0 .. 16 /\ 16 - 16 \div 3 = 11
    BY SMT
  <2> QED BY <2>1, PairsCount
<1> QED BY <1>1, <1>2, <1>3

(* The address comes back out of its text with separators,                 *)
LEMMA SeparatedReads ==
  ASSUME NEW mac, IsMac(mac), NEW c \in {Colon, Minus, Dot}
  PROVE  /\ MacAddress(Separated(ltomac(mac), c)) = mac
         /\ c = Colon => mactol(Separated(ltomac(mac), c)) = mac
<1> DEFINE t == Separated(ltomac(mac), c)
           place(p) == 12 - 2 * (p \div 3) - (p % 3)
<1>1. /\ DOMAIN t = 1 .. 17 /\ Len(t) = 17
      /\ \A p \in 1 .. 17 : IF p \in Pairs THEN place(p) \in 0 .. 11 /\ t[p] = mac[place(p)] /\ t[p] \in Hex
                             ELSE t[p] = c
  BY SeparatedIs, Zenon
<1>2. /\ \A p \in Pairs : 11 - Cardinality({q \in 1 .. p - 1 : q \in Pairs}) = place(p)
      /\ \A j \in 0 .. 11 : \E p \in Pairs : place(p) = j
      /\ Cardinality({q \in 1 .. 16 : q \in Pairs}) = 11
  BY PairsPlaces, Zenon
<1>3. c \notin Hex /\ \A h \in Hex : h \notin {Colon, Minus, Dot}
  BY DEF Hex, Colon, Minus, Dot
<1> HIDE DEF t, place
<1>4. {p \in DOMAIN t : t[p] \in Hex} = Pairs
  <2>1. \A p \in Pairs : p \in 1 .. 17
    BY DEF Pairs
  <2> QED BY <1>1, <1>3, <2>1
<1>5. ASSUME NEW at, DOMAIN at = Pairs, \A p \in Pairs : at[p] = place(p)
      PROVE  Placed(t, at) = mac
  <2>1. \A p \in Pairs : p \in 1 .. 17
    BY DEF Pairs
  <2>2. /\ \A p \in DOMAIN at : at[p] \in 0 .. 11 /\ t[p] = mac[at[p]]
        /\ \A j \in 0 .. 11 : \E p \in DOMAIN at : at[p] = j
    BY <1>1, <1>2, <1>5, <2>1, Zenon
  <2> QED BY <2>2, PlacedMac
<1>6. MacAddress(t) = mac
  <2>1. {p \in 1 .. Len(t) - 1 : t[p] \notin {Colon, Minus, Dot}} = {q \in 1 .. 16 : q \in Pairs}
    <3>1. ASSUME NEW p \in 1 .. 16 PROVE t[p] \notin {Colon, Minus, Dot} <=> p \in Pairs
      <4>1. p \in 1 .. 17
        OBVIOUS
      <4> QED BY <1>1, <1>3, <4>1, Zenon
    <3>2. Len(t) - 1 = 16
      BY <1>1
    <3> QED BY <3>1, <3>2
  <2> DEFINE at == [p \in Pairs |-> 11 - Cardinality({q \in Pairs : q < p})]
  <2>2. MacAddress(t) = Placed(t, at)
    BY <1>2, <1>4, <2>1, Zenon DEF MacAddress
  <2>3. ASSUME NEW p \in Pairs PROVE at[p] = place(p)
    <3>1. {q \in Pairs : q < p} = {q \in 1 .. p - 1 : q \in Pairs}
      BY DEF Pairs
    <3> QED BY <1>2, <3>1, Zenon
  <2> QED BY <1>5, <2>2, <2>3, Zenon
<1>7. ASSUME c = Colon PROVE mactol(t) = mac
  <2> DEFINE at == [p \in Pairs |-> 11 - Cardinality({q \in 1 .. p - 1 : t[q] # Colon})]
  <2>1. mactol(t) = Placed(t, at)
    BY <1>4, Zenon DEF mactol
  <2>2. ASSUME NEW p \in Pairs PROVE at[p] = place(p)
    <3>1. ASSUME NEW q \in 1 .. p - 1 PROVE t[q] # Colon <=> q \in Pairs
      <4>1. q \in 1 .. 17
        BY DEF Pairs
      <4> QED BY <1>1, <1>3, <1>7, <4>1, Zenon
    <3>2. {q \in 1 .. p - 1 : t[q] # Colon} = {q \in 1 .. p - 1 : q \in Pairs}
      BY <3>1
    <3> QED BY <1>2, <3>2, Zenon
  <2> QED BY <1>5, <2>1, <2>2, Zenon
<1> QED BY <1>6, <1>7 DEF t

(* and without any.                                                        *)
LEMMA PlainReads ==
  ASSUME NEW mac, IsMac(mac)
  PROVE  mactol(Plain(mac)) = mac /\ MacAddress(Plain(mac)) = mac
<1> DEFINE t == Plain(mac)
<1>1. /\ DOMAIN t = 1 .. 12 /\ Len(t) = 12 /\ \A p \in 1 .. 12 : t[p] = mac[12 - p]
  BY DEF Plain
<1>2. \A h \in Hex : h \notin {Colon, Minus, Dot}
  BY DEF Hex, Colon, Minus, Dot
<1>3. \A p \in 1 .. 12 : 12 - p \in 0 .. 11 /\ t[p] \in Hex
  <2>1. \A p \in 1 .. 12 : 12 - p \in 0 .. 11 /\ 12 - p \in Hex
    BY DEF Hex
  <2> HIDE DEF t
  <2> QED BY <1>1, <2>1 DEF IsMac
<1> HIDE DEF t
<1>4. {p \in DOMAIN t : t[p] \in Hex} = 1 .. 12
  BY <1>1, <1>3
<1>5. \A p \in 1 .. 12 : 11 - Cardinality(1 .. p - 1) = 12 - p
  <2> TAKE p \in 1 .. 12
  <2>1. Cardinality(1 .. p - 1) = (p - 1) - 1 + 1
    BY FS_Interval
  <2> QED BY <2>1
<1>6. ASSUME NEW at, DOMAIN at = 1 .. 12, \A p \in 1 .. 12 : at[p] = 12 - p
      PROVE  Placed(t, at) = mac
  <2>1. \A j \in 0 .. 11 : 12 - j \in 1 .. 12 /\ 12 - (12 - j) = j
    OBVIOUS
  <2>2. \A j \in 0 .. 11 : \E p \in DOMAIN at : at[p] = j
    BY <1>6, <2>1
  <2>3. \A p \in DOMAIN at : at[p] \in 0 .. 11 /\ t[p] = mac[at[p]]
    BY <1>1, <1>3, <1>6, Zenon
  <2> QED BY <2>2, <2>3, PlacedMac
<1>7. MacAddress(t) = mac
  <2>1. {p \in 1 .. Len(t) - 1 : t[p] \notin {Colon, Minus, Dot}} = 1 .. 11
    <3>1. Len(t) - 1 = 11 /\ \A p \in 1 .. 11 : p \in 1 .. 12
      BY <1>1
    <3> QED BY <1>2, <1>3, <3>1
  <2>2. Cardinality(1 .. 11) = 11
    <3>1. \A m \in Nat : Cardinality(1 .. m) = m
      BY FS_Interval
    <3>2. 11 \in Nat
      OBVIOUS
    <3> QED BY <3>1, <3>2, Zenon
  <2> DEFINE at == [p \in 1 .. 12 |-> 11 - Cardinality({q \in 1 .. 12 : q < p})]
  <2>3. MacAddress(t) = Placed(t, at)
    BY <1>4, <2>1, <2>2, Zenon DEF MacAddress
  <2>4. ASSUME NEW p \in 1 .. 12 PROVE at[p] = 12 - p
    <3>1. {q \in 1 .. 12 : q < p} = 1 .. p - 1
      OBVIOUS
    <3> QED BY <1>5, <3>1, Zenon
  <2> QED BY <1>6, <2>3, <2>4, Zenon
<1>8. mactol(t) = mac
  <2> DEFINE at == [p \in 1 .. 12 |-> 11 - Cardinality({q \in 1 .. p - 1 : t[q] # Colon})]
  <2>1. mactol(t) = Placed(t, at)
    BY <1>4, Zenon DEF mactol
  <2>2. ASSUME NEW p \in 1 .. 12 PROVE at[p] = 12 - p
    <3>1. \A q \in 1 .. p - 1 : q \in 1 .. 12
      OBVIOUS
    <3>2. {q \in 1 .. p - 1 : t[q] # Colon} = 1 .. p - 1
      BY <1>2, <1>3, <3>1
    <3> QED BY <1>5, <3>2, Zenon
  <2> QED BY <1>6, <2>1, <2>2, Zenon
<1> QED BY <1>7, <1>8 DEF t

(* The bytes of a frame come back out of their texts.                      *)
LEMMA MacReads ==
  ASSUME NEW bs \in Seq(0 .. 255), Len(bs) = 6
  PROVE  ReadsMac(bs)
<1>1. PICK mac : mac = mactol_bin(bs)
  OBVIOUS
<1>2. IsMac(mac)
  BY <1>1, BytesMac
<1>3. \A c \in {Colon, Minus, Dot} : MacAddress(Separated(ltomac(mac), c)) = mac
  BY <1>2, SeparatedReads
<1>4. mactol(ltomac(mac)) = mac
  <2>1. Colon \in {Colon, Minus, Dot}
    OBVIOUS
  <2>2. mactol(Separated(ltomac(mac), Colon)) = mac
    BY <1>2, <2>1, SeparatedReads, Zenon
  <2>3. ltomac(mac) = Separated(ltomac(mac), Colon)
    BY <1>2, <2>1, SeparatedIs, Zenon
  <2> QED BY <2>2, <2>3, Zenon
<1>5. mactol(Plain(mac)) = mac /\ MacAddress(Plain(mac)) = mac
  BY <1>2, PlainReads
<1> QED BY <1>1, <1>3, <1>4, <1>5, Zenon DEF ReadsMac

-----------------------------------------------------------------------------
(* The classes, one in use at a time *)

(* Each class does what its own specification says, whichever is in use.   *)
LEMMA ClassesAlone == Spec => ArraySpec /\ IPSpec /\ ChecksumSpec
<1>1. Init => ArrayInit /\ IPInit /\ ChecksumInit
  BY DEF Init
<1>2. [Next]_<<avars, ivars, cvars, inUse, text, bytes>> => [ArrayNext]_avars /\ [IPNext]_ivars /\ [ChecksumNext]_cvars
  BY Zenon DEF Next
<1> QED BY <1>1, <1>2, PTL DEF Spec, ArraySpec, IPSpec, ChecksumSpec

(* What is written is characters and bytes.                                *)
Written == text \in Seq(Char) /\ bytes \in Seq(0 .. 255)

THEOREM WrittenInvariant == Spec => []Written
<1>1. Init => Written
  BY DEF Init, Written
<1>2. ASSUME Written, [Next]_<<avars, ivars, cvars, inUse, text, bytes>>
      PROVE  Written'
  <2>1. CASE UNCHANGED <<text, bytes>>
    BY <1>2, <2>1 DEF Written
  <2>2. CASE WriteText /\ UNCHANGED bytes
    BY <1>2, <2>2, TextAssumption DEF Written, WriteText
  <2>3. CASE WriteByte /\ UNCHANGED text
    BY <1>2, <2>3, TextAssumption DEF Written, WriteByte
  <2>4. UNCHANGED <<text, bytes>> \/ (WriteText /\ UNCHANGED bytes) \/ (WriteByte /\ UNCHANGED text)
    BY <1>2, Zenon DEF Next
  <2> QED BY <2>1, <2>2, <2>3, <2>4
<1> QED BY <1>1, <1>2, PTL DEF Spec

(* A text of any length and of any characters: iptoui() and iptoi() read   *)
(* an IP address in it as the same four octets, whose text it is, and what *)
(* else iptoui() reads, of texts that begin with a digit or a dot, is      *)
(* mistaken in one of the ways that Mistaken names.                        *)
THEOREM AddressesAccepted == Spec => []AcceptsAddresses
<1>1. Written => AcceptsAddresses
  BY TextReads DEF Written, AcceptsAddresses
<1> QED BY <1>1, WrittenInvariant, PTL

(* Every MAC address, not only those of a few bytes, comes back out of its *)
(* text: of mactol() and of MacAddress, with each separator and without.   *)
THEOREM MacTextsAlwaysRead == Spec => []MacTextsRead
<1>1. Written => MacTextsRead
  BY MacReads DEF Written, MacTextsRead
<1> QED BY <1>1, WrittenInvariant, PTL
=============================================================================
