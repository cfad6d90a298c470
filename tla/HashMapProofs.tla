--------------------------- MODULE HashMapProofs ---------------------------
(***************************************************************************)
(* Proofs about HashMap.tla, for every set of keys, hash function, number  *)
(* of buckets and heap.                                                    *)
(***************************************************************************)
EXTENDS HashMap, ProofLemmas

-----------------------------------------------------------------------------
(* One chain at a time: what Linked says of bucket b, with s its chain.    *)

ChainOf(b, s) ==
  /\ s \in Seq(Node)
  /\ \A i \in 1 .. Len(s) : hash(s[i].key) = b
  /\ \A i, j \in 1 .. Len(s) : s[i].key = s[j].key => i = j
  /\ \A i \in 1 .. Len(s) : i = 1 <=> s[i].at = HeadAddr
  /\ \A i, j \in 1 .. Len(s) : s[i].at = s[j].at => i = j
  /\ \A i \in 1 .. Len(s) : i = 1 <=> s[i].prev = Null
  /\ \A i \in 1 .. Len(s) : i > 2 => s[i].prev = s[i - 1].at

(* k is bound to v in the chain s.                                         *)
Binds(s, k, v) == \E i \in 1 .. Len(s) : s[i].key = k /\ s[i].obj = v

(* r is what is left of s without its i-th key: it binds the other keys as *)
(* before, is one node shorter and owns no new cell.                       *)
Lost(s, i, r) ==
  /\ \A k, v : Binds(r, k, v) <=> Binds(s, k, v) /\ k # s[i].key
  /\ \A j \in 1 .. Len(r) : \E m \in 1 .. Len(s) : s[m].at = r[j].at
  /\ Len(r) = Len(s) - 1

-----------------------------------------------------------------------------
(* The four ways del takes a node out of a chain *)

(* A head without successor leaves the empty chain.                        *)
LEMMA LoseOnly ==
  ASSUME NEW b, NEW s, ChainOf(b, s), Len(s) = 1
  PROVE  ChainOf(b, <<>>) /\ Lost(s, 1, <<>>)
<1>1. Len(<<>>) = 0 /\ <<>> \in Seq(Node)
  BY EmptySeq
<1> QED BY <1>1 DEF ChainOf, Lost, Binds

(* The last node goes; the others keep their links.                        *)
LEMMA LoseLast ==
  ASSUME NEW b, NEW s, ChainOf(b, s), Len(s) > 1
  PROVE  LET r == RemoveAt(s, Len(s)) IN ChainOf(b, r) /\ Lost(s, Len(s), r)
<1> DEFINE r == RemoveAt(s, Len(s))
           n == Len(s)
<1>0. s \in Seq(Node) /\ n \in Nat /\ n > 1
  BY LenProperties DEF ChainOf
<1>1. /\ r \in Seq(Node) /\ Len(r) = n - 1
      /\ \A j \in 1 .. n - 1 : r[j] = s[j]
  <2>1. n \in 1 .. Len(s)
    BY <1>0
  <2> QED BY <1>0, <2>1, RemoveAtElements
<1> HIDE DEF r, n
<1>2. n = Len(s)
  BY DEF n
<1>3. ChainOf(b, r)
  <2>1. \A j \in 1 .. n - 1 : j \in 1 .. n /\ r[j] = s[j]
    BY <1>0, <1>1
  <2>2. /\ \A j \in 1 .. n - 1 : hash(r[j].key) = b
        /\ \A j, m \in 1 .. n - 1 : r[j].key = r[m].key => j = m
    BY <1>2, <2>1 DEF ChainOf
  <2>3. /\ \A j \in 1 .. n - 1 : j = 1 <=> r[j].at = HeadAddr
        /\ \A j, m \in 1 .. n - 1 : r[j].at = r[m].at => j = m
    BY <1>2, <2>1 DEF ChainOf
  <2>4. \A j \in 1 .. n - 1 : j = 1 <=> r[j].prev = Null
    BY <1>2, <2>1 DEF ChainOf
  <2>5. ASSUME NEW j \in 1 .. n - 1, j > 2
        PROVE  r[j].prev = r[j - 1].at
    <3>1. j - 1 \in 1 .. n - 1
      BY <2>5, <1>0
    <3> QED BY <2>5, <3>1, <1>2, <2>1 DEF ChainOf
  <2> QED BY <1>1, <2>2, <2>3, <2>4, <2>5 DEF ChainOf
<1>4. Lost(s, n, r)
  <2>1. ASSUME NEW k, NEW v, Binds(r, k, v)
        PROVE  Binds(s, k, v) /\ k # s[n].key
    BY <1>0, <1>1, <1>2, <2>1 DEF Binds, ChainOf
  <2>2. ASSUME NEW k, NEW v, Binds(s, k, v), k # s[n].key
        PROVE  Binds(r, k, v)
    <3>1. PICK j \in 1 .. n : s[j].key = k /\ s[j].obj = v
      BY <2>2, <1>2 DEF Binds
    <3>2. j \in 1 .. n - 1
      BY <3>1, <2>2, <1>0
    <3> QED BY <3>1, <3>2, <1>1 DEF Binds
  <2>3. \A j \in 1 .. Len(r) : \E m \in 1 .. Len(s) : s[m].at = r[j].at
    BY <1>0, <1>1, <1>2
  <2> QED BY <1>1, <1>2, <2>1, <2>2, <2>3 DEF Lost
<1> QED BY <1>3, <1>4 DEF r, n

(* A middle node goes; the one after it inherits its prev, which is right. *)
LEMMA LoseMiddle ==
  ASSUME NEW b, NEW s, ChainOf(b, s), NEW i \in 2 .. Len(s) - 1,
         s[i].prev = s[i - 1].at
  PROVE  LET r == RemoveAt([s EXCEPT ![i + 1].prev = s[i].prev], i)
         IN  ChainOf(b, r) /\ Lost(s, i, r)
<1> DEFINE t == [s EXCEPT ![i + 1].prev = s[i].prev]
           r == RemoveAt(t, i)
           n == Len(s)
<1>0. s \in Seq(Node) /\ n \in Nat /\ i \in 1 .. n /\ i + 1 \in 1 .. n /\ i > 1
  BY LenProperties DEF ChainOf
<1>1. /\ t \in Seq(Node) /\ Len(t) = n
      /\ \A j \in 1 .. n : t[j] = IF j = i + 1 THEN [s[j] EXCEPT !.prev = s[i].prev] ELSE s[j]
  <2>1. s[i] \in Node /\ s[i + 1] \in Node
    BY <1>0, ElementOfSeq
  <2>2. [s[i + 1] EXCEPT !.prev = s[i].prev] \in Node
    BY <2>1 DEF Node
  <2>3. t = [s EXCEPT ![i + 1] = [s[i + 1] EXCEPT !.prev = s[i].prev]]
    OBVIOUS
  <2> HIDE DEF t
  <2> QED BY <1>0, <2>2, <2>3, ExceptSeq
<1>2. ASSUME NEW j \in 1 .. n
      PROVE  /\ t[j].key = s[j].key /\ t[j].obj = s[j].obj /\ t[j].at = s[j].at
             /\ t[j].prev = IF j = i + 1 THEN s[i].prev ELSE s[j].prev
  <2>1. s[j] \in Node
    BY <1>0, ElementOfSeq
  <2> HIDE DEF t
  <2> QED BY <1>1, <2>1 DEF Node
<1>3. /\ r \in Seq(Node) /\ Len(r) = n - 1
      /\ \A j \in 1 .. n - 1 : r[j] = IF j < i THEN t[j] ELSE t[j + 1]
  <2> HIDE DEF t
  <2>1. i \in 1 .. Len(t)
    BY <1>0, <1>1
  <2>2. /\ RemoveAt(t, i) \in Seq(Node) /\ Len(RemoveAt(t, i)) = Len(t) - 1
        /\ \A j \in 1 .. Len(t) - 1 : RemoveAt(t, i)[j] = IF j < i THEN t[j] ELSE t[j + 1]
    BY <1>1, <2>1, RemoveAtElements
  <2> QED BY <1>1, <2>2
<1> HIDE DEF r, t, n
<1>4. n = Len(s)
  BY DEF n
<1>5. ASSUME NEW j \in 1 .. n - 1
      PROVE  LET m == IF j < i THEN j ELSE j + 1
             IN  /\ m \in 1 .. n /\ m # i
                 /\ r[j].key = s[m].key /\ r[j].obj = s[m].obj /\ r[j].at = s[m].at
                 /\ r[j].prev = IF j = i THEN s[i].prev ELSE s[m].prev
  <2>1. CASE j < i
    <3>1. j \in 1 .. n /\ j # i /\ j # i + 1 /\ r[j] = t[j]
      BY <2>1, <1>0, <1>3
    <3> QED BY <2>1, <3>1, <1>2
  <2>2. CASE ~ (j < i)
    <3>1. j + 1 \in 1 .. n /\ j + 1 # i /\ r[j] = t[j + 1] /\ (j + 1 = i + 1 <=> j = i)
      BY <2>2, <1>0, <1>3
    <3> QED BY <2>2, <3>1, <1>2
  <2> QED BY <2>1, <2>2
<1>6. ChainOf(b, r)
  <2>1. \A j \in 1 .. n - 1 : hash(r[j].key) = b
    BY <1>4, <1>5 DEF ChainOf
  <2>2. \A j, m \in 1 .. n - 1 : r[j].key = r[m].key => j = m
    BY <1>0, <1>4, <1>5 DEF ChainOf
  <2>3. \A j \in 1 .. n - 1 : j = 1 <=> r[j].at = HeadAddr
    BY <1>0, <1>4, <1>5 DEF ChainOf
  <2>4. \A j, m \in 1 .. n - 1 : r[j].at = r[m].at => j = m
    BY <1>0, <1>4, <1>5 DEF ChainOf
  <2>5. \A j \in 1 .. n - 1 : j = 1 <=> r[j].prev = Null
    BY <1>0, <1>4, <1>5 DEF ChainOf
  <2>6. ASSUME NEW j \in 1 .. n - 1, j > 2
        PROVE  r[j].prev = r[j - 1].at
    <3>1. CASE j = i
      BY <3>1, <2>6, <1>0, <1>5
    <3>2. CASE j < i
      BY <3>2, <2>6, <1>0, <1>4, <1>5 DEF ChainOf
    <3>3. CASE j > i
      <4>1. j + 1 \in 1 .. n /\ j + 1 > 2 /\ s[j + 1].prev = s[j].at
        BY <2>6, <1>0, <1>4 DEF ChainOf
      <4>2. j - 1 \in 1 .. n - 1 /\ ~ (j - 1 < i) /\ (j - 1) + 1 = j
        BY <3>3, <2>6, <1>0
      <4>3. r[j].prev = s[j + 1].prev
        BY <3>3, <1>0, <1>5
      <4>4. r[j - 1].at = s[j].at
        BY <4>2, <1>5
      <4> QED BY <4>1, <4>3, <4>4
    <3> QED BY <3>1, <3>2, <3>3, <1>0
  <2> QED BY <1>3, <2>1, <2>2, <2>3, <2>4, <2>5, <2>6 DEF ChainOf
<1>7. Lost(s, i, r)
  <2>1. ASSUME NEW k, NEW v, Binds(r, k, v)
        PROVE  Binds(s, k, v) /\ k # s[i].key
    <3>1. PICK j \in 1 .. n - 1 : r[j].key = k /\ r[j].obj = v
      BY <2>1, <1>3 DEF Binds
    <3>2. PICK m \in 1 .. n : m # i /\ s[m].key = k /\ s[m].obj = v
      BY <3>1, <1>5
    <3> QED BY <3>2, <1>0, <1>4 DEF Binds, ChainOf
  <2>2. ASSUME NEW k, NEW v, Binds(s, k, v), k # s[i].key
        PROVE  Binds(r, k, v)
    <3>1. PICK m \in 1 .. n : s[m].key = k /\ s[m].obj = v
      BY <2>2, <1>4 DEF Binds
    <3>2. CASE m < i
      <4>1. m \in 1 .. n - 1
        BY <3>2, <1>0
      <4>2. r[m].key = k /\ r[m].obj = v
        BY <3>1, <3>2, <4>1, <1>5
      <4> QED BY <4>1, <4>2, <1>3 DEF Binds
    <3>3. CASE m > i
      <4>1. m - 1 \in 1 .. n - 1 /\ ~ (m - 1 < i) /\ (m - 1) + 1 = m
        BY <3>3, <1>0
      <4>2. r[m - 1].key = k /\ r[m - 1].obj = v
        BY <3>1, <4>1, <1>5
      <4> QED BY <4>1, <4>2, <1>3 DEF Binds
    <3> QED BY <3>1, <3>2, <3>3, <2>2, <1>0
  <2>3. \A j \in 1 .. Len(r) : \E m \in 1 .. Len(s) : s[m].at = r[j].at
    BY <1>0, <1>3, <1>4, <1>5
  <2> QED BY <1>3, <1>4, <2>1, <2>2, <2>3 DEF Lost
<1> QED BY <1>6, <1>7 DEF r, t

(* The head takes over its successor's key and value; the one after the    *)
(* successor becomes second with whatever prev it has.                     *)
LEMMA LoseHead ==
  ASSUME NEW b, NEW s, ChainOf(b, s), Len(s) > 1
  PROVE  LET r == RemoveAt([s EXCEPT ![1].key = s[2].key, ![1].obj = s[2].obj], 2)
         IN  /\ ChainOf(b, r) /\ Lost(s, 1, r)
             /\ Len(r) = Len(s) - 1
             /\ \A j \in 1 .. Len(s) - 1 : r[j].key = s[j + 1].key
<1> DEFINE t == [s EXCEPT ![1].key = s[2].key, ![1].obj = s[2].obj]
           r == RemoveAt(t, 2)
           n == Len(s)
           h == [[s[1] EXCEPT !.key = s[2].key] EXCEPT !.obj = s[2].obj]
<1>0. s \in Seq(Node) /\ n \in Nat /\ n > 1 /\ 1 \in 1 .. n /\ 2 \in 1 .. n
  BY LenProperties DEF ChainOf
<1>1. s[1] \in Node /\ s[2] \in Node
  BY <1>0, ElementOfSeq
<1>2. /\ h \in Node
      /\ h.key = s[2].key /\ h.obj = s[2].obj /\ h.at = s[1].at /\ h.prev = s[1].prev
  BY <1>1 DEF Node
<1>3. t = [s EXCEPT ![1] = h]
  <2>1. s \in [1 .. n -> Node]
    BY <1>0, LenProperties
  <2> QED BY <2>1, <1>0
<1>4. /\ t \in Seq(Node) /\ Len(t) = n
      /\ \A j \in 1 .. n : t[j] = IF j = 1 THEN h ELSE s[j]
  <2> HIDE DEF t, h
  <2> QED BY <1>0, <1>2, <1>3, ExceptSeq
<1>5. /\ r \in Seq(Node) /\ Len(r) = n - 1
      /\ \A j \in 1 .. n - 1 : r[j] = IF j < 2 THEN t[j] ELSE t[j + 1]
  <2> HIDE DEF t
  <2>1. 2 \in 1 .. Len(t)
    BY <1>0, <1>4
  <2>2. /\ RemoveAt(t, 2) \in Seq(Node) /\ Len(RemoveAt(t, 2)) = Len(t) - 1
        /\ \A j \in 1 .. Len(t) - 1 : RemoveAt(t, 2)[j] = IF j < 2 THEN t[j] ELSE t[j + 1]
    BY <1>4, <2>1, RemoveAtElements
  <2> QED BY <1>4, <2>2
<1> HIDE DEF r, t, n, h
<1>6. n = Len(s)
  BY DEF n
<1>7. ASSUME NEW j \in 1 .. n - 1
      PROVE  /\ j + 1 \in 1 .. n
             /\ r[j].key = s[j + 1].key /\ r[j].obj = s[j + 1].obj
             /\ j = 1 => r[j].at = s[1].at /\ r[j].prev = s[1].prev
             /\ j # 1 => r[j].at = s[j + 1].at /\ r[j].prev = s[j + 1].prev
  <2>1. CASE j = 1
    BY <2>1, <1>0, <1>2, <1>4, <1>5
  <2>2. CASE j # 1
    <3>1. j + 1 \in 1 .. n /\ j + 1 # 1 /\ ~ (j < 2)
      BY <2>2, <1>0
    <3>2. r[j] = s[j + 1]
      BY <3>1, <1>4, <1>5
    <3> QED BY <3>1, <3>2, <2>2
  <2> QED BY <2>1, <2>2
<1>8. ChainOf(b, r)
  <2>1. \A j \in 1 .. n - 1 : hash(r[j].key) = b
    BY <1>6, <1>7 DEF ChainOf
  <2>2. \A j, m \in 1 .. n - 1 : r[j].key = r[m].key => j = m
    BY <1>0, <1>6, <1>7 DEF ChainOf
  <2>3. \A j \in 1 .. n - 1 : j = 1 <=> r[j].at = HeadAddr
    BY <1>0, <1>6, <1>7 DEF ChainOf
  <2>4. \A j, m \in 1 .. n - 1 : r[j].at = r[m].at => j = m
    BY <1>0, <1>6, <1>7 DEF ChainOf
  <2>5. \A j \in 1 .. n - 1 : j = 1 <=> r[j].prev = Null
    BY <1>0, <1>6, <1>7 DEF ChainOf
  <2>6. ASSUME NEW j \in 1 .. n - 1, j > 2
        PROVE  r[j].prev = r[j - 1].at
    <3>1. j + 1 \in 1 .. n /\ j + 1 > 2 /\ s[j + 1].prev = s[(j + 1) - 1].at
      BY <2>6, <1>0, <1>6 DEF ChainOf
    <3>2. j - 1 \in 1 .. n - 1 /\ j - 1 # 1 /\ (j - 1) + 1 = j /\ (j + 1) - 1 = j
      BY <2>6, <1>0
    <3>3. r[j].prev = s[j + 1].prev
      BY <2>6, <1>7
    <3>4. r[j - 1].at = s[j].at
      BY <3>2, <1>7
    <3> QED BY <3>1, <3>2, <3>3, <3>4
  <2> QED BY <1>5, <2>1, <2>2, <2>3, <2>4, <2>5, <2>6 DEF ChainOf
<1>9. Lost(s, 1, r)
  <2>1. ASSUME NEW k, NEW v, Binds(r, k, v)
        PROVE  Binds(s, k, v) /\ k # s[1].key
    <3>1. PICK j \in 1 .. n - 1 : r[j].key = k /\ r[j].obj = v
      BY <2>1, <1>5 DEF Binds
    <3>2. j + 1 \in 1 .. n /\ j + 1 # 1 /\ s[j + 1].key = k /\ s[j + 1].obj = v
      BY <3>1, <1>0, <1>7
    <3> QED BY <3>2, <1>0, <1>6 DEF Binds, ChainOf
  <2>2. ASSUME NEW k, NEW v, Binds(s, k, v), k # s[1].key
        PROVE  Binds(r, k, v)
    <3>1. PICK m \in 1 .. n : s[m].key = k /\ s[m].obj = v
      BY <2>2, <1>6 DEF Binds
    <3>2. m - 1 \in 1 .. n - 1 /\ (m - 1) + 1 = m
      BY <3>1, <2>2, <1>0
    <3>3. r[m - 1].key = k /\ r[m - 1].obj = v
      BY <3>1, <3>2, <1>7
    <3> QED BY <3>2, <3>3, <1>5 DEF Binds
  <2>3. \A j \in 1 .. Len(r) : \E m \in 1 .. Len(s) : s[m].at = r[j].at
    BY <1>0, <1>5, <1>6, <1>7
  <2> QED BY <1>5, <1>6, <2>1, <2>2, <2>3 DEF Lost
<1> QED BY <1>5, <1>6, <1>7, <1>8, <1>9 DEF r, t

-----------------------------------------------------------------------------
(* The three ways update puts a key into a chain *)

(* r binds k to v, and the other keys as s does.                           *)
Gained(s, k, v, r) ==
  \A k2, v2 : Binds(r, k2, v2) <=> \/ k2 = k /\ v2 = v
                                   \/ Binds(s, k2, v2) /\ k2 # k

(* The first key of a bucket goes into the head.                           *)
LEMMA GainHead ==
  ASSUME NEW k \in Key, NEW v \in Value
  PROVE  LET r == << [key |-> k, obj |-> v, at |-> HeadAddr, prev |-> Null] >>
         IN  ChainOf(hash(k), r) /\ Gained(<<>>, k, v, r)
<1> DEFINE h == [key |-> k, obj |-> v, at |-> HeadAddr, prev |-> Null]
<1>1. h \in Node
  BY DEF Node
<1>2. /\ <<h>> \in Seq(Node) /\ Len(<<h>>) = 1 /\ <<h>>[1] = h
      /\ Len(<<>>) = 0
  <2> HIDE DEF h
  <2> QED BY <1>1
<1>3. ChainOf(hash(k), <<h>>)
  <2>1. h.key = k /\ h.at = HeadAddr /\ h.prev = Null
    OBVIOUS
  <2> HIDE DEF h
  <2> QED BY <1>2, <2>1 DEF ChainOf
<1>4. Gained(<<>>, k, v, <<h>>)
  <2>1. h.key = k /\ h.obj = v
    OBVIOUS
  <2> HIDE DEF h
  <2> QED BY <1>2, <2>1 DEF Gained, Binds
<1> QED BY <1>3, <1>4

(* A new key goes to the end, into a cell no node of the chain is in.      *)
LEMMA GainLast ==
  ASSUME NEW k \in Key, NEW v \in Value, NEW s, ChainOf(hash(k), s), s # <<>>,
         \A i \in 1 .. Len(s) : s[i].key # k,
         NEW a \in Addr, \A i \in 1 .. Len(s) : s[i].at # a
  PROVE  LET r == Append(s, [key |-> k, obj |-> v, at |-> a, prev |-> Last(s).at])
         IN  /\ ChainOf(hash(k), r) /\ Gained(s, k, v, r)
             /\ \A j \in 1 .. Len(r) : r[j].at = a \/ \E m \in 1 .. Len(s) : s[m].at = r[j].at
<1> DEFINE n == Len(s)
           e == [key |-> k, obj |-> v, at |-> a, prev |-> s[n].at]
           r == Append(s, e)
<1>0. s \in Seq(Node) /\ n \in Nat /\ n > 0 /\ n \in 1 .. n
  BY LenProperties, EmptySeq DEF ChainOf
<1>1. e \in Node /\ e.key = k /\ e.obj = v /\ e.at = a /\ e.prev = s[n].at /\ e.prev # Null
  <2>1. s[n] \in Node
    BY <1>0, ElementOfSeq
  <2> QED BY <2>1, AddrAssumption DEF Node
<1>2. Last(s) = s[n]
  BY DEF Last
<1> HIDE DEF e
<1>3. /\ r \in Seq(Node) /\ Len(r) = n + 1 /\ r[n + 1] = e
      /\ \A j \in 1 .. n : r[j] = s[j]
  BY <1>0, <1>1, AppendProperties
<1> HIDE DEF n, r
<1>4. n = Len(s) /\ n + 1 > 1 /\ a # HeadAddr
  BY <1>0, AddrAssumption DEF n
<1>5. ASSUME NEW j \in 1 .. n + 1
      PROVE  \/ j \in 1 .. n /\ r[j] = s[j]
             \/ j = n + 1 /\ r[j] = e
  BY <1>0, <1>3
<1>6. ChainOf(hash(k), r)
  <2>1. \A j \in 1 .. n + 1 : hash(r[j].key) = hash(k)
    BY <1>1, <1>4, <1>5 DEF ChainOf
  <2>2. \A i, j \in 1 .. n + 1 : r[i].key = r[j].key => i = j
    BY <1>1, <1>4, <1>5 DEF ChainOf
  <2>3. \A j \in 1 .. n + 1 : j = 1 <=> r[j].at = HeadAddr
    BY <1>0, <1>1, <1>4, <1>5 DEF ChainOf
  <2>4. \A i, j \in 1 .. n + 1 : r[i].at = r[j].at => i = j
    BY <1>1, <1>4, <1>5 DEF ChainOf
  <2>5. \A j \in 1 .. n + 1 : j = 1 <=> r[j].prev = Null
    BY <1>0, <1>1, <1>4, <1>5 DEF ChainOf
  <2>6. ASSUME NEW j \in 1 .. n + 1, j > 2
        PROVE  r[j].prev = r[j - 1].at
    <3>1. j - 1 \in 1 .. n /\ r[j - 1] = s[j - 1]
      BY <2>6, <1>0, <1>3
    <3>2. CASE j \in 1 .. n
      BY <2>6, <3>1, <3>2, <1>3, <1>4 DEF ChainOf
    <3>3. CASE j = n + 1
      BY <3>1, <3>3, <1>0, <1>1, <1>3
    <3> QED BY <3>2, <3>3, <1>5
  <2> QED BY <1>3, <2>1, <2>2, <2>3, <2>4, <2>5, <2>6 DEF ChainOf
<1>7. Gained(s, k, v, r)
  <2>1. ASSUME NEW k2, NEW v2, Binds(r, k2, v2)
        PROVE  (k2 = k /\ v2 = v) \/ (Binds(s, k2, v2) /\ k2 # k)
    <3>1. PICK j \in 1 .. n + 1 : r[j].key = k2 /\ r[j].obj = v2
      BY <2>1, <1>3 DEF Binds
    <3> QED BY <3>1, <1>1, <1>4, <1>5 DEF Binds
  <2>2. Binds(r, k, v)
    <3>1. n + 1 \in 1 .. Len(r) /\ r[n + 1].key = k /\ r[n + 1].obj = v
      BY <1>0, <1>1, <1>3
    <3> QED BY <3>1 DEF Binds
  <2>3. ASSUME NEW k2, NEW v2, Binds(s, k2, v2)
        PROVE  Binds(r, k2, v2)
    <3>1. PICK j \in 1 .. n : s[j].key = k2 /\ s[j].obj = v2
      BY <2>3, <1>4 DEF Binds
    <3>2. j \in 1 .. Len(r) /\ r[j] = s[j]
      BY <1>0, <1>3
    <3> QED BY <3>1, <3>2 DEF Binds
  <2> QED BY <2>1, <2>2, <2>3 DEF Gained
<1>8. \A j \in 1 .. Len(r) : r[j].at = a \/ \E m \in 1 .. Len(s) : s[m].at = r[j].at
  BY <1>1, <1>3, <1>4, <1>5
<1> QED BY <1>2, <1>6, <1>7, <1>8 DEF r, e, n

(* A key that is there gets the new value in place.                        *)
LEMMA SetObj ==
  ASSUME NEW s \in Seq(Node), NEW i \in 1 .. Len(s), NEW v \in Value
  PROVE  LET r == [s EXCEPT ![i].obj = v]
         IN  /\ r \in Seq(Node) /\ Len(r) = Len(s)
             /\ \A j \in 1 .. Len(s) :
                  /\ r[j].key = s[j].key /\ r[j].at = s[j].at /\ r[j].prev = s[j].prev
                  /\ r[j].obj = IF j = i THEN v ELSE s[j].obj
<1> DEFINE r == [s EXCEPT ![i].obj = v]
           e == [s[i] EXCEPT !.obj = v]
           n == Len(s)
<1>1. /\ e \in Node /\ e.obj = v
      /\ e.key = s[i].key /\ e.at = s[i].at /\ e.prev = s[i].prev
  <2>1. s[i] \in Node
    BY ElementOfSeq
  <2> QED BY <2>1 DEF Node
<1>2. r = [s EXCEPT ![i] = e]
  OBVIOUS
<1>3. /\ r \in Seq(Node) /\ Len(r) = n
      /\ \A j \in 1 .. n : r[j] = IF j = i THEN e ELSE s[j]
  <2> HIDE DEF r, e
  <2> QED BY <1>1, <1>2, ExceptSeq
<1> HIDE DEF r, e
<1>4. \A j \in 1 .. n : /\ r[j].key = s[j].key /\ r[j].at = s[j].at /\ r[j].prev = s[j].prev
                        /\ r[j].obj = IF j = i THEN v ELSE s[j].obj
  BY <1>1, <1>3
<1> QED BY <1>3, <1>4 DEF r

(* Giving the node of a key another value (line 133, 146) keeps the chain.  *)
LEMMA GainInPlace ==
  ASSUME NEW b, NEW s, ChainOf(b, s), NEW i \in 1 .. Len(s), NEW v \in Value,
         NEW r \in Seq(Node), Len(r) = Len(s),
         \A j \in 1 .. Len(s) :
           /\ r[j].key = s[j].key /\ r[j].at = s[j].at /\ r[j].prev = s[j].prev
           /\ r[j].obj = IF j = i THEN v ELSE s[j].obj
  PROVE  /\ ChainOf(b, r) /\ Gained(s, s[i].key, v, r)
         /\ \A j \in 1 .. Len(r) : \E m \in 1 .. Len(s) : s[m].at = r[j].at
<1> DEFINE n == Len(s)
<1>0. s \in Seq(Node) /\ n \in Nat
  BY LenProperties DEF ChainOf
<1>3. r \in Seq(Node) /\ Len(r) = n
  OBVIOUS
<1>5. \A j \in 1 .. n : /\ r[j].key = s[j].key /\ r[j].at = s[j].at /\ r[j].prev = s[j].prev
                        /\ r[j].obj = IF j = i THEN v ELSE s[j].obj
  OBVIOUS
<1> HIDE DEF n
<1>4. n = Len(s) /\ i \in 1 .. n
  BY DEF n
<1>6. ChainOf(b, r)
  <2>1. \A j \in 1 .. n : j > 2 => j - 1 \in 1 .. n
    BY <1>0
  <2> QED BY <1>3, <1>4, <1>5, <2>1 DEF ChainOf
<1>7. Gained(s, s[i].key, v, r)
  <2>1. ASSUME NEW k2, NEW v2, Binds(r, k2, v2)
        PROVE  (k2 = s[i].key /\ v2 = v) \/ (Binds(s, k2, v2) /\ k2 # s[i].key)
    <3>1. PICK j \in 1 .. n : r[j].key = k2 /\ r[j].obj = v2
      BY <2>1, <1>3 DEF Binds
    <3>2. CASE j = i
      BY <3>1, <3>2, <1>4, <1>5
    <3>3. CASE j # i
      <4>1. s[j].key = k2 /\ s[j].obj = v2
        BY <3>1, <3>3, <1>5
      <4>2. k2 # s[i].key
        BY <4>1, <3>3, <1>4 DEF ChainOf
      <4> QED BY <4>1, <4>2, <1>4 DEF Binds
    <3> QED BY <3>2, <3>3
  <2>2. Binds(r, s[i].key, v)
    BY <1>3, <1>4, <1>5 DEF Binds
  <2>3. ASSUME NEW k2, NEW v2, Binds(s, k2, v2), k2 # s[i].key
        PROVE  Binds(r, k2, v2)
    <3>1. PICK j \in 1 .. n : s[j].key = k2 /\ s[j].obj = v2
      BY <2>3, <1>4 DEF Binds
    <3>2. j # i
      BY <3>1, <2>3
    <3> QED BY <3>1, <3>2, <1>3, <1>5 DEF Binds
  <2> QED BY <2>1, <2>2, <2>3 DEF Gained
<1>8. \A j \in 1 .. Len(r) : \E m \in 1 .. Len(s) : s[m].at = r[j].at
  BY <1>3, <1>4, <1>5
<1> QED BY <1>6, <1>7, <1>8

-----------------------------------------------------------------------------
(* The whole table *)

Chains == \A b \in Bucket : ChainOf(b, chain[b])

Apart == \A b, c \in Bucket : \A i \in 1 .. Len(chain[b]), j \in 1 .. Len(chain[c]) :
            chain[b][i].at = chain[c][j].at /\ chain[b][i].at # HeadAddr => b = c

(* What clear() has still to delete is all there is.                       *)
ClearList == clearing => /\ ~ corrupt
                         /\ \A b \in Bucket : todo[b] = getKeys(b)

Table == /\ chain \in [Bucket -> Seq(Node)]
         /\ Chains
         /\ Apart

IInv == TypeOK /\ Table /\ ClearList

(* The parts of the invariant are the properties HashMap states.           *)
LEMMA TableIsLinked == Table => Linked
<1> SUFFICES ASSUME Table PROVE Linked
  OBVIOUS
<1>0. \A b \in Bucket : DOMAIN chain[b] = 1 .. Len(chain[b])
  BY LenProperties DEF Table
<1>1. KeysPlaced
  BY <1>0 DEF Table, Chains, ChainOf, KeysPlaced
<1>2. CellsOwned
  <2> SUFFICES ASSUME NEW b \in Bucket, NEW c \in Bucket,
                      NEW i \in 1 .. Len(chain[b]), NEW j \in 1 .. Len(chain[c])
               PROVE  /\ i = 1 <=> chain[b][i].at = HeadAddr
                      /\ i # 1 /\ chain[b][i].at = chain[c][j].at => b = c /\ i = j
    BY <1>0 DEF CellsOwned
  <2>1. i = 1 <=> chain[b][i].at = HeadAddr
    BY DEF Table, Chains, ChainOf
  <2>2. ASSUME i # 1, chain[b][i].at = chain[c][j].at
        PROVE  b = c /\ i = j
    <3>1. b = c
      BY <2>1, <2>2 DEF Table, Apart
    <3> QED BY <3>1, <2>2 DEF Table, Chains, ChainOf
  <2> QED BY <2>1, <2>2
<1>3. BackLinks
  BY <1>0 DEF Table, Chains, ChainOf, BackLinks
<1> QED BY <1>1, <1>2, <1>3 DEF Linked

(* hash() names a bucket of the table (line 287).                           *)
LEMMA HashInRange == \A k \in Key : hash(k) \in Bucket
  BY SizeAssumption, HashAssumption DEF hash, Bucket

(* _getItem finds the one node that has the key.                           *)
LEMMA PosFinds ==
  ASSUME Table, NEW k \in Key, isExist(k)
  PROVE  Pos(k) \in 1 .. Len(chain[hash(k)]) /\ chain[hash(k)][Pos(k)].key = k
<1> DEFINE s == chain[hash(k)]
<1>0. hash(k) \in Bucket /\ DOMAIN s = 1 .. Len(s) /\ Len(s) \in Nat /\ ChainOf(hash(k), s)
  BY HashInRange, LenProperties DEF Table, Chains
<1>1. PICK i \in 1 .. Len(s) : IsAt(k, i)
  BY <1>0 DEF isExist
<1>2. \A j \in 1 .. i - 1 : ~ IsAt(k, j)
  BY <1>0, <1>1 DEF IsAt, ChainOf
<1>3. Pos(k) \in DOMAIN s /\ IsAt(k, Pos(k))
  BY <1>0, <1>1, <1>2 DEF Pos
<1> QED BY <1>0, <1>3 DEF IsAt

(* Exchanging one chain for another keeps the table, if the new chain is   *)
(* one and has only cells of the old chain and cells nobody uses.          *)
LEMMA Exchange ==
  ASSUME Table, NEW b \in Bucket, NEW r, ChainOf(b, r),
         chain' = [chain EXCEPT ![b] = r],
         \A j \in 1 .. Len(r) : \/ \E m \in 1 .. Len(chain[b]) : chain[b][m].at = r[j].at
                                \/ r[j].at \notin Used
                                \/ r[j].at = HeadAddr
  PROVE  Table'
<1>1. /\ chain' \in [Bucket -> Seq(Node)]
      /\ chain'[b] = r
      /\ \A c \in Bucket : c # b => chain'[c] = chain[c]
  BY DEF Table, ChainOf
<1>2. Chains'
  BY <1>1 DEF Table, Chains, ChainOf
<1>3. ASSUME NEW c \in Bucket, c # b,
             NEW j \in 1 .. Len(r), NEW i \in 1 .. Len(chain[c]),
             r[j].at = chain[c][i].at, r[j].at # HeadAddr
      PROVE  FALSE
  <2>1. chain[c][i].at \in Used
    <3>1. DOMAIN chain[c] = 1 .. Len(chain[c])
      BY LenProperties DEF Table
    <3>2. chain[c][i] \in Range(chain[c])
      BY <3>1 DEF Range
    <3> QED BY <3>2 DEF Used
  <2>2. PICK m \in 1 .. Len(chain[b]) : chain[b][m].at = r[j].at
    BY <1>3, <2>1
  <2> QED BY <1>3, <2>2 DEF Table, Apart
<1>4. Apart'
  <2> SUFFICES ASSUME NEW c \in Bucket, NEW d \in Bucket,
                      NEW i \in 1 .. Len(chain'[c]), NEW j \in 1 .. Len(chain'[d]),
                      chain'[c][i].at = chain'[d][j].at, chain'[c][i].at # HeadAddr
               PROVE  c = d
    BY DEF Apart
  <2>1. CASE c = b /\ d # b
    BY <2>1, <1>1, <1>3
  <2>2. CASE c # b /\ d = b
    BY <2>2, <1>1, <1>3
  <2>3. CASE c # b /\ d # b
    BY <2>3, <1>1 DEF Table, Apart
  <2> QED BY <2>1, <2>2, <2>3
<1> QED BY <1>1, <1>2, <1>4 DEF Table

(* update: the table stays one, and the key's bucket binds the new value.  *)
LEMMA StoreStep ==
  ASSUME Table, NEW k \in Key, NEW v \in Value, Store(k, v)
  PROVE  /\ Table'
         /\ \E r : /\ chain' = [chain EXCEPT ![hash(k)] = r]
                   /\ Gained(chain[hash(k)], k, v, r)
<1> DEFINE b == hash(k)
           s == chain[b]
<1>0. /\ b \in Bucket /\ s \in Seq(Node) /\ ChainOf(b, s)
      /\ DOMAIN s = 1 .. Len(s) /\ Len(s) \in Nat
  BY HashInRange, LenProperties DEF Table, Chains
<1>1. CASE Overwrite(k, v)
  <2> DEFINE i == Pos(k)
             r == [s EXCEPT ![i].obj = v]
  <2>1. i \in 1 .. Len(s) /\ s[i].key = k
    BY <1>1, PosFinds DEF Overwrite
  <2>2. chain' = [chain EXCEPT ![b] = r]
    BY <1>1 DEF Overwrite
  <2> HIDE DEF i
  <2>3. /\ r \in Seq(Node) /\ Len(r) = Len(s)
        /\ \A j \in 1 .. Len(s) :
             /\ r[j].key = s[j].key /\ r[j].at = s[j].at /\ r[j].prev = s[j].prev
             /\ r[j].obj = IF j = i THEN v ELSE s[j].obj
    BY <1>0, <2>1, SetObj
  <2> HIDE DEF r
  <2>4. /\ ChainOf(b, r) /\ Gained(s, s[i].key, v, r)
        /\ \A j \in 1 .. Len(r) : \E m \in 1 .. Len(s) : s[m].at = r[j].at
    BY <1>0, <2>1, <2>3, GainInPlace
  <2>5. Table'
    BY <1>0, <2>2, <2>4, Exchange
  <2> QED BY <2>1, <2>2, <2>4, <2>5
<1>2. CASE FillHead(k, v)
  <2> DEFINE r == << [key |-> k, obj |-> v, at |-> HeadAddr, prev |-> Null] >>
  <2>1. s = <<>> /\ chain' = [chain EXCEPT ![b] = r]
    BY <1>2 DEF FillHead
  <2>2. ChainOf(b, r) /\ Gained(<<>>, k, v, r)
    BY GainHead
  <2>3. \A j \in 1 .. Len(r) : r[j].at = HeadAddr
    OBVIOUS
  <2> HIDE DEF r
  <2>4. Table'
    BY <1>0, <2>1, <2>2, <2>3, Exchange
  <2> QED BY <2>1, <2>2, <2>4
<1>3. CASE AddLast(k, v)
  <2>1. PICK a \in Addr \ Used :
           chain' = [chain EXCEPT ![b] = Append(@,
                        [key |-> k, obj |-> v, at |-> a, prev |-> Last(@).at])]
    BY <1>3 DEF AddLast
  <2> DEFINE r == Append(s, [key |-> k, obj |-> v, at |-> a, prev |-> Last(s).at])
  <2>2. chain' = [chain EXCEPT ![b] = r]
    BY <2>1
  <2>3. s # <<>> /\ \A i \in 1 .. Len(s) : s[i].key # k
    BY <1>0, <1>3 DEF AddLast, isExist, IsAt
  <2>4. \A i \in 1 .. Len(s) : s[i].at # a
    <3>1. \A i \in 1 .. Len(s) : s[i] \in Range(s)
      BY <1>0 DEF Range
    <3> QED BY <1>0, <2>1, <3>1 DEF Used
  <2>5. /\ ChainOf(b, r) /\ Gained(s, k, v, r)
        /\ \A j \in 1 .. Len(r) : r[j].at = a \/ \E m \in 1 .. Len(s) : s[m].at = r[j].at
    BY <1>0, <2>1, <2>3, <2>4, GainLast
  <2> HIDE DEF r
  <2>6. a \notin Used
    BY <2>1
  <2>7. Table'
    BY <1>0, <2>2, <2>5, <2>6, Exchange
  <2> QED BY <2>2, <2>5, <2>7
<1> QED BY <1>1, <1>2, <1>3 DEF Store

(* del: either it goes astray, at a node that is not the head and whose    *)
(* prev is wrong, or the key's bucket loses that key and no other.         *)
LEMMA UnlinkStep ==
  ASSUME Table, NEW k \in Key, Unlink(k)
  PROVE  /\ Table'
         /\ \/ /\ corrupt' = TRUE /\ chain' = chain
               /\ isExist(k) /\ Pos(k) = 2 /\ 2 \in 1 .. Len(chain[hash(k)])
               /\ chain[hash(k)][2].prev # chain[hash(k)][1].at
            \/ /\ corrupt' = corrupt
               /\ \E r : /\ chain' = [chain EXCEPT ![hash(k)] = r]
                         /\ \A k2, v : Binds(r, k2, v) <=> Binds(chain[hash(k)], k2, v) /\ k2 # k
                         /\ isExist(k) => Len(r) = Len(chain[hash(k)]) - 1
<1> DEFINE b == hash(k)
           s == chain[b]
           i == Pos(k)
<1>0. /\ b \in Bucket /\ s \in Seq(Node) /\ ChainOf(b, s)
      /\ DOMAIN s = 1 .. Len(s) /\ Len(s) \in Nat
  BY HashInRange, LenProperties DEF Table, Chains
<1>1. CASE ~ isExist(k)
  <2>1. chain' = chain /\ corrupt' = corrupt
    BY <1>1 DEF Unlink
  <2>2. chain' = [chain EXCEPT ![b] = s]
    BY <2>1, <1>0 DEF Table
  <2>3. \A v : ~ Binds(s, k, v)
    BY <1>0, <1>1 DEF Binds, isExist, IsAt
  <2>4. Table'
    BY <2>1 DEF Table, Chains, ChainOf, Apart
  <2> QED BY <1>1, <2>1, <2>2, <2>3, <2>4
<1>2. CASE isExist(k)
  <2>1. i \in 1 .. Len(s) /\ s[i].key = k /\ (i = 1 <=> s[i].prev = Null)
    BY <1>0, <1>2, PosFinds DEF ChainOf
  <2>2. Drop(b, i)
    BY <1>2 DEF Unlink
  <2> HIDE DEF i
  <2>3. ASSUME NEW r, ChainOf(b, r), Lost(s, i, r),
               chain' = [chain EXCEPT ![b] = r], corrupt' = corrupt
        PROVE  /\ Table'
               /\ \E t : /\ chain' = [chain EXCEPT ![b] = t]
                         /\ \A k2, v : Binds(t, k2, v) <=> Binds(s, k2, v) /\ k2 # k
                         /\ Len(t) = Len(s) - 1
    <3>1. Table'
      BY <1>0, <2>3, Exchange DEF Lost
    <3> QED BY <3>1, <2>1, <2>3 DEF Lost
  <2>4. CASE DropOnly(b, i)
    <3>1. i = 1 /\ Len(s) = 1 /\ chain' = [chain EXCEPT ![b] = <<>>] /\ corrupt' = corrupt
      BY <2>1, <2>4 DEF DropOnly
    <3>2. ChainOf(b, <<>>) /\ Lost(s, i, <<>>)
      BY <1>0, <3>1, LoseOnly
    <3> QED BY <2>3, <3>1, <3>2
  <2>5. CASE DropHead(b, i)
    <3> DEFINE r == RemoveAt([s EXCEPT ![1].key = s[2].key, ![1].obj = s[2].obj], 2)
    <3>1. i = 1 /\ Len(s) > 1 /\ corrupt' = corrupt
      BY <1>0, <2>1, <2>5 DEF DropHead
    <3>2. chain' = [chain EXCEPT ![b] = r]
      BY <2>5, <3>1 DEF DropHead
    <3>3. ChainOf(b, r) /\ Lost(s, i, r)
      BY <1>0, <3>1, LoseHead
    <3> HIDE DEF r
    <3> QED BY <2>3, <3>1, <3>2, <3>3
  <2>6. CASE s[i].prev # Null /\ DropLast(b, i)
    <3> DEFINE r == RemoveAt(s, i)
    <3>1. i = Len(s) /\ Len(s) > 1 /\ corrupt' = corrupt
      <4>1. i = Len(s) /\ corrupt' = corrupt
        BY <2>6 DEF DropLast
      <4>2. i # 1
        BY <2>1, <2>6
      <4> HIDE DEF s, r
      <4>3. Len(s) > 1
        BY <1>0, <2>1, <4>1, <4>2
      <4> QED BY <4>1, <4>3
    <3>2. chain' = [chain EXCEPT ![b] = r]
      BY <2>6 DEF DropLast
    <3>3. ChainOf(b, r) /\ Lost(s, i, r)
      BY <1>0, <3>1, LoseLast
    <3> HIDE DEF r
    <3> QED BY <2>3, <3>1, <3>2, <3>3
  <2>7. CASE s[i].prev # Null /\ DropMiddle(b, i)
    <3> DEFINE r == RemoveAt([s EXCEPT ![i + 1].prev = s[i].prev], i)
    <3>1. i \in 2 .. Len(s) - 1 /\ s[i].prev = s[i - 1].at /\ corrupt' = corrupt
      BY <1>0, <2>1, <2>7 DEF DropMiddle
    <3>2. chain' = [chain EXCEPT ![b] = r]
      BY <2>7 DEF DropMiddle
    <3>3. ChainOf(b, r) /\ Lost(s, i, r)
      BY <1>0, <3>1, LoseMiddle
    <3> HIDE DEF r
    <3> QED BY <2>3, <3>1, <3>2, <3>3
  <2>8. CASE s[i].prev # Null /\ DropAstray(b, i)
    <3>1. s[i].prev # s[i - 1].at /\ corrupt' = TRUE /\ chain' = chain
      BY <2>8 DEF DropAstray
    <3>2. i = 2
      BY <1>0, <2>1, <2>8, <3>1 DEF ChainOf
    <3>3. Table'
      BY <3>1 DEF Table, Chains, ChainOf, Apart
    <3>4. 2 \in 1 .. Len(s) /\ s[2].prev # s[1].at
      BY <2>1, <3>1, <3>2
    <3> HIDE DEF s, b
    <3>5. isExist(k) /\ Pos(k) = 2
      BY <1>2, <3>2 DEF i
    <3> QED BY <3>1, <3>3, <3>4, <3>5 DEF s, b
  <2> QED BY <2>2, <2>3, <2>4, <2>5, <2>6, <2>7, <2>8 DEF Drop
<1> QED BY <1>1, <1>2

-----------------------------------------------------------------------------
(* clear() *)

(* getKeys() lists the keys of a bucket from its head on.                  *)
LEMMA KeysOfChain ==
  ASSUME Table, NEW b \in Bucket
  PROVE  /\ getKeys(b) \in Seq(Key) /\ Len(getKeys(b)) = Len(chain[b])
         /\ \A i \in 1 .. Len(chain[b]) : getKeys(b)[i] = chain[b][i].key
<1>1. /\ DOMAIN chain[b] = 1 .. Len(chain[b]) /\ Len(chain[b]) \in Nat
      /\ \A i \in 1 .. Len(chain[b]) : chain[b][i].key \in Key
  <2>1. chain[b] \in Seq(Node)
    BY DEF Table
  <2>2. \A i \in 1 .. Len(chain[b]) : chain[b][i] \in Node
    BY <2>1, ElementOfSeq
  <2> QED BY <2>1, <2>2, LenProperties DEF Node
<1>2. getKeys(b) = [i \in 1 .. Len(chain[b]) |-> chain[b][i].key]
  BY <1>1 DEF getKeys
<1> QED BY <1>1, <1>2

(* Deleting the head shifts the keys of its bucket by one, through no prev *)
(* pointer.                                                                *)
LEMMA UnlinkHead ==
  ASSUME Table, NEW b \in Bucket, Len(chain[b]) > 0, Unlink(chain[b][1].key)
  PROVE  /\ Table' /\ corrupt' = corrupt
         /\ \A c \in Bucket : c # b => chain'[c] = chain[c]
         /\ Len(chain'[b]) = Len(chain[b]) - 1
         /\ \A j \in 1 .. Len(chain[b]) - 1 : chain'[b][j].key = chain[b][j + 1].key
<1> DEFINE s == chain[b]
           k == s[1].key
<1>0. /\ s \in Seq(Node) /\ ChainOf(b, s)
      /\ DOMAIN s = 1 .. Len(s) /\ Len(s) \in Nat /\ 1 \in 1 .. Len(s)
  BY LenProperties DEF Table, Chains
<1>1. k \in Key /\ hash(k) = b
  <2>1. s[1] \in Node
    BY <1>0, ElementOfSeq
  <2> QED BY <2>1, <1>0 DEF ChainOf, Node
<1>2. isExist(k)
  BY <1>0, <1>1 DEF isExist, IsAt
<1>3. Pos(k) = 1
  BY <1>0, <1>1, <1>2, PosFinds DEF ChainOf
<1>4. Drop(b, 1) /\ s[1].prev = Null
  BY <1>0, <1>1, <1>2, <1>3 DEF Unlink, ChainOf
<1>5. CASE DropOnly(b, 1)
  <2>1. Len(s) = 1 /\ chain' = [chain EXCEPT ![b] = <<>>] /\ corrupt' = corrupt
    BY <1>5 DEF DropOnly
  <2>2. ChainOf(b, <<>>) /\ Lost(s, 1, <<>>)
    BY <1>0, <2>1, LoseOnly
  <2>3. Table'
    BY <2>1, <2>2, Exchange DEF Lost
  <2>4. chain'[b] = <<>> /\ Len(<<>>) = 0 /\ \A c \in Bucket : c # b => chain'[c] = chain[c]
    BY <2>1 DEF Table
  <2> QED BY <2>1, <2>3, <2>4
<1>6. CASE DropHead(b, 1)
  <2> DEFINE r == RemoveAt([s EXCEPT ![1].key = s[2].key, ![1].obj = s[2].obj], 2)
  <2>1. Len(s) > 1 /\ corrupt' = corrupt /\ chain' = [chain EXCEPT ![b] = r]
    BY <1>6 DEF DropHead
  <2>2. /\ ChainOf(b, r) /\ Lost(s, 1, r)
        /\ Len(r) = Len(s) - 1
        /\ \A j \in 1 .. Len(s) - 1 : r[j].key = s[j + 1].key
    BY <1>0, <2>1, LoseHead
  <2> HIDE DEF r
  <2>3. Table'
    BY <2>1, <2>2, Exchange DEF Lost
  <2>4. chain'[b] = r /\ \A c \in Bucket : c # b => chain'[c] = chain[c]
    BY <2>1 DEF Table
  <2> QED BY <2>1, <2>2, <2>3, <2>4
<1> QED BY <1>4, <1>5, <1>6 DEF Drop

-----------------------------------------------------------------------------
(* The invariant *)

(* The table is made empty (_init).                                        *)
LEMMA InitInv == Init => IInv
<1> SUFFICES ASSUME Init PROVE IInv
  OBVIOUS
<1>1. /\ \A b \in Bucket : chain[b] = <<>> /\ todo[b] = <<>>
      /\ chain = [b \in Bucket |-> <<>>] /\ todo = [b \in Bucket |-> <<>>]
  BY DEF Init
<1>2. /\ <<>> \in Seq(Node) /\ <<>> \in Seq(Key) /\ Len(<<>>) = 0
  BY EmptySeq
<1>3. TypeOK
  BY <1>1, <1>2 DEF Init, TypeOK
<1>4. Chains
  BY <1>1, <1>2 DEF Chains, ChainOf
<1>5. Apart
  BY <1>1, <1>2 DEF Apart
<1> QED BY <1>3, <1>4, <1>5 DEF IInv, Table, TypeOK, ClearList, Init

(* Every call, and every step of clear(), keeps the inductive invariant.    *)
LEMMA NextInv == IInv /\ [Next]_vars => IInv'
<1> SUFFICES ASSUME IInv, [Next]_vars PROVE IInv'
  OBVIOUS
<1>0. TypeOK /\ Table /\ ClearList
  BY DEF IInv
<1> USE DEF Ready
<1>1. ASSUME NEW k \in Key, NEW v \in Value, Update(k, v)
      PROVE  IInv'
  <2>1. Table'
    BY <1>0, <1>1, StoreStep DEF Update
  <2> QED BY <1>0, <1>1, <2>1 DEF Update, IInv, Table, TypeOK, ClearList
<1>2. ASSUME UNCHANGED <<chain, todo, clearing, corrupt>>
      PROVE  IInv'
  BY <1>0, <1>2 DEF IInv, Table, Chains, Apart, TypeOK, ClearList, getKeys
<1>3. ASSUME NEW k \in Key, Del(k)
      PROVE  IInv'
  <2>1. Table' /\ corrupt' \in BOOLEAN
    BY <1>0, <1>3, UnlinkStep DEF Del, TypeOK
  <2> QED BY <1>0, <1>3, <2>1 DEF Del, IInv, Table, TypeOK, ClearList
<1>4. CASE Clear
  <2>1. Table'
    BY <1>0, <1>4 DEF Clear, Table, Chains, Apart
  <2>2. todo' \in [Bucket -> Seq(Key)]
    BY <1>0, <1>4, KeysOfChain DEF Clear
  <2>3. ClearList'
    BY <1>0, <1>4 DEF Clear, ClearList, getKeys
  <2> QED BY <1>0, <1>4, <2>1, <2>2, <2>3 DEF Clear, IInv, TypeOK, Table
<1>5. ASSUME NEW b \in Bucket, ClearDel(b)
      PROVE  IInv'
  <2>1. ~ corrupt /\ todo[b] = getKeys(b) /\ todo[b] # <<>>
    BY <1>0, <1>5 DEF ClearDel, ClearList
  <2>2. /\ todo[b] \in Seq(Key) /\ Len(todo[b]) = Len(chain[b]) /\ Len(chain[b]) > 0
        /\ \A i \in 1 .. Len(chain[b]) : todo[b][i] = chain[b][i].key
    <3>1. /\ todo[b] \in Seq(Key) /\ Len(todo[b]) = Len(chain[b])
          /\ \A i \in 1 .. Len(chain[b]) : todo[b][i] = chain[b][i].key
      BY <1>0, <2>1, KeysOfChain
    <3>2. Len(todo[b]) \in Nat \ {0}
      BY <2>1, <3>1, EmptySeq
    <3> QED BY <3>1, <3>2
  <2>3. Head(todo[b]) = chain[b][1].key
    BY <2>2
  <2>4. /\ Table' /\ corrupt' = corrupt
        /\ \A c \in Bucket : c # b => chain'[c] = chain[c]
        /\ Len(chain'[b]) = Len(chain[b]) - 1
        /\ \A j \in 1 .. Len(chain[b]) - 1 : chain'[b][j].key = chain[b][j + 1].key
    BY <1>0, <1>5, <2>2, <2>3, UnlinkHead DEF ClearDel
  <2>5. /\ Tail(todo[b]) \in Seq(Key)
        /\ Len(Tail(todo[b])) = Len(todo[b]) - 1
        /\ \A i \in 1 .. Len(todo[b]) - 1 : Tail(todo[b])[i] = todo[b][i + 1]
    BY <2>1, <2>2, HeadTailProperties
  <2>6. /\ todo' \in [Bucket -> Seq(Key)]
        /\ todo'[b] = Tail(todo[b])
        /\ \A c \in Bucket : c # b => todo'[c] = todo[c]
    BY <1>0, <1>5, <2>5 DEF ClearDel, TypeOK
  <2>7. ASSUME NEW c \in Bucket
        PROVE  todo'[c] = getKeys(c)'
    <3>1. CASE c # b
      BY <3>1, <1>0, <1>5, <2>4, <2>6 DEF ClearDel, ClearList, getKeys
    <3>2. CASE c = b
      <4>1. chain'[b] \in Seq(Node) /\ DOMAIN chain'[b] = 1 .. Len(chain'[b])
        BY <2>4, LenProperties DEF Table
      <4>2. getKeys(b)' = [i \in 1 .. Len(chain[b]) - 1 |-> chain[b][i + 1].key]
        BY <2>4, <4>1 DEF getKeys
      <4>3. /\ DOMAIN Tail(todo[b]) = 1 .. Len(chain[b]) - 1
            /\ \A i \in 1 .. Len(chain[b]) - 1 : Tail(todo[b])[i] = chain[b][i + 1].key
        <5>1. DOMAIN Tail(todo[b]) = 1 .. Len(Tail(todo[b]))
          BY <2>5, LenProperties
        <5>2. \A i \in 1 .. Len(chain[b]) - 1 : i + 1 \in 1 .. Len(chain[b])
          BY <2>2
        <5> QED BY <2>2, <2>5, <5>1, <5>2
      <4>4. Tail(todo[b]) = [i \in 1 .. Len(chain[b]) - 1 |-> chain[b][i + 1].key]
        <5>1. Tail(todo[b]) \in [1 .. Len(Tail(todo[b])) -> Key]
          BY <2>5, LenProperties
        <5> HIDE <2>5
        <5> DEFINE tl == Tail(todo[b])
        <5>2. tl = [i \in DOMAIN tl |-> tl[i]]
          BY <5>1
        <5> HIDE DEF tl
        <5> QED BY <4>3, <5>2 DEF tl
      <4> QED BY <3>2, <2>6, <4>2, <4>4
    <3> QED BY <3>1, <3>2
  <2> QED BY <1>0, <1>5, <2>1, <2>4, <2>6, <2>7 DEF ClearDel, IInv, TypeOK, Table, ClearList
<1>6. CASE ClearEnd
  BY <1>0, <1>6 DEF ClearEnd, IInv, Table, Chains, Apart, TypeOK, ClearList
<1>7. CASE UNCHANGED vars
  BY <1>2, <1>7 DEF vars
<1> QED
  BY <1>1, <1>2, <1>3, <1>4, <1>5, <1>6, <1>7 DEF Next, Get, IsExist, GetSize

(* The invariant holds of every behaviour.                                 *)
THEOREM Invariant == Spec => []IInv
<1> QED BY InitInv, NextInv, PTL DEF Spec

(* Every variable keeps its type.                                          *)
THEOREM TypeCorrect == Spec => []TypeOK
<1>1. IInv => TypeOK
  BY DEF IInv
<1> QED BY Invariant, <1>1, PTL

(* A key is never in a chain twice and never in a bucket it does not hash  *)
(* to, whatever the calls.                                                 *)
THEOREM KeysStayPlaced == Spec => []KeysPlaced
<1>1. IInv => KeysPlaced
  BY TableIsLinked DEF IInv, Linked
<1> QED BY Invariant, <1>1, PTL

(* No cell of the heap is in two places of the table, although `new` may   *)
(* return what del has just freed.                                         *)
THEOREM CellsStayOwned == Spec => []CellsOwned
<1>1. IInv => CellsOwned
  BY TableIsLinked DEF IInv, Linked
<1> QED BY Invariant, <1>1, PTL

(* Only the second node of a chain ever has a wrong prev.                  *)
THEOREM BackLinksHold == Spec => []BackLinks
<1>1. IInv => BackLinks
  BY TableIsLinked DEF IInv, Linked
<1> QED BY Invariant, <1>1, PTL

(* clear() never writes through a wrong prev, in a table of any shape.     *)
THEOREM ClearIsSafe == Spec => []ClearSafe
<1>1. IInv => ClearSafe
  BY DEF IInv, ClearList, ClearSafe
<1> QED BY Invariant, <1>1, PTL

-----------------------------------------------------------------------------
(* No bucket with three keys: no corruption *)

PInv == /\ ~ corrupt
        /\ \A b \in Bucket : Len(chain[b]) = 2 => chain[b][2].prev = HeadAddr

(* With at most two keys to a bucket no chain is longer than two.           *)
LEMMA ShortChains ==
  ASSUME AtMostTwo, Table, NEW b \in Bucket
  PROVE  Len(chain[b]) \in 0 .. 2
<1>1. /\ chain[b] \in Seq(Node) /\ ChainOf(b, chain[b]) /\ Len(chain[b]) \in Nat
  BY LenProperties DEF Table, Chains
<1>2. ~ (Len(chain[b]) > 2)
  <2> SUFFICES ASSUME Len(chain[b]) > 2 PROVE FALSE
    OBVIOUS
  <2>1. 1 \in 1 .. Len(chain[b]) /\ 2 \in 1 .. Len(chain[b]) /\ 3 \in 1 .. Len(chain[b])
    BY <1>1
  <2>2. chain[b][1] \in Node /\ chain[b][2] \in Node /\ chain[b][3] \in Node
    BY <1>1, <2>1, ElementOfSeq
  <2>3. chain[b][1].key \in Key /\ chain[b][2].key \in Key /\ chain[b][3].key \in Key
    BY <2>2 DEF Node
  <2>4. /\ hash(chain[b][1].key) = b /\ hash(chain[b][2].key) = b /\ hash(chain[b][3].key) = b
        /\ chain[b][1].key # chain[b][2].key /\ chain[b][2].key # chain[b][3].key
        /\ chain[b][1].key # chain[b][3].key
    BY <1>1, <2>1 DEF ChainOf
  <2> QED BY <2>3, <2>4 DEF AtMostTwo
<1> DEFINE n == Len(chain[b])
<1>3. n \in Nat /\ ~ (n > 2)
  BY <1>1, <1>2
<1> HIDE DEF n
<1>4. n \in 0 .. 2
  BY <1>3
<1> QED BY <1>4 DEF n

(* In such a table del() finds a right prev and leaves right ones.          *)
LEMMA UnlinkPairs ==
  ASSUME AtMostTwo, Table, PInv, NEW k \in Key, Unlink(k)
  PROVE  PInv'
<1>0. hash(k) \in Bucket /\ Len(chain[hash(k)]) \in 0 .. 2
  BY HashInRange, ShortChains
<1>1. CASE ~ isExist(k)
  BY <1>1 DEF Unlink, PInv
<1>2. CASE isExist(k)
  <2>1. ASSUME Pos(k) = 2, 2 \in 1 .. Len(chain[hash(k)])
        PROVE  chain[hash(k)][2].prev = chain[hash(k)][1].at
    <3>1. Len(chain[hash(k)]) = 2
      <4> DEFINE n == Len(chain[hash(k)])
      <4>1. n \in 0 .. 2 /\ 2 \in 1 .. n
        BY <1>0, <2>1
      <4> HIDE DEF n
      <4>2. n = 2
        BY <4>1
      <4> QED BY <4>2 DEF n
    <3>2. chain[hash(k)][1].at = HeadAddr
      BY <1>0, <3>1 DEF Table, Chains, ChainOf
    <3> QED BY <1>0, <3>1, <3>2 DEF PInv
  <2>2. PICK r : /\ corrupt' = corrupt
                 /\ chain' = [chain EXCEPT ![hash(k)] = r]
                 /\ Len(r) = Len(chain[hash(k)]) - 1
    BY <1>2, <2>1, UnlinkStep
  <2>3. chain'[hash(k)] = r /\ \A c \in Bucket : c # hash(k) => chain'[c] = chain[c]
    BY <1>0, <2>2 DEF Table
  <2>4. Len(r) # 2
    BY <1>0, <2>2
  <2> QED BY <2>2, <2>3, <2>4 DEF PInv
<1> QED BY <1>1, <1>2

(* In such a table update() leaves every prev right.                        *)
LEMMA StorePairs ==
  ASSUME AtMostTwo, Table, PInv, NEW k \in Key, NEW v \in Value, Store(k, v),
         corrupt' = corrupt
  PROVE  PInv'
<1> DEFINE b == hash(k)
           s == chain[b]
<1>0. /\ b \in Bucket /\ s \in Seq(Node) /\ ChainOf(b, s) /\ Len(s) \in 0 .. 2
  BY HashInRange, ShortChains DEF Table, Chains
<1>1. ASSUME NEW r, chain' = [chain EXCEPT ![b] = r],
             Len(r) = 2 => r[2].prev = HeadAddr
      PROVE  PInv'
  <2>1. chain'[b] = r /\ \A c \in Bucket : c # b => chain'[c] = chain[c]
    BY <1>0, <1>1 DEF Table
  <2> QED BY <1>1, <2>1 DEF PInv
<1>2. CASE Overwrite(k, v)
  <2> DEFINE i == Pos(k)
             r == [s EXCEPT ![i].obj = v]
  <2>1. i \in 1 .. Len(s)
    BY <1>2, PosFinds DEF Overwrite
  <2>2. chain' = [chain EXCEPT ![b] = r]
    BY <1>2 DEF Overwrite
  <2> HIDE DEF i
  <2>3. Len(r) = Len(s) /\ \A j \in 1 .. Len(s) : r[j].prev = s[j].prev
    BY <1>0, <2>1, SetObj
  <2> HIDE DEF r
  <2>4. Len(r) = 2 => r[2].prev = HeadAddr
    <3>1. Len(s) = 2 => s[2].prev = HeadAddr
      BY <1>0 DEF PInv
    <3> HIDE DEF s
    <3>2. Len(s) = 2 => 2 \in 1 .. Len(s)
      OBVIOUS
    <3> QED BY <2>3, <3>1, <3>2
  <2> QED BY <1>1, <2>2, <2>4
<1>3. CASE FillHead(k, v)
  <2> DEFINE r == << [key |-> k, obj |-> v, at |-> HeadAddr, prev |-> Null] >>
  <2>1. chain' = [chain EXCEPT ![b] = r] /\ Len(r) # 2
    BY <1>3 DEF FillHead
  <2> HIDE DEF r
  <2> QED BY <1>1, <2>1
<1>4. CASE AddLast(k, v)
  <2>0. Table'
    BY <1>4, StoreStep DEF Store
  <2>1. PICK a \in Addr :
           chain' = [chain EXCEPT ![b] = Append(@,
                        [key |-> k, obj |-> v, at |-> a, prev |-> Last(@).at])]
    BY <1>4 DEF AddLast
  <2> DEFINE e == [key |-> k, obj |-> v, at |-> a, prev |-> Last(s).at]
             r == Append(s, e)
  <2>2. chain' = [chain EXCEPT ![b] = r]
    BY <2>1
  <2>3. /\ Len(r) = Len(s) + 1 /\ r[Len(s) + 1] = e
    <3> HIDE DEF e
    <3> QED BY <1>0
  <2>4. s # <<>> /\ Len(s) > 0
    BY <1>0, <1>4, EmptySeq DEF AddLast
  <2>5. Last(s) = s[Len(s)]
    BY DEF Last
  <2>6. e.prev = s[Len(s)].at
    BY <2>5
  <2> HIDE DEF r, e
  <2>7. Len(r) = 2 => r[2].prev = HeadAddr
    <3> SUFFICES ASSUME Len(r) = 2 PROVE r[2].prev = HeadAddr
      OBVIOUS
    <3>1. Len(s) = 1 /\ Len(s) + 1 = 2
      <4> DEFINE n == Len(s)
      <4>1. n \in 0 .. 2 /\ 2 = n + 1
        BY <1>0, <2>3
      <4> HIDE DEF n
      <4>2. n = 1 /\ n + 1 = 2
        BY <4>1
      <4> QED BY <4>2 DEF n
    <3>2. s[1].at = HeadAddr
      BY <1>0, <3>1 DEF ChainOf
    <3> QED BY <2>3, <2>6, <3>1, <3>2
  <2> QED BY <1>1, <2>2, <2>7
<1> QED BY <1>2, <1>3, <1>4 DEF Store

(* A table none of whose buckets is hashed to by three of its keys is      *)
(* never corrupted.                                                        *)
THEOREM PairsNeverCorrupt ==
  ASSUME AtMostTwo
  PROVE  Spec => []NeverCorrupt
<1>1. Init => PInv
  <2> SUFFICES ASSUME Init PROVE PInv
    OBVIOUS
  <2>1. \A b \in Bucket : chain[b] = <<>> /\ Len(<<>>) = 0
    BY EmptySeq DEF Init
  <2> QED BY <2>1 DEF PInv, Init
<1>2. IInv /\ PInv /\ [Next]_vars => PInv'
  <2> SUFFICES ASSUME IInv, PInv, [Next]_vars PROVE PInv'
    OBVIOUS
  <2>0. Table
    BY DEF IInv
  <2>1. ASSUME NEW k \in Key, NEW v \in Value, Update(k, v)
        PROVE  PInv'
    BY <2>0, <2>1, StorePairs DEF Update
  <2>2. ASSUME NEW k \in Key, Del(k)
        PROVE  PInv'
    BY <2>0, <2>2, UnlinkPairs DEF Del
  <2>3. ASSUME NEW b \in Bucket, ClearDel(b)
        PROVE  PInv'
    <3>1. todo[b] \in Seq(Key) /\ todo[b] # <<>>
      BY <2>3 DEF ClearDel, IInv, TypeOK
    <3>2. Head(todo[b]) \in Key
      BY <3>1, HeadTailProperties
    <3> QED BY <2>0, <2>3, <3>2, UnlinkPairs DEF ClearDel
  <2>4. ASSUME UNCHANGED <<chain, corrupt>>
        PROVE  PInv'
    BY <2>4 DEF PInv
  <2> QED BY <2>1, <2>2, <2>3, <2>4
          DEF Next, vars, Get, IsExist, GetSize, Clear, ClearEnd
<1>3. PInv => NeverCorrupt
  BY DEF PInv, NeverCorrupt
<1> QED BY Invariant, <1>1, <1>2, <1>3, PTL DEF Spec

-----------------------------------------------------------------------------
(* HashMap.tla implements KeyMap.tla: every call has the effect and the    *)
(* result KeyMap gives it, until del writes through a wrong prev.          *)

(* The keys present are those some node binds, and to one value each.      *)
MapShape ==
  /\ \A k \in Key : k \in Present <=> \E v : Binds(chain[hash(k)], k, v)
  /\ \A k \in Present : \A v : Binds(chain[hash(k)], k, v) <=> v = chain[hash(k)][Pos(k)].obj

(* In a well formed table a key is bound to the value of its only node.     *)
LEMMA ShapeOfTable == Table => MapShape
<1> SUFFICES ASSUME Table PROVE MapShape
  OBVIOUS
<1> SUFFICES ASSUME NEW k \in Key
             PROVE  /\ k \in Present <=> \E v : Binds(chain[hash(k)], k, v)
                    /\ k \in Present => \A v : Binds(chain[hash(k)], k, v)
                                                  <=> v = chain[hash(k)][Pos(k)].obj
  BY DEF MapShape, Present
<1> DEFINE s == chain[hash(k)]
<1>0. hash(k) \in Bucket /\ DOMAIN s = 1 .. Len(s) /\ ChainOf(hash(k), s)
  BY HashInRange, LenProperties DEF Table, Chains
<1>1. k \in Present <=> \E i \in 1 .. Len(s) : s[i].key = k
  BY <1>0 DEF Present, isExist, IsAt
<1>2. k \in Present <=> \E v : Binds(s, k, v)
  BY <1>1 DEF Binds
<1>3. ASSUME k \in Present, NEW v
      PROVE  Binds(s, k, v) <=> v = s[Pos(k)].obj
  <2>1. Pos(k) \in 1 .. Len(s) /\ s[Pos(k)].key = k
    BY <1>3, PosFinds DEF Present
  <2>2. \A i \in 1 .. Len(s) : s[i].key = k => i = Pos(k)
    BY <1>0, <2>1 DEF ChainOf
  <2> HIDE DEF s
  <2> QED BY <2>1, <2>2 DEF Binds
<1> QED BY <1>2, <1>3

(* getSize counts nodes, and there is one for each key.                    *)
LEMMA SizeOfTable == Table => getSize = Cardinality(Present)
<1> SUFFICES ASSUME Table PROVE getSize = Cardinality(Present)
  OBVIOUS
<1> DEFINE f == [k \in Present |-> <<hash(k), Pos(k)>>]
<1>1. IsFiniteSet(Present)
  BY KeyAssumption, FS_Subset DEF Present
<1>2. ASSUME NEW k \in Present
      PROVE  /\ k \in Key /\ hash(k) \in Bucket /\ Pos(k) \in DOMAIN chain[hash(k)]
             /\ chain[hash(k)][Pos(k)].key = k
  BY PosFinds, HashInRange, LenProperties DEF Present, Table
<1>3. f \in [Present -> Places]
  BY <1>2 DEF Places
<1>4. ASSUME NEW k \in Present, NEW l \in Present, f[k] = f[l]
      PROVE  k = l
  <2>1. hash(k) = hash(l) /\ Pos(k) = Pos(l)
    BY <1>4
  <2> QED BY <1>2, <2>1
<1>5. ASSUME NEW p \in Places
      PROVE  \E k \in Present : f[k] = p
  <2>0. PICK b \in Bucket : \E i \in DOMAIN chain[b] : p = <<b, i>>
    BY DEF Places
  <2>1. PICK i \in DOMAIN chain[b] : p = <<b, i>>
    BY <2>0
  <2>2. /\ chain[b] \in Seq(Node) /\ ChainOf(b, chain[b])
        /\ DOMAIN chain[b] = 1 .. Len(chain[b])
    BY LenProperties DEF Table, Chains
  <2> DEFINE k == chain[b][i].key
  <2>3. k \in Key /\ hash(k) = b
    <3>1. chain[b][i] \in Node
      BY <2>2, ElementOfSeq
    <3> QED BY <2>2, <3>1 DEF ChainOf, Node
  <2>4. k \in Present
    BY <2>3 DEF Present, isExist, IsAt
  <2>5. Pos(k) = i
    BY <1>2, <2>2, <2>3, <2>4 DEF ChainOf
  <2> HIDE DEF k
  <2> QED BY <2>1, <2>3, <2>4, <2>5
<1> HIDE DEF f
<1>6. f \in Bijection(Present, Places)
  BY <1>3, <1>4, <1>5 DEF Bijection, Injection, Surjection, IsInjective
<1>7. Cardinality(Places) = Cardinality(Present)
  BY <1>1, <1>6, FS_Bijection DEF ExistsBijection
<1> QED BY <1>7 DEF getSize

-----------------------------------------------------------------------------
(* What a step of the table does to the map *)

(* Truth values that are equivalent are equal.                             *)
LEMMA EqualTruth == \A p, q \in BOOLEAN : (p <=> q) => p = q
  OBVIOUS

(* A change of one chain leaves the keys of the other buckets alone.        *)
LEMMA BindingsElsewhere ==
  ASSUME Table, NEW k \in Key, NEW r, chain' = [chain EXCEPT ![hash(k)] = r]
  PROVE  /\ chain'[hash(k)] = r
         /\ \A l \in Key : hash(l) # hash(k) => chain'[hash(l)] = chain[hash(l)]
  BY HashInRange DEF Table

(* update() binds its key and changes no other binding.                     *)
LEMMA StoreObjects ==
  ASSUME Table, MapShape, MapShape',
         NEW k \in Key, NEW v \in Value, Store(k, v)
  PROVE  /\ Present' = Present \cup {k}
         /\ \A l \in Present' :
              chain'[hash(l)][Pos(l)'].obj = IF l = k THEN v ELSE chain[hash(l)][Pos(l)].obj
<1>1. PICK r : /\ chain' = [chain EXCEPT ![hash(k)] = r]
               /\ Gained(chain[hash(k)], k, v, r)
  BY StoreStep
<1>2. ASSUME NEW l \in Key, NEW w
      PROVE  Binds(chain'[hash(l)], l, w) <=>
                \/ l = k /\ w = v
                \/ l # k /\ Binds(chain[hash(l)], l, w)
  <2>1. CASE hash(l) = hash(k)
    <3>1. chain'[hash(l)] = r /\ chain[hash(l)] = chain[hash(k)]
      BY <1>1, <2>1, BindingsElsewhere
    <3>2. Binds(r, l, w) <=> \/ l = k /\ w = v
                             \/ l # k /\ Binds(chain[hash(k)], l, w)
      BY <1>1 DEF Gained
    <3> QED BY <3>1, <3>2
  <2>2. CASE hash(l) # hash(k)
    BY <1>1, <2>2, BindingsElsewhere
  <2> QED BY <2>1, <2>2
<1>3. Present' = Present \cup {k}
  <2>1. \A l \in Key : l \in Present' <=> l \in Present \/ l = k
    BY <1>2 DEF MapShape
  <2> QED BY <2>1 DEF Present
<1>4. ASSUME NEW l \in Present'
      PROVE  chain'[hash(l)][Pos(l)'].obj = IF l = k THEN v ELSE chain[hash(l)][Pos(l)].obj
  <2>1. l \in Key
    BY DEF Present
  <2>2. CASE l = k
    BY <1>2, <2>1, <2>2 DEF MapShape
  <2>3. CASE l # k
    <3>1. l \in Present
      BY <1>3, <2>3
    <3>2. Binds(chain[hash(l)], l, chain[hash(l)][Pos(l)].obj)
      BY <2>1, <3>1 DEF MapShape
    <3> QED BY <1>2, <2>1, <2>3, <3>2 DEF MapShape
  <2> QED BY <2>2, <2>3
<1> QED BY <1>3, <1>4

(* And so does the map.                                                     *)
LEMMA StoreMap ==
  ASSUME Table, MapShape, MapShape', ~ clearing, ~ clearing',
         NEW k \in Key, NEW v \in Value, Store(k, v)
  PROVE  Contents' = Map!With(Contents, k, v)
<1>1. /\ Contents = [l \in Present |-> chain[hash(l)][Pos(l)].obj]
      /\ Contents' = [l \in Present' |-> chain'[hash(l)][Pos(l)'].obj]
  BY DEF Contents
<1> QED BY <1>1, StoreObjects DEF Map!With

(* del() takes its key's binding away and no other.                         *)
LEMMA UnlinkObjects ==
  ASSUME Table, MapShape, MapShape', ~ corrupt', NEW k \in Key, Unlink(k)
  PROVE  /\ Present' = Present \ {k}
         /\ \A l \in Present' : chain'[hash(l)][Pos(l)'].obj = chain[hash(l)][Pos(l)].obj
<1>1. PICK r : /\ chain' = [chain EXCEPT ![hash(k)] = r]
               /\ \A k2, v : Binds(r, k2, v) <=> Binds(chain[hash(k)], k2, v) /\ k2 # k
  BY UnlinkStep
<1>2. ASSUME NEW l \in Key, NEW w
      PROVE  Binds(chain'[hash(l)], l, w) <=> l # k /\ Binds(chain[hash(l)], l, w)
  <2>1. CASE hash(l) = hash(k)
    <3>1. chain'[hash(l)] = r /\ chain[hash(l)] = chain[hash(k)]
      BY <1>1, <2>1, BindingsElsewhere
    <3>2. Binds(r, l, w) <=> Binds(chain[hash(k)], l, w) /\ l # k
      BY <1>1
    <3> QED BY <3>1, <3>2
  <2>2. CASE hash(l) # hash(k)
    <3>1. chain'[hash(l)] = chain[hash(l)]
      BY <1>1, <2>2, BindingsElsewhere
    <3>2. l # k
      BY <2>2
    <3> QED BY <3>1, <3>2
  <2> QED BY <2>1, <2>2
<1>3. Present' = Present \ {k}
  <2>1. \A l \in Key : l \in Present' <=> l \in Present /\ l # k
    BY <1>2 DEF MapShape
  <2> QED BY <2>1 DEF Present
<1>4. ASSUME NEW l \in Present'
      PROVE  chain'[hash(l)][Pos(l)'].obj = chain[hash(l)][Pos(l)].obj
  <2>1. l \in Key /\ l \in Present /\ l # k
    BY <1>3 DEF Present
  <2>2. Binds(chain[hash(l)], l, chain[hash(l)][Pos(l)].obj)
    BY <2>1 DEF MapShape
  <2> QED BY <1>2, <2>1, <2>2 DEF MapShape
<1> QED BY <1>3, <1>4

(* And so the map loses it.                                                 *)
LEMMA UnlinkMap ==
  ASSUME Table, MapShape, MapShape', ~ clearing, ~ clearing', ~ corrupt',
         NEW k \in Key, Unlink(k)
  PROVE  Contents' = Map!Without(Contents, k)
<1>1. /\ Contents = [l \in Present |-> chain[hash(l)][Pos(l)].obj]
      /\ Contents' = [l \in Present' |-> chain'[hash(l)][Pos(l)'].obj]
  BY DEF Contents
<1> QED BY <1>1, UnlinkObjects DEF Map!Without

(* The table is made empty (_init).                                         *)
LEMMA MapInit == Init => Map!Init
<1> SUFFICES ASSUME Init PROVE Map!Init
  OBVIOUS
<1>1. \A k \in Key : chain[hash(k)] = <<>> /\ DOMAIN chain[hash(k)] = {}
  BY HashInRange DEF Init
<1>2. Present = {}
  BY <1>1 DEF Present, isExist
<1>3. Contents = [k \in {} |-> chain[hash(k)][Pos(k)].obj]
  BY <1>2 DEF Contents, Init
<1> QED BY <1>3 DEF Map!Init, Map!EmptyMap, Init

(* Every step is one of the map, or leaves it alone, or corrupts memory.    *)
LEMMA MapStep ==
  ASSUME IInv, IInv', MapShape, MapShape', [Next]_vars
  PROVE  [Map!Next \/ corrupt']_<<Contents, answer>>
<1> USE DEF Ready
<1>0. Table /\ ClearList /\ DOMAIN Contents = IF clearing THEN {} ELSE Present
  BY DEF IInv, Contents
<1>1. ASSUME NEW k \in Key, NEW v \in Value, Update(k, v)
      PROVE  Map!Update(k, v)
  <2>1. Contents' = Map!With(Contents, k, v)
    BY <1>0, <1>1, StoreMap DEF Update
  <2> QED BY <1>1, <2>1 DEF Update, Map!Update
<1>2. ASSUME UNCHANGED <<chain, clearing>>
      PROVE  Contents' = Contents
  BY <1>2 DEF Contents, Present, isExist, IsAt, Pos
<1>3. ASSUME NEW k \in Key, Get(k)
      PROVE  Map!Get(k)
  <2>1. Contents' = Contents /\ ~ clearing
    BY <1>2, <1>3 DEF Get
  <2>2. CASE k \in Present
    <3>1. Contents[k] = chain[hash(k)][Pos(k)].obj
      BY <2>1, <2>2 DEF Contents
    <3>2. isExist(k)
      BY <2>2 DEF Present
    <3> QED BY <1>0, <1>3, <2>1, <2>2, <3>1, <3>2 DEF Get, Map!Get
  <2>3. CASE k \notin Present
    <3>1. ~ isExist(k)
      BY <2>3 DEF Present
    <3> QED BY <1>0, <1>3, <2>1, <2>3, <3>1 DEF Get, Map!Get
  <2> QED BY <2>2, <2>3
<1>4. ASSUME NEW k \in Key, IsExist(k)
      PROVE  Map!IsExist(k)
  <2>1. Contents' = Contents /\ ~ clearing
    BY <1>2, <1>4 DEF IsExist
  <2>2. isExist(k) <=> k \in DOMAIN Contents
    BY <1>0, <2>1 DEF Present
  <2>3. isExist(k) = (k \in DOMAIN Contents)
    <3>1. isExist(k) \in BOOLEAN /\ (k \in DOMAIN Contents) \in BOOLEAN
      BY DEF isExist
    <3> QED BY <2>2, <3>1, EqualTruth, Zenon
  <2> QED BY <1>4, <2>1, <2>3, Zenon DEF IsExist, Map!IsExist
<1>5. ASSUME GetSize
      PROVE  Map!GetSize
  <2>1. Contents' = Contents /\ ~ clearing
    BY <1>2, <1>5 DEF GetSize
  <2>2. getSize = Cardinality(DOMAIN Contents)
    BY <1>0, <2>1, SizeOfTable
  <2>3. Map!Cardinality(DOMAIN Contents) = Cardinality(DOMAIN Contents)
    BY DEF Map!Cardinality, Cardinality
  <2> QED BY <1>5, <2>1, <2>2, <2>3 DEF GetSize, Map!GetSize
<1>6. ASSUME NEW k \in Key, Del(k), ~ corrupt'
      PROVE  Map!Del(k)
  <2>1. Contents' = Map!Without(Contents, k)
    BY <1>0, <1>6, UnlinkMap DEF Del
  <2>2. isExist(k) <=> k \in DOMAIN Contents
    BY <1>0, <1>6 DEF Present, Del
  <2>3. isExist(k) = (k \in DOMAIN Contents)
    <3>1. isExist(k) \in BOOLEAN /\ (k \in DOMAIN Contents) \in BOOLEAN
      BY DEF isExist
    <3> QED BY <2>2, <3>1, EqualTruth, Zenon
  <2> QED BY <1>6, <2>1, <2>3, Zenon DEF Del, Map!Del
<1>7. ASSUME Clear
      PROVE  Map!Clear
  BY <1>7 DEF Clear, Map!Clear, Map!EmptyMap, Contents
<1>8. ASSUME NEW b \in Bucket, ClearDel(b)
      PROVE  UNCHANGED <<Contents, answer>>
  BY <1>8 DEF ClearDel, Contents
<1>9. ASSUME ClearEnd
      PROVE  UNCHANGED <<Contents, answer>>
  <2>1. \A b \in Bucket : getKeys(b) = <<>>
    BY <1>0, <1>9 DEF ClearEnd, ClearList
  <2>2. \A b \in Bucket : Len(chain[b]) = 0
    BY <1>0, <2>1, KeysOfChain
  <2>3. \A k \in Key : DOMAIN chain[hash(k)] = {}
    BY <1>0, <2>2, HashInRange, LenProperties DEF Table
  <2>4. Present = {} /\ Present' = {}
    BY <1>9, <2>3 DEF Present, isExist, IsAt, ClearEnd
  <2>5. Contents' = [k \in {} |-> chain'[hash(k)][Pos(k)'].obj] /\ Contents = [k \in {} |-> k]
    BY <1>9, <2>4 DEF Contents, ClearEnd
  <2> QED BY <1>9, <2>5 DEF ClearEnd
<1>10. CASE UNCHANGED vars
  BY <1>2, <1>10 DEF vars
<1> QED BY <1>1, <1>3, <1>4, <1>5, <1>6, <1>7, <1>8, <1>9, <1>10 DEF Next, Map!Next

(* HashMap does what KeyMap says as long as del goes through right links.  *)
THEOREM Refines == Spec => ImplementsMap
<1>1. IInv => MapShape
  BY ShapeOfTable DEF IInv
<1>2. IInv /\ IInv' /\ MapShape /\ MapShape' /\ [Next]_vars
        => [Map!Next \/ corrupt']_<<Contents, answer>>
  BY MapStep
<1> QED BY Invariant, MapInit, <1>1, <1>2, PTL DEF Spec, ImplementsMap
=============================================================================
