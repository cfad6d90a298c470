----------------------------- MODULE NetIfProofs -----------------------------
(***************************************************************************)
(* Frames keep their shape, their body and their VLAN on the way through   *)
(* NetIf.tla's hosts, whatever the interfaces and however many tags.       *)
(***************************************************************************)
EXTENDS NetIf, SequenceTheorems, TLAPS

-----------------------------------------------------------------------------
(* Words *)

(* The types are different words; none of them is 0.                       *)
LEMMA TypesDiffer ==
  /\ {ETHTYPE_ARP, ETHTYPE_IPV4, ETHTYPE_DOT1Q, ETHTYPE_QINQ, ETHTYPE_UNKNOWN} \subseteq Word
  /\ ETHTYPE_ARP \notin {ETHTYPE_IPV4, ETHTYPE_DOT1Q, ETHTYPE_QINQ, ETHTYPE_UNKNOWN}
  /\ ETHTYPE_IPV4 \notin {ETHTYPE_DOT1Q, ETHTYPE_QINQ, ETHTYPE_UNKNOWN}
  /\ ETHTYPE_DOT1Q \notin {ETHTYPE_QINQ, ETHTYPE_UNKNOWN}
  /\ ETHTYPE_QINQ # ETHTYPE_UNKNOWN
BY SMT DEF Word, ETHTYPE_ARP, ETHTYPE_IPV4, ETHTYPE_DOT1Q, ETHTYPE_QINQ, ETHTYPE_UNKNOWN

(* The address of all stations is three words.                             *)
LEMMA BroadcastWords == ETH_BROADCAST \in Words(3)
<1>1. 0 \in Word /\ 65535 \in Word
  BY SMT DEF Word
<1> QED BY <1>1, SMT DEF ETH_BROADCAST, Words

(* Some words of a frame.                                                  *)
LEMMA ReadWords ==
  ASSUME NEW d \in Seq(Word), NEW k \in Nat \ {0}, NEW n \in Nat, k + n - 1 <= Len(d)
  PROVE  /\ Read(d, k, n) \in Words(n)
         /\ \A j \in 1 .. n : Read(d, k, n)[j] = d[k + j - 1]
<1>1. /\ SubSeq(d, k, k + n - 1) \in Seq(Word)
      /\ Len(SubSeq(d, k, k + n - 1)) = n
      /\ \A j \in 1 .. n : SubSeq(d, k, k + n - 1)[j] = d[k + j - 1]
  OBVIOUS
<1> QED BY <1>1 DEF Read, Words

(* A frame up to its type.                                                 *)
LEMMA HeadWords ==
  ASSUME NEW d \in Seq(Word), Len(d) >= 6
  PROVE  Read(d, 1, 6) \in Seq(Word) /\ Len(Read(d, 1, 6)) = 6 /\ \A j \in 1 .. 6 : Read(d, 1, 6)[j] = d[j]
<1>1. 1 + 6 - 1 <= Len(d) /\ \A j \in 1 .. 6 : 1 + j - 1 = j
  OBVIOUS
<1>2. /\ Read(d, 1, 6) \in Words(6)
      /\ \A j \in 1 .. 6 : Read(d, 1, 6)[j] = d[1 + j - 1]
  BY <1>1, ReadWords
<1> QED BY <1>1, <1>2 DEF Words

(* A frame with some words written over.                                   *)
LEMMA PutWords ==
  ASSUME NEW d \in Seq(Word), NEW k \in Nat \ {0}, NEW w \in Seq(Word)
  PROVE  /\ Put(d, k, w) \in Seq(Word) /\ Len(Put(d, k, w)) = Len(d)
         /\ \A j \in 1 .. Len(d) :
              Put(d, k, w)[j] = IF j \in k .. k + Len(w) - 1 THEN w[j - k + 1] ELSE d[j]
<1> DEFINE e == Put(d, k, w)
<1>1. DOMAIN d = 1 .. Len(d) /\ DOMAIN w = 1 .. Len(w) /\ Len(d) \in Nat /\ Len(w) \in Nat
  OBVIOUS
<1>2. e = [j \in 1 .. Len(d) |-> IF j - k + 1 \in 1 .. Len(w) THEN w[j - k + 1] ELSE d[j]]
  BY <1>1 DEF Put
<1>3. \A j \in 1 .. Len(d) : e[j] = IF j \in k .. k + Len(w) - 1 THEN w[j - k + 1] ELSE d[j]
  BY <1>1, <1>2
<1>4. ASSUME NEW j \in 1 .. Len(d)
      PROVE  e[j] \in Word
  <2>1. CASE j \in k .. k + Len(w) - 1
    <3>1. j - k + 1 \in 1 .. Len(w)
      BY <2>1, <1>1
    <3> QED BY <3>1, <2>1, <1>3, ElementOfSeq
  <2>2. CASE j \notin k .. k + Len(w) - 1
    BY <2>2, <1>3, ElementOfSeq
  <2> QED BY <2>1, <2>2
<1>5. e \in Seq(Word) /\ Len(e) = Len(d)
  BY <1>1, <1>2, <1>4
<1> QED BY <1>3, <1>5

(* Two sequences with the same words are the same.                         *)
LEMMA SameWords ==
  ASSUME NEW s \in Seq(Word), NEW t \in Seq(Word), Len(s) = Len(t),
         \A j \in 1 .. Len(s) : s[j] = t[j]
  PROVE  s = t
OBVIOUS

(* One behind the other.                                                   *)
Join(s, t) == s \o t

(* Its words.                                                              *)
LEMMA JoinWords ==
  ASSUME NEW s \in Seq(Word), NEW t \in Seq(Word)
  PROVE  /\ Join(s, t) \in Seq(Word) /\ Len(Join(s, t)) = Len(s) + Len(t)
         /\ \A j \in 1 .. Len(s) : Join(s, t)[j] = s[j]
         /\ \A j \in 1 .. Len(t) : Join(s, t)[Len(s) + j] = t[j]
<1>1. /\ s \o t \in Seq(Word)
      /\ Len(s \o t) = Len(s) + Len(t)
      /\ \A j \in 1 .. Len(s) + Len(t) : (s \o t)[j] = IF j <= Len(s) THEN s[j] ELSE t[j - Len(s)]
  BY ConcatProperties
<1>2. ASSUME NEW j \in 1 .. Len(t)
      PROVE  (s \o t)[Len(s) + j] = t[j]
  <2>1. Len(s) + j \in 1 .. Len(s) + Len(t) /\ ~ (Len(s) + j <= Len(s)) /\ Len(s) + j - Len(s) = j
    OBVIOUS
  <2> QED BY <2>1, <1>1
<1> QED BY <1>1, <1>2 DEF Join

(* What is behind a place of a frame.                                      *)
LEMMA RestWords ==
  ASSUME NEW d \in Seq(Word), NEW k \in 1 .. Len(d) + 1
  PROVE  /\ SubSeq(d, k, Len(d)) \in Seq(Word) /\ Len(SubSeq(d, k, Len(d))) = Len(d) - k + 1
         /\ \A j \in 1 .. Len(d) - k + 1 : SubSeq(d, k, Len(d))[j] = d[k + j - 1]
OBVIOUS

(* A frame without its outer tag.                                          *)
LEMMA UntaggedWords ==
  ASSUME NEW d \in Seq(Word), Len(d) >= 9
  PROVE  /\ Untagged(d) \in Seq(Word) /\ Len(Untagged(d)) = Len(d) - 2
         /\ \A j \in 1 .. Len(d) - 2 : Untagged(d)[j] = d[IF j <= 6 THEN j ELSE j + 2]
<1> DEFINE a == Read(d, 1, 6)
           b == SubSeq(d, 9, Len(d))
<1>1. a \in Seq(Word) /\ Len(a) = 6 /\ \A j \in 1 .. 6 : a[j] = d[j]
  BY HeadWords
<1>2. b \in Seq(Word) /\ Len(b) = Len(d) - 8 /\ \A j \in 1 .. Len(d) - 8 : b[j] = d[8 + j]
  BY RestWords
<1> HIDE DEF a, b
<1>3. PICK e : e = Join(a, b)
  OBVIOUS
<1>4. /\ e \in Seq(Word) /\ Len(e) = Len(a) + Len(b)
      /\ \A j \in 1 .. Len(a) : e[j] = a[j]
      /\ \A j \in 1 .. Len(b) : e[Len(a) + j] = b[j]
  BY <1>1, <1>2, <1>3, JoinWords
<1>5. ASSUME NEW j \in 1 .. Len(d) - 2
      PROVE  e[j] = d[IF j <= 6 THEN j ELSE j + 2]
  <2>1. CASE j <= 6
    BY <2>1, <1>1, <1>4
  <2>2. CASE ~ (j <= 6)
    <3>1. PICK n \in 1 .. Len(b) : j = Len(a) + n
      <4>1. j - 6 \in 1 .. Len(d) - 8 /\ j = 6 + (j - 6)
        BY <2>2
      <4> QED BY <4>1, <1>1, <1>2
    <3>2. e[j] = b[n] /\ b[n] = d[8 + n] /\ 8 + n = j + 2
      BY <3>1, <1>1, <1>2, <1>4
    <3> QED BY <3>2, <2>2
  <2> QED BY <2>1, <2>2
<1>6. Len(e) = Len(d) - 2
  BY <1>1, <1>2, <1>4
<1>7. Untagged(d) = e
  BY <1>3 DEF Untagged, Join, a, b
<1> QED BY <1>4, <1>5, <1>6, <1>7

(* A frame with a tag put in.                                              *)
WithTag(d, type, id) == Read(d, 1, 6) \o <<type, id>> \o SubSeq(d, 7, Len(d))

(* The words of such a frame.                                              *)
LEMMA TagWords ==
  ASSUME NEW d \in Seq(Word), Len(d) >= 7, NEW type \in Word, NEW id \in Word
  PROVE  /\ WithTag(d, type, id) \in Seq(Word) /\ Len(WithTag(d, type, id)) = Len(d) + 2
         /\ WithTag(d, type, id)[7] = type /\ WithTag(d, type, id)[8] = id
         /\ \A j \in 1 .. 6 : WithTag(d, type, id)[j] = d[j]
         /\ \A j \in 9 .. Len(d) + 2 : WithTag(d, type, id)[j] = d[j - 2]
<1> DEFINE a == Read(d, 1, 6)
           t == <<type, id>>
           b == SubSeq(d, 7, Len(d))
<1>1. a \in Seq(Word) /\ Len(a) = 6 /\ \A j \in 1 .. 6 : a[j] = d[j]
  BY HeadWords
<1>2. b \in Seq(Word) /\ Len(b) = Len(d) - 6 /\ \A j \in 1 .. Len(d) - 6 : b[j] = d[6 + j]
  BY RestWords
<1>3. t \in Seq(Word) /\ Len(t) = 2 /\ t[1] = type /\ t[2] = id
  OBVIOUS
<1> HIDE DEF a, b, t
<1>4. PICK h : h = Join(a, t)
  OBVIOUS
<1>5. /\ h \in Seq(Word) /\ Len(h) = Len(a) + Len(t)
      /\ \A j \in 1 .. Len(a) : h[j] = a[j]
      /\ \A j \in 1 .. Len(t) : h[Len(a) + j] = t[j]
  BY <1>1, <1>3, <1>4, JoinWords
<1>6. Len(h) = 8 /\ h[7] = type /\ h[8] = id /\ (\A j \in 1 .. 6 : h[j] = d[j])
  <2>1. h[6 + 1] = t[1] /\ h[6 + 2] = t[2]
    BY <1>1, <1>3, <1>5
  <2> QED BY <2>1, <1>1, <1>3, <1>5
<1>7. PICK e : e = Join(h, b)
  OBVIOUS
<1>8. /\ e \in Seq(Word) /\ Len(e) = Len(h) + Len(b)
      /\ \A j \in 1 .. Len(h) : e[j] = h[j]
      /\ \A j \in 1 .. Len(b) : e[Len(h) + j] = b[j]
  BY <1>2, <1>5, <1>7, JoinWords
<1>9. WithTag(d, type, id) = e
  BY <1>4, <1>7 DEF WithTag, Join, a, t, b
<1>10. ASSUME NEW j \in 9 .. Len(d) + 2
       PROVE  e[j] = d[j - 2]
  <2>1. PICK n \in 1 .. Len(b) : j = 8 + n
    <3>1. j - 8 \in 1 .. Len(d) - 6 /\ j = 8 + (j - 8)
      OBVIOUS
    <3> QED BY <3>1, <1>2
  <2>2. e[j] = b[n] /\ b[n] = d[6 + n] /\ 6 + n = j - 2
    BY <2>1, <1>2, <1>6, <1>8
  <2> QED BY <2>2
<1>11. /\ Len(e) = Len(d) + 2 /\ e[7] = type /\ e[8] = id
       /\ \A j \in 1 .. 6 : e[j] = d[j]
  BY <1>2, <1>6, <1>8
<1> QED BY <1>8, <1>9, <1>10, <1>11

(* The same words behind two places.                                       *)
LEMMA SameRest ==
  ASSUME NEW d \in Seq(Word), NEW e \in Seq(Word),
         NEW k \in 1 .. Len(d) + 1, NEW m \in 1 .. Len(e) + 1, Len(d) - k = Len(e) - m,
         \A j \in k .. Len(d) : d[j] = e[m + (j - k)]
  PROVE  SubSeq(d, k, Len(d)) = SubSeq(e, m, Len(e))
<1> DEFINE s == SubSeq(d, k, Len(d))
           t == SubSeq(e, m, Len(e))
<1>1. /\ s \in Seq(Word) /\ Len(s) = Len(d) - k + 1
      /\ \A j \in 1 .. Len(d) - k + 1 : s[j] = d[k + j - 1]
  BY RestWords
<1>2. /\ t \in Seq(Word) /\ Len(t) = Len(e) - m + 1
      /\ \A j \in 1 .. Len(e) - m + 1 : t[j] = e[m + j - 1]
  BY RestWords
<1> HIDE DEF s, t
<1>3. Len(s) = Len(t)
  BY <1>1, <1>2
<1>4. ASSUME NEW j \in 1 .. Len(s)
      PROVE  s[j] = t[j]
  <2>1. k + j - 1 \in k .. Len(d) /\ m + ((k + j - 1) - k) = m + j - 1
    BY <1>1
  <2>2. d[k + j - 1] = e[m + j - 1]
    BY <2>1
  <2> QED BY <2>2, <1>1, <1>2, <1>3
<1>5. s = t
  BY <1>1, <1>2, <1>3, <1>4, SameWords
<1> QED BY <1>5 DEF s, t

-----------------------------------------------------------------------------
(* Objects *)

TypeOf(d) == Known(Type(d), {ETHTYPE_ARP, ETHTYPE_IPV4, ETHTYPE_DOT1Q})
UlOf(d)   == Known(IF Type(d) = ETHTYPE_DOT1Q THEN d[9] ELSE Type(d), {ETHTYPE_ARP, ETHTYPE_IPV4})

Object == [data : Seq(Word), eth : Seq(Word), arp : {NoARP, 8, 10}, ip : {Wild, 8},
           type : {ETHTYPE_ARP, ETHTYPE_IPV4, ETHTYPE_DOT1Q, ETHTYPE_UNKNOWN},
           ul : {ETHTYPE_ARP, ETHTYPE_IPV4, ETHTYPE_UNKNOWN}]

(* Types that are known are kept.                                          *)
LEMMA KnownTypes ==
  ASSUME NEW d
  PROVE  /\ TypeOf(d) \in {ETHTYPE_ARP, ETHTYPE_IPV4, ETHTYPE_DOT1Q, ETHTYPE_UNKNOWN}
         /\ TypeOf(d) = ETHTYPE_DOT1Q <=> Type(d) = ETHTYPE_DOT1Q
         /\ UlOf(d) \in {ETHTYPE_ARP, ETHTYPE_IPV4, ETHTYPE_UNKNOWN}
         /\ UlOf(d) = ETHTYPE_ARP  <=> (IF Type(d) = ETHTYPE_DOT1Q THEN d[9] ELSE Type(d)) = ETHTYPE_ARP
         /\ UlOf(d) = ETHTYPE_IPV4 <=> (IF Type(d) = ETHTYPE_DOT1Q THEN d[9] ELSE Type(d)) = ETHTYPE_IPV4
BY TypesDiffer DEF TypeOf, UlOf, Known

(* _update() keeps the buffers, finds the types of what the pointers see,  *)
(* and moves the headers that it finds.                                    *)
LEMMA Updates ==
  ASSUME NEW o \in Object
  PROVE  /\ _update(o) \in Object
         /\ _update(o).data = o.data /\ _update(o).eth = o.eth
         /\ _update(o).type = TypeOf(Eth(o)) /\ _update(o).ul = UlOf(Eth(o))
         /\ _update(o).ul = ETHTYPE_ARP => _update(o).arp = Header(Eth(o))
<1> DEFINE d    == Eth(o)
           ul   == IF Type(d) = ETHTYPE_DOT1Q THEN d[9] ELSE Type(d)
           head == IF Type(d) = ETHTYPE_DOT1Q THEN 10 ELSE 8
           a    == IF ul = ETHTYPE_ARP THEN head ELSE o.arp
           p    == IF Type(d) = ETHTYPE_IPV4 THEN head ELSE o.ip
<1>1. _update(o) = [o EXCEPT !.type = TypeOf(d), !.ul = UlOf(d), !.arp = a, !.ip = p]
  BY DEF _update, TypeOf, UlOf
<1>2. a \in {NoARP, 8, 10} /\ p \in {Wild, 8}
  BY TypesDiffer DEF Object
<1>3. ul = ETHTYPE_ARP => a = Header(d)
  BY DEF Header
<1>4. UlOf(d) = ETHTYPE_ARP <=> ul = ETHTYPE_ARP
  BY KnownTypes
<1>5. TypeOf(d) \in {ETHTYPE_ARP, ETHTYPE_IPV4, ETHTYPE_DOT1Q, ETHTYPE_UNKNOWN}
      /\ UlOf(d) \in {ETHTYPE_ARP, ETHTYPE_IPV4, ETHTYPE_UNKNOWN}
  BY KnownTypes
<1> HIDE DEF d, ul, a, p
<1>6. _update(o) \in Object
  BY <1>1, <1>2, <1>5 DEF Object
<1>7. /\ _update(o).data = o.data /\ _update(o).eth = o.eth /\ _update(o).arp = a
      /\ _update(o).type = TypeOf(d) /\ _update(o).ul = UlOf(d)
  BY <1>1 DEF Object
<1> QED BY <1>3, <1>4, <1>6, <1>7 DEF d

-----------------------------------------------------------------------------
(* Sending *)

(* A frame that a tag can be taken off.                                    *)
Sendable(o) == /\ o \in Object /\ Len(o.data) >= 7
               /\ o.type = ETHTYPE_DOT1Q => Len(o.data) >= 9

(* What an interface sends of an object, and what it leaves to the caller  *)
(* of a buffer that is pointed to.                                         *)
OnLink(j, o, id) ==
  IF iftype[j] = "access" /\ o.type = ETHTYPE_DOT1Q THEN Untagged(o.data)
  ELSE IF iftype[j] = "trunk" /\ o.type # ETHTYPE_DOT1Q THEN WithTag(o.data, ETHTYPE_DOT1Q, id)
  ELSE o.data

Left(j, d) == IF iftype[j] = "L3" THEN Put(d, 4, Mac[j]) ELSE d

(* _send() of a copy writes the tag into its own buffer and the source     *)
(* into the other.                                                         *)
LEMMA SendsCopy ==
  ASSUME NEW c, Sendable(c), c.eth # Own, NEW j \in Netif, NEW id \in Word
  PROVE  /\ _send(j, c, id).data = OnLink(j, c, id)
         /\ Len(c.eth) > 0 => Eth(_send(j, c, id)) = Left(j, c.eth)
<1>0. c \in Object /\ iftype[j] \in {"access", "trunk", "L3"}
  BY NetIfAssumption DEF Sendable
<1>1. Eth(c) = c.eth /\ c.eth \in Seq(Word) /\ c.data \in Seq(Word)
  BY <1>0 DEF Eth, Object
<1>2. ASSUME NEW data \in Seq(Word)
      PROVE  /\ _update([c EXCEPT !.data = data]).data = data
             /\ Eth(_update([c EXCEPT !.data = data])) = c.eth
  <2>1. [c EXCEPT !.data = data] \in Object /\ [c EXCEPT !.data = data].data = data
        /\ [c EXCEPT !.data = data].eth = c.eth
    BY <1>0 DEF Object
  <2>2. _update([c EXCEPT !.data = data]).data = data /\ _update([c EXCEPT !.data = data]).eth = c.eth
    BY <2>1, Updates
  <2> QED BY <2>2 DEF Eth
<1>3. CASE iftype[j] = "access"
  <2>1. _send(j, c, id) = removeVlanTag(c)
    BY <1>3 DEF _send
  <2>2. CASE c.type = ETHTYPE_DOT1Q
    <3>1. Untagged(c.data) \in Seq(Word)
      BY <2>2, <1>1, UntaggedWords DEF Sendable
    <3>2. removeVlanTag(c) = _update([c EXCEPT !.data = Untagged(c.data)])
      BY <2>2 DEF removeVlanTag, Untagged
    <3> QED BY <3>1, <3>2, <2>1, <2>2, <1>2, <1>3 DEF OnLink, Left
  <2>3. CASE c.type # ETHTYPE_DOT1Q
    BY <2>1, <2>3, <1>1, <1>3 DEF removeVlanTag, OnLink, Left
  <2> QED BY <2>2, <2>3
<1>4. CASE iftype[j] = "trunk"
  <2>1. _send(j, c, id) = setVlanTag(c, id)
    BY <1>4 DEF _send
  <2>2. CASE c.type # ETHTYPE_DOT1Q
    <3>1. WithTag(c.data, ETHTYPE_DOT1Q, id) \in Seq(Word)
      BY <1>1, TagWords, TypesDiffer DEF Sendable
    <3>2. setVlanTag(c, id) = _update([c EXCEPT !.data = WithTag(c.data, ETHTYPE_DOT1Q, id)])
      BY <2>2 DEF setVlanTag, WithTag
    <3> QED BY <3>1, <3>2, <2>1, <2>2, <1>2, <1>4 DEF OnLink, Left
  <2>3. CASE c.type = ETHTYPE_DOT1Q
    BY <2>1, <2>3, <1>1, <1>4 DEF setVlanTag, OnLink, Left
  <2> QED BY <2>2, <2>3
<1>5. CASE iftype[j] = "L3"
  <2>1. _send(j, c, id) = setSrc(c, Mac[j])
    BY <1>5 DEF _send
  <2>2. setSrc(c, Mac[j]) = [c EXCEPT !.eth = Put(c.eth, 4, Mac[j])]
    BY <1>1 DEF setSrc, WriteEth
  <2>3. _send(j, c, id).data = c.data /\ _send(j, c, id).eth = Put(c.eth, 4, Mac[j])
    BY <2>1, <2>2, <1>0 DEF Object
  <2>4. ASSUME Len(c.eth) > 0
        PROVE  Put(c.eth, 4, Mac[j]) # Own
    <3>1. Mac[j] \in Seq(Word)
      BY NetIfAssumption DEF Words
    <3>2. Len(Put(c.eth, 4, Mac[j])) > 0
      BY <3>1, <2>4, <1>1, PutWords
    <3> QED BY <3>2 DEF Own
  <2> QED BY <2>3, <2>4, <1>5 DEF OnLink, Left, Eth
<1> QED BY <1>0, <1>3, <1>4, <1>5

(* A copy sees the buffer it was copied from.                              *)
LEMMA Copies ==
  ASSUME NEW o, Sendable(o)
  PROVE  /\ Sendable(Copy(o)) /\ Copy(o).eth = o.data /\ Copy(o).data = o.data /\ Copy(o).type = o.type
         /\ o.data # Own /\ o.data \in Seq(Word) /\ Eth(Copy(o)) = o.data
<1>1. o \in Object /\ o.data \in Seq(Word) /\ Len(o.data) >= 7
  BY DEF Sendable, Object
<1>2. o.data # Own
  BY <1>1 DEF Own
<1>3. Copy(o) \in Object /\ Copy(o).eth = o.data /\ Copy(o).data = o.data /\ Copy(o).type = o.type
  BY <1>1 DEF Copy, Object
<1> QED BY <1>1, <1>2, <1>3 DEF Sendable, Eth

(* send() puts the frame on the link and leaves its MAC addresses to the   *)
(* caller.                                                                 *)
LEMMA Sends ==
  ASSUME NEW o, Sendable(o), NEW j \in Netif, NEW id \in Word
  PROVE  /\ Send(j, o, id).wire = OnLink(j, o, id)
         /\ Send(j, o, id).kept = [o EXCEPT !.data = Left(j, o.data)]
<1> DEFINE c == Copy(o)
<1>1. /\ Sendable(c) /\ c.eth = o.data /\ c.data = o.data /\ c.type = o.type /\ c.eth # Own
      /\ Len(c.eth) > 0
  BY Copies DEF Sendable
<1>2. Send(j, o, id).wire = _send(j, c, id).data
      /\ Send(j, o, id).kept = [o EXCEPT !.data = Eth(_send(j, c, id))]
  BY DEF Send
<1>3. OnLink(j, c, id) = OnLink(j, o, id)
  BY <1>1 DEF OnLink
<1> HIDE DEF c
<1> QED BY <1>1, <1>2, <1>3, SendsCopy

(* So does sendBroadcast(), which changes the destination for the caller.  *)
LEMMA Broadcasts ==
  ASSUME NEW o, Sendable(o), NEW j \in Netif
  PROVE  /\ SendBroadcast(j, o).wire = OnLink(j, o, vlan[j])
         /\ SendBroadcast(j, o).kept = [o EXCEPT !.data = Left(j, Put(o.data, 1, ETH_BROADCAST))]
<1> DEFINE d == Put(o.data, 1, ETH_BROADCAST)
           c == setDst(Copy(o), ETH_BROADCAST)
<1>1. ETH_BROADCAST \in Seq(Word) /\ vlan[j] \in Word
  BY BroadcastWords, NetIfAssumption DEF Words
<1>2. d \in Seq(Word) /\ Len(d) > 0
  <2>1. o.data \in Seq(Word) /\ Len(o.data) >= 7 /\ 1 \in Nat \ {0}
    BY Copies DEF Sendable
  <2>2. d \in Seq(Word) /\ Len(d) = Len(o.data)
    BY <1>1, <2>1, PutWords
  <2> QED BY <2>1, <2>2
<1>3. c = [Copy(o) EXCEPT !.eth = d]
  BY Copies DEF setDst, WriteEth
<1> HIDE DEF d
<1>4. d # Own
  BY <1>2 DEF Own
<1>5. Sendable(c) /\ c.eth = d /\ c.data = o.data /\ c.type = o.type
  <2>1. Copy(o) \in Object /\ Copy(o).data = o.data /\ Copy(o).type = o.type /\ Sendable(Copy(o))
    BY Copies DEF Sendable
  <2>2. c \in Object /\ c.eth = d /\ c.data = o.data /\ c.type = o.type
    BY <2>1, <1>2, <1>3 DEF Object
  <2> QED BY <2>1, <2>2 DEF Sendable
<1>6. SendBroadcast(j, o).wire = _send(j, c, vlan[j]).data
      /\ SendBroadcast(j, o).kept = [o EXCEPT !.data = Eth(_send(j, c, vlan[j]))]
  BY DEF SendBroadcast
<1>7. OnLink(j, c, vlan[j]) = OnLink(j, o, vlan[j])
  BY <1>5 DEF OnLink
<1> HIDE DEF c
<1>8. _send(j, c, vlan[j]).data = OnLink(j, c, vlan[j]) /\ Eth(_send(j, c, vlan[j])) = Left(j, d)
  BY <1>1, <1>2, <1>4, <1>5, SendsCopy
<1> QED BY <1>6, <1>7, <1>8 DEF d

(* A tag is put in or taken out behind the addresses.                      *)
LEMMA LinkAddresses ==
  ASSUME NEW o, Sendable(o), NEW j \in Netif, NEW id \in Word
  PROVE  Read(OnLink(j, o, id), 1, 6) = Read(o.data, 1, 6)
<1>1. o.data \in Seq(Word) /\ Len(o.data) >= 7 /\ (o.type = ETHTYPE_DOT1Q => Len(o.data) >= 9)
  BY DEF Sendable, Object
<1>2. PICK d, w : d = o.data /\ w = OnLink(j, o, id)
  OBVIOUS
<1>3. w \in Seq(Word) /\ Len(w) >= 7 /\ \A k \in 1 .. 6 : w[k] = d[k]
  <2>1. CASE iftype[j] = "access" /\ o.type = ETHTYPE_DOT1Q
    <3>1. w = Untagged(d)
      BY <1>2, <2>1 DEF OnLink
    <3>2. w \in Seq(Word) /\ Len(w) = Len(d) - 2
          /\ \A k \in 1 .. Len(d) - 2 : w[k] = d[IF k <= 6 THEN k ELSE k + 2]
      BY <1>1, <1>2, <2>1, <3>1, UntaggedWords
    <3> QED BY <1>1, <1>2, <2>1, <3>2
  <2>2. CASE iftype[j] = "trunk" /\ o.type # ETHTYPE_DOT1Q
    <3>1. w = WithTag(d, ETHTYPE_DOT1Q, id)
      BY <1>2, <2>2 DEF OnLink
    <3>2. d \in Seq(Word) /\ Len(d) >= 7 /\ ETHTYPE_DOT1Q \in Word
      BY <1>1, <1>2, TypesDiffer
    <3>3. PICK type : type = ETHTYPE_DOT1Q
      OBVIOUS
    <3>4. /\ WithTag(d, type, id) \in Seq(Word) /\ Len(WithTag(d, type, id)) = Len(d) + 2
          /\ \A k \in 1 .. 6 : WithTag(d, type, id)[k] = d[k]
      BY <3>2, <3>3, TagWords
    <3>5. w = WithTag(d, type, id)
      BY <3>1, <3>3
    <3>6. w \in Seq(Word) /\ Len(w) = Len(d) + 2 /\ \A k \in 1 .. 6 : w[k] = d[k]
      BY <3>4, <3>5, Zenon
    <3> QED BY <3>2, <3>6
  <2>3. CASE /\ ~ (iftype[j] = "access" /\ o.type = ETHTYPE_DOT1Q)
             /\ ~ (iftype[j] = "trunk" /\ o.type # ETHTYPE_DOT1Q)
    <3>1. w = d
      BY <1>2, <2>3 DEF OnLink
    <3> QED BY <1>1, <1>2, <3>1
  <2> QED BY <2>1, <2>2, <2>3
<1>4. /\ Read(w, 1, 6) \in Seq(Word) /\ Len(Read(w, 1, 6)) = 6
      /\ \A k \in 1 .. 6 : Read(w, 1, 6)[k] = w[k]
  BY <1>3, HeadWords
<1>5. /\ Read(d, 1, 6) \in Seq(Word) /\ Len(Read(d, 1, 6)) = 6
      /\ \A k \in 1 .. 6 : Read(d, 1, 6)[k] = d[k]
  BY <1>1, <1>2, HeadWords
<1>6. PICK s, t : s = Read(w, 1, 6) /\ t = Read(d, 1, 6)
  OBVIOUS
<1>7. s = t
  BY <1>3, <1>4, <1>5, <1>6, SameWords
<1> QED BY <1>2, <1>6, <1>7

-----------------------------------------------------------------------------
(* Frames *)

(* A frame in a host: a tag in front of another is 0x88a8, and no other is.*)
HeldFrame(d) ==
  /\ Framed(d)
  /\ d[7] = ETHTYPE_DOT1Q => d[9] # ETHTYPE_DOT1Q
  /\ d[7] = ETHTYPE_QINQ  => d[9] = ETHTYPE_DOT1Q

(* A frame with other MAC addresses.                                       *)
Renamed(d, e) ==
  e \in Seq(Word) /\ Len(e) = Len(d) /\ \A j \in 7 .. Len(d) : e[j] = d[j]

(* A frame has words.                                                      *)
LEMMA FrameWords ==
  ASSUME NEW d, Framed(d)
  PROVE  /\ d \in Seq(Word) /\ Len(d) \in Nat /\ Len(d) >= 7 /\ d # NoFrame
         /\ d[7] \in Word /\ d[7] = Type(d)
         /\ d[7] \in {ETHTYPE_DOT1Q, ETHTYPE_QINQ} => Len(d) >= 9 /\ d[8] \in Word /\ d[9] \in Word
<1>1. d \in Seq(Word) /\ Len(d) \in Nat /\ Len(d) >= 7
  BY DEF Framed
<1>2. d # NoFrame
  BY <1>1 DEF NoFrame
<1>3. \A k \in 1 .. Len(d) : d[k] \in Word
  BY <1>1, ElementOfSeq
<1>4. 7 \in 1 .. Len(d)
  BY <1>1
<1>5. ASSUME d[7] \in {ETHTYPE_DOT1Q, ETHTYPE_QINQ}
      PROVE  Len(d) >= 9 /\ d[8] \in Word /\ d[9] \in Word
  <2>1. Len(d) >= 9
    BY <1>5 DEF Framed
  <2>2. 8 \in 1 .. Len(d) /\ 9 \in 1 .. Len(d)
    BY <1>1, <2>1
  <2> QED BY <1>3, <2>1, <2>2
<1> QED BY <1>1, <1>2, <1>3, <1>4, <1>5 DEF Type

(* Whether a header fits depends on its type and the length.               *)
LEMMA FitsElsewhere ==
  ASSUME NEW d, NEW e, NEW k \in Nat, NEW m \in Nat, Fits(d, k), d[k] = e[m],
         Len(d) \in Nat, Len(e) \in Nat, Len(e) - m >= Len(d) - k
  PROVE  Fits(e, m)
<1>1. CASE d[k] = ETHTYPE_ARP
  BY <1>1 DEF Fits
<1>2. CASE d[k] = ETHTYPE_IPV4 /\ d[k] # ETHTYPE_ARP
  BY <1>2 DEF Fits
<1>3. CASE d[k] # ETHTYPE_IPV4 /\ d[k] # ETHTYPE_ARP
  BY <1>3 DEF Fits
<1> QED BY <1>1, <1>2, <1>3

(* A frame with other MAC addresses is in the same VLAN with the same body,*)
(* and its headers stand where they were.                                  *)
LEMMA RenamedFrame ==
  ASSUME NEW d, NEW e, Framed(d), Renamed(d, e)
  PROVE  /\ Framed(e) /\ (HeldFrame(d) => HeldFrame(e))
         /\ InHost(e) = InHost(d) /\ TypeOf(e) = TypeOf(d) /\ UlOf(e) = UlOf(d) /\ Header(e) = Header(d)
         /\ SubSeq(e, 7, Len(e)) = SubSeq(d, 7, Len(d))
<1>1. /\ d \in Seq(Word) /\ Len(d) \in Nat /\ Len(d) >= 7 /\ e \in Seq(Word) /\ Len(e) = Len(d)
      /\ d # NoFrame /\ e # NoFrame
  BY FrameWords DEF Renamed, NoFrame
<1>2. e[7] = d[7] /\ Type(e) = e[7] /\ Type(d) = d[7]
  BY <1>1 DEF Renamed, Type
<1>3. ASSUME d[7] \in {ETHTYPE_DOT1Q, ETHTYPE_QINQ}
      PROVE  e[8] = d[8] /\ e[9] = d[9] /\ Len(d) >= 9
  <2>1. Len(d) >= 9
    BY <1>3, FrameWords
  <2>2. 8 \in 7 .. Len(d) /\ 9 \in 7 .. Len(d)
    BY <1>1, <2>1
  <2> QED BY <2>1, <2>2 DEF Renamed
<1>4. Framed(e)
  <2>1. Fits(e, 7)
    BY <1>1, <1>2, FitsElsewhere DEF Framed
  <2>2. ASSUME d[7] \in {ETHTYPE_DOT1Q, ETHTYPE_QINQ}
        PROVE  Fits(e, 9)
    BY <1>1, <1>3, <2>2, FitsElsewhere DEF Framed
  <2>3. ASSUME d[7] \in {ETHTYPE_DOT1Q, ETHTYPE_QINQ}, d[9] = ETHTYPE_QINQ
        PROVE  Len(e) >= 11 /\ e[10] # 0 /\ e[11] = ETHTYPE_DOT1Q
    <3>1. Len(d) >= 11 /\ d[10] # 0 /\ d[11] = ETHTYPE_DOT1Q
      BY <2>3 DEF Framed
    <3>2. 10 \in 7 .. Len(d) /\ 11 \in 7 .. Len(d)
      BY <1>1, <3>1
    <3> QED BY <1>1, <3>1, <3>2 DEF Renamed
  <2>4. d[7] \in {ETHTYPE_DOT1Q, ETHTYPE_QINQ} => (d[9] = ETHTYPE_DOT1Q => d[8] # 0)
    BY DEF Framed
  <2> QED BY <1>1, <1>2, <1>3, <2>1, <2>2, <2>3, <2>4 DEF Framed
<1>5. HeldFrame(d) => HeldFrame(e)
  BY <1>2, <1>3, <1>4 DEF HeldFrame
<1>6. SubSeq(e, 7, Len(e)) = SubSeq(d, 7, Len(d))
  <2>1. 7 \in 1 .. Len(d) + 1 /\ 7 \in 1 .. Len(e) + 1 /\ Len(d) - 7 = Len(e) - 7
    BY <1>1
  <2>2. \A j \in 7 .. Len(e) : e[j] = d[7 + (j - 7)]
    BY <1>1 DEF Renamed
  <2> QED BY <1>1, <2>1, <2>2, SameRest
<1>7. InHost(e) = InHost(d)
  <2>1. CASE d[7] = ETHTYPE_DOT1Q
    <3>1. SubSeq(e, 9, Len(e)) = SubSeq(d, 9, Len(d))
      <4>1. 9 \in 1 .. Len(d) + 1 /\ 9 \in 1 .. Len(e) + 1 /\ Len(d) - 9 = Len(e) - 9
        BY <1>1, <1>3, <2>1
      <4>2. \A j \in 9 .. Len(e) : e[j] = d[9 + (j - 9)]
        BY <1>1 DEF Renamed
      <4> QED BY <1>1, <4>1, <4>2, SameRest
    <3> QED BY <3>1, <2>1, <1>1, <1>2, <1>3 DEF InHost
  <2>2. CASE d[7] # ETHTYPE_DOT1Q
    BY <2>2, <1>1, <1>2, <1>6 DEF InHost
  <2> QED BY <2>1, <2>2
<1>8. TypeOf(e) = TypeOf(d) /\ UlOf(e) = UlOf(d) /\ Header(e) = Header(d)
  BY <1>2, <1>3 DEF TypeOf, UlOf, Header
<1> QED BY <1>4, <1>5, <1>6, <1>7, <1>8

(* Without its tag a frame is what was behind it.                          *)
LEMMA UntaggedFrame ==
  ASSUME NEW d \in Seq(Word), Len(d) >= 9
  PROVE  /\ Untagged(d) \in Seq(Word) /\ Len(Untagged(d)) = Len(d) - 2 /\ Untagged(d)[7] = d[9]
         /\ SubSeq(Untagged(d), 7, Len(Untagged(d))) = SubSeq(d, 9, Len(d))
<1>1. /\ Untagged(d) \in Seq(Word) /\ Len(Untagged(d)) = Len(d) - 2
      /\ \A j \in 1 .. Len(d) - 2 : Untagged(d)[j] = d[IF j <= 6 THEN j ELSE j + 2]
  BY UntaggedWords
<1>2. PICK e : e = Untagged(d)
  OBVIOUS
<1>3. /\ e \in Seq(Word) /\ Len(e) = Len(d) - 2 /\ Len(d) \in Nat
      /\ \A j \in 1 .. Len(d) - 2 : e[j] = d[IF j <= 6 THEN j ELSE j + 2]
  BY <1>1, <1>2
<1>4. \A j \in 7 .. Len(e) : e[j] = d[9 + (j - 7)]
  <2> TAKE j \in 7 .. Len(e)
  <2>1. j \in 1 .. Len(d) - 2 /\ ~ (j <= 6) /\ j + 2 = 9 + (j - 7)
    BY <1>3
  <2> QED BY <2>1, <1>3
<1>5. 7 \in 1 .. Len(e) + 1 /\ 9 \in 1 .. Len(d) + 1 /\ Len(e) - 7 = Len(d) - 9
  BY <1>3
<1>6. SubSeq(e, 7, Len(e)) = SubSeq(d, 9, Len(d))
  BY <1>3, <1>4, <1>5, SameRest
<1>7. e[7] = d[9]
  <2>1. 7 \in 7 .. Len(e) /\ 9 + (7 - 7) = 9
    BY <1>3
  <2> QED BY <2>1, <1>4
<1> QED BY <1>2, <1>3, <1>6, <1>7

(* Behind the tag of a tagged frame is what there was.                     *)
LEMMA TaggedFrame ==
  ASSUME NEW d \in Seq(Word), Len(d) >= 7, NEW type \in Word, NEW id \in Word
  PROVE  LET e == WithTag(d, type, id)
         IN  /\ e \in Seq(Word) /\ Len(e) = Len(d) + 2 /\ e[7] = type /\ e[8] = id /\ e[9] = d[7]
             /\ SubSeq(e, 9, Len(e)) = SubSeq(d, 7, Len(d))
<1>1. PICK e : e = WithTag(d, type, id)
  OBVIOUS
<1>2. /\ e \in Seq(Word) /\ Len(e) = Len(d) + 2 /\ Len(d) \in Nat /\ e[7] = type /\ e[8] = id
      /\ \A j \in 9 .. Len(d) + 2 : e[j] = d[j - 2]
  <2>1. /\ WithTag(d, type, id) \in Seq(Word) /\ Len(WithTag(d, type, id)) = Len(d) + 2
        /\ WithTag(d, type, id)[7] = type /\ WithTag(d, type, id)[8] = id
        /\ \A j \in 9 .. Len(d) + 2 : WithTag(d, type, id)[j] = d[j - 2]
    BY TagWords
  <2> QED BY <1>1, <2>1
<1>3. \A j \in 9 .. Len(e) : e[j] = d[7 + (j - 9)]
  <2> TAKE j \in 9 .. Len(e)
  <2>1. j \in 9 .. Len(d) + 2 /\ j - 2 = 7 + (j - 9)
    BY <1>2
  <2> QED BY <2>1, <1>2
<1>4. 9 \in 1 .. Len(e) + 1 /\ 7 \in 1 .. Len(d) + 1 /\ Len(e) - 9 = Len(d) - 7
  BY <1>2
<1>5. SubSeq(e, 9, Len(e)) = SubSeq(d, 7, Len(d))
  BY <1>2, <1>3, <1>4, SameRest
<1>6. e[9] = d[7]
  <2>1. 9 \in 9 .. Len(e) /\ 7 + (9 - 9) = 7
    BY <1>2
  <2> QED BY <2>1, <1>3
<1> QED BY <1>1, <1>2, <1>5, <1>6

(* With two tags the outer one is 0x88a8 in a host.                        *)
LEMMA TwoTags ==
  ASSUME NEW d \in Seq(Word), NEW e \in Seq(Word), Len(d) >= 7, Len(e) = Len(d), e[7] = ETHTYPE_QINQ,
         \A j \in 8 .. Len(d) : e[j] = d[j]
  PROVE  SubSeq(e, 7, Len(e)) = <<ETHTYPE_QINQ>> \o SubSeq(d, 8, Len(d))
<1> DEFINE a == <<ETHTYPE_QINQ>>
           b == SubSeq(d, 8, Len(d))
           s == SubSeq(e, 7, Len(e))
<1>1. Len(d) \in Nat /\ 8 \in 1 .. Len(d) + 1 /\ 7 \in 1 .. Len(e) + 1
  OBVIOUS
<1>2. b \in Seq(Word) /\ Len(b) = Len(d) - 8 + 1 /\ \A j \in 1 .. Len(d) - 8 + 1 : b[j] = d[8 + j - 1]
  BY <1>1, RestWords
<1>3. s \in Seq(Word) /\ Len(s) = Len(e) - 7 + 1 /\ \A j \in 1 .. Len(e) - 7 + 1 : s[j] = e[7 + j - 1]
  BY <1>1, RestWords
<1>4. a \in Seq(Word) /\ Len(a) = 1 /\ a[1] = ETHTYPE_QINQ
  BY TypesDiffer
<1> HIDE DEF a, b, s
<1>5. PICK t : t = Join(a, b)
  OBVIOUS
<1>6. /\ t \in Seq(Word) /\ Len(t) = Len(a) + Len(b)
      /\ \A j \in 1 .. Len(a) : t[j] = a[j]
      /\ \A j \in 1 .. Len(b) : t[Len(a) + j] = b[j]
  BY <1>2, <1>4, <1>5, JoinWords
<1>7. Len(s) = Len(t)
  BY <1>1, <1>2, <1>3, <1>4, <1>6
<1>8. ASSUME NEW j \in 1 .. Len(s)
      PROVE  s[j] = t[j]
  <2>1. CASE j = 1
    <3>1. s[1] = e[7] /\ t[1] = a[1]
      BY <2>1, <1>1, <1>3, <1>4, <1>6
    <3> QED BY <3>1, <2>1, <1>4
  <2>2. CASE j # 1
    <3>1. PICK n \in 1 .. Len(b) : j = Len(a) + n
      <4>1. j - 1 \in 1 .. Len(b) /\ j = 1 + (j - 1)
        BY <2>2, <1>1, <1>2, <1>3
      <4> QED BY <4>1, <1>4
    <3>2. t[j] = b[n] /\ b[n] = d[8 + n - 1] /\ s[j] = e[7 + j - 1]
      BY <3>1, <1>2, <1>3, <1>6
    <3>3. 8 + n - 1 = 7 + j - 1 /\ 7 + j - 1 \in 8 .. Len(d)
      BY <3>1, <1>1, <1>2, <1>4
    <3> QED BY <3>2, <3>3
  <2> QED BY <2>1, <2>2
<1>9. s = t
  BY <1>3, <1>6, <1>7, <1>8, SameWords
<1> QED BY <1>5, <1>9 DEF Join, a, b, s

(* A tag that is not 0 is put back where it was.                           *)
LEMMA TagPutBack ==
  ASSUME NEW f, Framed(f), Tagged(f), f[8] # 0
  PROVE  /\ recvRaw(f) \in Seq(Word) /\ Len(recvRaw(f)) = Len(f)
         /\ recvRaw(f)[7] = IF f[9] = ETHTYPE_DOT1Q THEN ETHTYPE_QINQ ELSE ETHTYPE_DOT1Q
         /\ \A j \in 8 .. Len(f) : recvRaw(f)[j] = f[j]
<1>0. PICK id : id = f[8]
  OBVIOUS
<1>1. f \in Seq(Word) /\ Len(f) >= 9 /\ Len(f) \in Nat /\ f[8] \in Word
  BY FrameWords DEF Tagged
<1>2. PICK g : g = Untagged(f)
  OBVIOUS
<1>3. /\ g \in Seq(Word) /\ Len(g) = Len(f) - 2 /\ g[7] = f[9]
      /\ \A j \in 1 .. Len(f) - 2 : g[j] = f[IF j <= 6 THEN j ELSE j + 2]
  BY <1>1, <1>2, UntaggedWords, UntaggedFrame
<1>4. PICK outer : outer = IF f[9] = ETHTYPE_DOT1Q THEN ETHTYPE_QINQ ELSE ETHTYPE_DOT1Q
  OBVIOUS
<1>5. recvRaw(f) = WithTag(g, outer, id)
  BY <1>0, <1>2, <1>3, <1>4 DEF recvRaw, KernelFrame, KernelTag, WithTag, Type
<1>6. PICK e : e = WithTag(g, outer, id)
  OBVIOUS
<1>7. /\ e \in Seq(Word) /\ Len(e) = Len(g) + 2 /\ e[7] = outer /\ e[8] = id
      /\ \A j \in 9 .. Len(g) + 2 : e[j] = g[j - 2]
  <2>1. outer \in Word /\ Len(g) >= 7 /\ g \in Seq(Word) /\ id \in Word
    BY <1>0, <1>1, <1>3, <1>4, TypesDiffer
  <2>2. /\ WithTag(g, outer, id) \in Seq(Word) /\ Len(WithTag(g, outer, id)) = Len(g) + 2
        /\ WithTag(g, outer, id)[7] = outer /\ WithTag(g, outer, id)[8] = id
        /\ \A j \in 9 .. Len(g) + 2 : WithTag(g, outer, id)[j] = g[j - 2]
    BY <2>1, TagWords
  <2> QED BY <2>2, <1>6
<1>8. \A j \in 8 .. Len(f) : e[j] = f[j]
  <2> TAKE j \in 8 .. Len(f)
  <2>1. CASE j = 8
    BY <2>1, <1>0, <1>7
  <2>2. CASE j # 8
    <3>1. j \in 9 .. Len(g) + 2 /\ j - 2 \in 1 .. Len(f) - 2 /\ ~ (j - 2 <= 6) /\ (j - 2) + 2 = j
      BY <2>2, <1>1, <1>3
    <3> QED BY <3>1, <1>3, <1>7
  <2> QED BY <2>1, <2>2
<1>9. Len(e) = Len(f)
  BY <1>1, <1>3, <1>7
<1> QED BY <1>4, <1>5, <1>6, <1>7, <1>8, <1>9

(* What is behind a tag that is the only one, or 0x88a8's, is a frame.     *)
LEMMA RestFramed ==
  ASSUME NEW d, Framed(d), Tagged(d), d[9] # ETHTYPE_DOT1Q
  PROVE  HeldFrame(Untagged(d))
<1>1. /\ d \in Seq(Word) /\ Len(d) >= 9 /\ Len(d) \in Nat
      /\ d[7] \in {ETHTYPE_DOT1Q, ETHTYPE_QINQ} /\ Fits(d, 9)
  BY FrameWords DEF Tagged, Framed
<1>2. PICK g : g = Untagged(d)
  OBVIOUS
<1>3. /\ g \in Seq(Word) /\ Len(g) = Len(d) - 2 /\ g[7] = d[9]
      /\ \A j \in 1 .. Len(d) - 2 : g[j] = d[IF j <= 6 THEN j ELSE j + 2]
  BY <1>1, <1>2, UntaggedWords, UntaggedFrame
<1>4. Fits(g, 7) /\ Len(g) >= 7
  <2>1. Len(g) \in Nat /\ Len(g) - 7 >= Len(d) - 9 /\ Len(g) >= 7
    BY <1>1, <1>3
  <2> QED BY <2>1, <1>1, <1>3, FitsElsewhere
<1>5. ASSUME g[7] = ETHTYPE_QINQ
      PROVE  Len(g) >= 9 /\ g[8] # 0 /\ g[9] = ETHTYPE_DOT1Q /\ Fits(g, 9)
  <2>1. Len(d) >= 11 /\ d[10] # 0 /\ d[11] = ETHTYPE_DOT1Q
    BY <1>1, <1>3, <1>5 DEF Framed
  <2>2. 8 \in 1 .. Len(d) - 2 /\ ~ (8 <= 6) /\ 8 + 2 = 10 /\ 9 \in 1 .. Len(d) - 2 /\ ~ (9 <= 6) /\ 9 + 2 = 11
    BY <1>1, <2>1
  <2>3. g[8] = d[10] /\ g[9] = d[11] /\ Len(g) >= 9
    BY <1>1, <1>3, <2>1, <2>2
  <2>4. Fits(g, 9)
    BY <2>1, <2>3, TypesDiffer DEF Fits
  <2> QED BY <2>1, <2>3, <2>4
<1>6. g[7] # ETHTYPE_DOT1Q
  BY <1>3
<1>7. HeldFrame(g)
  BY <1>3, <1>4, <1>5, <1>6, TypesDiffer DEF HeldFrame, Framed
<1> QED BY <1>2, <1>7

(* What recvRaw() puts together is a frame, with the VLAN and the body it  *)
(* had on the wire.                                                        *)
LEMMA Received ==
  ASSUME NEW f, Framed(f)
  PROVE  HeldFrame(recvRaw(f)) /\ InHost(recvRaw(f)) = OnWire(f)
<1>1. f \in Seq(Word) /\ Len(f) \in Nat /\ Len(f) >= 7 /\ f # NoFrame /\ f[7] = Type(f)
  BY FrameWords
<1>2. CASE ~ Tagged(f)
  <2>1. f[7] \notin {ETHTYPE_DOT1Q, ETHTYPE_QINQ}
    BY <1>1, <1>2 DEF Tagged
  <2>2. recvRaw(f) = f
    BY <1>2 DEF recvRaw, KernelTag, KernelFrame
  <2>3. HeldFrame(f)
    BY <2>1 DEF HeldFrame
  <2>4. InHost(f) = [tag |-> 0, body |-> SubSeq(f, 7, Len(f))]
    BY <1>1, <2>1 DEF InHost
  <2>5. OnWire(f) = [tag |-> 0, body |-> SubSeq(f, 7, Len(f))]
    BY <1>1, <1>2 DEF OnWire, KernelFrame, KernelTag
  <2> QED BY <2>2, <2>3, <2>4, <2>5
<1>3. CASE Tagged(f)
  <2>1. Len(f) >= 9 /\ f[7] \in {ETHTYPE_DOT1Q, ETHTYPE_QINQ} /\ f[8] \in Word /\ f[9] \in Word
    BY <1>1, <1>3, FrameWords DEF Tagged
  <2>2. PICK g : g = Untagged(f)
    OBVIOUS
  <2>3. /\ g \in Seq(Word) /\ Len(g) = Len(f) - 2 /\ g[7] = f[9] /\ g[7] = Type(g)
        /\ SubSeq(g, 7, Len(g)) = SubSeq(f, 9, Len(f))
    BY <2>1, <2>2, <1>1, UntaggedFrame DEF Type
  <2>4. KernelFrame(f) = g /\ KernelTag(f) = f[8]
    BY <1>3, <2>2 DEF KernelFrame, KernelTag
  <2>5. CASE f[8] = 0
    <3>1. recvRaw(f) = g /\ f[9] # ETHTYPE_DOT1Q
      BY <2>1, <2>4, <2>5 DEF recvRaw, Framed
    <3>2. HeldFrame(g)
      BY <3>1, <2>2, <1>3, RestFramed
    <3>3. OnWire(f) = [tag |-> 0, body |-> SubSeq(g, 7, Len(g))]
      BY <3>1, <2>3, <2>4, <2>5, <1>1 DEF OnWire
    <3>4. InHost(g) = [tag |-> 0, body |-> SubSeq(g, 7, Len(g))]
      BY <3>1, <2>3 DEF InHost
    <3> QED BY <3>1, <3>2, <3>3, <3>4
  <2>6. CASE f[8] # 0
    <3>1. PICK e : e = recvRaw(f)
      OBVIOUS
    <3>2. /\ e \in Seq(Word) /\ Len(e) = Len(f)
          /\ e[7] = (IF f[9] = ETHTYPE_DOT1Q THEN ETHTYPE_QINQ ELSE ETHTYPE_DOT1Q)
          /\ \A j \in 8 .. Len(f) : e[j] = f[j]
      BY <3>1, <2>6, <1>3, TagPutBack
    <3>3. /\ e[8] = f[8] /\ e[9] = f[9] /\ e # NoFrame /\ Type(e) = e[7]
          /\ (Len(f) >= 11 => e[10] = f[10] /\ e[11] = f[11])
      <4>1. 8 \in 8 .. Len(f) /\ 9 \in 8 .. Len(f) /\ (Len(f) >= 11 => 10 \in 8 .. Len(f) /\ 11 \in 8 .. Len(f))
        BY <2>1, <1>1
      <4>2. e # NoFrame
        BY <3>2, <1>1 DEF NoFrame
      <4> QED BY <4>1, <4>2, <3>2 DEF Type
    <3>4. HeldFrame(e)
      <4>1. Fits(e, 7) /\ e[7] \in {ETHTYPE_DOT1Q, ETHTYPE_QINQ}
        BY <3>2, <1>1, TypesDiffer DEF Fits
      <4>2. Fits(e, 9)
        <5>1. Fits(f, 9) /\ Len(e) - 9 >= Len(f) - 9 /\ Len(e) \in Nat
          BY <2>1, <3>2, <1>1 DEF Framed
        <5> QED BY <5>1, <3>2, <3>3, <1>1, FitsElsewhere
      <4>3. e[9] = ETHTYPE_QINQ => Len(e) >= 11 /\ e[10] # 0 /\ e[11] = ETHTYPE_DOT1Q
        <5>1. f[9] = ETHTYPE_QINQ => Len(f) >= 11 /\ f[10] # 0 /\ f[11] = ETHTYPE_DOT1Q
          BY <2>1 DEF Framed
        <5> QED BY <5>1, <3>2, <3>3
      <4>4. Len(e) >= 9 /\ Len(e) >= 7 /\ e[8] # 0
        BY <2>1, <2>6, <3>2, <3>3, <1>1
      <4>5. Framed(e)
        BY <4>1, <4>2, <4>3, <4>4, <3>2 DEF Framed
      <4> QED BY <4>5, <3>2, <3>3, TypesDiffer DEF HeldFrame
    <3>5. InHost(e) = OnWire(f)
      <4>1. CASE f[9] = ETHTYPE_DOT1Q
        <5>1. e[7] = ETHTYPE_QINQ /\ e[7] # ETHTYPE_DOT1Q
          BY <4>1, <3>2, TypesDiffer
        <5>2. SubSeq(e, 7, Len(e)) = <<ETHTYPE_QINQ>> \o SubSeq(f, 8, Len(f))
          BY <5>1, <3>2, <1>1, TwoTags
        <5>3. InHost(e) = [tag |-> 0, body |-> SubSeq(e, 7, Len(e))]
          BY <5>1, <3>3 DEF InHost
        <5>4. OnWire(f) = [tag |-> 0, body |-> <<ETHTYPE_QINQ>> \o SubSeq(f, 8, Len(f))]
          BY <4>1, <2>3, <2>4, <1>1, <1>3 DEF OnWire
        <5> QED BY <5>2, <5>3, <5>4
      <4>2. CASE f[9] # ETHTYPE_DOT1Q
        <5>1. e[7] = ETHTYPE_DOT1Q
          BY <4>2, <3>2
        <5>2. SubSeq(e, 9, Len(e)) = SubSeq(f, 9, Len(f))
          <6>1. 9 \in 1 .. Len(e) + 1 /\ 9 \in 1 .. Len(f) + 1 /\ Len(e) - 9 = Len(f) - 9
            BY <2>1, <3>2, <1>1
          <6>2. \A j \in 9 .. Len(e) : e[j] = f[9 + (j - 9)]
            BY <3>2, <1>1
          <6> QED BY <6>1, <6>2, <3>2, <1>1, SameRest
        <5>3. InHost(e) = [tag |-> e[8], body |-> SubSeq(e, 9, Len(e))]
          BY <5>1, <3>3 DEF InHost
        <5>4. OnWire(f) = [tag |-> f[8], body |-> SubSeq(g, 7, Len(g))]
          BY <4>2, <2>3, <2>4, <1>1 DEF OnWire
        <5> QED BY <5>2, <5>3, <5>4, <3>3, <2>3
      <4> QED BY <4>1, <4>2
    <3> QED BY <3>1, <3>4, <3>5
  <2> QED BY <2>5, <2>6
<1> QED BY <1>2, <1>3

(* Sent as it is, a frame is on the wire what it is in the host.           *)
LEMMA SentPlain ==
  ASSUME NEW d, HeldFrame(d)
  PROVE  OnWire(d) = InHost(d)
<1>1. /\ d \in Seq(Word) /\ Len(d) \in Nat /\ Len(d) >= 7 /\ d # NoFrame /\ d[7] = Type(d) /\ Framed(d)
      /\ d[7] \in {ETHTYPE_DOT1Q, ETHTYPE_QINQ} => Len(d) >= 9
  BY FrameWords DEF HeldFrame
<1>2. CASE ~ Tagged(d)
  BY <1>1, <1>2 DEF OnWire, InHost, KernelFrame, KernelTag, Tagged
<1>3. CASE Tagged(d)
  <2>1. Len(d) >= 9 /\ d[7] \in {ETHTYPE_DOT1Q, ETHTYPE_QINQ}
    BY <1>1, <1>3 DEF Tagged
  <2>2. PICK g : g = Untagged(d)
    OBVIOUS
  <2>3. Type(g) = d[9] /\ SubSeq(g, 7, Len(g)) = SubSeq(d, 9, Len(d))
    BY <2>1, <2>2, <1>1, UntaggedFrame DEF Type
  <2>4. KernelFrame(d) = g /\ KernelTag(d) = d[8]
    BY <1>3, <2>2 DEF KernelFrame, KernelTag
  <2>5. CASE d[7] = ETHTYPE_DOT1Q
    <3>1. d[9] # ETHTYPE_DOT1Q
      BY <2>5 DEF HeldFrame
    <3>2. OnWire(d) = [tag |-> d[8], body |-> SubSeq(g, 7, Len(g))]
      BY <3>1, <2>3, <2>4, <1>1 DEF OnWire
    <3>3. InHost(d) = [tag |-> d[8], body |-> SubSeq(d, 9, Len(d))]
      BY <2>5, <1>1 DEF InHost
    <3> QED BY <3>2, <3>3, <2>3
  <2>6. CASE d[7] = ETHTYPE_QINQ
    <3>1. d[9] = ETHTYPE_DOT1Q /\ d[7] # ETHTYPE_DOT1Q
      BY <2>6, TypesDiffer DEF HeldFrame
    <3>2. OnWire(d) = [tag |-> 0, body |-> <<ETHTYPE_QINQ>> \o SubSeq(d, 8, Len(d))]
      BY <3>1, <2>3, <2>4, <1>1, <1>3 DEF OnWire
    <3>3. InHost(d) = [tag |-> 0, body |-> SubSeq(d, 7, Len(d))]
      BY <3>1, <1>1 DEF InHost
    <3>4. SubSeq(d, 7, Len(d)) = <<ETHTYPE_QINQ>> \o SubSeq(d, 8, Len(d))
      BY <2>6, <1>1, TwoTags
    <3> QED BY <3>2, <3>3, <3>4
  <2> QED BY <2>1, <2>5, <2>6
<1> QED BY <1>2, <1>3

(* An access interface takes a frame out of its VLAN.                      *)
LEMMA SentAccess ==
  ASSUME NEW d, HeldFrame(d), d[7] = ETHTYPE_DOT1Q
  PROVE  Framed(Untagged(d)) /\ OnWire(Untagged(d)) = [InHost(d) EXCEPT !.tag = 0]
<1>1. /\ d \in Seq(Word) /\ Len(d) \in Nat /\ Len(d) >= 9 /\ d # NoFrame /\ d[7] = Type(d) /\ Framed(d)
      /\ Tagged(d) /\ d[9] # ETHTYPE_DOT1Q
  BY FrameWords DEF HeldFrame, Tagged
<1>2. PICK g : g = Untagged(d)
  OBVIOUS
<1>3. HeldFrame(g)
  BY <1>1, <1>2, RestFramed
<1>4. g[7] = d[9] /\ SubSeq(g, 7, Len(g)) = SubSeq(d, 9, Len(d))
  BY <1>1, <1>2, UntaggedFrame
<1>5. g # NoFrame /\ Type(g) # ETHTYPE_DOT1Q
  BY <1>1, <1>3, <1>4, FrameWords DEF HeldFrame
<1>6. InHost(g) = [tag |-> 0, body |-> SubSeq(g, 7, Len(g))]
  BY <1>5 DEF InHost
<1>7. InHost(d) = [tag |-> d[8], body |-> SubSeq(d, 9, Len(d))]
  BY <1>1 DEF InHost
<1>8. OnWire(g) = InHost(g)
  BY <1>3, SentPlain
<1>9. [InHost(d) EXCEPT !.tag = 0] = [tag |-> 0, body |-> SubSeq(d, 9, Len(d))]
  <2>1. PICK tag, body, h : tag = d[8] /\ body = SubSeq(d, 9, Len(d)) /\ h = InHost(d)
    OBVIOUS
  <2>2. h = [tag |-> tag, body |-> body]
    BY <2>1, <1>7
  <2>3. [h EXCEPT !.tag = 0] = [tag |-> 0, body |-> body] /\ h.tag = tag
    BY <2>2
  <2> QED BY <2>1, <2>3
<1> QED BY <1>2, <1>3, <1>4, <1>6, <1>8, <1>9 DEF HeldFrame

(* A trunk puts a frame that is in no VLAN into one.                       *)
LEMMA SentTrunk ==
  ASSUME NEW d, HeldFrame(d), d[7] # ETHTYPE_DOT1Q, NEW id \in Word
  PROVE  /\ Framed(WithTag(d, ETHTYPE_DOT1Q, id))
         /\ OnWire(WithTag(d, ETHTYPE_DOT1Q, id)) = [InHost(d) EXCEPT !.tag = id]
         /\ InHost(d).tag = 0
<1>1. /\ d \in Seq(Word) /\ Len(d) \in Nat /\ Len(d) >= 7 /\ d # NoFrame /\ d[7] = Type(d) /\ Framed(d)
  BY FrameWords DEF HeldFrame
<1>2. PICK e : e = WithTag(d, ETHTYPE_DOT1Q, id)
  OBVIOUS
<1>3. /\ e \in Seq(Word) /\ Len(e) = Len(d) + 2 /\ e[7] = ETHTYPE_DOT1Q /\ e[8] = id /\ e[9] = d[7]
      /\ SubSeq(e, 9, Len(e)) = SubSeq(d, 7, Len(d))
  <2>1. ETHTYPE_DOT1Q \in Word
    BY TypesDiffer
  <2>2. LET t == WithTag(d, ETHTYPE_DOT1Q, id)
        IN  /\ t \in Seq(Word) /\ Len(t) = Len(d) + 2 /\ t[7] = ETHTYPE_DOT1Q /\ t[8] = id /\ t[9] = d[7]
            /\ SubSeq(t, 9, Len(t)) = SubSeq(d, 7, Len(d))
    BY <1>1, <2>1, TaggedFrame
  <2> QED BY <2>2, <1>2
<1>4. \A j \in 9 .. Len(d) + 2 : e[j] = d[j - 2]
  <2>1. \A j \in 9 .. Len(d) + 2 : WithTag(d, ETHTYPE_DOT1Q, id)[j] = d[j - 2]
    BY <1>1, TypesDiffer, TagWords
  <2> QED BY <2>1, <1>2
<1>5. e[9] = ETHTYPE_QINQ => Len(e) >= 11 /\ e[10] # 0 /\ e[11] = ETHTYPE_DOT1Q
  <2> SUFFICES ASSUME e[9] = ETHTYPE_QINQ
               PROVE  Len(e) >= 11 /\ e[10] # 0 /\ e[11] = ETHTYPE_DOT1Q
    OBVIOUS
  <2>1. d[9] = ETHTYPE_DOT1Q /\ d[8] # 0 /\ Len(d) >= 9
    BY <1>1, <1>3 DEF HeldFrame, Framed
  <2>2. 10 \in 9 .. Len(d) + 2 /\ 10 - 2 = 8 /\ 11 \in 9 .. Len(d) + 2 /\ 11 - 2 = 9
    BY <2>1, <1>1
  <2>3. e[10] = d[8] /\ e[11] = d[9]
    BY <2>2, <1>4
  <2> QED BY <2>1, <2>3, <1>1, <1>3
<1>6. Framed(e)
  <2>1. Fits(e, 7) /\ Len(e) >= 9 /\ Len(e) >= 7
    BY <1>1, <1>3, TypesDiffer DEF Fits
  <2>2. Fits(e, 9)
    <3>1. Fits(d, 7) /\ Len(e) - 9 >= Len(d) - 7 /\ Len(e) \in Nat
      BY <1>1, <1>3 DEF Framed
    <3> QED BY <3>1, <1>1, <1>3, FitsElsewhere
  <2>3. e[9] # ETHTYPE_DOT1Q
    BY <1>3
  <2> QED BY <2>1, <2>2, <2>3, <1>3, <1>5 DEF Framed
<1>7. HeldFrame(e)
  BY <1>3, <1>6, TypesDiffer DEF HeldFrame
<1>8. InHost(e) = [tag |-> id, body |-> SubSeq(e, 9, Len(e))]
  <2>1. e # NoFrame /\ Type(e) = ETHTYPE_DOT1Q
    BY <1>3, <1>6, FrameWords
  <2> QED BY <2>1, <1>3 DEF InHost
<1>9. InHost(d) = [tag |-> 0, body |-> SubSeq(d, 7, Len(d))]
  BY <1>1 DEF InHost
<1>10. [InHost(d) EXCEPT !.tag = id] = [tag |-> id, body |-> SubSeq(d, 7, Len(d))] /\ InHost(d).tag = 0
  <2>1. PICK tag, body, h : tag = 0 /\ body = SubSeq(d, 7, Len(d)) /\ h = InHost(d)
    OBVIOUS
  <2>2. h = [tag |-> tag, body |-> body]
    BY <2>1, <1>9
  <2>3. [h EXCEPT !.tag = id] = [tag |-> id, body |-> body] /\ h.tag = tag
    BY <2>2
  <2> QED BY <2>1, <2>3
<1>11. OnWire(e) = InHost(e)
  BY <1>7, SentPlain
<1> QED BY <1>2, <1>3, <1>6, <1>8, <1>10, <1>11

-----------------------------------------------------------------------------
(* MAC addresses                                                           *)

(* n words are the same at two places.                                     *)
SamePart(x, k, y, m, n) ==
  k + n - 1 <= Len(x) /\ m + n - 1 <= Len(y) /\ \A j \in 0 .. n - 1 : x[k + j] = y[m + j]

(* What is read there is the same.                                         *)
LEMMA SameRead ==
  ASSUME NEW x \in Seq(Word), NEW y \in Seq(Word), NEW k \in Nat \ {0}, NEW m \in Nat \ {0}, NEW n \in Nat,
         SamePart(x, k, y, m, n)
  PROVE  Read(x, k, n) = Read(y, m, n)
<1>0. k + n - 1 <= Len(x) /\ m + n - 1 <= Len(y) /\ \A j \in 0 .. n - 1 : x[k + j] = y[m + j]
  BY DEF SamePart
<1>1. PICK r : r = Read(x, k, n)
  OBVIOUS
<1>2. PICK s : s = Read(y, m, n)
  OBVIOUS
<1>3. r \in Seq(Word) /\ Len(r) = n /\ \A j \in 1 .. n : r[j] = x[k + j - 1]
  BY <1>0, <1>1, ReadWords DEF Words
<1>4. s \in Seq(Word) /\ Len(s) = n /\ \A j \in 1 .. n : s[j] = y[m + j - 1]
  BY <1>0, <1>2, ReadWords DEF Words
<1>5. ASSUME NEW j \in 1 .. Len(r)
      PROVE  r[j] = s[j]
  <2>1. j - 1 \in 0 .. n - 1 /\ k + (j - 1) = k + j - 1 /\ m + (j - 1) = m + j - 1 /\ j \in 1 .. n
    BY <1>3
  <2>2. x[k + j - 1] = y[m + j - 1]
    BY <2>1, <1>0
  <2> QED BY <2>1, <2>2, <1>3, <1>4
<1> QED BY <1>1, <1>2, <1>3, <1>4, <1>5, SameWords

(* All of the words.                                                       *)
LEMMA WholeRead ==
  ASSUME NEW n \in Nat, NEW w \in Words(n)
  PROVE  Read(w, 1, n) = w
<1>1. w \in Seq(Word) /\ Len(w) = n
  BY DEF Words
<1>2. PICK k \in Nat \ {0} : k = 1
  OBVIOUS
<1>3. PICK r : r = Read(w, k, n)
  OBVIOUS
<1>4. k + n - 1 <= Len(w)
  BY <1>1, <1>2
<1>5. r \in Seq(Word) /\ Len(r) = n /\ \A j \in 1 .. n : r[j] = w[k + j - 1]
  BY <1>1, <1>3, <1>4, ReadWords DEF Words
<1>6. \A j \in 1 .. Len(r) : r[j] = w[j]
  BY <1>2, <1>5
<1> QED BY <1>1, <1>2, <1>3, <1>5, <1>6, SameWords

(* Reading behind the MAC addresses does not depend on them.               *)
LEMMA ReadRenamed ==
  ASSUME NEW d \in Seq(Word), NEW e, Renamed(d, e), NEW k \in Nat, NEW n \in Nat, k >= 7, k + n - 1 <= Len(d)
  PROVE  Read(e, k, n) = Read(d, k, n)
<1>1. e \in Seq(Word) /\ Len(e) = Len(d) /\ k \in Nat \ {0} /\ Len(d) \in Nat
  BY DEF Renamed
<1>2. SamePart(e, k, d, k, n)
  BY <1>1 DEF Renamed, SamePart
<1> QED BY <1>1, <1>2, SameRead

(* A destination or a source is written over its three words only.         *)
LEMMA Addressed ==
  ASSUME NEW d \in Seq(Word), Len(d) >= 7, NEW mac \in Words(3)
  PROVE  /\ Renamed(d, Put(d, 1, mac)) /\ Dst(Put(d, 1, mac)) = mac /\ Src(Put(d, 1, mac)) = Src(d)
         /\ Renamed(d, Put(d, 4, mac)) /\ Dst(Put(d, 4, mac)) = Dst(d) /\ Src(Put(d, 4, mac)) = mac
<1>1. mac \in Seq(Word) /\ Len(mac) = 3 /\ Len(d) \in Nat
  BY DEF Words
<1>2. PICK e : e = Put(d, 1, mac)
  OBVIOUS
<1>3. PICK f : f = Put(d, 4, mac)
  OBVIOUS
<1>4. /\ e \in Seq(Word) /\ Len(e) = Len(d)
      /\ \A j \in 1 .. Len(d) : e[j] = IF j \in 1 .. 1 + Len(mac) - 1 THEN mac[j - 1 + 1] ELSE d[j]
  <2>1. PICK k \in Nat \ {0} : k = 1
    OBVIOUS
  <2>2. /\ Put(d, k, mac) \in Seq(Word) /\ Len(Put(d, k, mac)) = Len(d)
        /\ \A j \in 1 .. Len(d) :
             Put(d, k, mac)[j] = IF j \in k .. k + Len(mac) - 1 THEN mac[j - k + 1] ELSE d[j]
    BY <1>1, PutWords
  <2> QED BY <2>1, <2>2, <1>2
<1>5. /\ f \in Seq(Word) /\ Len(f) = Len(d)
      /\ \A j \in 1 .. Len(d) : f[j] = IF j \in 4 .. 4 + Len(mac) - 1 THEN mac[j - 4 + 1] ELSE d[j]
  <2>1. 4 \in Nat \ {0}
    OBVIOUS
  <2> QED BY <2>1, <1>1, <1>3, PutWords
<1>6. /\ e[1] = mac[1] /\ e[2] = mac[2] /\ e[3] = mac[3]
      /\ e[4] = d[4] /\ e[5] = d[5] /\ e[6] = d[6]
      /\ \A j \in 7 .. Len(d) : e[j] = d[j]
  <2>1. \A j \in 1 .. Len(d) : e[j] = IF j \in 1 .. 3 THEN mac[j] ELSE d[j]
    BY <1>1, <1>4
  <2>2. e[1] = mac[1] /\ e[2] = mac[2] /\ e[3] = mac[3]
    BY <1>1, <2>1
  <2>3. e[4] = d[4] /\ e[5] = d[5] /\ e[6] = d[6]
    BY <1>1, <2>1
  <2>4. \A j \in 7 .. Len(d) : e[j] = d[j]
    BY <1>1, <2>1
  <2> QED BY <2>2, <2>3, <2>4
<1>7. /\ f[1] = d[1] /\ f[2] = d[2] /\ f[3] = d[3]
      /\ f[4] = mac[1] /\ f[5] = mac[2] /\ f[6] = mac[3]
      /\ \A j \in 7 .. Len(d) : f[j] = d[j]
  <2>1. \A j \in 1 .. Len(d) : f[j] = IF j \in 4 .. 6 THEN mac[j - 3] ELSE d[j]
    BY <1>1, <1>5
  <2>2. f[1] = d[1] /\ f[2] = d[2] /\ f[3] = d[3]
    BY <1>1, <2>1
  <2>3. f[4] = mac[1] /\ f[5] = mac[2] /\ f[6] = mac[3]
    BY <1>1, <2>1
  <2>4. \A j \in 7 .. Len(d) : f[j] = d[j]
    BY <1>1, <2>1
  <2> QED BY <2>2, <2>3, <2>4
<1>8. ASSUME NEW x \in Seq(Word), NEW y \in Seq(Word), NEW k \in Nat \ {0}, NEW m \in Nat \ {0},
             k + 2 <= Len(x), m + 2 <= Len(y), x[k] = y[m], x[k + 1] = y[m + 1], x[k + 2] = y[m + 2]
      PROVE  Read(x, k, 3) = Read(y, m, 3)
  <2>1. 3 \in Nat /\ k + 3 - 1 <= Len(x) /\ m + 3 - 1 <= Len(y)
    BY <1>8
  <2>2. \A j \in 0 .. 3 - 1 : x[k + j] = y[m + j]
    <3> TAKE j \in 0 .. 3 - 1
    <3>1. CASE j = 0
      BY <3>1, <1>8
    <3>2. CASE j = 1
      BY <3>2, <1>8
    <3>3. CASE j = 2
      BY <3>3, <1>8
    <3> QED BY <3>1, <3>2, <3>3
  <2>3. SamePart(x, k, y, m, 3)
    BY <2>1, <2>2 DEF SamePart
  <2> QED BY <2>1, <2>3, SameRead
<1>9. Read(mac, 1, 3) = mac
  BY WholeRead
<1>10. Read(e, 1, 3) = Read(mac, 1, 3) /\ Read(f, 4, 3) = Read(mac, 1, 3)
       /\ Read(e, 4, 3) = Read(d, 4, 3) /\ Read(f, 1, 3) = Read(d, 1, 3)
  <2>1. PICK k \in Nat \ {0}, m \in Nat \ {0} : k = 1 /\ m = 4
    OBVIOUS
  <2>2. /\ e[k] = mac[k] /\ e[k + 1] = mac[k + 1] /\ e[k + 2] = mac[k + 2]
        /\ f[m] = mac[k] /\ f[m + 1] = mac[k + 1] /\ f[m + 2] = mac[k + 2]
        /\ e[m] = d[m] /\ e[m + 1] = d[m + 1] /\ e[m + 2] = d[m + 2]
        /\ f[k] = d[k] /\ f[k + 1] = d[k + 1] /\ f[k + 2] = d[k + 2]
    BY <2>1, <1>6, <1>7
  <2>3. /\ k + 2 <= Len(mac) /\ k + 2 <= Len(d) /\ m + 2 <= Len(d)
        /\ Len(e) = Len(d) /\ Len(f) = Len(d)
    BY <2>1, <1>1, <1>4, <1>5
  <2>4. Read(e, k, 3) = Read(mac, k, 3)
    BY <2>2, <2>3, <1>1, <1>4, <1>8
  <2>5. Read(f, m, 3) = Read(mac, k, 3)
    BY <2>2, <2>3, <1>1, <1>5, <1>8
  <2>6. Read(e, m, 3) = Read(d, m, 3)
    BY <2>2, <2>3, <1>1, <1>4, <1>8
  <2>7. Read(f, k, 3) = Read(d, k, 3)
    BY <2>2, <2>3, <1>1, <1>5, <1>8
  <2> QED BY <2>1, <2>4, <2>5, <2>6, <2>7
<1>11. Renamed(d, e) /\ Renamed(d, f)
  BY <1>4, <1>5, <1>6, <1>7 DEF Renamed
<1> QED BY <1>2, <1>3, <1>9, <1>10, <1>11 DEF Dst, Src

-----------------------------------------------------------------------------
(* l3sw's ARP frames                                                       *)

(* r is s and t after it.                                                  *)
Joined(r, s, t) ==
  /\ r \in Seq(Word) /\ Len(r) = Len(s) + Len(t)
  /\ \A j \in 1 .. Len(s) : r[j] = s[j]
  /\ \A j \in 1 .. Len(t) : r[Len(s) + j] = t[j]

(* So is what is joined.                                                   *)
LEMMA JoinJoins ==
  ASSUME NEW s \in Seq(Word), NEW t \in Seq(Word)
  PROVE  Join(s, t) \in Seq(Word) /\ Joined(Join(s, t), s, t)
BY JoinWords DEF Joined

(* A MAC address and an IP address after it.                               *)
LEMMA PairWords ==
  ASSUME NEW a \in Words(3), NEW b \in Words(2)
  PROVE  /\ Join(a, b) \in Seq(Word) /\ Len(Join(a, b)) = 5
         /\ \A j \in 1 .. 3 : Join(a, b)[j] = a[j]
         /\ \A j \in 1 .. 2 : Join(a, b)[3 + j] = b[j]
<1>1. a \in Seq(Word) /\ Len(a) = 3 /\ b \in Seq(Word) /\ Len(b) = 2
  BY DEF Words
<1>2. /\ Join(a, b) \in Seq(Word) /\ Len(Join(a, b)) = Len(a) + Len(b)
      /\ \A j \in 1 .. Len(a) : Join(a, b)[j] = a[j]
      /\ \A j \in 1 .. Len(b) : Join(a, b)[Len(a) + j] = b[j]
  BY <1>1, JoinWords
<1> QED BY <1>1, <1>2

(* The fields of an ARP header from its operation on.                      *)
Fields(op, a, b, c, e) == <<op>> \o a \o b \o c \o e

(* Their words.                                                            *)
LEMMA FieldWords ==
  ASSUME NEW op \in Word, NEW a \in Words(3), NEW b \in Words(2), NEW c \in Words(3), NEW e \in Words(2)
  PROVE  /\ Fields(op, a, b, c, e) \in Seq(Word) /\ Len(Fields(op, a, b, c, e)) = 11
         /\ Fields(op, a, b, c, e)[1] = op
         /\ \A j \in 1 .. 3 : Fields(op, a, b, c, e)[1 + j] = a[j]
         /\ \A j \in 1 .. 2 : Fields(op, a, b, c, e)[4 + j] = b[j]
         /\ \A j \in 1 .. 3 : Fields(op, a, b, c, e)[6 + j] = c[j]
         /\ \A j \in 1 .. 2 : Fields(op, a, b, c, e)[9 + j] = e[j]
<1>1. /\ a \in Seq(Word) /\ Len(a) = 3 /\ b \in Seq(Word) /\ Len(b) = 2
      /\ c \in Seq(Word) /\ Len(c) = 3 /\ e \in Seq(Word) /\ Len(e) = 2
  BY DEF Words
<1>2. PICK f1 : f1 = <<op>>
  OBVIOUS
<1>3. f1 \in Seq(Word) /\ Len(f1) = 1 /\ f1[1] = op
  BY <1>2
<1>4. PICK f2 : f2 = Join(f1, a)
  OBVIOUS
<1>5. PICK f3 : f3 = Join(f2, b)
  OBVIOUS
<1>6. PICK f4 : f4 = Join(f3, c)
  OBVIOUS
<1>7. PICK f5 : f5 = Join(f4, e)
  OBVIOUS
<1>8. f2 \in Seq(Word) /\ Joined(f2, f1, a)
  BY <1>1, <1>3, <1>4, JoinJoins
<1>9. f3 \in Seq(Word) /\ Joined(f3, f2, b)
  BY <1>1, <1>5, <1>8, JoinJoins
<1>10. f4 \in Seq(Word) /\ Joined(f4, f3, c)
  BY <1>1, <1>6, <1>9, JoinJoins
<1>11. f5 \in Seq(Word) /\ Joined(f5, f4, e)
  BY <1>1, <1>7, <1>10, JoinJoins
<1>12. Len(f2) = 4 /\ Len(f3) = 6 /\ Len(f4) = 9 /\ Len(f5) = 11
  BY <1>1, <1>3, <1>8, <1>9, <1>10, <1>11 DEF Joined
<1>13. \A j \in 1 .. 4 : f5[j] = f2[j]
  BY <1>9, <1>10, <1>11, <1>12 DEF Joined
<1>14. \A j \in 1 .. 6 : f5[j] = f3[j]
  BY <1>10, <1>11, <1>12 DEF Joined
<1>15. f5[1] = op /\ \A j \in 1 .. 3 : f5[1 + j] = a[j]
  <2>1. f2[1] = op
    BY <1>3, <1>8 DEF Joined
  <2>2. \A j \in 1 .. 3 : f2[1 + j] = a[j]
    BY <1>1, <1>3, <1>8 DEF Joined
  <2>3. \A j \in 1 .. 3 : 1 + j \in 1 .. 4
    OBVIOUS
  <2> QED BY <2>1, <2>2, <2>3, <1>13
<1>16. \A j \in 1 .. 2 : f5[4 + j] = b[j]
  <2>1. \A j \in 1 .. 2 : f3[4 + j] = b[j]
    BY <1>1, <1>9, <1>12 DEF Joined
  <2>2. \A j \in 1 .. 2 : 4 + j \in 1 .. 6
    OBVIOUS
  <2> QED BY <2>1, <2>2, <1>14
<1>17. \A j \in 1 .. 3 : f5[6 + j] = c[j]
  <2>1. \A j \in 1 .. 3 : f4[6 + j] = c[j]
    BY <1>1, <1>10, <1>12 DEF Joined
  <2>2. \A j \in 1 .. 3 : 6 + j \in 1 .. 9
    OBVIOUS
  <2> QED BY <2>1, <2>2, <1>11, <1>12 DEF Joined
<1>18. \A j \in 1 .. 2 : f5[9 + j] = e[j]
  BY <1>1, <1>11, <1>12 DEF Joined
<1>19. Fields(op, a, b, c, e) = f5
  BY <1>2, <1>4, <1>5, <1>6, <1>7 DEF Fields, Join
<1> QED BY <1>11, <1>12, <1>15, <1>16, <1>17, <1>18, <1>19

(* PKT_ARP is a frame with an ARP header and no tag.                       *)
LEMMA PktWords ==
  PKT_ARP \in Words(21) /\ PKT_ARP[7] = ETHTYPE_ARP
<1>1. {1, ARP_REQUEST, 6 * 256 + 4, 65535, 4386, 13124, 21862, 44050, 200, 0} \subseteq Word
  BY SMT DEF Word, ARP_REQUEST
<1>2. PICK w1, w2, w3, w4, w5, w6, w7 :
        w1 = 65535 /\ w2 = 4386 /\ w3 = 13124 /\ w4 = 21862 /\ w5 = 44050 /\ w6 = 200 /\ w7 = 6 * 256 + 4
  OBVIOUS
<1>3. PKT_ARP = <<w1, w1, w1, w2, w3, w4, ETHTYPE_ARP, 1, ETHTYPE_IPV4, w7, ARP_REQUEST,
                  w2, w3, w4, w5, w6, 0, 0, 0, w5, 1>>
  BY <1>2, SMT DEF PKT_ARP
<1>4. {1, ARP_REQUEST, w1, w2, w3, w4, w5, w6, w7, 0, ETHTYPE_ARP, ETHTYPE_IPV4} \subseteq Word
  BY <1>1, <1>2, TypesDiffer
<1> QED BY <1>3, <1>4, SMT DEF Words

(* What an ARP frame of l3sw says.                                         *)
ArpSays(d, a, b, c, e) ==
  /\ d \in Words(21) /\ d[7] = ETHTYPE_ARP
  /\ Read(d, 12, 5) = a \o b /\ Read(d, 17, 5) = c \o e /\ Read(d, 20, 2) = e

(* The setters write their fields of PKT_ARP and nothing else.             *)
LEMMA ArpMade ==
  ASSUME NEW op \in {ARP_REQUEST, ARP_REPLY},
         NEW a \in Words(3), NEW b \in Words(2), NEW c \in Words(3), NEW e \in Words(2)
  PROVE  LET o == SetARP(set(Blank, PKT_ARP), op, a, b, c, e)
         IN  /\ o \in Object /\ o.eth = Own /\ o.type = ETHTYPE_ARP
             /\ ArpSays(o.data, a, b, c, e) /\ Src(o.data) = Src(PKT_ARP)
<1> DEFINE B == [Blank EXCEPT !.data = PKT_ARP, !.eth = Own]
           p == set(Blank, PKT_ARP)
           o == SetARP(set(Blank, PKT_ARP), op, a, b, c, e)
<1>1. PICK w : w = Fields(op, a, b, c, e)
  OBVIOUS
<1>2. /\ w \in Seq(Word) /\ Len(w) = 11
      /\ \A j \in 1 .. 3 : w[1 + j] = a[j]
      /\ \A j \in 1 .. 2 : w[4 + j] = b[j]
      /\ \A j \in 1 .. 3 : w[6 + j] = c[j]
      /\ \A j \in 1 .. 2 : w[9 + j] = e[j]
  <2>1. op \in Word
    BY SMT DEF ARP_REQUEST, ARP_REPLY, Word
  <2> QED BY <2>1, <1>1, FieldWords
<1>3. PKT_ARP \in Seq(Word) /\ Len(PKT_ARP) = 21 /\ PKT_ARP[7] = ETHTYPE_ARP
  BY PktWords DEF Words
<1>4. PICK q : q = PKT_ARP
  OBVIOUS
<1>5. /\ B \in Object /\ B.data = q /\ B.eth = Own /\ Eth(B) = q
  <2>1. Own \in Seq(Word) /\ q \in Seq(Word)
    BY <1>3, <1>4 DEF Own
  <2>2. Blank \in Object
    BY <2>1 DEF Blank, Object, Own
  <2>3. B = [Blank EXCEPT !.data = q, !.eth = Own]
    BY <1>4
  <2>4. B \in Object /\ B.data = q /\ B.eth = Own
    BY <2>1, <2>2, <2>3 DEF Object
  <2> QED BY <2>4 DEF Eth
<1>6. p = _update(B)
  BY DEF set
<1>7. TypeOf(q) = ETHTYPE_ARP /\ UlOf(q) = ETHTYPE_ARP /\ Header(q) = 8
  BY <1>3, <1>4, TypesDiffer DEF TypeOf, UlOf, Known, Header, Type
<1> HIDE DEF B, p
<1>8. p \in Object /\ p.data = q /\ p.eth = Own /\ p.type = ETHTYPE_ARP /\ p.arp = 8
  BY <1>5, <1>6, <1>7, Updates
<1>9. PICK d : d = Put(q, 11, w)
  OBVIOUS
<1>10. /\ d \in Seq(Word) /\ Len(d) = 21
       /\ \A j \in 1 .. 21 : d[j] = IF j \in 11 .. 21 THEN w[j - 11 + 1] ELSE q[j]
  <2>1. PICK k \in Nat \ {0} : k = 11
    OBVIOUS
  <2>2. q \in Seq(Word) /\ w \in Seq(Word) /\ Len(q) = 21 /\ Len(w) = 11
    BY <1>2, <1>3, <1>4
  <2>3. /\ Put(q, k, w) \in Seq(Word) /\ Len(Put(q, k, w)) = Len(q)
        /\ \A j \in 1 .. Len(q) :
             Put(q, k, w)[j] = IF j \in k .. k + Len(w) - 1 THEN w[j - k + 1] ELSE q[j]
    BY <2>2, PutWords
  <2>4. d = Put(q, k, w)
    BY <2>1, <1>9
  <2>5. k + Len(w) - 1 = 21
    BY <2>1, <2>2
  <2>6. /\ Len(d) = 21
        /\ \A j \in 1 .. 21 : d[j] = IF j \in k .. 21 THEN w[j - k + 1] ELSE q[j]
    BY <2>2, <2>3, <2>4, <2>5
  <2>7. \A j \in 1 .. 21 : d[j] = IF j \in 11 .. 21 THEN w[j - 11 + 1] ELSE q[j]
    BY <2>1, <2>6
  <2> QED BY <2>2, <2>3, <2>4, <2>6, <2>7
<1>11. o = [p EXCEPT !.data = d]
  <2>1. Eth(p) = q /\ p.arp + 3 = 11
    BY <1>8 DEF Eth
  <2>2. o = SetARP(p, op, a, b, c, e)
    BY DEF p
  <2>3. o = WriteEth(p, Put(Eth(p), p.arp + 3, w))
    BY <2>2, <1>1 DEF SetARP, Fields
  <2> QED BY <2>1, <2>3, <1>8, <1>9 DEF WriteEth
<1>12. o \in Object /\ o.data = d /\ o.eth = Own /\ o.type = ETHTYPE_ARP
  BY <1>8, <1>10, <1>11 DEF Object
<1> HIDE DEF o
<1>13. \A j \in 1 .. 11 : d[10 + j] = w[j]
  <2> TAKE j \in 1 .. 11
  <2>1. 10 + j \in 11 .. 21 /\ 10 + j \in 1 .. 21 /\ (10 + j) - 11 + 1 = j
    OBVIOUS
  <2> QED BY <2>1, <1>10
<1>14. ASSUME NEW x \in Words(3), NEW y \in Words(2), NEW k \in Nat, k + 4 <= 11, k > 0,
              \A j \in 1 .. 3 : w[k + j - 1] = x[j], \A j \in 1 .. 2 : w[k + 3 + j - 1] = y[j]
       PROVE  Read(d, 10 + k, 5) = x \o y /\ Read(d, 13 + k, 2) = y
  <2>1. PICK z : z = Join(x, y)
    OBVIOUS
  <2>2. /\ z \in Seq(Word) /\ Len(z) = 5
        /\ \A j \in 1 .. 3 : z[j] = x[j]
        /\ \A j \in 1 .. 2 : z[3 + j] = y[j]
    BY <2>1, PairWords
  <2>3. PICK m \in Nat \ {0} : m = 10 + k
    BY <1>14
  <2>4. ASSUME NEW j \in 0 .. 4
        PROVE  d[m + j] = z[1 + j]
    <3>1. k + j \in 1 .. 11 /\ m + j = 10 + (k + j)
      BY <2>3, <1>14
    <3>2. d[m + j] = w[k + j]
      BY <3>1, <1>13
    <3>3. CASE j <= 2
      <4>1. 1 + j \in 1 .. 3 /\ k + (1 + j) - 1 = k + j
        BY <3>3
      <4> QED BY <3>2, <4>1, <2>2, <1>14
    <3>4. CASE ~ (j <= 2)
      <4>1. PICK n \in 1 .. 2 : j = n + 2
        <5>1. j - 2 \in 1 .. 2 /\ j = (j - 2) + 2
          BY <3>4
        <5> QED BY <5>1
      <4>2. w[k + 3 + n - 1] = y[n] /\ z[3 + n] = y[n]
        BY <2>2, <1>14
      <4>3. k + 3 + n - 1 = k + j /\ 3 + n = 1 + j
        BY <4>1
      <4> QED BY <3>2, <4>2, <4>3
    <3> QED BY <3>3, <3>4
  <2>5. Read(d, m, 5) = z
    <3>1. PICK one \in Nat \ {0} : one = 1
      OBVIOUS
    <3>2. SamePart(d, m, z, one, 5)
      BY <3>1, <2>2, <2>3, <2>4, <1>10, <1>14 DEF SamePart
    <3>3. Read(d, m, 5) = Read(z, one, 5)
      BY <3>2, <2>2, <1>10, SameRead
    <3>4. Read(z, 1, 5) = z
      BY <2>2, WholeRead DEF Words
    <3> QED BY <3>1, <3>3, <3>4
  <2>6. Read(d, 13 + k, 2) = y
    <3>1. PICK one \in Nat \ {0}, n \in Nat \ {0} : one = 1 /\ n = 13 + k
      BY <1>14
    <3>2. ASSUME NEW j \in 0 .. 1
          PROVE  d[n + j] = y[one + j]
      <4>1. 3 + j \in 0 .. 4 /\ m + (3 + j) = n + j /\ 1 + (3 + j) = 3 + (1 + j) /\ 1 + j \in 1 .. 2
        BY <3>1, <2>3
      <4> QED BY <4>1, <3>1, <2>2, <2>4
    <3>3. y \in Seq(Word) /\ Len(y) = 2
      BY DEF Words
    <3>4. SamePart(d, n, y, one, 2)
      BY <3>1, <3>2, <3>3, <1>10, <1>14 DEF SamePart
    <3>5. Read(d, n, 2) = Read(y, one, 2)
      BY <3>3, <3>4, <1>10, SameRead
    <3>6. Read(y, 1, 2) = y
      BY WholeRead
    <3> QED BY <3>1, <3>5, <3>6
  <2> QED BY <2>1, <2>3, <2>5, <2>6 DEF Join
<1>15. Read(d, 12, 5) = a \o b
  <2>1. PICK k \in Nat : k = 2
    OBVIOUS
  <2>2. (\A j \in 1 .. 3 : w[k + j - 1] = a[j]) /\ (\A j \in 1 .. 2 : w[k + 3 + j - 1] = b[j])
    BY <2>1, <1>2
  <2>3. Read(d, 10 + k, 5) = a \o b
    BY <2>1, <2>2, <1>14
  <2> QED BY <2>1, <2>3
<1>16. Read(d, 17, 5) = c \o e /\ Read(d, 20, 2) = e
  <2>1. PICK k \in Nat : k = 7
    OBVIOUS
  <2>2. (\A j \in 1 .. 3 : w[k + j - 1] = c[j]) /\ (\A j \in 1 .. 2 : w[k + 3 + j - 1] = e[j])
    BY <2>1, <1>2
  <2>3. Read(d, 10 + k, 5) = c \o e /\ Read(d, 13 + k, 2) = e
    BY <2>1, <2>2, <1>14
  <2> QED BY <2>1, <2>3
<1>17. d \in Words(21) /\ d[7] = ETHTYPE_ARP
  BY <1>3, <1>4, <1>10 DEF Words
<1>18. Src(d) = Src(q)
  <2>1. PICK k \in Nat \ {0} : k = 4
    OBVIOUS
  <2>2. SamePart(d, k, q, k, 3)
    <3>1. \A j \in 0 .. 3 - 1 : k + j \in 1 .. 21 /\ k + j \notin 11 .. 21
      BY <2>1
    <3>2. \A j \in 0 .. 3 - 1 : d[k + j] = q[k + j]
      BY <3>1, <1>10
    <3>3. Len(d) = 21 /\ Len(q) = 21
      BY <1>3, <1>4, <1>10
    <3>4. k + 3 - 1 <= Len(d) /\ k + 3 - 1 <= Len(q)
      BY <2>1, <3>3
    <3> QED BY <3>2, <3>4 DEF SamePart
  <2>3. Read(d, k, 3) = Read(q, k, 3)
    BY <2>2, <1>3, <1>4, <1>10, SameRead
  <2> QED BY <2>1, <2>3 DEF Src
<1>19. ArpSays(o.data, a, b, c, e)
  BY <1>12, <1>15, <1>16, <1>17 DEF ArpSays
<1> QED BY <1>4, <1>12, <1>18, <1>19 DEF o

(* Other MAC addresses do not change what it says.                         *)
LEMMA ArpRenamed ==
  ASSUME NEW d, NEW a, NEW b, NEW c, NEW e, ArpSays(d, a, b, c, e), NEW f, Renamed(d, f)
  PROVE  ArpSays(f, a, b, c, e)
<1>1. d \in Seq(Word) /\ Len(d) = 21 /\ f \in Words(21)
  BY DEF ArpSays, Words, Renamed
<1>2. f[7] = d[7]
  BY <1>1 DEF Renamed
<1>3. Read(f, 12, 5) = Read(d, 12, 5)
  <2>1. PICK k \in Nat, n \in Nat : k = 12 /\ n = 5
    OBVIOUS
  <2>2. k >= 7 /\ k + n - 1 <= Len(d)
    BY <1>1, <2>1
  <2>3. Read(f, k, n) = Read(d, k, n)
    BY <1>1, <2>2, ReadRenamed
  <2> QED BY <2>1, <2>3
<1>4. Read(f, 17, 5) = Read(d, 17, 5)
  <2>1. PICK k \in Nat, n \in Nat : k = 17 /\ n = 5
    OBVIOUS
  <2>2. k >= 7 /\ k + n - 1 <= Len(d)
    BY <1>1, <2>1
  <2>3. Read(f, k, n) = Read(d, k, n)
    BY <1>1, <2>2, ReadRenamed
  <2> QED BY <2>1, <2>3
<1>5. Read(f, 20, 2) = Read(d, 20, 2)
  <2>1. PICK k \in Nat, n \in Nat : k = 20 /\ n = 2
    OBVIOUS
  <2>2. k >= 7 /\ k + n - 1 <= Len(d)
    BY <1>1, <2>1
  <2>3. Read(f, k, n) = Read(d, k, n)
    BY <1>1, <2>2, ReadRenamed
  <2> QED BY <2>1, <2>3
<1> QED BY <1>1, <1>2, <1>3, <1>4, <1>5 DEF ArpSays

(* On the wire it is in no VLAN.                                           *)
LEMMA ArpOnWire ==
  ASSUME NEW d \in Words(21), d[7] = ETHTYPE_ARP
  PROVE  /\ Framed(d) /\ OnWire(d) = [tag |-> 0, body |-> SubSeq(d, 7, Len(d))]
         /\ OnWire(d).body[1] = ETHTYPE_ARP
<1>1. d \in Seq(Word) /\ Len(d) = 21
  BY DEF Words
<1>2. Framed(d) /\ HeldFrame(d)
  BY <1>1, TypesDiffer DEF Framed, HeldFrame, Fits
<1>3. OnWire(d) = InHost(d)
  BY <1>2, SentPlain
<1>4. InHost(d) = [tag |-> 0, body |-> SubSeq(d, 7, Len(d))]
  BY <1>1, TypesDiffer DEF InHost, Type
<1>5. SubSeq(d, 7, Len(d))[1] = d[7]
  <2>1. 7 \in 1 .. Len(d) + 1 /\ 1 \in 1 .. Len(d) - 7 + 1 /\ 7 + 1 - 1 = 7
    BY <1>1
  <2> QED BY <2>1, <1>1, RestWords
<1>6. PICK body : body = SubSeq(d, 7, Len(d))
  OBVIOUS
<1>7. OnWire(d).body = body
  BY <1>3, <1>4, <1>6
<1> QED BY <1>2, <1>3, <1>4, <1>5, <1>6, <1>7

-----------------------------------------------------------------------------
(* The object *)

(* The object holds a frame: the types and the ARP header are this frame's.*)
Holds(o) ==
  /\ o \in Object /\ o.eth = Own /\ HeldFrame(o.data)
  /\ o.type = TypeOf(o.data) /\ o.ul = UlOf(o.data)
  /\ isARP(o) => o.arp = Header(o.data)

(* Its frame is long enough.                                               *)
LEMMA HoldsFrame ==
  ASSUME NEW o, Holds(o)
  PROVE  /\ Framed(o.data) /\ o.data \in Seq(Word) /\ Len(o.data) \in Nat /\ Len(o.data) >= 7
         /\ o.data # NoFrame /\ (o.type = ETHTYPE_DOT1Q <=> o.data[7] = ETHTYPE_DOT1Q)
         /\ Eth(o) = o.data /\ Sendable(o)
<1>1. Framed(o.data)
  BY DEF Holds, HeldFrame
<1>2. /\ o.data \in Seq(Word) /\ Len(o.data) \in Nat /\ Len(o.data) >= 7 /\ o.data # NoFrame
      /\ o.data[7] = Type(o.data)
      /\ o.data[7] \in {ETHTYPE_DOT1Q, ETHTYPE_QINQ} => Len(o.data) >= 9
  BY <1>1, FrameWords
<1>3. o.type = ETHTYPE_DOT1Q <=> o.data[7] = ETHTYPE_DOT1Q
  BY <1>2, KnownTypes DEF Holds
<1>4. Eth(o) = o.data
  BY DEF Holds, Eth
<1>5. Sendable(o)
  BY <1>2, <1>3 DEF Sendable, Holds
<1> QED BY <1>1, <1>2, <1>3, <1>4, <1>5

(* A host that takes a frame off the wire holds it.                        *)
LEMMA Taken ==
  ASSUME NEW o \in Object, NEW f, Framed(f)
  PROVE  /\ Holds(set(o, recvRaw(f))) /\ set(o, recvRaw(f)).data = recvRaw(f)
         /\ InHost(recvRaw(f)) = OnWire(f)
<1>1. PICK d : d = recvRaw(f)
  OBVIOUS
<1>2. HeldFrame(d) /\ InHost(d) = OnWire(f)
  BY <1>1, Received
<1>3. d \in Seq(Word)
  BY <1>2, FrameWords DEF HeldFrame
<1>4. PICK p : p = [o EXCEPT !.data = d, !.eth = Own]
  OBVIOUS
<1>5. p \in Object /\ p.data = d /\ p.eth = Own
  <2>1. Own \in Seq(Word)
    BY DEF Own
  <2> QED BY <1>3, <1>4, <2>1 DEF Object
<1>6. Eth(p) = d
  BY <1>5 DEF Eth
<1>7. /\ _update(p) \in Object /\ _update(p).data = d /\ _update(p).eth = Own
      /\ _update(p).type = TypeOf(d) /\ _update(p).ul = UlOf(d)
      /\ _update(p).ul = ETHTYPE_ARP => _update(p).arp = Header(d)
  BY <1>5, <1>6, Updates
<1>8. set(o, recvRaw(f)) = _update(p)
  BY <1>1, <1>4 DEF set
<1>9. Holds(_update(p))
  BY <1>2, <1>7 DEF Holds, isARP
<1> QED BY <1>1, <1>2, <1>7, <1>8, <1>9

(* Other MAC addresses change nothing else.                                *)
LEMMA HoldsRenamed ==
  ASSUME NEW o, Holds(o), NEW e, Renamed(o.data, e)
  PROVE  /\ Holds([o EXCEPT !.data = e]) /\ InHost(e) = InHost(o.data)
         /\ SubSeq(e, 7, Len(e)) = SubSeq(o.data, 7, Len(o.data))
<1>1. Framed(o.data)
  BY HoldsFrame
<1>2. /\ HeldFrame(o.data) => HeldFrame(e)
      /\ InHost(e) = InHost(o.data) /\ TypeOf(e) = TypeOf(o.data) /\ UlOf(e) = UlOf(o.data)
      /\ Header(e) = Header(o.data) /\ SubSeq(e, 7, Len(e)) = SubSeq(o.data, 7, Len(o.data))
  BY <1>1, RenamedFrame
<1>3. e \in Seq(Word)
  BY DEF Renamed
<1>4. PICK p : p = [o EXCEPT !.data = e]
  OBVIOUS
<1>5. /\ p \in Object /\ p.data = e /\ p.eth = o.eth /\ p.arp = o.arp /\ p.type = o.type /\ p.ul = o.ul
  BY <1>3, <1>4 DEF Holds, Object
<1>6. Holds(p)
  BY <1>2, <1>5 DEF Holds, isARP
<1> QED BY <1>2, <1>4, <1>6

(* Renamed once more.                                                      *)
LEMMA RenamedTwice ==
  ASSUME NEW d, NEW e, NEW f, Renamed(d, e), Renamed(e, f)
  PROVE  Renamed(d, f)
BY DEF Renamed

(* What a caller is left with is its frame, with the source of the         *)
(* interface if it is one of layer 3.                                      *)
LEMMA LeftRenamed ==
  ASSUME NEW d \in Seq(Word), Len(d) >= 7, NEW j \in Netif
  PROVE  /\ Renamed(d, Left(j, d)) /\ Dst(Left(j, d)) = Dst(d)
         /\ Src(Left(j, d)) = IF iftype[j] = "L3" THEN Mac[j] ELSE Src(d)
<1>1. CASE iftype[j] = "L3"
  <2>1. Mac[j] \in Words(3)
    BY NetIfAssumption
  <2>2. Left(j, d) = Put(d, 4, Mac[j])
    BY <1>1 DEF Left
  <2> QED BY <1>1, <2>1, <2>2, Addressed
<1>2. CASE iftype[j] # "L3"
  <2>1. Left(j, d) = d /\ Renamed(d, d)
    BY <1>2 DEF Left, Renamed
  <2> QED BY <1>2, <2>1
<1> QED BY <1>1, <1>2

(* What an interface sends is a frame with the same body, and in the VLAN  *)
(* its type has it be in.                                                  *)
LEMMA Sent ==
  ASSUME NEW o, Holds(o), NEW j \in Netif, NEW id \in Word
  PROVE  /\ Framed(OnLink(j, o, id))
         /\ LET held == InHost(o.data)
            IN  \/ OnWire(OnLink(j, o, id)) = held
                \/ OnWire(OnLink(j, o, id)) = [held EXCEPT !.tag = 0]
                \/ held.tag = 0 /\ OnWire(OnLink(j, o, id)) = [held EXCEPT !.tag = id]
<1>1. HeldFrame(o.data) /\ Framed(o.data) /\ (o.type = ETHTYPE_DOT1Q <=> o.data[7] = ETHTYPE_DOT1Q)
  <2>1. HeldFrame(o.data)
    BY DEF Holds
  <2> QED BY <2>1, HoldsFrame
<1>2. CASE iftype[j] = "access" /\ o.type = ETHTYPE_DOT1Q
  <2>1. OnLink(j, o, id) = Untagged(o.data)
    BY <1>2 DEF OnLink
  <2>2. Framed(Untagged(o.data)) /\ OnWire(Untagged(o.data)) = [InHost(o.data) EXCEPT !.tag = 0]
    BY <1>1, <1>2, SentAccess
  <2> QED BY <2>1, <2>2
<1>3. CASE iftype[j] = "trunk" /\ o.type # ETHTYPE_DOT1Q
  <2>1. OnLink(j, o, id) = WithTag(o.data, ETHTYPE_DOT1Q, id)
    BY <1>3 DEF OnLink
  <2>2. /\ Framed(WithTag(o.data, ETHTYPE_DOT1Q, id))
        /\ OnWire(WithTag(o.data, ETHTYPE_DOT1Q, id)) = [InHost(o.data) EXCEPT !.tag = id]
        /\ InHost(o.data).tag = 0
    BY <1>1, <1>3, SentTrunk
  <2> QED BY <2>1, <2>2
<1>4. CASE ~ (iftype[j] = "access" /\ o.type = ETHTYPE_DOT1Q) /\ ~ (iftype[j] = "trunk" /\ o.type # ETHTYPE_DOT1Q)
  <2>1. OnLink(j, o, id) = o.data
    BY <1>4 DEF OnLink
  <2>2. OnWire(o.data) = InHost(o.data)
    BY <1>1, SentPlain
  <2> QED BY <1>1, <2>1, <2>2
<1> QED BY <1>2, <1>3, <1>4

-----------------------------------------------------------------------------
(* l3sw's own frames *)

(* An ARP header lies inside its frame, and so do its addresses.           *)
LEMMA ArpInside ==
  ASSUME NEW o, Holds(o), isARP(o)
  PROVE  getSrcMac(o) \in Words(3) /\ getSrcIP(o) \in Words(2)
<1>1. PICK d : d = o.data
  OBVIOUS
<1>2. d \in Seq(Word) /\ Len(d) \in Nat /\ Framed(d) /\ Eth(o) = d /\ Type(d) = d[7]
  BY <1>1, HoldsFrame, FrameWords
<1>3. o.ul = ETHTYPE_ARP /\ o.arp = Header(d) /\ o.ul = UlOf(d)
  BY <1>1 DEF Holds, isARP
<1>4. (IF Type(d) = ETHTYPE_DOT1Q THEN d[9] ELSE Type(d)) = ETHTYPE_ARP
  BY <1>3, KnownTypes
<1>5. o.arp \in {8, 10} /\ Len(d) >= o.arp + 13
  <2>1. CASE Type(d) = ETHTYPE_DOT1Q
    <3>1. o.arp = 10
      BY <1>3, <2>1 DEF Header
    <3>2. Fits(d, 9)
      BY <1>2, <2>1 DEF Framed
    <3>3. PICK k : k = 9
      OBVIOUS
    <3>4. Len(d) >= k + 14
      BY <1>4, <2>1, <3>2, <3>3, TypesDiffer DEF Fits
    <3> QED BY <1>2, <3>1, <3>3, <3>4
  <2>2. CASE Type(d) # ETHTYPE_DOT1Q
    <3>1. o.arp = 8
      BY <1>3, <2>2 DEF Header
    <3>2. Fits(d, 7)
      BY <1>2 DEF Framed
    <3>3. PICK k : k = 7
      OBVIOUS
    <3>4. Len(d) >= k + 14
      BY <1>2, <1>4, <2>2, <3>2, <3>3, TypesDiffer DEF Fits
    <3> QED BY <1>2, <3>1, <3>3, <3>4
  <2> QED BY <2>1, <2>2
<1>6. PICK k \in Nat \ {0}, m \in Nat \ {0} : k = o.arp + 4 /\ m = o.arp + 7
  BY <1>5
<1>7. k + 3 - 1 <= Len(d) /\ m + 2 - 1 <= Len(d)
  BY <1>2, <1>5, <1>6
<1>8. Read(d, k, 3) \in Words(3) /\ Read(d, m, 2) \in Words(2)
  BY <1>2, <1>7, ReadWords
<1> QED BY <1>2, <1>6, <1>8 DEF getSrcMac, getSrcIP

(* So does the destination that is read, where the IPv4 header was set.    *)
LEMMA DestinationInside ==
  ASSUME NEW o, Holds(o), isIPv4(o), o.ip # Wild
  PROVE  /\ getDst(o) \in Words(2)
         /\ getDst(o) = Read(o.data, Header(o.data) + (IF Type(o.data) = ETHTYPE_DOT1Q THEN 6 ELSE 8), 2)
<1>1. PICK d : d = o.data
  OBVIOUS
<1>2. d \in Seq(Word) /\ Len(d) \in Nat /\ Framed(d) /\ Eth(o) = d /\ Type(d) = d[7]
  BY <1>1, HoldsFrame, FrameWords
<1>3. o.ul = ETHTYPE_IPV4 /\ o.ul = UlOf(d) /\ o.ip = 8
  BY <1>1 DEF Holds, isIPv4, Object
<1>4. (IF Type(d) = ETHTYPE_DOT1Q THEN d[9] ELSE Type(d)) = ETHTYPE_IPV4
  BY <1>3, KnownTypes
<1>5. Len(d) >= 17
  <2>1. CASE Type(d) = ETHTYPE_DOT1Q
    <3>1. Fits(d, 9)
      BY <1>2, <2>1 DEF Framed
    <3>2. PICK k : k = 9
      OBVIOUS
    <3>3. Len(d) >= k + 10
      BY <1>4, <2>1, <3>1, <3>2, TypesDiffer DEF Fits
    <3> QED BY <1>2, <3>2, <3>3
  <2>2. CASE Type(d) # ETHTYPE_DOT1Q
    <3>1. Fits(d, 7)
      BY <1>2 DEF Framed
    <3>2. PICK k : k = 7
      OBVIOUS
    <3>3. Len(d) >= k + 10
      BY <1>2, <1>4, <2>2, <3>1, <3>2, TypesDiffer DEF Fits
    <3> QED BY <1>2, <3>2, <3>3
  <2> QED BY <2>1, <2>2
<1>6. PICK k \in Nat \ {0} : k = 16
  OBVIOUS
<1>7. k + 2 - 1 <= Len(d)
  BY <1>2, <1>5, <1>6
<1>8. Read(d, k, 2) \in Words(2)
  BY <1>2, <1>7, ReadWords
<1>9. o.ip + 8 = k /\ Header(d) + (IF Type(d) = ETHTYPE_DOT1Q THEN 6 ELSE 8) = k
  BY <1>3, <1>6 DEF Header
<1>10. getDst(o) = Read(d, k, 2)
  BY <1>2, <1>9 DEF getDst
<1> QED BY <1>1, <1>8, <1>9, <1>10

(* An object of l3sw's own, with its ARP frame.                            *)
ArpObject(o, a, b, c, e) ==
  o \in Object /\ o.eth = Own /\ o.type = ETHTYPE_ARP /\ ArpSays(o.data, a, b, c, e)

(* It is given a destination and a source.                                 *)
LEMMA ArpAddressed ==
  ASSUME NEW a, NEW b, NEW c, NEW e, NEW o, ArpObject(o, a, b, c, e), NEW mac \in Words(3)
  PROVE  /\ ArpObject(setDst(o, mac), a, b, c, e)
         /\ Dst(setDst(o, mac).data) = mac /\ Src(setDst(o, mac).data) = Src(o.data)
         /\ ArpObject(setSrc(o, mac), a, b, c, e)
         /\ Dst(setSrc(o, mac).data) = Dst(o.data) /\ Src(setSrc(o, mac).data) = mac
<1>1. PICK d : d = o.data
  OBVIOUS
<1>2. d \in Seq(Word) /\ Len(d) >= 7 /\ Eth(o) = d
  BY <1>1 DEF ArpObject, ArpSays, Words, Eth
<1>3. PICK x, y : x = Put(d, 1, mac) /\ y = Put(d, 4, mac)
  OBVIOUS
<1>4. /\ Renamed(d, x) /\ Dst(x) = mac /\ Src(x) = Src(d)
      /\ Renamed(d, y) /\ Dst(y) = Dst(d) /\ Src(y) = mac
  BY <1>2, <1>3, Addressed
<1>5. ArpSays(d, a, b, c, e)
  BY <1>1 DEF ArpObject
<1>6. ArpSays(x, a, b, c, e) /\ ArpSays(y, a, b, c, e)
  BY <1>4, <1>5, ArpRenamed
<1>7. setDst(o, mac) = [o EXCEPT !.data = x] /\ setSrc(o, mac) = [o EXCEPT !.data = y]
  BY <1>2, <1>3 DEF setDst, setSrc, WriteEth, ArpObject
<1>8. x \in Seq(Word) /\ y \in Seq(Word)
  BY <1>4 DEF Renamed
<1>9. /\ ArpObject([o EXCEPT !.data = x], a, b, c, e) /\ [o EXCEPT !.data = x].data = x
      /\ ArpObject([o EXCEPT !.data = y], a, b, c, e) /\ [o EXCEPT !.data = y].data = y
  BY <1>6, <1>8 DEF ArpObject, Object
<1> QED BY <1>1, <1>4, <1>7, <1>9

(* An interface of layer 3 sends it as it is.                              *)
LEMMA ArpSent ==
  ASSUME NEW a, NEW b, NEW c, NEW e, NEW o, ArpObject(o, a, b, c, e), NEW j \in Netif, iftype[j] = "L3"
  PROVE  /\ Send(j, o, 0).wire = o.data /\ Framed(o.data)
         /\ OnWire(o.data) = [OnWire(o.data) EXCEPT !.tag = 0] /\ OnWire(o.data).body[1] = ETHTYPE_ARP
<1>1. o.data \in Words(21) /\ o.data[7] = ETHTYPE_ARP
  BY DEF ArpObject, ArpSays
<1>2. Sendable(o)
  BY <1>1, TypesDiffer DEF Sendable, ArpObject, Words
<1>3. 0 \in Word
  BY SMT DEF Word
<1>4. Send(j, o, 0).wire = OnLink(j, o, 0)
  BY <1>2, <1>3, Sends
<1>5. OnLink(j, o, 0) = o.data
  BY DEF OnLink
<1>6. /\ Framed(o.data) /\ OnWire(o.data) = [tag |-> 0, body |-> SubSeq(o.data, 7, Len(o.data))]
      /\ OnWire(o.data).body[1] = ETHTYPE_ARP
  BY <1>1, ArpOnWire
<1>7. OnWire(o.data) = [OnWire(o.data) EXCEPT !.tag = 0]
  <2>1. PICK r, b0 : r = OnWire(o.data) /\ b0 = SubSeq(o.data, 7, Len(o.data))
    OBVIOUS
  <2>2. r = [tag |-> 0, body |-> b0]
    BY <1>6, <2>1
  <2>3. r = [r EXCEPT !.tag = 0]
    BY <2>2
  <2> QED BY <2>1, <2>3
<1> QED BY <1>4, <1>5, <1>6, <1>7

-----------------------------------------------------------------------------
(* The inductive invariant *)

Typed ==
  /\ pkt \in Object /\ pkt.eth = Own
  /\ wire \in Seq(Word) /\ received \in Seq(Word)
  /\ at \in Netif \cup {0} /\ up \in BOOLEAN
  /\ lent \subseteq Netif \cup {0}

(* What is on the wire, and what a program may send on, has the shape that *)
(* stations' frames have, and the object's types and ARP header are those  *)
(* of its frame.                                                           *)
Shaped == (wire # NoFrame => Framed(wire)) /\ (at # 0 => Holds(pkt))

IInv == Typed /\ Shaped /\ CallersFrame

(* A frame still is the one received, but for addresses it may have lent.  *)
Kept(d, r, l) ==
  /\ SubSeq(d, 7, Len(d)) = SubSeq(r, 7, Len(r))
  /\ Src(d) \in {Src(r)} \cup {Mac[j] : j \in l \ {0}}
  /\ Dst(d) \in {Dst(r)} \cup {ETH_BROADCAST : j \in l \cap {0}}

(* A host takes a frame: the body and the VLAN are what they were.         *)
LEMMA RecvStep ==
  ASSUME IInv, NEW i \in Netif, NEW f \in Frame \cup ({wire} \ {NoFrame}), recv(i, f)
  PROVE  /\ Typed' /\ Shaped' /\ CallersFrame' /\ Holds(pkt')
         /\ wire' = NoFrame /\ InHost(pkt'.data) = OnWire(f)
<1>1. Framed(f)
  BY NetIfAssumption DEF IInv, Shaped
<1>2. PICK o : o = set(pkt, recvRaw(f))
  OBVIOUS
<1>3. Holds(o) /\ InHost(o.data) = OnWire(f)
  BY <1>1, <1>2, Taken DEF IInv, Typed
<1>4. /\ pkt' = o /\ up' \in BOOLEAN /\ at' \in {0, i} /\ received' = o.data
      /\ lent' = {} /\ wire' = NoFrame
  BY <1>2 DEF recv
<1>5. o.data \in Seq(Word) /\ o \in Object /\ o.eth = Own
  BY <1>3, HoldsFrame DEF Holds
<1>6. NoFrame \in Seq(Word)
  BY DEF NoFrame
<1>7. Typed'
  BY <1>4, <1>5, <1>6 DEF Typed
<1>8. Shaped'
  BY <1>3, <1>4 DEF Shaped
<1>9. CallersFrame'
  BY <1>4 DEF CallersFrame
<1> QED BY <1>3, <1>4, <1>7, <1>8, <1>9

(* What is sent is the frame held, in no VLAN or in that of the interface  *)
(* if it was in none, and the program keeps its frame.                     *)
LEMMA SendStep ==
  ASSUME IInv, NEW j \in Netif, NEW id \in VlanId, send(j, id)
  PROVE  /\ Typed' /\ Shaped' /\ CallersFrame' /\ InHost(pkt'.data) = InHost(pkt.data)
         /\ LET held == InHost(pkt.data)
            IN  \/ OnWire(wire') = held
                \/ OnWire(wire') = [held EXCEPT !.tag = 0]
                \/ held.tag = 0 /\ OnWire(wire') = [held EXCEPT !.tag = id]
         /\ Read(wire', 1, 6) = Read(pkt.data, 1, 6)
<1>1. Holds(pkt) /\ at # 0 /\ Kept(pkt.data, received, lent)
  BY DEF IInv, Shaped, CallersFrame, Kept, send, Ready
<1>2. id \in Word
  BY NetIfAssumption
<1>3. PICK d, e, w : d = pkt.data /\ e = Left(j, pkt.data) /\ w = OnLink(j, pkt, id)
  OBVIOUS
<1>4. /\ Sendable(pkt) /\ d \in Seq(Word) /\ Len(d) >= 7
  BY <1>1, <1>3, HoldsFrame
<1>5. Send(j, pkt, id).wire = w /\ Send(j, pkt, id).kept = [pkt EXCEPT !.data = e]
  BY <1>2, <1>3, <1>4, Sends
<1>6. /\ wire' = w /\ pkt' = [pkt EXCEPT !.data = e]
      /\ lent' = lent \cup Lent(j) /\ at' = at /\ up' = up /\ received' = received
  BY <1>5 DEF send
<1>7. /\ Framed(w)
      /\ LET held == InHost(pkt.data)
         IN  \/ OnWire(w) = held
             \/ OnWire(w) = [held EXCEPT !.tag = 0]
             \/ held.tag = 0 /\ OnWire(w) = [held EXCEPT !.tag = id]
  BY <1>1, <1>2, <1>3, Sent
<1>8. Renamed(d, e) /\ Dst(e) = Dst(d) /\ Src(e) = IF iftype[j] = "L3" THEN Mac[j] ELSE Src(d)
  BY <1>3, <1>4, LeftRenamed
<1>9. /\ Holds([pkt EXCEPT !.data = e]) /\ InHost(e) = InHost(d)
      /\ SubSeq(e, 7, Len(e)) = SubSeq(d, 7, Len(d))
  BY <1>1, <1>3, <1>8, HoldsRenamed
<1>10. pkt'.data = e
  BY <1>6 DEF IInv, Typed, Object
<1>11. Typed'
  <2>1. w \in Seq(Word)
    BY <1>7, FrameWords
  <2>2. Lent(j) \subseteq Netif \cup {0}
    BY DEF Lent
  <2>3. pkt' \in Object /\ pkt'.eth = Own
    BY <1>6, <1>9 DEF Holds
  <2> QED BY <1>6, <2>1, <2>2, <2>3 DEF IInv, Typed
<1>12. Shaped'
  BY <1>6, <1>7, <1>9 DEF Shaped
<1>13. CallersFrame'
  <2>1. SubSeq(e, 7, Len(e)) = SubSeq(received, 7, Len(received))
    BY <1>1, <1>3, <1>9 DEF Kept
  <2>2. Src(e) \in {Src(received)} \cup {Mac[k] : k \in (lent \cup Lent(j)) \ {0}}
    <3>1. CASE iftype[j] = "L3"
      <4>1. j \in (lent \cup Lent(j)) \ {0} /\ Src(e) = Mac[j]
        BY <1>8, <3>1, NetIfAssumption DEF Lent
      <4> QED BY <4>1
    <3>2. CASE iftype[j] # "L3"
      BY <1>1, <1>3, <1>8, <3>2 DEF Kept
    <3> QED BY <3>1, <3>2
  <2>3. Dst(e) \in {Dst(received)} \cup {ETH_BROADCAST : k \in (lent \cup Lent(j)) \cap {0}}
    BY <1>1, <1>3, <1>8 DEF Kept
  <2> QED BY <1>6, <1>10, <2>1, <2>2, <2>3 DEF CallersFrame
<1>14. Read(wire', 1, 6) = Read(pkt.data, 1, 6)
  BY <1>2, <1>3, <1>4, <1>6, LinkAddresses
<1> QED BY <1>3, <1>6, <1>7, <1>9, <1>10, <1>11, <1>12, <1>13, <1>14

(* The same of a frame sent to all stations.                               *)
LEMMA BroadcastStep ==
  ASSUME IInv, NEW j \in Netif, sendBroadcast(j)
  PROVE  /\ Typed' /\ Shaped' /\ CallersFrame' /\ InHost(pkt'.data) = InHost(pkt.data)
         /\ LET held == InHost(pkt.data)
            IN  \/ OnWire(wire') = held
                \/ OnWire(wire') = [held EXCEPT !.tag = 0]
                \/ held.tag = 0 /\ OnWire(wire') = [held EXCEPT !.tag = vlan[j]]
         /\ Read(wire', 1, 6) = Read(pkt.data, 1, 6) /\ Dst(pkt'.data) = ETH_BROADCAST
<1>1. Holds(pkt) /\ at # 0 /\ Kept(pkt.data, received, lent)
  BY DEF IInv, Shaped, CallersFrame, Kept, sendBroadcast, Ready
<1>2. vlan[j] \in Word
  BY NetIfAssumption
<1>3. PICK d, b, e, w : d = pkt.data /\ b = Put(d, 1, ETH_BROADCAST) /\ e = Left(j, b) /\ w = OnLink(j, pkt, vlan[j])
  OBVIOUS
<1>4. /\ Sendable(pkt) /\ d \in Seq(Word) /\ Len(d) >= 7
  BY <1>1, <1>3, HoldsFrame
<1>5. SendBroadcast(j, pkt).wire = w /\ SendBroadcast(j, pkt).kept = [pkt EXCEPT !.data = e]
  BY <1>3, <1>4, Broadcasts
<1>6. /\ wire' = w /\ pkt' = [pkt EXCEPT !.data = e]
      /\ lent' = lent \cup Lent(j) \cup {0} /\ at' = at /\ up' = up /\ received' = received
  BY <1>5 DEF sendBroadcast
<1>7. /\ Framed(w)
      /\ LET held == InHost(pkt.data)
         IN  \/ OnWire(w) = held
             \/ OnWire(w) = [held EXCEPT !.tag = 0]
             \/ held.tag = 0 /\ OnWire(w) = [held EXCEPT !.tag = vlan[j]]
  BY <1>1, <1>2, <1>3, Sent
<1>8. Renamed(d, b) /\ Dst(b) = ETH_BROADCAST /\ Src(b) = Src(d)
  BY <1>3, <1>4, BroadcastWords, Addressed
<1>9. b \in Seq(Word) /\ Len(b) >= 7
  BY <1>4, <1>8 DEF Renamed
<1>10. Renamed(b, e) /\ Dst(e) = Dst(b) /\ Src(e) = IF iftype[j] = "L3" THEN Mac[j] ELSE Src(b)
  BY <1>3, <1>9, LeftRenamed
<1>11. Renamed(d, e)
  BY <1>8, <1>10, RenamedTwice
<1>12. /\ Holds([pkt EXCEPT !.data = e]) /\ InHost(e) = InHost(d)
       /\ SubSeq(e, 7, Len(e)) = SubSeq(d, 7, Len(d))
  BY <1>1, <1>3, <1>11, HoldsRenamed
<1>13. pkt'.data = e
  BY <1>6 DEF IInv, Typed, Object
<1>14. Typed'
  <2>1. w \in Seq(Word)
    BY <1>7, FrameWords
  <2>2. Lent(j) \subseteq Netif \cup {0}
    BY DEF Lent
  <2>3. pkt' \in Object /\ pkt'.eth = Own
    BY <1>6, <1>12 DEF Holds
  <2> QED BY <1>6, <2>1, <2>2, <2>3 DEF IInv, Typed
<1>15. Shaped'
  BY <1>6, <1>7, <1>12 DEF Shaped
<1>16. CallersFrame'
  <2>1. SubSeq(e, 7, Len(e)) = SubSeq(received, 7, Len(received))
    BY <1>1, <1>3, <1>12 DEF Kept
  <2>2. Src(e) \in {Src(received)} \cup {Mac[k] : k \in (lent \cup Lent(j) \cup {0}) \ {0}}
    <3>1. CASE iftype[j] = "L3"
      <4>1. j \in (lent \cup Lent(j) \cup {0}) \ {0} /\ Src(e) = Mac[j]
        BY <1>10, <3>1, NetIfAssumption DEF Lent
      <4> QED BY <4>1
    <3>2. CASE iftype[j] # "L3"
      BY <1>1, <1>3, <1>8, <1>10, <3>2 DEF Kept
    <3> QED BY <3>1, <3>2
  <2>3. Dst(e) \in {Dst(received)} \cup {ETH_BROADCAST : k \in (lent \cup Lent(j) \cup {0}) \cap {0}}
    <3>1. Dst(e) = ETH_BROADCAST
      BY <1>8, <1>10
    <3> QED BY <3>1
  <2> QED BY <1>6, <1>13, <2>1, <2>2, <2>3 DEF CallersFrame
<1>17. Read(wire', 1, 6) = Read(pkt.data, 1, 6)
  BY <1>2, <1>3, <1>4, <1>6, LinkAddresses
<1>18. Dst(pkt'.data) = ETH_BROADCAST
  BY <1>8, <1>10, <1>13
<1> QED BY <1>3, <1>6, <1>7, <1>12, <1>13, <1>14, <1>15, <1>16, <1>17, <1>18

(* A packet that is routed leaves as it came, with new MAC addresses.      *)
LEMMA ForwardStep ==
  ASSUME IInv, NEW j \in Netif, NEW mac \in Station, Forward(j, mac)
  PROVE  /\ Typed' /\ Shaped' /\ CallersFrame' /\ InHost(pkt'.data) = InHost(pkt.data)
         /\ OnWire(wire') = InHost(pkt.data)
<1>1. Holds(pkt) /\ at # 0 /\ iftype[j] = "L3"
  BY DEF IInv, Shaped, Forward, Routing, Ready
<1>2. 0 \in Word
  BY SMT DEF Word
<1>3. Mac[j] \in Words(3) /\ mac \in Words(3)
  BY NetIfAssumption
<1>4. PICK d, b, c : d = pkt.data /\ b = Put(d, 1, mac) /\ c = Put(b, 4, Mac[j])
  OBVIOUS
<1>5. d \in Seq(Word) /\ Len(d) >= 7 /\ Eth(pkt) = d /\ pkt.eth = Own /\ pkt \in Object
  BY <1>1, <1>4, HoldsFrame DEF Holds
<1>6. Renamed(d, b) /\ b \in Seq(Word) /\ Len(b) >= 7
  BY <1>3, <1>4, <1>5, Addressed DEF Renamed
<1>7. Renamed(b, c)
  BY <1>3, <1>4, <1>6, Addressed
<1>8. Renamed(d, c)
  BY <1>6, <1>7, RenamedTwice
<1>9. PICK p, o : p = [pkt EXCEPT !.data = b] /\ o = [pkt EXCEPT !.data = c]
  OBVIOUS
<1>10. setDst(pkt, mac) = p
  BY <1>4, <1>5, <1>9 DEF setDst, WriteEth
<1>11. p.data = b /\ p.eth = Own /\ o = [p EXCEPT !.data = c] /\ o.data = c
  BY <1>5, <1>9 DEF Object
<1>12. setSrc(p, Mac[j]) = o
  BY <1>4, <1>11 DEF setSrc, WriteEth, Eth
<1>13. Holds(o) /\ InHost(c) = InHost(d)
  BY <1>1, <1>4, <1>8, <1>9, HoldsRenamed
<1>14. Sendable(o) /\ c \in Seq(Word) /\ Len(c) >= 7
  BY <1>11, <1>13, HoldsFrame
<1>15. PICK e, w : e = Left(j, c) /\ w = OnLink(j, o, 0)
  OBVIOUS
<1>16. Send(j, o, 0).wire = w /\ Send(j, o, 0).kept = [o EXCEPT !.data = e]
  <2>1. Send(j, o, 0).wire = OnLink(j, o, 0) /\ Send(j, o, 0).kept = [o EXCEPT !.data = Left(j, o.data)]
    BY <1>2, <1>14, Sends
  <2> QED BY <1>11, <1>15, <2>1
<1>17. wire' = w /\ pkt' = [o EXCEPT !.data = e] /\ at' = 0 /\ up' = up /\ received' = received /\ lent' = lent
  BY <1>10, <1>12, <1>16 DEF Forward
<1>18. w = c
  BY <1>1, <1>11, <1>15 DEF OnLink
<1>19. Framed(c) /\ OnWire(c) = InHost(c)
  BY <1>11, <1>13, SentPlain DEF Holds, HeldFrame
<1>20. Renamed(c, e)
  BY <1>14, <1>15, LeftRenamed
<1>21. Holds([o EXCEPT !.data = e]) /\ InHost(e) = InHost(c)
  BY <1>11, <1>13, <1>20, HoldsRenamed
<1>22. pkt'.data = e
  BY <1>13, <1>17 DEF Holds, Object
<1>23. Typed'
  <2>1. pkt' \in Object /\ pkt'.eth = Own
    BY <1>17, <1>21 DEF Holds
  <2> QED BY <1>14, <1>17, <1>18, <2>1 DEF IInv, Typed
<1>24. Shaped' /\ CallersFrame'
  BY <1>17, <1>18, <1>19 DEF Shaped, CallersFrame
<1> QED BY <1>4, <1>13, <1>17, <1>18, <1>19, <1>21, <1>22, <1>23, <1>24

(* An ARP reply says who has the address it was asked for, but leaves from *)
(* the source it was made with.                                            *)
LEMMA ReplyStep ==
  ASSUME IInv, reply_arp
  PROVE  /\ Typed' /\ Shaped' /\ CallersFrame' /\ UNCHANGED pkt
         /\ OnWire(wire') = [OnWire(wire') EXCEPT !.tag = 0] /\ OnWire(wire').body[1] = ETHTYPE_ARP
         /\ Read(wire', 12, 5) = Mac[at] \o IP[at]
         /\ Read(wire', 17, 5) = getSrcMac(pkt) \o getSrcIP(pkt)
         /\ Dst(wire') = getSrcMac(pkt) /\ Src(wire') = Src(PKT_ARP)
<1>1. Holds(pkt) /\ at \in Netif /\ iftype[at] = "L3" /\ isARP(pkt)
  BY DEF IInv, Typed, Shaped, reply_arp, Routing, Ready
<1>2. PICK a, b, c, e : a = Mac[at] /\ b = IP[at] /\ c = getSrcMac(pkt) /\ e = getSrcIP(pkt)
  OBVIOUS
<1>3. a \in Words(3) /\ b \in Words(2) /\ c \in Words(3) /\ e \in Words(2)
  BY <1>1, <1>2, NetIfAssumption, ArpInside
<1>4. PICK o : o = SetARP(set(Blank, PKT_ARP), ARP_REPLY, a, b, c, e)
  OBVIOUS
<1>5. ArpObject(o, a, b, c, e) /\ Src(o.data) = Src(PKT_ARP)
  <2>1. ARP_REPLY \in {ARP_REQUEST, ARP_REPLY}
    OBVIOUS
  <2> QED BY <1>3, <1>4, <2>1, ArpMade DEF ArpObject
<1>6. PICK p : p = setDst(o, c)
  OBVIOUS
<1>7. ArpObject(p, a, b, c, e) /\ Dst(p.data) = c /\ Src(p.data) = Src(PKT_ARP)
  <2>1. /\ ArpObject(setDst(o, c), a, b, c, e)
        /\ Dst(setDst(o, c).data) = c /\ Src(setDst(o, c).data) = Src(o.data)
    BY <1>3, <1>5, ArpAddressed
  <2> QED BY <1>5, <1>6, <2>1
<1>8. /\ Send(at, p, 0).wire = p.data /\ Framed(p.data)
      /\ OnWire(p.data) = [OnWire(p.data) EXCEPT !.tag = 0] /\ OnWire(p.data).body[1] = ETHTYPE_ARP
  BY <1>1, <1>7, ArpSent
<1>9. Made(p, at)
  BY <1>2, <1>4, <1>6 DEF reply_arp
<1>10. wire' = p.data /\ UNCHANGED <<pkt, at, up, received, lent>>
  BY <1>8, <1>9 DEF Made
<1>11. Typed' /\ Shaped'
  <2>1. p.data \in Seq(Word)
    BY <1>8, FrameWords
  <2> QED BY <1>8, <1>10, <2>1 DEF IInv, Typed, Shaped
<1>12. CallersFrame'
  BY <1>10 DEF IInv, CallersFrame
<1>13. Read(p.data, 12, 5) = a \o b /\ Read(p.data, 17, 5) = c \o e
  BY <1>7 DEF ArpObject, ArpSays
<1> QED BY <1>2, <1>7, <1>8, <1>10, <1>11, <1>12, <1>13

(* An ARP request asks for the packet's destination, where the header was  *)
(* set, and it is the interface it leaves from that asks.                  *)
LEMMA RequestStep ==
  ASSUME IInv, NEW j \in Netif, request_arp(j)
  PROVE  /\ Typed' /\ Shaped' /\ CallersFrame' /\ UNCHANGED pkt
         /\ OnWire(wire') = [OnWire(wire') EXCEPT !.tag = 0] /\ OnWire(wire').body[1] = ETHTYPE_ARP
         /\ Read(wire', 12, 5) = Mac[j] \o IP[j] /\ Src(wire') = Mac[j]
         /\ pkt.ip # Wild =>
              Read(wire', 20, 2) =
                Read(pkt.data, Header(pkt.data) + (IF Type(pkt.data) = ETHTYPE_DOT1Q THEN 6 ELSE 8), 2)
<1>1. Holds(pkt) /\ iftype[j] = "L3" /\ isIPv4(pkt)
  BY DEF IInv, Shaped, request_arp, Routing, Ready
<1>2. PICK a, b : a = Mac[j] /\ b = IP[j]
  OBVIOUS
<1>3. a \in Words(3) /\ b \in Words(2)
  BY <1>2, NetIfAssumption
<1> DEFINE c == <<0, 0, 0>>
           all == <<65535, 65535, 65535>>
<1>4. c \in Words(3) /\ all \in Words(3)
  <2>1. 0 \in Word /\ 65535 \in Word
    BY SMT DEF Word
  <2> QED BY <2>1, SMT DEF Words
<1>5. PICK e \in Destination :
        Made(setSrc(setDst(SetARP(set(Blank, PKT_ARP), ARP_REQUEST, a, b, c, e), all), a), j)
  BY <1>2 DEF request_arp
<1> HIDE DEF c, all
<1>6. e \in Words(2) /\ (pkt.ip # Wild => e = getDst(pkt))
  BY <1>1, NetIfAssumption, DestinationInside DEF Destination
<1>7. PICK o : o = SetARP(set(Blank, PKT_ARP), ARP_REQUEST, a, b, c, e)
  OBVIOUS
<1>8. ArpObject(o, a, b, c, e)
  <2>1. ARP_REQUEST \in {ARP_REQUEST, ARP_REPLY}
    OBVIOUS
  <2> QED BY <1>3, <1>4, <1>6, <1>7, <2>1, ArpMade DEF ArpObject
<1>9. PICK p : p = setDst(o, all)
  OBVIOUS
<1>10. ArpObject(p, a, b, c, e)
  BY <1>4, <1>8, <1>9, ArpAddressed
<1>11. PICK q : q = setSrc(p, a)
  OBVIOUS
<1>12. ArpObject(q, a, b, c, e) /\ Src(q.data) = a
  BY <1>3, <1>10, <1>11, ArpAddressed
<1>13. /\ Send(j, q, 0).wire = q.data /\ Framed(q.data)
       /\ OnWire(q.data) = [OnWire(q.data) EXCEPT !.tag = 0] /\ OnWire(q.data).body[1] = ETHTYPE_ARP
  BY <1>1, <1>12, ArpSent
<1>14. wire' = q.data /\ UNCHANGED <<pkt, at, up, received, lent>>
  BY <1>5, <1>7, <1>9, <1>11, <1>13 DEF Made
<1>15. Typed' /\ Shaped'
  <2>1. q.data \in Seq(Word)
    BY <1>13, FrameWords
  <2> QED BY <1>13, <1>14, <2>1 DEF IInv, Typed, Shaped
<1>16. CallersFrame'
  BY <1>14 DEF IInv, CallersFrame
<1>17. Read(q.data, 12, 5) = a \o b /\ Read(q.data, 20, 2) = e
  BY <1>12 DEF ArpObject, ArpSays
<1>18. pkt.ip # Wild =>
         e = Read(pkt.data, Header(pkt.data) + (IF Type(pkt.data) = ETHTYPE_DOT1Q THEN 6 ELSE 8), 2)
  BY <1>1, <1>6, DestinationInside
<1>19. wire' = q.data /\ UNCHANGED pkt
  BY <1>14
<1>20. Read(wire', 12, 5) = Mac[j] \o IP[j] /\ Src(wire') = Mac[j]
  BY <1>2, <1>12, <1>17, <1>19
<1>21. OnWire(wire') = [OnWire(wire') EXCEPT !.tag = 0] /\ OnWire(wire').body[1] = ETHTYPE_ARP
  BY <1>13, <1>19
<1>22. Read(wire', 20, 2) = e
  BY <1>17, <1>19
<1> QED BY <1>15, <1>16, <1>18, <1>19, <1>20, <1>21, <1>22

-----------------------------------------------------------------------------
(* Nothing on the wire is nothing, and so is nothing in a host.            *)
LEMMA NothingThere ==
  OnWire(NoFrame) = [tag |-> 0, body |-> <<>>] /\ InHost(NoFrame) = [tag |-> 0, body |-> <<>>]
<1>1. SubSeq(NoFrame, 7, Len(NoFrame)) = <<>>
  BY DEF NoFrame
<1> QED BY <1>1 DEF OnWire, InHost

(* A frame has a body.                                                     *)
LEMMA BodyThere ==
  ASSUME NEW d, HeldFrame(d)
  PROVE  InHost(d) # [tag |-> 0, body |-> <<>>]
<1>1. /\ d \in Seq(Word) /\ Len(d) \in Nat /\ Len(d) >= 7 /\ Type(d) = d[7]
      /\ d[7] = ETHTYPE_DOT1Q => Len(d) >= 9
  BY FrameWords DEF HeldFrame
<1>2. PICK k \in {7, 9} : InHost(d).body = SubSeq(d, k, Len(d)) /\ k \in 1 .. Len(d) + 1 /\ Len(d) - k + 1 >= 1
  <2>1. CASE d # NoFrame /\ Type(d) = ETHTYPE_DOT1Q
    <3>1. InHost(d).body = SubSeq(d, 9, Len(d))
      BY <2>1 DEF InHost
    <3> QED BY <1>1, <2>1, <3>1
  <2>2. CASE ~ (d # NoFrame /\ Type(d) = ETHTYPE_DOT1Q)
    <3>1. InHost(d).body = SubSeq(d, 7, Len(d))
      BY <2>2 DEF InHost
    <3> QED BY <1>1, <3>1
  <2> QED BY <2>1, <2>2
<1>3. Len(InHost(d).body) >= 1
  BY <1>1, <1>2, RestWords
<1> QED BY <1>3

(* The program's steps, one by one.                                        *)
LEMMA Steps ==
  ASSUME IInv, [Next]_vars
  PROVE  Typed' /\ Shaped' /\ CallersFrame'
<1>1. CASE \E i \in Netif, frame \in Frame \cup ({wire} \ {NoFrame}) : recv(i, frame)
  BY <1>1, RecvStep
<1>2. CASE \E j \in Netif, id \in VlanId : send(j, id)
  BY <1>2, SendStep
<1>3. CASE \E j \in Netif : sendBroadcast(j)
  BY <1>3, BroadcastStep
<1>4. CASE reply_arp
  BY <1>4, ReplyStep
<1>5. CASE \E j \in Netif : request_arp(j)
  BY <1>5, RequestStep
<1>6. CASE StrayRead
  BY <1>6 DEF StrayRead, IInv, Typed, Shaped, CallersFrame
<1>7. CASE \E j \in Netif, mac \in Station : Forward(j, mac)
  BY <1>7, ForwardStep
<1>8. CASE UNCHANGED vars
  BY <1>8 DEF vars, IInv, Typed, Shaped, CallersFrame
<1> QED BY <1>1, <1>2, <1>3, <1>4, <1>5, <1>6, <1>7, <1>8 DEF Next

(* It begins with no frame.                                                *)
LEMMA Begins == Init => IInv
<1> SUFFICES ASSUME Init PROVE IInv
  OBVIOUS
<1>1. Own \in Seq(Word)
  BY DEF Own
<1>2. Blank \in Object /\ Blank.eth = Own
  BY <1>1 DEF Blank, Object, Own
<1>3. NoFrame \in Seq(Word)
  BY DEF NoFrame
<1> QED BY <1>2, <1>3 DEF Init, IInv, Typed, Shaped, CallersFrame

(* Whatever frames arrive, and whatever the programs do with them: what is *)
(* on the wire can be parsed, and the object is set for what it holds.     *)
THEOREM Invariant == Spec => []IInv
<1>1. IInv /\ [Next]_vars => IInv'
  BY Steps DEF IInv
<1> QED BY <1>1, Begins, PTL DEF Spec

(* Every variable keeps its shape.                                         *)
THEOREM TypeCorrect == Spec => []TypeOK
<1>1. IInv => TypeOK
  <2> SUFFICES ASSUME IInv PROVE TypeOK
    OBVIOUS
  <2>1. /\ pkt.data \in Seq(Word) /\ pkt.arp \in {NoARP, 8, 10} /\ pkt.ip \in {Wild, 8}
        /\ pkt.type \in {ETHTYPE_ARP, ETHTYPE_IPV4, ETHTYPE_DOT1Q, ETHTYPE_UNKNOWN}
        /\ pkt.ul \in {ETHTYPE_ARP, ETHTYPE_IPV4, ETHTYPE_UNKNOWN}
    BY DEF IInv, Typed, Object
  <2> QED BY <2>1 DEF IInv, Typed, TypeOK
<1> QED BY <1>1, Invariant, PTL

(* A caller's frame changes by nothing but the addresses it lends to       *)
(* send() and sendBroadcast() (NetIf.cpp:166).                             *)
THEOREM FramesKept == Spec => []CallersFrame
<1>1. IInv => CallersFrame
  BY DEF IInv
<1> QED BY <1>1, Invariant, PTL

(* arp() returns the header of the frame that is held, with a tag or       *)
(* without one.                                                            *)
THEOREM HeadersFound == Spec => []ArpFound
<1>1. IInv => ArpFound
  BY DEF IInv, Shaped, Holds, ArpFound
<1> QED BY <1>1, Invariant, PTL

(* An ARP request asks for the destination of a frame without a tag, and   *)
(* for the source of one with a tag (Ethernet.cpp:51).                     *)
THEOREM Asks == Spec => AsksDestination
<1>1. IInv /\ [Next]_vars =>
        [\A j \in Netif : request_arp(j) /\ pkt.ip # Wild =>
           Read(wire', 20, 2) = Read(pkt.data, Header(pkt.data) +
                                     (IF Type(pkt.data) = ETHTYPE_DOT1Q THEN 6 ELSE 8), 2)]_vars
  BY RequestStep
<1> QED BY <1>1, Invariant, PTL DEF Spec, AsksDestination

(* A frame that is sent, to one or to all, leaves with the addresses that  *)
(* it had before the call; l3sw's ARP frames say who has the address of    *)
(* the interface they leave from (NetIf.cpp:166, 171, l3sw.cpp:99, 111).   *)
THEOREM AddressesAsBefore == Spec => AddressesSent
<1>1. IInv /\ [Next]_vars =>
        [/\ \A j \in Netif : sendBroadcast(j) =>
              Read(wire', 1, 6) = Read(pkt.data, 1, 6) /\ Dst(pkt'.data) = ETH_BROADCAST
         /\ \A j \in Netif, id \in VlanId : send(j, id) => Read(wire', 1, 6) = Read(pkt.data, 1, 6)
         /\ reply_arp => /\ Read(wire', 12, 5) = Mac[at] \o IP[at]
                         /\ Read(wire', 17, 5) = getSrcMac(pkt) \o getSrcIP(pkt)
                         /\ Dst(wire') = getSrcMac(pkt) /\ Src(wire') = Src(PKT_ARP)
         /\ \A j \in Netif : request_arp(j) =>
              Read(wire', 12, 5) = Mac[j] \o IP[j] /\ Src(wire') = Mac[j]]_vars
  BY SendStep, BroadcastStep, ReplyStep, RequestStep
<1> QED BY <1>1, Invariant, PTL DEF Spec, AddressesSent

-----------------------------------------------------------------------------
(* Every step is a step of the link, or none of its steps.                 *)
LEMMA LinkSteps ==
  ASSUME IInv, [Next]_vars
  PROVE  [Link!Next]_<<OnWire(wire), InHost(pkt.data)>>
<1> DEFINE held == InHost(pkt.data)
<1>1. ASSUME NEW id \in Vlan, InHost(pkt'.data) = held,
             \/ OnWire(wire') = held
             \/ OnWire(wire') = [held EXCEPT !.tag = 0]
             \/ held.tag = 0 /\ OnWire(wire') = [held EXCEPT !.tag = id]
      PROVE  Link!Trunk \/ Link!Access \/ Link!Plain
  <2>1. CASE OnWire(wire') = held
    BY <1>1, <2>1 DEF Link!Plain, Link!Hop
  <2>2. CASE OnWire(wire') = [held EXCEPT !.tag = 0]
    BY <1>1, <2>2 DEF Link!Access, Link!Hop
  <2>3. CASE held.tag = 0 /\ OnWire(wire') = [held EXCEPT !.tag = id]
    <3>1. [held EXCEPT !.tag = IF @ = 0 THEN id ELSE @] = [held EXCEPT !.tag = id]
      BY <2>3
    <3> QED BY <1>1, <2>3, <3>1 DEF Link!Trunk, Link!Hop
  <2> QED BY <1>1, <2>1, <2>2, <2>3
<1>2. ASSUME NEW i \in Netif, NEW f \in Frame \cup ({wire} \ {NoFrame}), recv(i, f)
      PROVE  Link!Take
  <2>1. Holds(pkt') /\ wire' = NoFrame /\ InHost(pkt'.data) = OnWire(f)
    BY <1>2, RecvStep
  <2>2. OnWire(f) # Link!Nothing
    BY <2>1, BodyThere DEF Holds, Link!Nothing
  <2>3. OnWire(wire') = Link!Nothing
    BY <2>1, NothingThere DEF Link!Nothing
  <2>4. OnWire(f) \in Entering \cup ({OnWire(wire)} \ {Link!Nothing})
    BY <2>2 DEF Entering
  <2> QED BY <2>1, <2>3, <2>4 DEF Link!Take
<1>3. ASSUME NEW j \in Netif, NEW id \in VlanId, send(j, id)
      PROVE  Link!Trunk \/ Link!Access \/ Link!Plain
  <2>1. id \in Vlan
    BY DEF Vlan
  <2> QED BY <1>1, <1>3, <2>1, SendStep
<1>4. ASSUME NEW j \in Netif, sendBroadcast(j)
      PROVE  Link!Trunk \/ Link!Access \/ Link!Plain
  <2>1. vlan[j] \in Vlan
    BY DEF Vlan
  <2> QED BY <1>1, <1>4, <2>1, BroadcastStep
<1>5. ASSUME NEW j \in Netif, NEW mac \in Station, Forward(j, mac)
      PROVE  Link!Plain
  BY <1>5, ForwardStep DEF Link!Plain, Link!Hop
<1>6. ASSUME UNCHANGED pkt, OnWire(wire') = [OnWire(wire') EXCEPT !.tag = 0],
             OnWire(wire').body[1] = ETHTYPE_ARP
      PROVE  Link!Originate
  BY <1>6 DEF Link!Originate, Link!Hop
<1>7. ASSUME reply_arp
      PROVE  Link!Originate
  BY <1>6, <1>7, ReplyStep
<1>8. ASSUME NEW j \in Netif, request_arp(j)
      PROVE  Link!Originate
  BY <1>6, <1>8, RequestStep
<1>9. CASE StrayRead \/ UNCHANGED vars
  BY <1>9 DEF StrayRead, vars
<1>10. CASE Next /\ ~ StrayRead
  BY <1>10, <1>2, <1>3, <1>4, <1>5, <1>7, <1>8 DEF Next, Link!Next
<1> QED BY <1>9, <1>10

(* Frames keep their body over any number of hosts, and their VLAN from    *)
(* the trunk that tags them to the access interface that takes the tag off.*)
THEOREM LinkImplemented == Spec => ImplementsLink
<1>1. Init => Link!Init
  BY NothingThere DEF Init, Link!Init, Link!Nothing, Blank, NoFrame
<1>2. IInv /\ [Next]_vars => [Link!Next]_<<OnWire(wire), InHost(pkt.data)>>
  BY LinkSteps
<1> QED BY <1>1, <1>2, Invariant, PTL DEF Spec, ImplementsLink, Link!Spec
=============================================================================
