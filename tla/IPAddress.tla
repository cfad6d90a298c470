----------------------------- MODULE IPAddress -----------------------------
(***************************************************************************)
(* forwarder/src/IPAddress.cpp: an IPAddress, an IPNetmask and IPNetworks  *)
(* that are set from numbers, from text, from lengths and from each other. *)
(* A call that throws is told by failed.                                   *)
(***************************************************************************)
EXTENDS AddressText

CONSTANTS Number,       \* the addresses calls are given
          Text,         \* the texts
          Length,       \* the netmask lengths
          NetworkName

ASSUME AddressAssumption == Number \subseteq [1 .. 4 -> 0 .. 255] /\ Text \subseteq Seq(Char)

VARIABLES addr, mask, nets,
          failed

ivars == <<addr, mask, nets, failed>>

Zero == <<0, 0, 0, 0>>

IPInit ==
  /\ addr = Zero
  /\ mask = [addr |-> Zero, length |-> 0]
  /\ nets = [x \in NetworkName |-> [netaddr |-> Zero, netmask |-> [addr |-> Zero, length |-> 0]]]
  /\ failed = FALSE

-----------------------------------------------------------------------------
(* Bits are counted from the highest, in octets as in an address.          *)
Weight    == <<128, 64, 32, 16, 8, 4, 2, 1>>
Bit(a, i) == (a[(i + 7) \div 8] \div Weight[1 + ((i - 1) % 8)]) % 2

(* mutant: a 1 after a 0 is not looked for *)
validIPNetmaskAny(m) == TRUE

(* No 1 comes after a 0; the length counts the 1s before the first 0.      *)
validIPNetmask(m) == \A i \in 1 .. 31 : Bit(m, i) = 0 => Bit(m, i + 1) = 0
LeadingOnes(m)    == Cardinality({i \in 1 .. 32 : \A j \in 1 .. i : Bit(m, j) = 1})

(* setLength(): the bits from the highest down, as octets.                 *)
Mask(length) ==
  [k \in 1 .. 4 |-> IF length >= 8 * k THEN 255
                    ELSE IF length <= 8 * k - 8 THEN 0
                    ELSE 256 - Weight[length - 8 * k + 8]]

Netmask(m) == [addr |-> m, length |-> LeadingOnes(m)]

(* An octet of a netmask is a power of two less than 256: the bits of an   *)
(* address outside it are the remainder.                                   *)
Outside(a, m) == [k \in 1 .. 4 |-> a[k] % (256 - m[k])]
Within(a, m)  == Outside(a, m) = Zero

Network(a, length) == [netaddr |-> a, netmask |-> Netmask(Mask(length))]

validIPNetwork(a, length) == length \in 0 .. 32 /\ Within(a, Mask(length))

(* An address, a slash and a length without leading zeros.  A length that  *)
(* is a single other character is read as 0.                               *)
NetworkOf(text) ==
  LET slashes == {p \in DOMAIN text : text[p] = Slash}
      slash   == CHOOSE p \in slashes : \A q \in slashes : p <= q
      a       == iptoui(SubSeq(text, 1, slash - 1))
      plen    == atoi(text, slash + 1)
  IN  IF slashes # {} /\ a # Bad /\ plen \in 0 .. 32
      THEN IF Len(text) - slash = Len(uitoa(plen)) /\ validIPNetwork(a, plen)
           THEN Network(a, plen) ELSE Bad
      ELSE Bad

toStr(n) == uitoip(n.netaddr) \o <<Slash>> \o uitoa(n.netmask.length)

-----------------------------------------------------------------------------
(* IPAddress: a text that is none sets the address to 0, and throws.       *)
SetAddress(a) == addr' = a /\ failed' = FALSE /\ UNCHANGED <<mask, nets>>

SetAddressText(text) ==
  LET a == iptoui(text)
  IN  /\ addr' = IF a = Bad THEN Zero ELSE a
      /\ failed' = (a = Bad)
      /\ UNCHANGED <<mask, nets>>

CopyAddress == \E x \in NetworkName : SetAddress(nets[x].netaddr)

(* IPNetmask: nothing is set when it throws.                               *)
SetMask(m) ==
  /\ failed' = ~validIPNetmask(m)
  /\ mask' = IF failed' THEN mask ELSE Netmask(m)
  /\ UNCHANGED <<addr, nets>>

Fail == failed' = TRUE /\ UNCHANGED <<addr, mask, nets>>

SetMaskText(text) == LET a == iptoui(text) IN IF a = Bad THEN Fail ELSE SetMask(a)

setLength(length) == IF length \in 0 .. 32 THEN SetMask(Mask(length)) ELSE Fail

(* IPNetwork: nothing is set when it throws.                               *)
SetNetwork(x, network) ==
  IF network = Bad THEN Fail
  ELSE /\ nets' = [nets EXCEPT ![x] = network]
       /\ failed' = FALSE
       /\ UNCHANGED <<addr, mask>>

SetNetworkText(x, text) == SetNetwork(x, NetworkOf(text))

SetNetworkLength(x, length) ==
  SetNetwork(x, IF validIPNetwork(addr, length) THEN Network(addr, length) ELSE Bad)

(* l3sw.cpp:68: the network of an address and its netmask.                 *)
OwnNetwork(x) ==
  LET a == [k \in 1 .. 4 |-> addr[k] - Outside(addr, mask.addr)[k]]
  IN  SetNetwork(x, IF validIPNetwork(a, mask.length) THEN Network(a, mask.length) ELSE Bad)

CopyNetwork(x, y) ==
  SetNetwork(x, [netaddr |-> nets[y].netaddr, netmask |-> Netmask(nets[y].netmask.addr)])

IPNext ==
  \/ \E a \in Number : SetAddress(a) \/ SetMask(a)
  \/ \E text \in Text : SetAddressText(text) \/ SetMaskText(text)
  \/ CopyAddress
  \/ \E length \in Length : setLength(length)
  \/ \E x \in NetworkName :
       \/ \E text \in Text : SetNetworkText(x, text)
       \/ \E length \in Length : SetNetworkLength(x, length)
       \/ OwnNetwork(x)
       \/ \E y \in NetworkName \ {x} : CopyNetwork(x, y)

IPSpec == IPInit /\ [][IPNext]_ivars

-----------------------------------------------------------------------------
(* Properties *)

(* After any calls, failed ones among them, every netmask is the one of    *)
(* its length, and no network has a bit outside its netmask.               *)
Masks == {mask} \cup {nets[x].netmask : x \in NetworkName}

MasksFit ==
  /\ \A m \in Masks : m.addr = Mask(m.length)
  /\ \A x \in NetworkName : Within(nets[x].netaddr, nets[x].netmask.addr)

(* What toStr() returns can be read back, to the same address or network.  *)
TextsReadBack ==
  /\ iptoui(uitoip(addr)) = addr
  /\ \A x \in NetworkName : NetworkOf(toStr(nets[x])) = nets[x]
=============================================================================
