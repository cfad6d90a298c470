---------------------------- MODULE AddressText ----------------------------
(***************************************************************************)
(* Addresses and their text: IPAddress.cpp, MacAddress.cpp and comlib.cpp  *)
(* of the forwarder, calcaddr.c of L2SW.  A text is a sequence of          *)
(* characters, a hexadecimal digit being its value.                        *)
(***************************************************************************)
EXTENDS Integers, FiniteSets, SequencesExt

Dot   == 16
Slash == 17
Minus == 18
Colon == 19
Digit == 0 .. 9
Hex   == 0 .. 15
Char  == 0 .. 19

-----------------------------------------------------------------------------
(* IP addresses are four octets.                                           *)
Bad == <<>>   \* an exception instead of an address

(* The number that digits make, one after the other.                       *)
Value(digits) ==
  LET value[n \in 0 .. Len(digits)] == IF n = 0 THEN 0 ELSE 10 * value[n - 1] + digits[n]
  IN  value[Len(digits)]

(* atoi() of the text from p on: a sign, and the digits that follow.  Up   *)
(* to nine of them fit into an int; the code does not look for more.       *)
atoi(text, p) ==
  LET sign   == p \in DOMAIN text /\ text[p] = Minus
      first  == IF sign THEN p + 1 ELSE p
      digits == {q \in first .. Len(text) : \A r \in first .. q : text[r] \in Digit}
      value  == Value(SubSeq(text, first, first + Cardinality(digits) - 1))
  IN  IF sign THEN -value ELSE value

(* mutant: a number has another digit only above 10 and 100 *)
uitoaAbove(n) == (IF n > 100 THEN <<n \div 100>> ELSE <<>>) \o
                 (IF n > 10 THEN <<(n \div 10) % 10>> ELSE <<>>) \o <<n % 10>>

(* The digits of a number below 1000: comlib's ndigit() and uitoa().       *)
uitoa(n) == (IF n >= 100 THEN <<n \div 100>> ELSE <<>>) \o
            (IF n >= 10 THEN <<(n \div 10) % 10>> ELSE <<>>) \o <<n % 10>>

Join(a, b) == a \o <<Dot>> \o b
uitoip(addr) == Join(Join(uitoa(addr[1]), uitoa(addr[2])), Join(uitoa(addr[3]), uitoa(addr[4])))

(* Octets begin at the first character, and behind every dot.              *)
Starts(text) == {p \in DOMAIN text : p = 1 \/ text[p - 1] = Dot}
Octets(text) ==
  [k \in 1 .. Cardinality(Starts(text)) |->
     atoi(text, CHOOSE p \in Starts(text) : Cardinality({q \in Starts(text) : q <= p}) = k)]

(* mutant: the number of octets is not looked at *)
iptouiAny(text) ==
  LET octets == Octets(text)
  IN  IF \/ \E p \in 2 .. Len(text) : text[p] \notin Digit \cup {Dot}
         \/ \E k \in DOMAIN octets : octets[k] \notin 0 .. 255
      THEN Bad
      ELSE [k \in 1 .. 4 |-> IF k + Len(octets) > 4 THEN octets[Len(octets) - 4 + k] ELSE 0]

(* Only the first character may be anything.  The octets are counted in    *)
(* eight bits, and the last four make the address.                         *)
iptoui(text) ==
  LET octets == Octets(text)
  IN  IF \/ \E p \in 2 .. Len(text) : text[p] \notin Digit \cup {Dot}
         \/ \E k \in DOMAIN octets : octets[k] \notin 0 .. 255
         \/ Len(octets) % 256 # 4
      THEN Bad
      ELSE [k \in 1 .. 4 |-> octets[Len(octets) - 4 + k]]

(* iptoi() of calcaddr.c, for digits and dots: up to four octets are read, *)
(* and none is checked.                                                    *)
iptoi(text) ==
  [k \in 1 .. 4 |-> IF k \in DOMAIN Octets(text) THEN Octets(text)[k] ELSE 0]

-----------------------------------------------------------------------------
(* MAC addresses are sixteen hexadecimal digits, as many as 64 bits hold,  *)
(* the last being number 0.                                                *)
mactol_bin(bytes) ==
  [j \in Hex |-> IF j > 11 THEN 0
                 ELSE (bytes[6 - j \div 2] \div (IF j % 2 = 0 THEN 1 ELSE 16)) % 16]

ltomac(addr) ==
  [p \in 1 .. 17 |-> IF p % 3 = 0 THEN Colon ELSE addr[12 - 2 * (p \div 3) - (p % 3)]]

(* The number made of the digits in text, the one at p being number at[p]. *)
Placed(text, at) ==
  [j \in Hex |-> IF \E p \in DOMAIN at : at[p] = j
                 THEN text[CHOOSE p \in DOMAIN at : at[p] = j] ELSE 0]

(* mactol() skips colons, and counts down from the first of twelve digits. *)
mactol(text) ==
  LET digits == {p \in DOMAIN text : text[p] \in Hex}
  IN  Placed(text, [p \in digits |-> 11 - Cardinality({q \in 1 .. p - 1 : text[q] # Colon})])

(* mutant: the last character is counted, too *)
MacAddressLong(text) ==
  LET digits == {p \in DOMAIN text : text[p] \in Hex}
      hex    == Cardinality({p \in 1 .. Len(text) : text[p] \notin {Colon, Minus, Dot}})
  IN  Placed(text, [p \in digits |-> hex - Cardinality({q \in digits : q < p})])

(* MacAddress counts the digits first, all but the last character, and     *)
(* then counts down by the digits it finds.                                *)
MacAddress(text) ==
  LET digits == {p \in DOMAIN text : text[p] \in Hex}
      hex    == Cardinality({p \in 1 .. Len(text) - 1 : text[p] \notin {Colon, Minus, Dot}})
  IN  Placed(text, [p \in digits |-> hex - Cardinality({q \in digits : q < p})])

-----------------------------------------------------------------------------
(* Properties of a text *)

(* Four numbers with dots between them are read as these numbers, by       *)
(* iptoui() and by the older iptoi() (L2SW/src/calcaddr.c:3) alike.  What  *)
(* else iptoui() reads, although it is no address, of the texts that begin *)
(* with a digit or a dot: an empty octet, a dot at the end, zeros before   *)
(* an octet, more octets than eight bits count, more digits than fit into  *)
(* an int.                                                                 *)
OctetText     == {uitoa(n) : n \in 0 .. 255}
Address(text) ==
  LET dots == {p \in DOMAIN text : text[p] = Dot}
  IN  \E i, j, k \in dots :
        /\ i < j /\ j < k
        /\ {SubSeq(text, 1, i - 1), SubSeq(text, i + 1, j - 1),
            SubSeq(text, j + 1, k - 1), SubSeq(text, k + 1, Len(text))} \subseteq OctetText

Mistaken(text) ==
  \/ text[1] = Dot \/ Last(text) = Dot
  \/ \E p \in 1 .. Len(text) - 1 : text[p] = Dot /\ text[p + 1] = Dot
  \/ \E p \in Starts(text) : p < Len(text) /\ text[p] = 0 /\ text[p + 1] \in Digit
  \/ Cardinality(Starts(text)) > 255
  \/ \E p \in 1 .. Len(text) - 9 : \A q \in p .. p + 9 : text[q] \in Digit

ReadsAddress(text) ==
  /\ Address(text) => iptoui(text) = iptoi(text) /\ uitoip(iptoui(text)) = text
  /\ iptoui(text) # Bad /\ text[1] \in Digit \cup {Dot} => Address(text) \/ Mistaken(text)

(* The MAC address of a frame comes back out of its text: l2sw keeps it in *)
(* its table by the text, the forwarder reads it with other separators or  *)
(* none (l2sw.c:196, mac_table.c:12).                                      *)
Separated(text, c) == [p \in DOMAIN text |-> IF text[p] = Colon THEN c ELSE text[p]]
Plain(addr)        == [p \in 1 .. 12 |-> addr[12 - p]]

ReadsMac(bytes) ==
  LET addr == mactol_bin(bytes)
  IN  /\ mactol(ltomac(addr)) = addr
      /\ \A c \in {Colon, Minus, Dot} : MacAddress(Separated(ltomac(addr), c)) = addr
      /\ mactol(Plain(addr)) = addr /\ MacAddress(Plain(addr)) = addr
=============================================================================
