------------------------------ MODULE Checksum ------------------------------
(***************************************************************************)
(* L2SW/src/checksum.c and IPv4::calcHeaderChecksum(): the sum over the    *)
(* words of an IP header, or of a TCP header behind a pseudo header, with  *)
(* the checksum field left out.  The words are read one after the other.   *)
(***************************************************************************)
EXTENDS Integers

CONSTANTS Word,          \* the words that headers hold
          HeaderLength,  \* the lengths of headers, in 32-bit words
          Data           \* what follows a TCP header: its length in bytes and
                         \* the sum of its words

AllOnes == 65535   \* 0xFFFF

NoData == [bytes |-> 0, total |-> 0]

ASSUME ChecksumAssumption == /\ Word \subseteq 0 .. AllOnes /\ HeaderLength \subseteq 5 .. 15
                             /\ Data \subseteq [bytes : Nat, total : Nat]

VARIABLES proto,   \* "IP", "TCP", or "none" before there is a header
          words,   \* how many words are to be summed up
          i,       \* how many have been
          data,    \* of the TCP segment
          sum,
          field,   \* the checksum, -1 until it is known
          total    \* history: what a receiver sums up, up to the data, carries kept

cvars == <<proto, words, i, data, sum, field, total>>

ChecksumInit == /\ proto = "none" /\ words = 0 /\ i = 0 /\ data = NoData
                /\ sum = 0 /\ field = -1 /\ total = 0

-----------------------------------------------------------------------------
(* The TCP header stands behind the six words of the pseudo header.        *)
Start(p, length, d) ==
  /\ proto = "none"
  /\ proto' = p
  /\ data' = d
  /\ words' = 2 * length + (IF p = "TCP" THEN 6 ELSE 0)
  /\ i' = 0 /\ sum' = 0 /\ field' = -1 /\ total' = 0

(* mutant: the carry is dropped *)
FoldedDrop(s) == IF s \div (AllOnes + 1) = 1 THEN s - (AllOnes + 1) ELSE s
Folded(s)     == IF s \div (AllOnes + 1) = 1 THEN s - (AllOnes + 1) + 1 ELSE s

SegmentLength == 2 * (words - 6) + data.bytes

Add(w, r) ==
  /\ i < words
  /\ sum' = Folded(sum + w)
  /\ total' = total + r
  /\ i' = i + 1
  /\ UNCHANGED <<proto, words, data, field>>

Skip ==
  /\ i < words /\ i' = i + 1
  /\ UNCHANGED <<proto, words, data, sum, field, total>>

(* mutant: the field itself is summed up *)
AddHeaderAll ==
  /\ proto = "IP"
  /\ \E w \in Word : Add(w, IF i = 5 THEN 0 ELSE w)

AddHeader ==
  /\ proto = "IP"
  /\ IF i = 5 THEN Skip ELSE \E w \in Word : Add(w, w)

(* Of the pseudo header the length is always 40, whatever that of the      *)
(* segment; and the loop ends with the header, data is never summed up.    *)
AddTcp ==
  /\ proto = "TCP"
  /\ CASE i = 4  -> Add(6, 6)
       [] i = 5  -> Add(40, SegmentLength)
       [] i = 14 -> Skip
       [] OTHER  -> \E w \in Word : Add(w, w)

Finish ==
  /\ proto # "none" /\ i = words /\ field = -1
  /\ field' = AllOnes - sum
  /\ UNCHANGED <<proto, words, i, data, sum, total>>

Again == field # -1 /\ proto' = "none" /\ UNCHANGED <<words, i, data, sum, field, total>>

ChecksumNext ==
  \/ \E length \in HeaderLength : \/ Start("IP", length, NoData)
                                 \/ \E d \in Data : Start("TCP", length, d)
  \/ AddHeader \/ AddTcp
  \/ Finish \/ Again

ChecksumSpec == ChecksumInit /\ [][ChecksumNext]_cvars

-----------------------------------------------------------------------------
(* Properties *)

(* The sum stays in 16 bits, so folding the carry back once is enough, and *)
(* it is the one's complement sum of what was read.                        *)
OnesSum(n) == IF n = 0 THEN 0 ELSE ((n - 1) % AllOnes) + 1

SumRight ==
  /\ sum \in 0 .. AllOnes
  /\ proto = "IP" => sum = OnesSum(total)

(* A receiver that sums up an IP header with its checksum gets 0xFFFF.  Of *)
(* a TCP segment it does only if the segment's length and its data make up *)
(* for the constant 40 and the data left out (checksum.c:55, 83): of those *)
(* without data only if they have 40 bytes.                                *)
Received == total + data.total + field

Verifies ==
  field # -1 /\ proto # "none" =>
    (OnesSum(Received) = AllOnes
       <=> proto = "IP" \/ (SegmentLength + data.total) % AllOnes = 40)
=============================================================================
