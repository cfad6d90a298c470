----------------------------- MODULE MCLibrary -----------------------------
(* The library classes, one in use at a time: arrays, address objects, a   *)
(* checksum, and texts of IP and bytes of MAC addresses, written one       *)
(* character and one byte after the other.                                 *)
EXTENDS Array, IPAddress, Checksum

CONSTANTS Character,   \* bounds: what texts are written with, and how long
          MaxText,
          Byte

ASSUME TextAssumption == Character \subseteq Char /\ Byte \subseteq 0 .. 255

VARIABLES inUse, text, bytes

Init ==
  /\ ArrayInit /\ IPInit /\ ChecksumInit
  /\ text = <<>> /\ bytes = <<>>
  /\ inUse \in {"array", "address", "checksum", "text", "mac"}

WriteText == \E c \in Character : Len(text) < MaxText /\ text' = Append(text, c)
WriteByte == \E b \in Byte : Len(bytes) < 6 /\ bytes' = Append(bytes, b)

Next ==
  /\ UNCHANGED inUse
  /\ \/ inUse = "array"    /\ ArrayNext    /\ UNCHANGED <<ivars, cvars, text, bytes>>
     \/ inUse = "address"  /\ IPNext       /\ UNCHANGED <<avars, cvars, text, bytes>>
     \/ inUse = "checksum" /\ ChecksumNext /\ UNCHANGED <<avars, ivars, text, bytes>>
     \/ inUse = "text"     /\ WriteText    /\ UNCHANGED <<avars, ivars, cvars, bytes>>
     \/ inUse = "mac"      /\ WriteByte    /\ UNCHANGED <<avars, ivars, cvars, text>>

Spec == Init /\ [][Next]_<<avars, ivars, cvars, inUse, text, bytes>>

(* An IP address in text is read as it should be, by whoever reads it, and *)
(* hardly anything else is: ReadsAddress says what.                        *)
AcceptsAddresses == text # <<>> => ReadsAddress(text)

(* What is read as an IP address is digits and dots: "anything but digits  *)
(* and dots is an error" (IPAddress.cpp:145).                              *)
DigitsAndDots ==
  text # <<>> /\ iptoui(text) # Bad => \A p \in DOMAIN text : text[p] \in Digit \cup {Dot}

(* A MAC address comes back out of its text, whoever reads it.             *)
MacTextsRead == Len(bytes) = 6 => ReadsMac(bytes)

(* The data of a TCP segment: none, twenty bytes of zeros or of others, two *)
(* bytes that make up for what 20 bytes of header lack, and an odd number.  *)
Payloads == {NoData, [bytes |-> 20, total |-> 0], [bytes |-> 20, total |-> 131070],
             [bytes |-> 20, total |-> 4660], [bytes |-> 2, total |-> 18], [bytes |-> 7, total |-> 99]}

(* 10.0.0.0/8, and the same with a bit outside the netmask.                *)
Numbers == {<<10, 2, 0, 1>>, <<255, 255, 255, 192>>, <<255, 0, 128, 0>>}
Ten     == <<1, 0, Dot, 0, Dot, 0, Dot, 0>>
Lengths == {-1, 8, 32, 33}
Texts   == {Ten, Ten \o <<Slash, 8>>, Ten \o <<Slash, 0, 8>>, Ten \o <<Slash, 6>>, Ten \o <<Slash, 3, 3>>,
            <<2, 5, 5, Dot, 2, 5, 6, Dot, 0, Dot, 0>>}
=============================================================================
