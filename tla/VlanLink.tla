------------------------------ MODULE VlanLink ------------------------------
(***************************************************************************)
(* What tagging promises: a frame keeps its body on its way through any    *)
(* number of hosts, and its VLAN from the trunk that puts it into one to   *)
(* the access interface that takes it out.  A frame is here the tag of     *)
(* the VLAN it is in, 0 when it is in none, and its body, which begins     *)
(* with its type.                                                          *)
(***************************************************************************)
EXTENDS Integers

CONSTANTS Entering,  \* the frames stations send
          OwnType,   \* the type of frames hosts send of their own
          Vlan       \* the VLANs hosts put frames into

VARIABLES wire,   \* the frame sent last, until a host takes one
          held    \* the frame in a host

Nothing == [tag |-> 0, body |-> <<>>]

Init == wire = Nothing /\ held = Nothing

Take == held' \in Entering \cup ({wire} \ {Nothing}) /\ wire' = Nothing

Hop(frame) == wire' = frame /\ UNCHANGED held

Trunk     == \E tag \in Vlan : Hop([held EXCEPT !.tag = IF @ = 0 THEN tag ELSE @])
Access    == Hop([held EXCEPT !.tag = 0])
Plain     == Hop(held)
Originate == wire'.body[1] = OwnType /\ Hop([wire' EXCEPT !.tag = 0])

Next == Take \/ Trunk \/ Access \/ Plain \/ Originate

Spec == Init /\ [][Next]_<<wire, held>>
=============================================================================
