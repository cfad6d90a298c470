# Salacia forwarder: TLA+ models and proofs

The repository holds user-space packet forwarders: a C++ library (`forwarder/`)
with the programs built on it under `forwarder/test/`, and an older layer 2
switch in C (`L2SW/`). This directory models the parts that keep state and
decide something, checks them with TLC and proves what matters most with TLAPS.

Paths below are relative to the repository root (`src/` in `PROJECT.json`).

## The system

| Part | State | Operations | Used by |
|---|---|---|---|
| `HashMap.hpp` | buckets of doubly linked chains, heads inside the table, other nodes on the heap | update, get, isExist, getSize, getKeys, del, clear | CacheTable, Route, MacTable |
| `CacheTable.hpp` | a HashMap of pointers to items with `last_ref` and `persistent` | update, get, refresh(delete_all) | ARP and MAC tables of the switches |
| `RouteTable.cpp` | a binary trie; a Route at some nodes; next hops by route type | addRoute, getRoute, resolve, r_resolve | L3SW |
| `test/L3SW/l3sw.cpp` | ARP CacheTable, MAC CacheTable, RouteTable | one loop: refresh both tables, poll, learn, reply, forward | - |
| `NetIf.cpp` | a socket, VLAN and address settings of one interface | recv, send, sendBroadcast | the switches |
| `Ethernet.cpp`, `ARP.cpp`, `IPv4.cpp` | a packet buffer, and pointers into it that copies share | set, VLAN tags, header fields | `NetIf`, the switches |
| `IPAddress.cpp` | an address, a netmask with its length, a network | set from numbers, texts and lengths, copy, print | everything |
| `Array.hpp` | a singly linked list on the heap | add, set, get, del, clear, copy | `HashMap` hands its keys over in one |
| `MacAddress.cpp`, `comlib.cpp`, `L2SW/src/calcaddr.c`, `checksum.c` | none | conversions, checksums | everything |
| `test/vlan_switch`, `test/switch` | MAC table, interfaces; the second has two threads | forward, refresh | - |
| `L2SW/src/mac_table.c`, `l2sw.c` | 256 chained entries; one loop | learn, look up, age, flood, forward | - |

What is hard in this code: linked chains whose back pointers go stale after
particular orders of deletion; loops that delete by a list of keys taken
earlier; ages computed from a wall clock with unsigned differences; a trie walk
with off-by-one rules; a resolution loop whose end depends on the data; packet
objects whose copies write into the original; headers found at one place in one
frame and at another in the next; VLAN tags that the kernel takes off and the
program puts back, at every hop; calls that fail half way; and texts that are
read more leniently than they are written. `PROJECT.json` lists each with its
line. The programs persist nothing and exchange no messages of their own, so
crash recovery and message loss play no part, and all that can be built are
single-threaded.

What makes each part correct:

- HashMap: it is a map, whatever the order of calls; no node is lost,
  duplicated or used after it was freed.
- CacheTable: refresh deletes what is too old, nothing else, and eventually.
- RouteTable: resolve is a longest prefix match; r_resolve returns a connected
  route if the next hops lead to one.
- L3SW, L2SW: a frame goes where its destination was last seen, or everywhere
  but back; nothing else sends.
- NetIf, Ethernet: a frame keeps its body on its way through a host, and its
  VLAN until an access interface takes it out; what is read as a header is the
  header of that frame.
- IPAddress: netmasks and networks are valid after any calls, and come back out
  of their text. Array: a sequence, and its copies are its own.
- Checksums: a receiver that sums up the header gets 0xFFFF.

## Modules

| Module | Models |
|---|---|
| `KeyMap` | what a map promises: a function from keys to values and the result of each call |
| `HashMap` | `HashMap.hpp`, node by node |
| `CacheTable` | `CacheTable.hpp`; EXTENDS `HashMap` and reuses its chains, its update and its del |
| `Cache` | what a CacheTable promises: a map of dated entries and a refresh at one blow |
| `RouteTable` | `RouteTable.cpp` |
| `L3SW` | `test/L3SW/l3sw.cpp`; EXTENDS `RouteTable` and INSTANCEs `Cache` for its two tables |
| `L2MacTable` | `L2SW/src/mac_table.c`: what each function does to a bucket |
| `L2SW` | `L2SW/src/l2sw.c`: the switch around that table; EXTENDS `L2MacTable` |
| `Ethernet` | `Ethernet.cpp`, `ARP.cpp`, `IPv4.cpp`: an object and its pointers, as operators |
| `NetIf` | `NetIf.cpp` and what l3sw sends through it; EXTENDS `Ethernet` |
| `VlanLink` | what tagging promises over any number of hops |
| `Array` | `Array.hpp`, node by node |
| `ItemLists` | what arrays promise: sequences |
| `AddressText` | addresses and their texts: `iptoui`, `uitoip`, `atoi`, `uitoa`, `MacAddress(text)`, `mactol`, `ltomac` |
| `IPAddress` | `IPAddress.cpp`: an address, a netmask and networks; EXTENDS `AddressText` |
| `Checksum` | `checksum.c` and `IPv4::calcHeaderChecksum`, word by word |
| `MCLibrary` | the last four side by side, one in use at a time, and texts written character by character |
| `MCHashMap`, `MCCacheTable`, `MCRouteTable`, `MCL2SW`, `MCL3SW`, `MCNetIf` | constants for TLC |
| `HashMapProofs`, `CacheTableProofs`, `RouteTableProofs`, `L3SWProofs`, `L2SWProofs`, `NetIfProofs` | the proofs about these modules |
| `LibraryProofs` | the proofs about `Array`, `Checksum`, `IPAddress`, `AddressText` and the texts of `MCLibrary` |
| `ProofLemmas` | facts about sequences, sets of numbers and counting that several proofs use |

Definitions marked `mutant` are faulty variants of the definition that follows
them. They are used by nothing: put in its place, each makes one property fail.

### HashMap

`chain[b]` is the sequence of nodes reached from bucket `b` through `next`; a
node carries its own address and the `prev` the code stored in it. So `next` is
represented by the order and `prev` explicitly, because the code lets the two
disagree: deleting the head of a chain copies the second node into the head and
frees it, and the third node keeps the old `prev` (line 265). `new` returns any
free cell, one just freed included. The five cases of `del` are the five
`Drop...` actions; in `DropAstray` the code writes through a wrong `prev`. What
follows is undefined, so `corrupt` is set and no action is enabled afterwards.
`clear()` is two kinds of step, taking the list of keys and deleting them one
by one, so that the state between two deletions is visible. Callers are
single-threaded: no other call is made in between.

`HashOf` stands for `getHash()`, `Size` for the number of buckets. Values are
opaque.

### CacheTable

The table holds `CacheItem` records. The code stores a pointer and, for a key
that is there, changes the object it points to; nobody else holds that pointer,
so the model changes the value in the chain. `now` is `time(NULL)`; it ticks at
any moment, also while `refresh` is in its loop, and with `ClockSteps` it may
be set back. The difference `current - last_ref` is taken modulo `UInt64`.
`ImplementsCache` maps the table to `Cache`, where a refresh is one
step: while the loop runs, what it is going to delete counts as deleted. In
`Cache` an entry that is ahead of the clock is too old: that is what the unsigned
difference makes of it after the clock was set back.

### RouteTable

A network is the sequence of its leading bits, an address `W` bits. `nodes` is
the set of trie nodes named by their paths and `routes` the Route objects. The
constructors of `IPNetwork` refuse an address with host bits set
(`IPAddress.cpp:335-390`), so a network and its bits determine each other. The
walk of `resolve` is described by the set of depths it looks at, `Visited`: it
needs every node up to there, and stops one short of the last bit
(`i > 31 - length` with the route looked at before the step, lines 203-208).
`r_resolve` is `Ask`, any number of `Follow`, and `Return`. In the code nothing
else happens to the table meanwhile.

### L3SW

`step` is where `main` is: it puts the networks of the interfaces into the
routing table (`Boot`), then forever refreshes both tables and takes at most one
frame from each interface in turn. A frame is handled in one step, except that
`r_resolve` is stepped (`HandleIP` is `Ask`, `Resolve` is `Follow` or `Return`)
and the clock may tick between any two steps, as between the refresh of one
table and that of the other. The tables are `Cache`s, which `CacheTable`
implements as long as no wrong `prev` is used. `heard` and `claimed` are
history: where and when each MAC address was last a source, and who last claimed
each IP address in ARP. The routes of the switch's own interfaces are among those
the routing table is offered (`OwnAssumption`). Stations send ARP frames under their own MAC address;
they may move and may claim each other's addresses.

### L2MacTable and L2SW

The C table is an older cousin of the HashMap, and its buckets are written the
same way: a sequence of entries by their `next`, each with its own address and
the stored `prev`. It differs where the code does: no `del` mends the `prev` of
the entry that follows, an empty head is one whose address is 0, a lookup
renews the entry it finds, and a lookup in a bucket with one other entry
follows a null pointer (`Faults`). `refresh_mac_table` is stepped one delete at
a time (`RefreshDelete`, `RefreshNext`), because it starts the bucket again
after each, and the clock may tick between the steps.

A frame is received, its source learned and the frame sent in one step
`Receive`: one thread does it and looks at nothing else meanwhile. The main loop
checks for a due refresh once in every turn; the model lets any number of frames
come first, which the properties do not depend on. `seen` and `heard` are
history: the port and time of a station's last frame. Address 0 is not a
station, since the code takes it for an empty entry, and the clock is not set
back here. `failed` records that the program followed a null pointer or wrote
through a wrong `prev`; what follows is undefined and no action is enabled.

### Ethernet and NetIf

A frame is the sequence of its 16-bit words, so a tag is two of them. An
`Ethernet` object is a record of its buffer `data`, the types `_update` found,
and three pointers: `eth` is `Own` or, in a copy, what stands in the original's
buffer; `arp` and `ip` are word positions. The implicit copy constructor copies
the pointers (`Copy`), so `setDst` and `setSrc` of a copy change the original
(`WriteEth`), while the tag operations move the copy's own buffer; `Send`
returns both, what goes on the wire and what is left to the caller. `IPv4` has
no constructor: until the first frame without a tag its pointer is `Wild`, and
reading through it gives any address (`Destination`) or ends the program
(`StrayRead`). A header that does not validate throws, nobody catches it, and
the program ends (`up`).

`recv`, `send`, `sendBroadcast` and the four places where l3sw sends are one
action each. The kernel's part, taking the outer tag off a received frame and
handing it over apart, is `KernelTag` and `KernelFrame`; `recvRaw` puts it back.
What was sent last is on `wire`, and `recv` may take it: since every host runs
the same code, the one modelled stands for all that a frame passes. Frames are
within the buffer, and long enough for their headers: what stands behind the end
of a frame in the buffer is not modelled. 0x88a8 stands only as the outermost
tag, and no tag of zeros in front of another. `received` and `lent` are history:
the frame as it came, and the interfaces it was sent to since.

`ImplementsLink` maps frames to `VlanLink`, where a frame is a body and the tag
of the VLAN it is in. Frames with two tags count as a body in no VLAN, since no
interface touches the outer 0x88a8.

### Array, IPAddress, AddressText, Checksum

The nodes of an `Array` are cells of a heap; `add` takes any free one, `del` and
`clear` give them back, `_copy_from` is `clear` and `add`s in one step, since
nobody sees a copy half made. `ImplementsLists` maps the arrays to sequences,
`NodesOwned` says that the heap holds what they reach and nothing else.

An address is four octets, a text a sequence of characters; hexadecimal digits
are their values. The C++ calls that throw set `failed` and leave what the code
leaves: an `IPAddress` is 0 then, a netmask and a network are as before.
`IPAddress` values carry their text with them in the code; here `toStr` makes it.
MAC addresses are numbers of sixteen hexadecimal digits, added up digit by digit
as the code shifts them.

A checksum is computed word by word over a header of any words of a set, the
TCP one behind its pseudo header; `total` is what a receiver adds up, carries
kept. `checksum_tcp` sums up the segment's header only and takes its length to
be 40; of the segment's data the model has what a receiver would make of it, its
length and its sum.

## Runs

| Run | Bounds | Shows |
|---|---|---|
| `hashmap_chain` | 4 keys in 1 bucket, 3 heap cells, 2 values | chains stay well formed, and the table behaves as `KeyMap` until a wrong `prev` is used; `clear` never uses one, and leaves the map empty |
| `hashmap_del` | 3 keys in 1 bucket | **violated**: `del` of the first and then of the last |
| `cache_aging` | 3 keys in 1 bucket, 2 cells, times 0 and 1, age 0, clock set back | the table is a `Cache` until a wrong `prev` is used: `refresh` deletes exactly what is too old or ahead of the clock; what is too old goes; `refresh(true)` uses no wrong `prev` after any history |
| `route_resolve` | W = 3, 5 networks, 3 types, 3 next hops, 3 routes and the default | routes can be reached, longest prefix match, connected answers; `r_resolve` keeps to the chain of next hops and returns if it ends |
| `route_unreach` | the same, 1 route | **violated**: `r_resolve` of an address without a route |
| `l3sw_route` | 2 interfaces, 2 stations, W = 3, times 0..3, age 1 | IPv4 goes to the last claimant where it was last heard; stations are reached unless they were silent too long, forgotten addresses asked for; the loop comes round unless `r_resolve` hangs |
| `l3sw_foreign` | one frame between two stations | **violated**: the switch routes a frame that was not sent to it |
| `l2sw_chain` | 3 stations in 1 of 2 buckets, 2 ports, one with an index that does not fit, 2 cells, times 0..3, age 1 | the table is true and forgets only what is old; frames go where it says, and get lost on the way to the second port; a refresh makes progress, and goes astray only after three stations of a bucket were heard |
| `l2sw_flood` | 3 stations, 2 of them in one of 2 buckets | **violated**: a frame for an unknown station kills the switch instead of being flooded |
| `netif_hops` | an access interface, a trunk, two of layer 3; 6 frames with no, one and two tags, ARP, IPv4 and other, one invalid; any number of hops | body and VLAN are kept; a frame sent several times stays as it came but for its MAC addresses, and leaves with those it had before the call; ARP headers are found, IPv4 headers only without a tag; l3sw's ARP frames carry what they should but for the source of a reply |
| `library` | 2 arrays of up to 4 nodes; 2 networks, 3 addresses, 4 lengths and 6 texts; headers of 5, 10 and 15 times 4 bytes of 3 words, 6 kinds of data; all texts of up to 8 of 4 characters, all MAC addresses of 4 bytes | arrays are sequences; netmasks and networks stay valid; texts are read back; checksums verify, those of TCP only where length and data make up for each other |
| `library_text` | all texts of up to 7 of a digit, the dot and the minus | **violated**: a text that begins with a minus is read as an address |

Why the bounds are enough: the cases of `del` look at a node and its two
neighbours, so a chain of four has every case with every neighbour; a wrong
`prev` needs three keys in a bucket and its repair a fourth. One free cell
fewer than keys is what the code uses (the head is not on the heap), and forces
reuse. Ages matter only as "older than `age_out`", "ahead of the clock" or
neither: two times with `age_out` 0, and the steps forward and back between
them, give all three for entries updated before, during and after a refresh; the
switches, whose clock runs on, have four times and an age of 1, so that entries
of one refresh differ.
Two stations with two interfaces are enough for a move, a takeover of an
address and a reply that crosses either; the third address has no route. With
three-bit addresses there are matching networks of length 0, 1 and 2 and a host
network, each over, under and beside others, and chains of next hops with three
links and circles. Three stations in a bucket of the C table give every case of
its `delete`, the wrong `prev` included. A frame has three shapes (none, one, two
tags), each of which every kind of interface sends on; two interfaces of layer 3 let l3sw forward and ask.
Texts of eight characters hold an address of four octets and one character too
many; octets of three digits and every netmask come from the calls. The words 0
and 65535 and the longest header bring the carries; of the data of a segment
some is of zeros, some makes up for the constant 40 and some does not, and one
length is odd. The index of one port of L2SW has more bits than the table keeps,
and keeps none that another port has. Keys and cells in the same
bucket are interchangeable, which is the symmetry of `hashmap_chain` and
`l2sw_chain`; they check safety only (and a refinement whose abstract
specification has no fairness).

Deadlock checking is off only where a write through a wrong `prev` may end the
model of the HashMap or the CacheTable, in the L2SW runs, which a null pointer
may end, in `netif_hops`, which an invalid frame ends, and in `library` and
`library_text`, where a text has its full length in the end.

Fairness: `clear`, `refresh` and `r_resolve` are loops of a running thread, so
their next step is taken eventually (weak fairness); `refresh` is called on
every turn of the switches' main loop (`l3sw.cpp:75-78`), so is its start; the
main loop of L3SW runs on, since `poll` returns after a millisecond. Nothing is
assumed of updates, lookups or the clock.

## Findings

1. **Deleting leaves a stale back pointer** (`HashMap.hpp:265`). Three keys in a
   bucket; delete the first, then the last: `del` writes to freed memory and
   frees a node the chain still holds. In the 256-bucket tables of the switches
   it takes three addresses with one hash.
2. **`r_resolve` does not return without a route** (`RouteTable.cpp:146, 223`).
   The default UNREACH route has next hop 0.0.0.0, which resolves to itself.
3. **L2SW dies of a frame for an unknown station** (`L2SW/src/mac_table.c:68`)
   if another station with the same hash is alone in its bucket.
4. **`recv` filters nothing for a layer 3 interface but the frame type**
   (`NetIf.cpp:195`), although its comment says frames for other addresses are:
   L3SW routes frames that were sent to another station.
5. **`iptoui` never checks the first character** (`IPAddress.cpp:142`), although
   its comment says anything but digits and dots is an error (line 145):
   `-.0.0.0` is read as 0.0.0.0, and `x.1.2.3` as 0.1.2.3.

Finding 2 hangs the whole of L3SW: `ServesOn` has to except it.
ARP and MAC entries age apart: when the clock ticks between the two updates of
one frame, or between the refresh of one table and of the other, the ARP entry
may outlive the MAC entry, and frames for it are dropped without asking for the
address again (`l3sw.cpp:128`). `DeliversRecent` says that they are dropped exactly if the
station was silent for more than the age when the MAC table was last refreshed;
the run reaches such states.

The wrong `prev` of finding 1 exists in the C table too (`mac_table.c:109, 126`);
`NeverAstray` says it does no harm until three stations of one bucket were heard.

Peculiarities the properties state rather than refute, since nothing in the
repository promises otherwise:

- a route for a host (all bits) never matches, and a route for a network of
  zeros longer than 0 is replaced by the root's (`LongestMatch`);
- an entry of a CacheTable that is put again is persistent no longer
  (`CacheTable.hpp:66`; `Cache`);
- l3sw's ARP replies leave with the source 11:22:33:44:55:66 (`AddressesSent`);
- behind a VLAN tag `ipv4()` is the header of an earlier frame, or no header:
  l3sw then asks for the source of the frame, or of anything (`AsksDestination`);
- sending a frame from a layer 3 interface, or to all, changes the caller's
  frame (`CallersFrame`), and leaves the one that is sent with the addresses it
  had, so a broadcast with its old destination (`AddressesSent`);
- `iptoui` reads some texts of digits and dots that are no addresses (`Mistaken`);
- after the clock was set back, a refresh deletes entries that are seconds old,
  persistent ones excepted (`CacheTable.hpp:95`; `Cache`);
- l2sw's table keeps eight bits of an interface index and compares them with the
  whole one (`l2sw.c:198, 242`): a station behind an interface of index 256 or
  more gets no frame but floods (`Delivers`);
- a TCP checksum is right only where the segment's length and the sum of its
  data happen to be 40 modulo 65535; without data, for 40 bytes (`Verifies`).

## Proofs

For all values of the constants (any keys, hash function, number of buckets and
heap; any address width and routes; any stations, interfaces, clocks and ages;
any frames), under the assumptions the modules name. They say: the set of keys
is finite, there is a bucket, hashes are naturals, the addresses of heads, cells
and null differ; addresses have at least one bit; what stands for "none" is no
value; 64 bits are more than the clock and an age together; stations of L2SW are
not at address 0; frames are as long as their headers say; numbers are four
octets, texts sequences of characters, and what is written is characters and
bytes; the routes of the switch's interfaces are offered to its table. All safety
properties and refinements of the runs that are expected to pass are theorems;
`PROJECT.json` lists which. Where a theorem has a
further hypothesis it is named below.

- `HashMapProofs`: the inductive invariant `IInv` has three parts. `TypeOK`;
  `Table`, which says of every chain that keys are distinct and in their bucket,
  cells are distinct, and every `prev` but the second node's is right; and
  `ClearList`, that while `clear` runs its list is exactly the chain from the
  head on. The last is what makes `clear` safe: it always deletes a head, and
  the head cases of `del` do not use `prev`. `Table` alone would not be
  inductive for `ClearSafe`, nor `BackLinks` without the distinctness of cells.
  The step lemmas are about one chain (`RemoveAtElements`, `Lose...`,
  `Gain...`) and one bucket (`StoreStep`, `UnlinkStep`). `Refines`: every step
  of the map is a step of `KeyMap` on `Contents`, or a stutter, or sets
  `corrupt`. `PairsNeverCorrupt` adds that no chain is longer than two, from the
  assumption `AtMostTwo` on the hash function; then the second node is the last
  that could be wrong and its `prev`, set when it was added, is right.
- `CacheTableProofs`, on the same lemmas: `CacheInv` is `TypeOK`, `Table`, the
  range of the clocks, and `ClearList` for a `refresh(true)` only, since a plain
  refresh passes over what it keeps. The refinement (`CacheRefines`) needs one
  more: what the running refresh is going to delete is in its list
  (`LeavingListed`). The unsigned age of an entry is its age, or more than any
  age if the clock is behind it, since `UInt64` is more than both together.
- `RouteTableProofs`: `IInv` is the type invariant, "every node on the way to a
  route exists", "the root has a route", "one next hop for each type", "the
  answer is a connected route". Longest prefix match follows from it in any one
  state (`LongestOfTable`). The chain of a route is the least set that has it
  and, with each route that is not connected, the one its next hop leads to;
  `KeepsToChain` needs only that `Follow` stays in every such set
  (`ChainGoesOn`), and that nothing else changes the routes while `r_resolve`
  runs (`ChainStep`). The grounded routes are a least set as well, so a route
  not connected is grounded exactly if its next hop's route is
  (`GroundedSteps`), and no chain leads from one that is not to one that is:
  `ReturnsGrounded`.
- `L3SWProofs`: `SwitchInv` adds to that `IInv` where `main` is (`Placed`), and
  of each table that an entry is what was heard last, with its time (`ArpTrue`,
  `MacTrue`), that nothing is missing that was not too old at its last refresh
  (`ArpKept`, `MacKept`), and that it holds nothing that was (`ArpFresh`,
  `MacFresh`); `ref_at` is history, the times of these refreshes. `DeliversRecent`
  needs both halves, since the two tables age apart: `MacFresh` for the drop, the
  `Kept`s for the rest; `AsksForgotten` needs `ArpFresh`. `SwitchUsesTable`
  says that a switch takes steps of `RouteTable` only, so that `LongestMatch` and
  `KeepsToChain` hold inside the running switch. What the switch adds to them is
  `RoutesLocally`: it routes a frame only to an address in the network of one of
  its interfaces. The invariant is `OwnRoutes`, that all routes but the default
  are those of interfaces, with next hop 0.0.0.0, and `AskedFor`, that the route
  `r_resolve` is at matches the frame; from the default route it asks for
  0.0.0.0 and comes back to it, which is finding 2 seen from the other side.
- `L2SWProofs`: `Table` says of each bucket that its entries are where the code
  can find them, that each is the port and a time of a frame of its station,
  that nothing recent is forgotten, and that its `prev`s are right (`Ordered`)
  or three of its stations were heard (`Crowded`). This last disjunction is what
  `NeverAstray` rests on: the wrong `prev` takes three entries. `Sweeping` says
  what a running refresh has left behind it. `Delivers` speaks of the interface that
  the eight bits of `netif_index` tell, and `ReachedRight` says which that is:
  the right one alone for an index below `UInt8`, and never the right one else.
- `NetIfProofs`: `IInv` says that what is on the wire has the shape of stations'
  frames (`Framed`), and that the object a program may send has a frame in which
  a tag is in front of another only as 0x88a8 (`HeldFrame`), with its types and
  its ARP header those of this frame (`Holds`). This is inductive because a
  trunk tags only what `_update` found untagged, and because `recvRaw` puts the
  kernel's tag back in front of a frame of that shape (`Received`); a frame with
  0x88a8 inside, or with a tag of zeros in front of another, does not come
  through unchanged, which is why `Framed` excludes it. `SentAccess`,
  `SentTrunk` and `SentPlain` are the three ways out, and with `Received` the
  steps of `VlanLink`. `CallersFrame` follows because writing through the
  pointers of a copy changes six words and no more (`Renamed`). `ArpMade` is
  what the setters write into `PKT_ARP`. `AddressesSent` needs, for the three
  ways out, that tagging moves no address (`LinkAddresses`).
- `LibraryProofs`: `ChecksumInv` says that the folded sum is the one's
  complement sum of what was summed up (of a TCP header 40 instead of the
  segment's length, and no data); a receiver gets 0xFFFF exactly if what is
  missing from it is 0 modulo 65535 (`OffByForty`, `Complement`). `ArrayInv` says there is a listing of each array's nodes,
  linked as it lists them, without a node twice or in two arrays; where the code
  walks from the root, the walk is shown to follow the listing by a least
  counterexample instead of induction. `NetmaskInv` says that the
  address is four octets, every netmask is made of its length and every network
  is an address within its netmask. An octet in which no 1 follows a 0 is one of nine
  (`OctetForms`), four of them that `validIPNetmask` lets pass are the netmask of
  a length (`ValidIsMask`), and this length is the one it counts
  (`MaskOfLength`); a network that throws is not set. Powers of two are a table,
  `Weight`, and 0xFFFF is a name, `AllOnes`, for the sake of the provers.
- `LibraryProofs`, of texts of any length: `Value` is a recursive function, of
  which only its first four values are needed (`ValueOf`), since what the
  program prints has at most three digits. `WrittenRead` is the heart: four printed
  octets with dots between them, at any places, begin where `Starts` says and
  are read as these octets, by `iptoui` and `iptoi` (`TextReads`). The
  converse, that what else is read is mistaken, looks at one octet at a time:
  one that is in 0..255 and not mistaken is printed as it stands. Where this counts
  along a text, `UpTo` takes the place of induction: a set of numbers with 0,
  and with each number its successor, has them all. `TextsReadBack` follows from
  `NetmaskInv` and `AddressReads`, `NetworkReads`. For MAC addresses the
  places of the digits are counted (`CountNext`, `PairsCount`), and digits at
  those places make the address (`PlacedMac`). `ClassesAlone` carries what is proved
  of each class over to `MCLibrary`.

Proving `AcceptsAddresses` for all texts turned up two ways in which `iptoui`
reads what is no address that no text of eight characters shows, and which
`Mistaken` now names: 260 octets count as four in the eight bits of the code's
counter (`IPAddress.cpp:121`), and ten digits may overflow the `int` of `atoi`,
which `comlib.cpp:153` says it does not look for.

Only model-checked: the liveness properties `ExpiredGoes`, `GroundedReturns` and
`ServesOn`, since TLAPS does not reason about fairness. The violated properties
of the findings are TLC's, too.

## Not modelled, and the plan

Left out for good: sockets, `poll`, formatting and dumps; the two-thread switch,
which does not compile (`test/switch/switch.cpp:70` takes a `NetIf *` out of a
`PointerWrapper<NetIf>`), and the VLAN switch, whose start ends in an exception
(`vlan_switch.cpp:82` expects `nullptr` of an empty `HashMap`, which throws), so
that neither has a behaviour to be faithful to; `l2hub.c`, which keeps nothing
between two frames; `L2SW/test/route/route.c`, the prototype of the trie;
accessors nothing calls.

The plan is carried out: every part that keeps state and can be built has a
module, and every safety property a theorem. What could follow is outside of
TLAPS, or of the code as it stands: the liveness properties, and the C++
switches that do not compile or do not start, once they do.
