\* Frames with no, one and two tags, over any number of hosts.
SPECIFICATION Spec
CONSTANTS
  Netif = {1, 2, 3, 4}
  iftype <- Types
  vlan <- Vlans
  Mac <- MACs
  IP <- IPs
  VlanId = {0, 20}
  Station <- Neighbours
  Frame <- Traffic
  Garbage <- Strays
INVARIANTS TypeOK CallersFrame ArpFound
PROPERTIES ImplementsLink AsksDestination AddressesSent
CHECK_DEADLOCK FALSE
