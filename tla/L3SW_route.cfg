\* Two stations that move and change addresses, tables that age.
SPECIFICATION SwitchSpec
CONSTANTS
  s1 = s1  s2 = s2  n1 = n1  n2 = n2
  W = 3
  Offer <- Own
  MaxRoutes = 2
  NETIF_NUM = 2
  NetIP <- IPs
  NetLen <- Lens
  NetMac <- MACs
  Mac = {s1, s2}
  Broadcast = Broadcast
  Frame <- Traffic
  None = None
  age_out = 1
  MaxTime = 3
PROPERTIES ForwardsTrue DeliversRecent AsksForgotten ServesOn
