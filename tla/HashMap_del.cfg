\* Three keys in one bucket; del is tested for the first, a middle and the last node.
SPECIFICATION Spec
CONSTANTS
  k1 = k1  k2 = k2  k3 = k3  k4 = k4
  Key = {k1, k2, k3}
  Value = {u}
  Size = 1
  HashOf <- OneBucket
  Addr = {a1, a2}
  HeadAddr = HeadAddr
  Null = Null
PROPERTY DelRemoves
CHECK_DEADLOCK FALSE
