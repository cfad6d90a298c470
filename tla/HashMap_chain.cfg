\* Four keys in one bucket: chains of up to four nodes, with cells reused.
SPECIFICATION Spec
CONSTANTS
  k1 = k1  k2 = k2  k3 = k3  k4 = k4
  Key = {k1, k2, k3, k4}
  Value = {u, v}
  Size = 1
  HashOf <- OneBucket
  Addr = {a1, a2, a3}
  HeadAddr = HeadAddr
  Null = Null
SYMMETRY Interchangeable
INVARIANTS TypeOK KeysPlaced CellsOwned BackLinks ClearSafe
PROPERTIES ImplementsMap
\* A write through a wrong prev ends the model: the program has no defined next step.
CHECK_DEADLOCK FALSE
