\* Three stations in one bucket, another bucket, and a port whose index is cut.
SPECIFICATION Spec
CONSTANTS
  m1 = m1  m2 = m2  m3 = m3  p1 = p1  p2 = p2
  Mac = {m1, m2, m3}
  Zero = Zero
  HASH_SIZE = 2
  HashOf <- OneBucket
  Heap = {a1, a2}
  HeadAddr = HeadAddr
  Null = Null
  MAC_TABLE_AGING_TIME = 1
  MaxTime = 3
  UInt8 = 4
  UInt64 = 64
  Port = {p1, p2}
  IfIndex <- Indexes
  Broadcast = Broadcast
  None = None
  MAC_REF_INTERVAL = 2
SYMMETRY Interchangeable
INVARIANTS TypeOK EntriesTrue Remembers Delivers NeverAstray
PROPERTIES LeavesFresh RefreshProgresses
\* A null pointer or a wrong prev ends the model: the program has no defined next step.
CHECK_DEADLOCK FALSE
