\* Three keys in one bucket, so that a delete can leave a wrong prev, and a
\* clock that may be set back.  The table stops when memory is corrupted.
SPECIFICATION CacheSpec
CONSTANTS
  Key = {k1, k2, k3}
  Item = {u}
  Value <- CacheItem
  Size = 1
  HashOf <- OneBucket
  Addr = {a1, a2}
  HeadAddr = HeadAddr
  Null = Null
  age_out = 0
  MaxTime = 1
  ClockSteps = TRUE
  UInt64 = 64
INVARIANT FlushSafe
CHECK_DEADLOCK FALSE
PROPERTIES ImplementsCache ExpiredGoes
