\* buffer_response() with a limit that is not positive.
SPECIFICATION Spec
CONSTANTS
  Callers = {a}
  PoolSize = 1
  RetryLimits = {0, 2}
  ByteLimits <- SomeByteLimits
  MaxBody = 3
  None = None
INVARIANTS BufferCloses
\* Every request ends.
CHECK_DEADLOCK FALSE
