\* A 403 page of the origin.
SPECIFICATION Spec
CONSTANTS
  Callers = {a}
  PoolSize = 1
  RetryLimits = {0, 2}
  ByteLimits <- SomeByteLimits
  MaxBody = 3
  None = None
INVARIANTS OriginErrorsPass
\* Every request ends.
CHECK_DEADLOCK FALSE
