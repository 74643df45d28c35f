\* Two callers share a pool with one connection.
SPECIFICATION FairSpec
CONSTANTS
  Callers = {a, b}
  PoolSize = 1
  RetryLimits = {0, 2}
  ByteLimits <- SomeByteLimits
  MaxBody = 3
  None = None
INVARIANTS TypeOK NoConnectionLeak AttemptsAccounted
PROPERTIES Terminates
\* Every request ends.
CHECK_DEADLOCK FALSE
