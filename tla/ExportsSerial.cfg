\* gunicorn -w 1: one handler at a time.
SPECIFICATION FairSpec
CONSTANTS
  Threads = {worker}
  Ids = {e1, e2, e3}
  NoId = NoId
  Ttl = 1
  MaxTime = 2
  MaxRestarts = 1
INVARIANTS NoRaceErrors
PROPERTIES NotFoundIsJustified ExpiredSwept
