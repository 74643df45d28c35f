\* app.run(): two handlers in parallel.
SPECIFICATION Spec
CONSTANTS
  Threads = {t1, t2}
  Ids = {e1, e2}
  NoId = NoId
  Ttl = 1
  MaxTime = 2
  MaxRestarts = 1
SYMMETRY Symmetry
INVARIANTS TypeOK LiveIsWhole NoSilentLeak SweptClean
PROPERTIES LinksSpec
