\* One turn (turns share nothing but the token and the graph), two imports.
SPECIFICATION KSpec
CONSTANTS
  Runs = {r1}
  Count <- Folders
  MaxImports = 2
  MaxVersion = 2
INVARIANTS KTypeOK NoInvention NumbersUntouched NoOldRules Rebuilt StaleUntilPatched
PROPERTIES TurnsEnd
\* Every turn ends, and imports are bounded.
CHECK_DEADLOCK FALSE
