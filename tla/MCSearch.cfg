CONSTANTS
  MANAGER_IDLE_LIMIT = 2
  FULL_SWEEP = 2
  Region = {r1, r2}
  MAX_SIZE = 2
  MAX_LOADS = 2
  Caches = TRUE
  Proven = TRUE
  ReusesMemory = FALSE
  Unmaps = FALSE
SPECIFICATION FairSpec
INVARIANTS
  TypeOK
  FoundWithinAFullSweep
PROPERTIES
  FindsTheGame
