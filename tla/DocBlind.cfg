CONSTANTS
  MANAGER_IDLE_LIMIT = 2
  FULL_SWEEP = 2
  Region = {r1}
  MAX_SIZE = 1
  MAX_LOADS = 2
  Caches = TRUE
  Proven = TRUE
  ReusesMemory = FALSE
  Unmaps = TRUE
SPECIFICATION FairSpec
PROPERTY
  AnAnchorNeverBlinds
