CONSTANTS
  World <- MCWorld
  Adventure = "adventure"
  None = None
  WARP_REACH = 3
  FIRST_LEVEL = 0
  STALE_TICKS = 2
  LOST_BEFORE_RESET = 2
  CLOCK_SLACK = 2
  FULL_MS = 4
  MAX_CORRECTION_MS = 1
  Reads <- MCReads
SPECIFICATION Spec
INVARIANTS
  TypeOK
  OneStory
  DeadGamesAreForgotten
  FinishIsTheLastTime
PROPERTIES
  OneResetPerLoss
  KeepsTheFinish
