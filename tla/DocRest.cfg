CONSTANTS
  World <- MCWorld
  Adventure = "adventure"
  None = None
  WARP_REACH = 3
  FIRST_LEVEL = 0
  STALE_TICKS = 2
  LOST_BEFORE_RESET = 2
  CLOCK_SLACK = 2
  FULL_MS = 2
  MAX_CORRECTION_MS = 1
  Reads <- MCReads
  MAX = 8
  SEGMENTS = 2
  BLACK = 1
  MAX_CLOCK = 5
  MAX_GAMES = 2
  MAX_PROCESSES = 1
  RunnerActs = FALSE
  MAX_STALL = 1
SPECIFICATION SessionSpec
PROPERTY
  ANewGameIsNoRisk
