CONSTANTS
  World <- MCWorld
  Adventure = "adventure"
  None = None
  WARP_REACH = 3
  FIRST_LEVEL = 0
  STALE_TICKS = 2
  LOST_BEFORE_RESET = 2
  CLOCK_SLACK = 2
  FULL_MS = 3
  MAX_CORRECTION_MS = 1
  Reads <- MCReads
  MAX = 8
  SEGMENTS = 2
  BLACK = 1
  MAX_CLOCK = 4
  MAX_GAMES = 2
  MAX_PROCESSES = 2
  RunnerActs = TRUE
  MAX_STALL = 1
SPECIFICATION SessionSpec
INVARIANTS
  TimeIsNeverAhead
  TimerShowsTheTime
PROPERTIES
  StartsAreTimedFromTheirGame
  OneOriginPerGame
  FinishIsTheElevator
  FinishedUntilAnotherGame
  TheRunFollowsTheGame
