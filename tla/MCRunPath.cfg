CONSTANTS
  World <- MCWorld
  Adventure = "adventure"
  Dimension = "deepnight"
  None = None
  WARP_REACH = 3
  FIRST_LEVEL = 0
  STALE_TICKS = 2
  LOST_BEFORE_RESET = 2
  CLOCK_SLACK = 2
  FULL_MS = 2
  MAX_CORRECTION_MS = 1
  Reads <- MCReads
  MAX = 8
  SEGMENTS = 11
  SHORTCUT = 5
  LAST = 7
  DOORS = 2
SPECIFICATION FairPathSpec
INVARIANTS
  SegmentsInStep
  NeverAhead
  NoCommandIsDropped
PROPERTY
  FindsThePlayer
