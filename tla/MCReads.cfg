CHECK_DEADLOCK FALSE
CONSTANTS
  None = None
  FULL = 2
  MAX_FRAMES = 2
  MAX_REBUILDS = 1
  ASTRAY = {0}
  MAX_CHANGES = 5
SPECIFICATION Spec
INVARIANTS
  ATrueStateOrNone
  NoneOnlyWhenItIsGone
  TornClocksLag
