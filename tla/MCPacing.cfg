CONSTANTS
  MIN_WAIT = 2
  MAX_WAIT = 6
  GROWTH = 2
  LOADING_WINDOW = 4
  LOADING_WAIT = 1
  Heaps <- MCHeaps
SPECIFICATION FairPacingSpec
INVARIANTS
  PacingTypeOK
  HoldsWhatTheLoopHolds
  SilenceIsBounded
PROPERTIES
  ScansAreSpaced
  LossScansAtOnce
  KeepsLooking
