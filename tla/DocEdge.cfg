CONSTANTS
  Ranges <- MCBlocks
  LENGTH = 2
  CHUNK = 6
  OVERLAP = 2
  CHUNKS_PER_TICK = 2
  READS_PER_TICK = 3
  WORDS_PER_TICK = 9
  MAX_THERE = 1
SPECIFICATION Spec
CHECK_DEADLOCK FALSE
INVARIANT
  NothingIsMissedAtAnEdge
