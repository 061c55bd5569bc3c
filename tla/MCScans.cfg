CONSTANTS
  Ranges <- MCRanges
  LENGTH = 3
  CHUNK = 5
  OVERLAP = 2
  CHUNKS_PER_TICK = 2
  READS_PER_TICK = 3
  WORDS_PER_TICK = 14
  MAX_THERE = 1
SPECIFICATION FairSpec
CHECK_DEADLOCK FALSE
INVARIANTS
  TypeOK
  WhatStaysIsMet
  TheTickIsShared
PROPERTIES
  SweepEnds
