CONSTANTS
  None = None
  Build <- MCBuild
  Offset <- MCOffset
  Base <- MCBase
  MAX_PROCESSES = 2
SPECIFICATION FairSpec
PROPERTIES
  LearnsTheBuild
  NotBornIsSo
  FoundWhateverTheBuild
