CONSTANTS
  None = None
  Pid = {p1, p2}
  Executables <- MCExecutables
  Tab = {t1, t2}
  TABS_AGAIN = 2
SPECIFICATION FairSpec
INVARIANTS
  TypeOK
  ThePluginIsANewcomer
PROPERTIES
  TheOrderIsKept
  TheGameIsRead
