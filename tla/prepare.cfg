SPECIFICATION FairSpec
CONSTANTS
  p1 = p1
  p2 = p2
  boot = boot
  linked = linked
  mine = mine
  Preps = {p1, p2}
  Free = Free
  Dirs = {boot, linked, mine}
  Linked = {linked}
  Requests <- TwoProcesses
  InitialConfigs <- SomeConfigs
  MayCrash = {p1}
  MaxFaults = 2
  MaxCleanups = 2
INVARIANTS
  LockDiscipline
  PreparedIsInForce
  CleanupIsComplete
PROPERTIES
  UserDataIsKept
  CallsReturn
CHECK_DEADLOCK FALSE
