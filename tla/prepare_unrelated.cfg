SPECIFICATION Spec
CONSTANTS
  p1 = p1
  p2 = p2
  boot = boot
  linked = linked
  mine = mine
  Preps = {p1, p2}
  Free = Free
  Dirs = {boot, linked, mine}
  Linked = {linked}
  Requests <- TrustOnly
  InitialConfigs <- Orderly
  MayCrash = {}
  MaxFaults = 0
  MaxCleanups = 1
PROPERTY
  CleanupKeepsUnrelated
CHECK_DEADLOCK FALSE
