SPECIFICATION FairSpec
CONSTANTS
  Streams = {s1, s2}
  Events <- MCEvents
  Keys <- MCKeys
  MaxEvents = 1
  ChanCap = 1
  Enabled = {"scope", "loop", "budget"}
  Kills = {"scope", "loop", "budget"}
  TokenBudget = 3
  CostBudget = 6
  MaxLoop = 1
  Window = 2
  MaxTime = 2
  Blank = {}
  Dangerous = {}
  Suspicious = {"/etc/"}
  Allowed = {}
  AllowAll = TRUE
INVARIANTS
  OnlyCuts
  ClosedIsExplained
  KillReachesEveryCall
  BudgetsHold
  RecordsAreRuns
  LoopsAreCut
PROPERTIES
  CallsEnd
CHECK_DEADLOCK FALSE
