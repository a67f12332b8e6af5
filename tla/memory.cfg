SPECIFICATION MemorySpec
CONSTANTS
  Sessions = {s1, s2, s3}
  Cap = 2
  Procs = {p1, p2}
  Chats = {o1, o2}
  Costs = {1}
  Scripts <- ScriptsDef
  MaxTurns = 4
SYMMETRY SessionSymmetry
INVARIANTS
  NeverOvercharged
  CostIsExact
  FinalIsTheAnswer
CHECK_DEADLOCK FALSE
