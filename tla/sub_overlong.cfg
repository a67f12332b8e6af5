SPECIFICATION FairSpec
CONSTANTS
  Lines <- OverlongLines
  MaxLines = 3
  PipeCap = 1
  Holdable = {}
  OneTurn = TRUE
  HasTyped = FALSE
  ChanCap = 1
  MaxStderr = 0
  MaxBeats = 0
  MayAbandon = FALSE
PROPERTIES
  TurnEnds
CHECK_DEADLOCK FALSE
