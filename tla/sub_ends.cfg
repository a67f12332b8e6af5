SPECIFICATION FairSpec
CONSTANTS
  Lines <- ToolLines
  MaxLines = 1
  PipeCap = 1
  Holdable = {"stdout", "stderr"}
  OneTurn = TRUE
  HasTyped = TRUE
  ChanCap = 1
  MaxStderr = 1
  MaxBeats = 1
  MayAbandon = FALSE
PROPERTIES
  TurnEnds
  CancelledTurnEnds
  GoroutinesEnd
CHECK_DEADLOCK FALSE
