SPECIFICATION Spec
CONSTANTS
  Lines <- CodexLines
  MaxLines = 3
  PipeCap = 1
  Holdable = {"stderr"}
  OneTurn = FALSE
  HasTyped = FALSE
  ChanCap = 1
  MaxStderr = 0
  MaxBeats = 0
  MayAbandon = FALSE
INVARIANTS
  OneTerminal
CHECK_DEADLOCK FALSE
