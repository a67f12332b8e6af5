SPECIFICATION Spec
CONSTANTS
  Lines <- AnyLines
  MaxLines = 3
  PipeCap = 2
  Holdable = {"stderr"}
  OneTurn = FALSE
  HasTyped = FALSE
  ChanCap = 1
  MaxStderr = 0
  MaxBeats = 0
  MayAbandon = TRUE
INVARIANTS
  BridgeTerminalIsFirst
  ClosedHasTerminal
CHECK_DEADLOCK FALSE
