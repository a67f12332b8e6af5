SPECIFICATION FairSpec
CONSTANTS
  Lines <- CoreLines
  MaxLines = 2
  PipeCap = 1
  Holdable = {"stdout"}
  OneTurn = TRUE
  HasTyped = TRUE
  ChanCap = 1
  MaxBeats = 1
  MayAbandon = TRUE
PROPERTIES
  OwnSuccessIsReal
  StreamContract
  CancelledTurnEnds
CHECK_DEADLOCK FALSE
