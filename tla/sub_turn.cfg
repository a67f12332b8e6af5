SPECIFICATION Spec
CONSTANTS
  Lines <- CoreLines
  MaxLines = 3
  PipeCap = 1
  Holdable = {"stderr"}
  OneTurn = TRUE
  HasTyped = TRUE
  ChanCap = 1
  MaxStderr = 1
  MaxBeats = 0
  MayAbandon = FALSE
INVARIANTS
  NoSilentDrop
  TypedTerminalsAreLast
  SurfacesAgree
PROPERTIES
  OwnSuccessIsReal
  StreamContract
CHECK_DEADLOCK FALSE
