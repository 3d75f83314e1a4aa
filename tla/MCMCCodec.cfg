SPECIFICATION Spec
CONSTANTS
  Base = 2
  VarIntMax = 3
  Wrap = 8
  Body <- MCBody
  MaxFrames = 3
  MaxStray = 2
CHECK_DEADLOCK FALSE
INVARIANTS
  TypeOK
  FramesAreTheStream
  FramesNeverFail
PROPERTIES
  EveryFrameArrives
