SPECIFICATION Spec
CONSTANTS
  c1 = c1
  c2 = c2
  Conn <- TwoConns
  Capacity = 2
  MaxVersion = 2
  MayLose = FALSE
  MayFail = FALSE
CHECK_DEADLOCK FALSE
PROPERTIES
  SeenUpdateIsShown
