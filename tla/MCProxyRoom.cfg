SPECIFICATION Spec
CONSTANTS
  c1 = c1
  c2 = c2
  Conn <- TwoConns
  Capacity = 5
  MaxVersion = 2
  MayLose = FALSE
  MayFail = TRUE
CHECK_DEADLOCK FALSE
PROPERTIES
  ProxyStarts
  SeenUpdateIsShown
