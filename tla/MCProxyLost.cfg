SPECIFICATION Spec
CONSTANTS
  c1 = c1
  c2 = c2
  Conn <- NoConn
  Capacity = 4
  MaxVersion = 1
  MayLose = TRUE
  MayFail = FALSE
CHECK_DEADLOCK FALSE
PROPERTIES
  DisconnectEndsProcess
