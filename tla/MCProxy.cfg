SPECIFICATION Spec
CONSTANTS
  c1 = c1
  c2 = c2
  Conn <- TwoConns
  Capacity = 2
  MaxVersion = 3
  MayLose = TRUE
  MayFail = TRUE
CHECK_DEADLOCK FALSE
INVARIANTS
  NothingOlderIsPosted
PROPERTIES
  DeadListenerEndsProcess
  KeepsAskContract
  PanicsOnlyWhenLost
  UpdateLostOnlyToBacklog
