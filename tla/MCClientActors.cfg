SPECIFICATION Spec
CONSTANTS
  c1 = c1
  c2 = c2
  Conn <- One
  Token <- MCToken
  WrongToken = 100
  Capacity = 2
  Version = {1}
  Script <- Every
  Orderly = {}
  MayNotWrite = TRUE
  Timers = TRUE
  MayShutdown = TRUE
CHECK_DEADLOCK FALSE
INVARIANTS
  DialoguesAreWhole
  AwaitsResolve
PROPERTIES
  EveryConnectionEnds
