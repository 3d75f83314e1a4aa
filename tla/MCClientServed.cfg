SPECIFICATION DiligentSpec
CONSTANTS
  c1 = c1
  c2 = c2
  Conn <- Two
  Token <- MCToken
  WrongToken = 100
  Capacity = 2
  Version = {1}
  Script <- Served
  Orderly = {c1}
  MayNotWrite = FALSE
  Timers = FALSE
  MayShutdown = FALSE
CHECK_DEADLOCK FALSE
INVARIANTS
  EncryptedOnlyAfterProof
PROPERTIES
  StatusIsServed
  LoginIsServed
