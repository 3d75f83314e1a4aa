SPECIFICATION Spec
CONSTANTS
  Player = {p1, p2, p3, p4}
  Config <- MCConfig
  Wrap = 5
CHECK_DEADLOCK FALSE
INVARIANTS
  TypeOK
  OnlineIsListed
  PanicsOnlyUncounted
