SPECIFICATION Spec
CONSTANTS
  status1 = status1
  der1 = der1
  decrypt1 = decrypt1
  Request <- MCRequest
  Kind <- MCKind
  Capacity = 2
  Version = {1, 2}
  Payload = {0, 7}
INVARIANTS
  TypeOK
  WaitingIsQueued
  StatusIsAsOfAsk
  ShutdownAbandonsNothing
PROPERTIES
  AcceptedConfigIsApplied
  ShutdownStops
  ImplementsAskContract
