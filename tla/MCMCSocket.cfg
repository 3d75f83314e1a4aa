SPECIFICATION Spec
CONSTANTS
  FrameSizes <- MCFrameSizes
  MaxSent = 6
  MaxReceived = 4
CHECK_DEADLOCK FALSE
INVARIANTS
  TypeOK
  PendingIsInBuffer
  WireIsTheStream
  ReadIsTheStream
PROPERTIES
  ImplementsPipe
