SPECIFICATION Spec
CONSTANTS
  PacketSize = 5
  MaxChunk = 5
  MaxBytes = 25
INVARIANTS
  IInv
PROPERTY
  ImplementsStream
CHECK_DEADLOCK FALSE
