SPECIFICATION Spec
CONSTANTS
  PacketSize = 140
  RxRing = 63
  TxRing = 64
  Gaps = {0, 153, 192}
  Packets = 4
INVARIANTS
  NothingDropped
  NoStaleCommand
PROPERTY
  EveryCommandAnswered
CHECK_DEADLOCK FALSE
