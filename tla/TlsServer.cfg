SPECIFICATION Spec
CONSTANTS
  Conns = {c1, c2}
  MaxUnread = 2
  MaxAsked = 2
INVARIANTS
  TlsConnNotFreed
PROPERTIES
  ClosedIsReleased
  ForwardedWhileAllStay
CHECK_DEADLOCK FALSE
