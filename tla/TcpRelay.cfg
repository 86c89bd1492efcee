SPECIFICATION Spec
CONSTANTS
  Clients = {c1, c2}
  Keys = {"f", "l", "s"}
INVARIANTS
  TakeTurns
  NoBrokenPipe
PROPERTIES
  KeysAreRecent
  ReleaseStops
  LeaverIsReleased
  UnattendedMovesEnd
CHECK_DEADLOCK FALSE
