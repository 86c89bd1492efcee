SPECIFICATION Spec
CONSTANTS
  MaxMessages = 2
  MaxCommands = 2
INVARIANTS
  ActiveWhileUp
  HandledOnce
  StopsForAReason
  FreedWhenStopped
PROPERTIES
  ServerEndsClient
  OperatorEndsClient
CHECK_DEADLOCK FALSE
