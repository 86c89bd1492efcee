SPECIFICATION Spec
CONSTANTS
  Conns = {c1}
  MaxUnread = 1
  MaxAsked = 1
PROPERTY WritesToAConnection
CHECK_DEADLOCK FALSE
