SPECIFICATION Spec
CONSTANTS
  Conns = {c1, c2}
  MaxUnread = 1
  MaxAsked = 1
PROPERTY CommandsForwarded
CHECK_DEADLOCK FALSE
