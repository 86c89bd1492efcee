SPECIFICATION ConsoleSpec
CONSTANTS
  Letters = {"f", "s", "q", "w"}
  Numbers = {"50", "75"}
  MaxLines = 3
  MaxSent = 8
INVARIANTS
  UnderstandsOrderly
PROPERTIES
  QuitEnds
  AllIsRead
CHECK_DEADLOCK FALSE
