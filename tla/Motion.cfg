SPECIFICATION Spec
CONSTANTS
  Commands = {"FORWARD", "REVERSE", "TURN_LEFT", "TURN_RIGHT", "STOP", "GET_STATS", "CLEAR_STATS"}
  Distances = {0, 86}
  Angles = {20}
  Speeds = {150}
  ByteBase = 50
  TicksPerStep = 1
  MaxLeftTicks = 52
  MaxRightTicks = 1
  MaxCommands = 2
INVARIANTS
  StatusCoherent
  GoesNoFurther
  MoveInv
PROPERTIES
  ImplementsRobot
  ShortByLessThanARevolution
  MoveEnds
  TurnDuringMoveEnds
CHECK_DEADLOCK FALSE
