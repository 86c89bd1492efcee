SPECIFICATION Spec
CONSTANTS
  Commands = {"TURN_LEFT", "TURN_RIGHT"}
  Distances = {20}
  Angles = {40}
  Speeds = {100}
  ByteBase = 256
  TicksPerStep = 1
  MaxLeftTicks = 3
  MaxRightTicks = 2
  MaxCommands = 1
PROPERTY TurnEnds
CHECK_DEADLOCK FALSE
