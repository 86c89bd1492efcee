SPECIFICATION BothSpec
CONSTANTS
  Speeds = {0, 60, 101}
  PowerOn = {{0, 6}, {1, 2, 3, 5}}
INVARIANTS
  
  NeverBothWays
PROPERTIES
  ShieldImplementsDrive
