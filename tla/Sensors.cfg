SPECIFICATION Spec
CONSTANTS
  NumSensors = 2
  Pulses = {100, 1402, 3100, 33000}
  Echoes = {5000, 15100}
  Floating = {255}
  MaxResets = 1
INVARIANTS
  TypeOK
  NeverFarther
  ColourIsBrightest
PROPERTIES
  ImplementsSampling
  ReadingReachesPi
