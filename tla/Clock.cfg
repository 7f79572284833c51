SPECIFICATION Spec
CONSTANTS
  Measurements = 3
  UsecStep = 1
  UsecStart = 2
  Mhz = 50
  Overheads = {0, 20, 300}
  Readings = {0, 49, 51}
  MaxDelay = 3
  MaxSteps = 1
  MaxWall = 12
INVARIANT OverheadCancels
PROPERTY Returns
CHECK_DEADLOCK FALSE
