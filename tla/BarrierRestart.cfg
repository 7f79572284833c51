SPECIFICATION Spec
CONSTANTS
  Workers = {w1,w2,w3}
  MaxCalls = 2
  MaxCrashes = 1
INVARIANTS
  SlipBounded
  NoKeyErrorAfterCrash
  WaitersBounded
PROPERTY OrphansLeave
CHECK_DEADLOCK FALSE
