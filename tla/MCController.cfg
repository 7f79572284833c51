SPECIFICATION Spec
CONSTANTS
  Workers = {w1, w2, w3}
  Roots = {w1}
  SessionRoot = w2
  MaxWorkers = 3
  Rounds = 2
  MaxBroadcasts = 2
  MaxBarriers = 4
  None = None
INVARIANTS
  BarrierHolds
  NoKeyError
  OnlyCompletedAreCleaned
  BroadcastDelivers
  SessionLag
PROPERTY AllFinish
CHECK_DEADLOCK FALSE
