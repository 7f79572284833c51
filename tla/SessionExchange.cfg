SPECIFICATION Spec
CONSTANTS
  Workers = {w1, w2}
  Roots = {w1}
  SessionRoot = w2
  MaxWorkers = 2
  Rounds = 2
  MaxBroadcasts = 2
  MaxBarriers = 4
  None = None
INVARIANT SessionExchange
CHECK_DEADLOCK FALSE
