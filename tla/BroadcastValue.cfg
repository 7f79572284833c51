SPECIFICATION BroadcastSpec
CONSTANTS
  Workers = {w1, w2}
  Roots = {w1}
  MaxBroadcasts = 3
  None = None
INVARIANT BroadcastDelivers
CHECK_DEADLOCK FALSE
