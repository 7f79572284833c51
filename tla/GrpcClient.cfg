SPECIFICATION Spec
CONSTANTS
  Base = 4
  Uint16 = 5
  Uint32 = 8
  Uint64 = 32
  Garbage = 3
  Infos <- MCInfos
  Values <- MCValues
INVARIANTS
  PeerInfoExact
  BroadcastValueExact
PROPERTY CallsComplete
CHECK_DEADLOCK FALSE
