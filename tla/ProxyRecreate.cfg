SPECIFICATION RecreateSpec
CONSTANTS
  Clients = {c1}
  Channels = {ch1}
  Blocks = {b1}
  PROXYARGS_ALLOCATE_SIZE = 1
  IdleSpinLimit = 2
  MaxIterations = 1
  MayAbort = FALSE
  NULL = NULL
INVARIANT ReadyMeansRunning
CHECK_DEADLOCK FALSE
