SPECIFICATION FairSpec
CONSTANTS
  Clients = {c1}
  Channels = {ch1, ch2}
  Blocks = {b1}
  PROXYARGS_ALLOCATE_SIZE = 3
  IdleSpinLimit = 1
  MaxIterations = 2
  MayAbort = TRUE
  NULL = NULL
PROPERTIES
  ImplementsQueues
  WaitAllReturns
  DestroyReturns
CHECK_DEADLOCK FALSE
