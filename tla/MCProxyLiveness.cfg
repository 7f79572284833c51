SPECIFICATION FairSpec
CONSTANTS
  Clients = {c1, c2}
  Channels = {ch1, ch2}
  Blocks = {b1}
  PROXYARGS_ALLOCATE_SIZE = 3
  IdleSpinLimit = 1
  MaxIterations = 1
  MayAbort = FALSE
  NULL = NULL
PROPERTIES
  FinishedStaysFinished
  OpCompletes
CHECK_DEADLOCK FALSE
