SPECIFICATION Spec
CONSTANTS
  Clients = {c1, c2}
  Channels = {ch1, ch2, ch3}
  Blocks = {b1}
  PROXYARGS_ALLOCATE_SIZE = 3
  IdleSpinLimit = 2
  MaxIterations = 2
  MayAbort = TRUE
  NULL = NULL
SYMMETRY Interchangeable
INVARIANTS
  TypeOK
  WaitAllSound
  RingIsOneCycle
  NothingLost
  ChannelTails
  PoolIsFree
  NoUseAfterFree
  NoLostWakeup
  DrainedAtExit
CHECK_DEADLOCK FALSE
