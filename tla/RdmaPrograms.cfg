SPECIFICATION Spec
CONSTANTS
  Retries = 5
  MayLose = TRUE
  SendQueueDepth = 3
  ReceiveQueueDepth = 6
  Lengths = {3, 5}
  PollMax = 2
INVARIANTS
  ConnectedToPeer
  QueuesFit
  NoReceiverNotReady
  SupplyKept
  ReceiverQueuedFirst
  ReceiverSawThemAll
PROPERTIES
  BothFinish
  SenderReturns
  BothReturn
CHECK_DEADLOCK FALSE
