SPECIFICATION FairSpec
CONSTANTS
  Senders = {s1}
  Workers = {w1}
  NoWorker = NoWorker
  Throughput = 1
  MaxMessages = 0
  Supervised = TRUE
  Items = {"Start", "message"}
  HandlerResults = {"Ok", "BlockOn"}
  FutureResults = {"Ok", "BlockOn"}
  CancelTimers = FALSE
  CustomRecovery = FALSE
  WorkBound = 4
  QueueBound = 1
  BlockBound = 2
  PendingBound = 1
  WakerBound = 1
CHECK_DEADLOCK FALSE
PROPERTY BlockingEnds
