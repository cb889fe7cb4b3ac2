SPECIFICATION FairSpec
CONSTANTS
  Senders = {s1}
  Workers = {w1}
  NoWorker = NoWorker
  Throughput = 1
  MaxMessages = 0
  Supervised = TRUE
  Items = {"Start", "Stop", "message"}
  HandlerResults = {"Ok"}
  FutureResults = {"Ok"}
  CancelTimers = FALSE
  CustomRecovery = FALSE
  WorkBound = 4
  QueueBound = 1
  BlockBound = 0
  PendingBound = 0
  WakerBound = 1
CHECK_DEADLOCK FALSE
PROPERTY StoppedIsNotScheduled
