SPECIFICATION FairSpec
CONSTANTS
  Senders = {s1, s2}
  Workers = {w1}
  NoWorker = NoWorker
  Throughput = 2
  MaxMessages = 1
  Supervised = TRUE
  Items = {"Start", "timeout", "message", "event"}
  HandlerResults = {"Ok"}
  FutureResults = {"Ok"}
  CancelTimers = FALSE
  CustomRecovery = FALSE
  WorkBound = 6
  QueueBound = 1
  BlockBound = 0
  PendingBound = 0
  WakerBound = 1
CHECK_DEADLOCK FALSE
PROPERTY MessagesKeepTheirShare
