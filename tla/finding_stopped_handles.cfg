SPECIFICATION Spec
CONSTANTS
  Senders = {s1}
  Workers = {w1}
  NoWorker = NoWorker
  Throughput = 1
  MaxMessages = 0
  Supervised = TRUE
  Items = {"Start", "Stop", "Poll", "message"}
  HandlerResults = {"Ok", "BlockOn"}
  FutureResults = {"Ok"}
  CancelTimers = FALSE
  CustomRecovery = FALSE
  WorkBound = 4
  QueueBound = 1
  BlockBound = 1
  PendingBound = 0
  WakerBound = 1
CHECK_DEADLOCK FALSE
PROPERTY HandledOnlyWhenStarted
