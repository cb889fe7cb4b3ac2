SPECIFICATION Spec
CONSTANTS
  Senders = {s1}
  Workers = {w1, w2}
  NoWorker = NoWorker
  Throughput = 1
  MaxMessages = 0
  Supervised = TRUE
  Items = {"Start", "message"}
  HandlerResults = {"Ok", "BlockOn", "Panic"}
  FutureResults = {"Ok"}
  CancelTimers = FALSE
  CustomRecovery = FALSE
  WorkBound = 4
  QueueBound = 1
  BlockBound = 1
  PendingBound = 1
  WakerBound = 2
CHECK_DEADLOCK FALSE
INVARIANT NeverPoisonedButNotFaulty
