SPECIFICATION Spec
CONSTANTS
  Senders = {s1}
  Workers = {w1, w2}
  NoWorker = NoWorker
  Throughput = 2
  MaxMessages = 1
  Supervised = TRUE
  Items = {"Start", "Stop", "Kill", "Poll", "timeout", "message", "event"}
  HandlerResults = {"Ok", "Benign", "BlockOn", "Shutdown", "Recoverable", "Unrecoverable", "Panic"}
  FutureResults = {"Ok", "Shutdown", "Recoverable", "Unrecoverable", "Panic"}
  CancelTimers = TRUE
  CustomRecovery = TRUE
  WorkBound = 4
  QueueBound = 1
  BlockBound = 1
  PendingBound = 1
  WakerBound = 1
CHECK_DEADLOCK FALSE
SYMMETRY Symmetry
INVARIANT SupervisorIsTold
INVARIANT NoLostWakeup
PROPERTY SuspendedWhileBlocking
