SPECIFICATION Spec
CONSTANTS
  Senders = {s1, s2}
  Workers = {w1, w2}
  NoWorker = NoWorker
  Throughput = 2
  MaxMessages = 1
  Supervised = TRUE
  Items = {"Start", "message"}
  HandlerResults = {"Ok", "BlockOn", "Panic"}
  FutureResults = {"Ok"}
  CancelTimers = FALSE
  CustomRecovery = FALSE
  WorkBound = 6
  QueueBound = 1
  BlockBound = 2
  PendingBound = 1
  WakerBound = 2
CHECK_DEADLOCK FALSE
SYMMETRY Symmetry
INVARIANT TypeOK
INVARIANT WorkCovered
INVARIANT NoLostWakeup
INVARIANT NoLostUnblock
INVARIANT BlockingAgrees
