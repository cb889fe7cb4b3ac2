SPECIFICATION FairSpec
CONSTANTS
  Senders = {s1}
  Workers = {w1, w2}
  NoWorker = NoWorker
  Throughput = 2
  MaxMessages = 1
  Supervised = TRUE
  Items = {"Start", "Stop", "timeout", "message", "event"}
  HandlerResults = {"Ok", "BlockOn"}
  FutureResults = {"Ok"}
  CancelTimers = FALSE
  CustomRecovery = FALSE
  WorkBound = 7
  QueueBound = 1
  BlockBound = 1
  PendingBound = 1
  WakerBound = 1
CHECK_DEADLOCK FALSE
INVARIANT WorkExact
PROPERTY MessagesAreReceived
PROPERTY ControlIsHandled
PROPERTY BlockingEnds
PROPERTY HandledOnlyWhenStarted
PROPERTY IdleIsNotScheduled
