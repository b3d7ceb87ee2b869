SPECIFICATION FairSpec
CONSTANTS
  N = 3
  StartKinds = {"done", "response", "future", "err"}
  ResponseKinds = {"done", "future", "err"}
  FinishKinds = {"done", "future"}
  Bodies = {"binary", "stream", "actor"}
  MaxChunks = 2
INVARIANTS TypeOK HandlerAfterStarts FinishReversed DoneMeansFinished
PROPERTIES IsHttpTask PollReturns
CHECK_DEADLOCK FALSE
