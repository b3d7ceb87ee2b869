SPECIFICATION FairSpec
CONSTANTS
  KeepAlive = {"enabled", "timer"}
  Capacity = 0
  AsyncFinish = TRUE
  MaxFaults = 1
  Kinds = {"empty", "binary", "stream"}
  MaxStreams = 2
  MaxUnits = 2
INVARIANTS EndedWhole BufferBounded
PROPERTIES RemovedAnswered PollReturns BufferedEnds
CHECK_DEADLOCK FALSE
