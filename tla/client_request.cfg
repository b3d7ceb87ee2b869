SPECIFICATION FairSpec
CONSTANTS
  Bodies = {"binary", "stream", "actor"}
  Capacity = 1
  Decompress = {TRUE, FALSE}
  Framings = {"sized", "close", "switch"}
  Responses = {1, 3}
  MaxUnits = 3
  MayFail = TRUE
INVARIANTS TypeOK ReleasedClean
PROPERTIES ExchangeEnds
CHECK_DEADLOCK FALSE
