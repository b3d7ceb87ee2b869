SPECIFICATION Spec
CONSTANTS
  MaxPipelined = 2
  StreamCapacity = 1
  KeepAlive = {"enabled", "timer"}
  ParseErrors = {"Disconnect", "Payload", "Error"}
  Bodies = {TRUE, FALSE}
  AsyncFinish = TRUE
  MayFail = TRUE
  MaxRequests = 2
  MaxChunks = 1
INVARIANTS WellFramed ClosesInOrder
CHECK_DEADLOCK FALSE
