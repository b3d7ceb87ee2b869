SPECIFICATION Spec
CONSTANTS
  Accept = {a1, a2}
  Threads = 1
  ShutdownTimeout = 1
  MaxWorkers = 4
  MaxConns = 2
  MaxPanics = 1
  MaxStops = 0
  MaxPauses = 0
  MaxErrors = 0
INVARIANT AllWorkersKnown
CHECK_DEADLOCK FALSE
