SPECIFICATION Spec
CONSTANTS
  Accept = {a1, a2}
  Threads = 2
  ShutdownTimeout = 1
  MaxWorkers = 5
  MaxConns = 2
  MaxPanics = 2
  MaxStops = 0
  MaxPauses = 2
  MaxErrors = 1
SYMMETRY AcceptSymmetry
INVARIANTS Tracked NothingPanics
CHECK_DEADLOCK FALSE
