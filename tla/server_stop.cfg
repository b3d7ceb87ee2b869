SPECIFICATION FairSpec
CONSTANTS
  Accept = {a1}
  Threads = 2
  ShutdownTimeout = 1
  MaxWorkers = 3
  MaxConns = 2
  MaxPanics = 1
  MaxStops = 1
  MaxPauses = 0
  MaxErrors = 0
INVARIANTS ExitAfterGrace
PROPERTIES SignalExits BacklogServed
CHECK_DEADLOCK FALSE
