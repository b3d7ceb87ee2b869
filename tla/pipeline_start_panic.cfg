SPECIFICATION Spec
CONSTANTS
  N = 2
  StartKinds = {"done", "future"}
  ResponseKinds = {"done"}
  FinishKinds = {"done"}
  Bodies = {"binary", "stream", "actor"}
  MaxChunks = 1
INVARIANT NoPanic
CHECK_DEADLOCK FALSE
