SPECIFICATION Spec
CONSTANTS
  Keys = {k1, k2}
  Schemes = {"http", "ws", "invalid"}
  Limits = {2}
  LimitsPerHost = {0, 2}
  KeepAlive = 1
  Lifetime = 2
  Period = 2
  Waits = {1}
  Pauses = {0, 1}
  MaxMessages = 3
INVARIANTS Accounting SoleOwner InTime NobodyStranded
SYMMETRY KeySymmetry
