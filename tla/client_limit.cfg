SPECIFICATION Spec
CONSTANTS
  Keys = {k1}
  Schemes = {"http"}
  Limits = {0}
  LimitsPerHost = {2}
  KeepAlive = 1
  Lifetime = 2
  Period = 2
  Waits = {1}
  Pauses = {}
  MaxMessages = 2
INVARIANT WaitOnlyAtLimit
