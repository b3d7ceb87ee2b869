SPECIFICATION FairSpec
CONSTANTS
  Conns = {"c1", "c2"}
  Preface = 3
  MaxBytes = 4
  Objects = {"o1", "o2"}
  PoolSize = 1
  MaxRefs = 2
  Mws = 3
  Shapes <- MCShapes
  Default = 2
  Limits = {1, 2, 3}
  MaxBody = 4
  Totals = {0, 4}
  Kinds = {"length", "chunked"}
  Owners = {"conn", "other"}
  Capacity = 2
  ReadMax = 2
  MaxUnread = 2
  MaxWaits = 1
  MayClose = TRUE
INVARIANTS ChannelsServed ObjectsFresh HooksInOrder ArgumentsWhole PayloadKept
PROPERTY Answered
CHECK_DEADLOCK FALSE
