SPECIFICATION NPSpec
INVARIANTS
  LiveWhileUsed
  NoAbort
PROPERTIES
  ClosedIsFreed
CHECK_DEADLOCK FALSE
