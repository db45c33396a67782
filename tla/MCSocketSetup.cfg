SPECIFICATION Spec
INVARIANTS
  ReportsBeforeTraffic
  ReadyIsConfigured
  ErrorsOfSetupClose
CHECK_DEADLOCK FALSE
