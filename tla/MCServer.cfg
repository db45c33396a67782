SPECIFICATION FairSpec
CONSTANTS
  MaxFd = 5
  MaxArrivals = 6
  Backlog = 3
  MaxThrows = 2
INVARIANTS
  NoDescriptorLeak
  WatchesOwnFd
  NoAcceptAfterClose
PROPERTIES
  ConnectionServed
CHECK_DEADLOCK FALSE
