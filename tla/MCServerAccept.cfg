SPECIFICATION Spec
CONSTANTS
  MaxFd = 3
  MaxArrivals = 3
  Backlog = 2
  MaxThrows = 2
INVARIANT AcceptErrorReported
CHECK_DEADLOCK FALSE
