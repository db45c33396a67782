SPECIFICATION Spec
CONSTANTS
  MaxIn = 2
  MaxNotes = 1
  Oversize = TRUE
  HighWaterMark = 1
  MaxOut = 2
  Roles = {TRUE, FALSE}
INVARIANTS
  TypeOK
  NoLostWakeup
  NoBusyPoll
  PollLoopBroken
  NoUseAfterClose
  ErrorHasCause
  ConnectMeansUp
  InboundInOrder
  Backpressure
  NoBugError
  OutboundInOrder
  GracefulClose
CHECK_DEADLOCK FALSE
