SPECIFICATION FairSpec
CONSTANTS
  MaxIn = 1
  MaxNotes = 0
  Oversize = FALSE
  HighWaterMark = 1
  MaxOut = 1
  Roles = {TRUE, FALSE}
PROPERTIES
  WriteCompletes
  ReadServed
  EndCloses
  PeerEndCloses
  ImplementsPort
CHECK_DEADLOCK FALSE
