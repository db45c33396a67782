SPECIFICATION FairSpec
CONSTANTS
  Addresses = {a, b}
  Undefined = Undefined
  MaxChanges = 2
INVARIANTS
  RemotePairFits
  ChangesAnnounced
PROPERTIES
  EventuallyCurrent
CHECK_DEADLOCK FALSE
