SPECIFICATION Spec
CONSTANTS
  Addresses = {a, b}
  Undefined = Undefined
  MaxChanges = 1
INVARIANT LastStateKept
CHECK_DEADLOCK FALSE
