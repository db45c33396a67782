SPECIFICATION Spec
CONSTANTS
  Fns = {a, b}
  Throwing = {b}
  NoFn = NoFn
  MaxMicrotasksPerMacrotask = 2
  MaxQueue = 4
INVARIANTS
  RunningIsHead
  WithinBudget
  NoStrandedWork
PROPERTIES
  ImplementsTaskQueue
