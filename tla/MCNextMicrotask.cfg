SPECIFICATION NMSpec
CONSTANTS
  Fns = {next_fn}
  Throwing = {}
  NoFn = NoFn
  MaxMicrotasksPerMacrotask = 12
  MaxQueue = 5
INVARIANTS
  RequestKeptOnce
PROPERTIES
  ImplementsNextFlag
