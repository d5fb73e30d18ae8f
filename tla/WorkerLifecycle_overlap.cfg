SPECIFICATION Spec
CONSTANTS
  Callers = {c1, c2}
  Items = {i1, i2}
  BadItems = {}
  MaxWorkers = 1
  MaxKeys = 1
  MayTimeOut = FALSE
INVARIANTS FlushDelivers
CHECK_DEADLOCK FALSE
