SPECIFICATION Spec
CONSTANTS
  Callers = {c1}
  Items = {i1, i2}
  BadItems = {i2}
  MaxWorkers = 1
  MaxKeys = 1
  MayTimeOut = FALSE
INVARIANTS FlushFinalizesSessions
CHECK_DEADLOCK FALSE
