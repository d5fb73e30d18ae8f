SPECIFICATION Spec
CONSTANTS
  Callers = {c1, c2}
  Items = {i1, i2}
  BadItems = {i2}
  MaxWorkers = 1
  MaxKeys = 1
  MayTimeOut = TRUE
INVARIANTS NoLostWakeUp
CHECK_DEADLOCK FALSE
