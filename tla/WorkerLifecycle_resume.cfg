SPECIFICATION Spec
CONSTANTS
  Callers = {c1}
  Items = {i1}
  BadItems = {}
  MaxWorkers = 2
  MaxKeys = 2
  MayTimeOut = FALSE
INVARIANTS ResumedSyncLives
CHECK_DEADLOCK FALSE
