SPECIFICATION FairSpec
CONSTANTS
  Callers = {c1}
  Items = {i1, i2}
  BadItems = {}
  MaxWorkers = 2
  MaxKeys = 2
  MayTimeOut = FALSE
INVARIANTS FlushDelivers OneThreadAlive
PROPERTY CallsReturn
CHECK_DEADLOCK FALSE
