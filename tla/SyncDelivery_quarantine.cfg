SPECIFICATION FairSpec
CONSTANTS
  Events = {1,2}
  Tasks = {}
  Outcomes = {}
  Revenues = {}
  Jobs = {}
  Workers = {w1}
  EventContents = {"plain","bad"}
  TaskContents = {"plain"}
  RevisionContents = {"plain"}
  BatchSize = 1
  ScanLimit = 2
  TaskLimit = 1
  MaxPayload = 1
  MaxVersion = 1
  MayFail = FALSE
PROPERTIES PendingIsTransient QuarantineIsRetried
