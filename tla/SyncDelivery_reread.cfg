SPECIFICATION Spec
CONSTANTS
  Events = {1,2}
  Tasks = {}
  Outcomes = {}
  Revenues = {}
  Jobs = {}
  Workers = {w1}
  EventContents = {"plain","bad"}
  TaskContents = {"plain"}
  RevisionContents = {"plain"}
  BatchSize = 2
  ScanLimit = 3
  TaskLimit = 1
  MaxPayload = 2
  MaxVersion = 1
  MayFail = FALSE
INVARIANTS SyncedIsAccepted
