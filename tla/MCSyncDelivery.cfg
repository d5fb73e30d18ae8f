SPECIFICATION Spec
CONSTANTS
  Events = {1}
  Tasks = {2}
  Outcomes = {}
  Revenues = {}
  Jobs = {}
  Workers = {w1, w2}
  EventContents = {"plain", "big"}
  TaskContents = {"plain", "final"}
  RevisionContents = {"plain"}
  BatchSize = 2
  ScanLimit = 2
  TaskLimit = 2
  MaxPayload = 1
  MaxVersion = 1
  MayFail = TRUE
INVARIANTS SyncedIsAccepted QuarantineIsDeserved
PROPERTIES ImplementsOutbox
SYMMETRY WorkerSymmetry
