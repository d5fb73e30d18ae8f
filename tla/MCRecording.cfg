SPECIFICATION RecordingSpec
CONSTANTS
  Twins = {a, b}
  TwinKeys = {k, l}
  Clients = {a, b}
  OutcomeIds = {"o"}
  RevenueIds = {"r"}
  OutcomeBodies <- OutcomesOfOneSource
  RevenueBodies <- RevenuesOfOneSource
  MaxRevision = 3
  Pollers = {a, b}
  Costs = {1}
  MaxTime = 2
  MaxRevisions = 3
  MaxAttempts = 2
  PageLimit = 1
  PlainEvents = {e1}
  ComputeEvents = {e2}
  GpuEvents = {e3}
  NetworkEvents = {e4}
  OwnerMeters = {e2}
  Users = {a, b}
  Keys = {k, l}
  MaxSequence = 2
  MaxPublished = 1
  MaxRotations = 1
  MaxImports = 1
  MaxFaults = 1
  Hosts = {"a", "b", "c", "_other"}
  LiveCap = 3
  FinalizeCap = 2
  MaxBytes = 1
  MaxRecords = 5
  Executions = {a, b}
  MaxSessions = 3
  MaxSessionCalls = 4
  MaxRefusals = 1
  Openers = {a, b}
  Target = 6
  ColumnSteps = {2, 3, 4, 6}
  IndexedSteps = {3}
  OldestFile = 3
  MaxBusy = 1
  MaxDeaths = 2
  Operations = 3
  LlmModels = {"a", "b"}
  Latencies = {1, 2}
  AtOnce = 2
  MaxRuns = 2
  RetryWindow = 2
  Processes = {a, b}
  MaxClock = 3
  BatchRows = {1, 2, 5, 6, 9}
  StreamRows = {3, 4, 7, 8}
  RowEvents = {1, 2}
  RowJobs = {3, 4}
  RowTasks = {5, 6}
  RowOutcomes = {7, 8}
  RowRevenues = {9}
INVARIANTS
  RecordingTypeOK
  LedgersAreTrue JobHistoryIsTrue
  EventsAreCountedOnce RowSaysWhatItsJobSaid
  OverlayIsCurrent StoreIsSound
  ReportIsTrue SessionsAreKept FilesAreWhatTheySay
  IdentityTravelsWithTask NoNeedlessReplay FinishedCycleSettlesItsBatch PostedInOrder
  OperationsKeepTheirIdentity RetriesAreLinked GpuTimeIsTrue
PROPERTIES
  RevisionsAreLedgers JobIsALedger
  ReleasesOnlyAdvance SettlesOnAnOpenSession
SYMMETRY TwinSymmetry
CHECK_DEADLOCK FALSE
