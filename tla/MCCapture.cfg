SPECIFICATION CaptureSpec
CONSTANTS
  Alike = {x, y}
  AlikeTasks = {s, t}
  Calls = {x, y}
  MaxFaults = 1
  Readers = {x, y}
  ServiceTasks = {s, t}
  Meters = {0, 1}
  MaxMeterRev = 3
  Streams = {"one", "two"}
  Listeners = {s, t}
  ToolEvents = {"e", "f"}
  MaxTokens = 1
  Trackers = {s, t}
  Callers = {"c"}
  MethodCount = 2
  MaxReloads = 1
  MaxFailures = 2
  Threads = {s, t}
  MaxExchanges = 2
  MaxNesting = 3
  MaxHttpFaults = 1
  Numbers = {0, 1, 2}
  PathDepth = 2
  ToolCallIds = {x, y}
  Contexts = {s, t}
  MaxWork = 1
  MaxToolFaults = 1
INVARIANTS
  CaptureTypeOK
  CallIsToldOnce CallStaysWithItsTask
  ServicesChargeOnce ExecutionEndsAsItWent TokensAreChargedOnce SdkIsKept
  ExchangesAreChargedOnce ObservationsAreSound ToolsKeepTheirTask
SYMMETRY CaptureSymmetry
CHECK_DEADLOCK FALSE
