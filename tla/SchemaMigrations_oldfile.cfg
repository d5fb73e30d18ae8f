SPECIFICATION SchemaSpec
CONSTANTS Openers = {o1, o2}
 Target = 6
 ColumnSteps = {2, 3, 4, 6}
 IndexedSteps = {3}
 OldestFile = 1
 MaxBusy = 1
 MaxDeaths = 2
INVARIANT OldFilesOpen
CHECK_DEADLOCK FALSE
