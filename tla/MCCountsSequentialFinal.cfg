SPECIFICATION FairSpec
CONSTANTS
  main = main
  Main = main
  Workers = {}
  FaultyThreads = {}
  Settings = {TRUE}
  Quota = 4
  FlushInterval = 3
  DiskFails = FALSE
  StaleFile = FALSE
INVARIANTS
  FinalSnapshotExact
CHECK_DEADLOCK FALSE
