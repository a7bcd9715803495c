SPECIFICATION FairSpec
CONSTANTS
  w1 = w1
  w2 = w2
  main = main
  Main = main
  Workers = {w1, w2}
  FaultyThreads = {w1, w2, main}
  Settings = {TRUE, FALSE}
  Quota = 4
  FlushInterval = 3
  DiskFails = TRUE
  StaleFile = TRUE
INVARIANTS
  MassAccounted
  DoneIsExact
  ReturnIsExact
PROPERTIES
  ReaderExits
  ProgressOnlyGrows
  RunEnds
CHECK_DEADLOCK FALSE
