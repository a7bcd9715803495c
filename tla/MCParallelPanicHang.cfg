SPECIFICATION FairSpec
CONSTANTS
  Codes <- WideCodes
  Rejects <- WideRejects
  Root = "c0"
  Parent <- WideParent
  Rank <- WideRank
  MaxK = 3
  Mass <- WideMass
  Workers = {w1, w2}
  Main = main
  FaultyThreads = {w1}
  SelfSubdivide = TRUE
  SubdivideDelta = 1
  FrontierDepth = 2
  QueueCap = 2
  FlushInterval = 1
  RelaxedReads = FALSE
  NoCode = NoCode
PROPERTIES
  PanicSurfaces
