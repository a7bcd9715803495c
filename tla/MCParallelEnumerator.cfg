SPECIFICATION FairSpec
CONSTANTS
  Codes <- DeepCodes
  Rejects <- DeepRejects
  Root = "c0"
  Parent <- DeepParent
  Rank <- DeepRank
  MaxK = 4
  Mass <- DeepMass
  Workers = {w1, w2}
  Main = main
  FaultyThreads = {}
  SelfSubdivide = TRUE
  SubdivideDelta = 1
  FrontierDepth = 2
  QueueCap = 1
  FlushInterval = 2
  RelaxedReads = TRUE
  NoCode = NoCode
INVARIANTS
  TypeOK
  EmittedOnce
  FullMeansAllEmitted
  MassConserved
  OutstandingExact
  NoEarlyExit
  ReturnsEverything
PROPERTIES
  ImplementsEnumeration
  EventuallyReturns
