SPECIFICATION Spec
CONSTANTS
  Codes <- SmallCodes
  Rejects = {}
  Root = "s0"
  Parent <- SmallParent
  Rank <- SmallRank
  MaxK = 3
  Mass <- SmallMass
  NumThreads = 0
  FrontierDepth = 2
  BufferSize = 20
  FaultyThreads = {}
  DiskFails = FALSE
  MayBeKilled = TRUE
INVARIANTS
  AcceptedMassAtEveryRank
CHECK_DEADLOCK FALSE
