SPECIFICATION Spec
CONSTANTS
  Codes <- SmallCodes
  Rejects = {}
  Root = "s0"
  Parent <- SmallParent
  Rank <- SmallRank
  MaxK = 3
  Mass <- SmallMass
  NumThreads = 2
  FrontierDepth = 2
  BufferSize = 2
  FaultyThreads = {0}
  DiskFails = TRUE
  MayBeKilled = TRUE
INVARIANTS
  TailIsPrefix
  FinalSnapshotComplete
  ReturnedIsAccepted
CHECK_DEADLOCK FALSE
