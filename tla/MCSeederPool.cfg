SPECIFICATION FairSpec
CONSTANTS
  h1 = h1
  h2 = h2
  h3 = h3
  h4 = h4
  Helpers = {h1, h2, h3, h4}
  Searches <- MCSearches
  MaxSearches = 2
  LevelMin = 2
  ChunkMin = 15
  MinL = 4
  TableMinL = 3
  ByteBits = 2
  ProbeChunk = 2
INVARIANTS
  WalkIsSequential
  ClaimedOnce
  FrontierComplete
PROPERTIES
  ImplementsScan
  PoolEnds
