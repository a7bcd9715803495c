SPECIFICATION BackendSpec
CONSTANTS
  Backends = {"feulner"}
  Requests <- MCRequests
  Engines <- MCEngines
  FloatLimit = 3
  MaxCalls = 2
  Codes <- MCCodes
  Arrangements <- MCArrangements
  Questions <- MCQuestions
  Known <- MCKnown
  Classes <- MCClasses
  Rearrangements <- MCRearrangements
  Weights = {1, 2, 3, 4}
  GminWeights = {1, 2, 3, 4, 5, 6}
INVARIANTS
  FeulnerOrderIsExact
CHECK_DEADLOCK FALSE
