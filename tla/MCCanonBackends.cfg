SPECIFICATION BackendSpec
CONSTANTS
  Backends = {"nauty", "feulner", "verifier", "invariants"}
  Requests <- MCRequests
  Engines <- MCEngines
  FloatLimit = 3
  MaxCalls = 2
  Codes <- MCCodes
  Arrangements <- MCArrangements
  Questions <- MCQuestions
  Known <- MCKnown
  Classes <- MCClasses
  Rearrangements <- MCRearrangements
  Weights = {1, 2, 3, 4}
  GminWeights = {1, 2, 3, 4, 5, 6}
INVARIANTS
  KernelAnswerIsExact
  KernelCacheIsExact
  FeulnerAnswerIsSound
  FeulnerKeyIsReplayed
  VerifierAnswerIsExact
  InvariantsOfClassAgree
  RefinementIsStable
CHECK_DEADLOCK FALSE
