SPECIFICATION Spec
CONSTANTS
  N = 24
  Codes <- MCCodes
  Candidates <- MCCandidates
  DirectThreshold = 2
  MaxDepth = 2
  NoCtx = NoCtx
INVARIANTS
  RunningArgmin
  VerdictIsRule
  ParentsAgree
  ContextIsOwners
  LoggedSplitIsFinest
