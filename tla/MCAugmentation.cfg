SPECIFICATION Spec
CONSTANTS
  Reps <- MCReps
  Runs <- MCRuns
  Word = 3500
INVARIANTS
  OnePerClass
  Complete
  QuotaHolds
CHECK_DEADLOCK FALSE
