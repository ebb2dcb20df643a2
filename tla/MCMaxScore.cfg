CONSTANTS
  K = 2
  NumDocs = 4
  WordBits = 64
  Thresholds = {0}
  MinSplitLength = 2
  NoSplit = 10
  FirstImpacts = {1, 3}
  SecondImpacts = {2}
  Weights = {1}
  Workload <- MCWorkload
SPECIFICATION Spec
INVARIANTS
  TypeOK
  ExactResult
  NonEssentialCannotEnter
  EssentialCursorsInStep
PROPERTIES
  IsRankedRetrieval
  QueryEnds
CHECK_DEADLOCK FALSE
