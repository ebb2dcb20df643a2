CONSTANTS
  K = 1
  NumDocs = 4
  WordBits = 64
  Thresholds = {0, 2}
  MinSplitLength = 2
  NoSplit = 10
  FirstImpacts = {3}
  SecondImpacts = {1, 2}
  Weights = {1}
  BlockSizes = {2}
  Workload <- MCWorkload
SPECIFICATION Spec
INVARIANTS
  TypeOK
  ExactResult
PROPERTIES
  IsRankedRetrieval
  QueryEnds
CHECK_DEADLOCK FALSE
