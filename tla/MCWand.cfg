CONSTANTS
  K = 1
  NumDocs = 3
  WordBits = 64
  Thresholds = {0, 2}
  MinSplitLength = 2
  NoSplit = 10
  FirstImpacts = {1, 3}
  SecondImpacts = {1, 2}
  Weights = {2}
  Workload <- MCWorkload
SPECIFICATION Spec
INVARIANTS
  ExactResult
  BoundCoversDocuments
PROPERTIES
  IsRankedRetrieval
  SearchEnds
CHECK_DEADLOCK FALSE
