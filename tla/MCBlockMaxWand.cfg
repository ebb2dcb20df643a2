CONSTANTS
  K = 1
  NumDocs = 3
  WordBits = 64
  Thresholds = {2, 3}
  MinSplitLength = 2
  NoSplit = 10
  FirstImpacts = {1, 3}
  SecondImpacts = {1}
  Weights = {2}
  BlockSizes = {1, 2}
  Workload <- MCWorkload
SPECIFICATION BlockSpec
INVARIANTS
  BlockTypeOK
  ExactResult
  NoBlockMissed
PROPERTIES
  IsRankedRetrieval
  SearchEnds
CHECK_DEADLOCK FALSE
