CONSTANTS
  K = 1
  NumDocs = 4
  WordBits = 64
  Thresholds = {0, 2}
  MinSplitLength = 2
  NoSplit = 10
  FirstImpacts = {1, 3}
  SecondImpacts = {1, 2}
  Weights = {1}
  BlockSize = 2
  Workload <- MCWorkload
SPECIFICATION BlockSpec
INVARIANTS
  ExactResult
CHECK_DEADLOCK FALSE
